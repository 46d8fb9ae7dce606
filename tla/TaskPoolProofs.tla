--------------------------- MODULE TaskPoolProofs ---------------------------
(***************************************************************************)
(* Proofs about TaskPool for every number of calls, stages and workers.    *)
(* The inductive invariant IInv says how far each stage has come, what the *)
(* collected results are, and that the sequential path has at most one     *)
(* call that is made and not yet collected.                                *)
(***************************************************************************)
EXTENDS TaskPool, TLAPS

Made(t) == st[t] # "pending"

USE DEF Taken

(* Earlier stages are complete, later ones untouched. *)
StagesInv ==
  \A t \in Tasks :
    /\ StageOf[t] < stage => st[t] \in Taken
    /\ StageOf[t] > stage => st[t] = "pending"

(* What has been collected is of this stage, over, and sorted right. *)
CollectInv ==
  /\ seen \subseteq Batch
  /\ \A t \in seen : st[t] \in Taken \cup {"error"}
  /\ successes = {t \in seen : st[t] \in Taken}
  /\ failure # NoTask => failure \in seen /\ st[failure] = "error"
  /\ (\E t \in seen : st[t] = "error") => failure # NoTask

(* The caller goes on with a call only when it knows the one before, and    *)
(* has no executor to cancel or to wait for.                                *)
SequentialInv ==
  Sequential =>
    /\ pc \in {"collecting", "done"}
    /\ \A t \in Batch : Made(t) =>
         /\ t \notin seen => failure = NoTask
         /\ \A u \in Batch : u < t => u \in seen /\ st[u] \in Taken

RaiseInv ==
  /\ pc = "collecting" => raised = "none"
  /\ pc = "cancelling" => raised = "auth"
  /\ pc = "joining" => raised # "none"
  /\ raised # "none" => \E t \in Tasks : st[t] \in {"auth", "crash"}
  /\ (\E t \in Tasks : st[t] = "cancelled") => raised = "auth"
  /\ uncancelled \subseteq Batch
  /\ pc # "cancelling" => uncancelled = {}

SyncedInv ==
  pc # "done" => synced = {t \in Tasks : StageOf[t] < stage /\ StageOf[t] \in Collected}

(* Where a run ends. *)
DoneInv ==
  pc = "done" =>
    /\ \A t \in Tasks : st[t] # "running"
    /\ raised = "none" =>
         /\ \A t \in Tasks : st[t] \in Taken \cup {"error", "pending"}
         /\ synced = {t \in Tasks : st[t] \in Taken /\ StageOf[t] \in Collected}
         /\ failure = NoTask => \A t \in Tasks : st[t] \in Taken

IInv ==
  /\ TypeOK /\ StagesInv /\ CollectInv /\ SequentialInv
  /\ RaiseInv /\ SyncedInv /\ DoneInv

-----------------------------------------------------------------------------
LEMMA InitIInv == Init => IInv
BY PoolAssumption DEF Init, IInv, TypeOK, StagesInv, CollectInv, SequentialInv,
   RaiseInv, SyncedInv, DoneInv, Tasks, Batch, NoTask, States, Outcomes, Made

(* Nothing changes any more once the verdict is out. *)
LEMMA DoneIsFinal == IInv /\ pc = "done" /\ [Next]_vars => UNCHANGED vars
<1> SUFFICES ASSUME IInv, pc = "done", [Next]_vars PROVE UNCHANGED vars
  OBVIOUS
<1>1. \A t \in Tasks : st[t] # "running"
  BY DEF IInv, DoneInv
<1>2. ASSUME NEW t \in Tasks PROVE ~TaskStep(t)
  BY <1>1 DEF TaskStep, Call, Start, Finish, CollectOk, CollectError, CollectAuth,
     CollectCrash, Cancel
<1>3. ~CancelsDone /\ ~Join /\ ~EndStage
  BY DEF CancelsDone, Join, EndStage
<1> QED BY <1>2, <1>3 DEF Next

(* A call that starts, in either path, disturbs only its own state. *)
LEMMA StartStep ==
  ASSUME NEW t \in Tasks, IInv, Call(t) \/ Start(t)
  PROVE  IInv'
<1>1. /\ pc # "done" /\ t \in Batch /\ st[t] = "pending"
      /\ st' = [st EXCEPT ![t] = "running"]
      /\ UNCHANGED pool
  BY DEF Call, Start
<1> USE PoolAssumption, <1>1 DEF IInv, TypeOK, pool
<1>2. TypeOK'
  BY DEF States
<1>3. StagesInv' /\ Batch' = Batch /\ Sequential' = Sequential
  BY DEF StagesInv, Batch, Sequential, Tasks
<1>4. t \notin seen
  BY DEF CollectInv
<1>5. CollectInv'
  BY <1>3, <1>4 DEF CollectInv, Batch
<1>6. SequentialInv'
  <2> SUFFICES ASSUME Sequential, NEW u \in Batch, Made(u)'
               PROVE  /\ pc \in {"collecting", "done"}
                      /\ u \notin seen => failure = NoTask
                      /\ \A v \in Batch : v < u => v \in seen /\ st'[v] \in Taken
    BY <1>3 DEF SequentialInv
  <2>1. Call(t)
    BY DEF Start
  <2>2. CASE u = t
    <3>1. \A v \in Batch : v < u => v \in seen /\ st[v] \in Taken
      BY <2>1, <2>2 DEF Call, CollectInv
    <3> QED BY <2>1, <2>2, <3>1 DEF Call, Batch
  <2>3. CASE u # t
    BY <2>3 DEF SequentialInv, Made, Batch
  <2> QED BY <2>2, <2>3
<1>7. RaiseInv' /\ SyncedInv' /\ DoneInv'
  BY <1>3 DEF RaiseInv, SyncedInv, DoneInv
<1> QED BY <1>2, <1>3, <1>5, <1>6, <1>7

(* A call that runs is of the stage under way. *)
LEMMA RunningInBatch ==
  ASSUME TypeOK, StagesInv, NEW t \in Tasks, st[t] = "running"
  PROVE  StageOf[t] = stage /\ t \in Batch
<1>1. StageOf[t] \in Int /\ stage \in Int
  BY PoolAssumption DEF TypeOK, Tasks
<1>2. st[t] \notin Taken /\ st[t] # "pending"
  BY DEF Taken
<1>3. ~(StageOf[t] < stage) /\ ~(StageOf[t] > stage)
  BY <1>2 DEF StagesInv
<1>4. StageOf[t] = stage
  BY <1>1, <1>3
<1> QED
  BY <1>4 DEF Batch

LEMMA FinishStep ==
  ASSUME NEW t \in Tasks, IInv, Finish(t)
  PROVE  IInv'
<1>1. PICK outcome \in Outcomes : st' = [st EXCEPT ![t] = outcome]
  BY DEF Finish
<1>2. st[t] = "running" /\ UNCHANGED pool
  BY DEF Finish
<1> USE PoolAssumption, <1>1, <1>2 DEF IInv, TypeOK, pool
<1>3. pc # "done"
  BY DEF DoneInv
<1>4. TypeOK'
  BY DEF States
<1>5. StageOf[t] = stage /\ t \in Batch
  BY RunningInBatch
<1>6. StagesInv' /\ Batch' = Batch /\ Sequential' = Sequential
  BY <1>5 DEF StagesInv, Batch, Sequential, Tasks
<1>7. t \notin seen
  BY DEF CollectInv
<1>8. CollectInv'
  BY <1>6, <1>7 DEF CollectInv, Batch
<1>9. SequentialInv'
  BY <1>6 DEF SequentialInv, Made, Batch, Outcomes
<1>10. RaiseInv'
  <2>1. ASSUME NEW u \in Tasks, st'[u] = "cancelled" PROVE st[u] = "cancelled"
    BY <2>1 DEF Outcomes
  <2>2. ASSUME NEW u \in Tasks, st[u] \in {"auth", "crash"} PROVE st'[u] = st[u]
    BY <2>2
  <2> QED BY <1>6, <2>1, <2>2 DEF RaiseInv
<1>11. SyncedInv' /\ DoneInv'
  BY <1>3 DEF SyncedInv, DoneInv
<1> QED BY <1>4, <1>6, <1>8, <1>9, <1>10, <1>11

(* Collecting a result moves no call; it may end the sequential path. *)
LEMMA CollectValueStep ==
  ASSUME NEW t \in Tasks, IInv, CollectOk(t) \/ CollectError(t)
  PROVE  IInv'
<1> USE PoolAssumption DEF IInv, TypeOK
<1>1. /\ pc = "collecting" /\ t \in Batch \ seen /\ st[t] \in Taken \cup {"error"}
      /\ seen' = seen \cup {t}
      /\ UNCHANGED <<workers, stage, st, raised, uncancelled, synced, pc>>
  BY DEF CollectOk, CollectError
<1>2. TypeOK'
  BY <1>1 DEF CollectOk, CollectError, Batch
<1>3. StagesInv' /\ Batch' = Batch /\ Sequential' = Sequential
  BY <1>1 DEF StagesInv, Batch, Sequential
<1>4. CollectInv'
  <2>1. CASE CollectOk(t)
    BY <1>1, <1>3, <2>1 DEF CollectInv, CollectOk
  <2>2. CASE CollectError(t)
    BY <1>1, <1>3, <2>2 DEF CollectInv, CollectError, NoTask, Tasks
  <2> QED BY <2>1, <2>2
<1>5. SequentialInv'
  <2> SUFFICES ASSUME Sequential, NEW u \in Batch, Made(u)
               PROVE  /\ u \notin seen' => failure' = NoTask
                      /\ \A v \in Batch : v < u => v \in seen' /\ st[v] \in Taken
    BY <1>1, <1>3 DEF SequentialInv, Made
  <2>1. Made(t) /\ t \in Batch \ seen
    BY <1>1 DEF Made
  <2>2. \A v \in Batch : /\ v < u => v \in seen /\ st[v] \in Taken
                         /\ v < t => v \in seen
    BY <2>1 DEF SequentialInv
  <2>3. u \notin seen => u = t
    BY <2>1, <2>2 DEF Tasks, Batch
  <2> QED BY <1>1, <2>2, <2>3
<1>6. RaiseInv' /\ SyncedInv' /\ DoneInv'
  BY <1>1 DEF RaiseInv, SyncedInv, DoneInv
<1> QED BY <1>2, <1>3, <1>4, <1>5, <1>6

(* In the sequential path an exception finds no other call running. *)
LEMMA SequentialAlone ==
  ASSUME IInv, Sequential, NEW t \in Batch \ seen, Made(t),
         NEW u \in Tasks, st[u] = "running"
  PROVE  u = t
<1> USE PoolAssumption DEF IInv, TypeOK
<1>1. u \in Batch \ seen /\ Made(u)
  <2>1. StageOf[u] = stage
    BY DEF StagesInv, Tasks
  <2>2. u \notin seen
    BY DEF CollectInv
  <2> QED BY <2>1, <2>2 DEF Batch, Made
<1>2. \A v \in Batch : (v < u => v \in seen) /\ (v < t => v \in seen)
  BY <1>1 DEF SequentialInv
<1> QED BY <1>1, <1>2 DEF Tasks, Batch

LEMMA CollectExceptionStep ==
  ASSUME NEW t \in Tasks, IInv, CollectAuth(t) \/ CollectCrash(t)
  PROVE  IInv'
<1> USE PoolAssumption DEF IInv, TypeOK
<1>1. /\ pc = "collecting" /\ t \in Batch \ seen /\ st[t] \in {"auth", "crash"}
      /\ raised' \in {"auth", "crash"}
      /\ pc' \in {"cancelling", "joining", "done"}
      /\ pc' = "done" <=> Sequential
      /\ UNCHANGED <<workers, stage, st, seen, successes, failure, synced>>
  BY DEF CollectAuth, CollectCrash
<1>2. TypeOK'
  BY <1>1 DEF CollectAuth, CollectCrash, Batch
<1>3. /\ StagesInv' /\ CollectInv' /\ SequentialInv'
  BY <1>1 DEF StagesInv, CollectInv, SequentialInv, Batch, Sequential, Made
<1>4. RaiseInv'
  BY <1>1 DEF RaiseInv, CollectAuth, CollectCrash, Batch
<1>5. SyncedInv'
  BY <1>1 DEF SyncedInv
<1>6. DoneInv'
  <2> SUFFICES ASSUME pc' = "done" PROVE \A u \in Tasks : st[u] # "running"
    BY <1>1 DEF DoneInv
  <2> QED BY <1>1, SequentialAlone DEF Made
<1> QED BY <1>2, <1>3, <1>4, <1>5, <1>6

LEMMA CancelStep ==
  ASSUME NEW t \in Tasks, IInv, Cancel(t)
  PROVE  IInv'
<1> USE PoolAssumption DEF IInv, TypeOK
<1>1. /\ pc = "cancelling" /\ pc' = pc
      /\ t \in uncancelled
      /\ UNCHANGED <<workers, stage, seen, successes, failure, raised, synced>>
      /\ uncancelled' = uncancelled \ {t}
      /\ st' = IF st[t] = "pending" THEN [st EXCEPT ![t] = "cancelled"] ELSE st
  BY DEF Cancel
<1>2. ~Sequential /\ raised = "auth"
  BY <1>1 DEF SequentialInv, RaiseInv
<1>3. TypeOK'
  BY <1>1 DEF States
<1>4. StagesInv'
  <2>1. StageOf[t] = stage
    BY <1>1 DEF RaiseInv, Batch
  <2> QED BY <1>1, <2>1 DEF StagesInv, Tasks
<1>5. CollectInv' /\ SequentialInv'
  BY <1>1, <1>2 DEF CollectInv, SequentialInv, Batch, Sequential
<1>6. RaiseInv' /\ SyncedInv' /\ DoneInv'
  BY <1>1, <1>2 DEF RaiseInv, SyncedInv, DoneInv, Batch
<1> QED BY <1>3, <1>4, <1>5, <1>6

LEMMA LoopStep ==
  ASSUME IInv, CancelsDone \/ Join
  PROVE  IInv'
<1> USE PoolAssumption DEF IInv, TypeOK
<1>1. /\ pc \in {"cancelling", "joining"} /\ pc' \in {"joining", "done"}
      /\ UNCHANGED <<workers, stage, st, seen, successes, failure, raised, uncancelled, synced>>
  BY DEF CancelsDone, Join
<1>2. TypeOK' /\ StagesInv' /\ CollectInv'
  BY <1>1 DEF StagesInv, CollectInv, Batch
<1>3. SequentialInv'
  BY <1>1 DEF SequentialInv, Sequential, Batch
<1>4. RaiseInv' /\ SyncedInv' /\ raised # "none"
  BY <1>1 DEF CancelsDone, Join, RaiseInv, SyncedInv, Batch
<1>5. DoneInv'
  <2> SUFFICES ASSUME pc' = "done", NEW u \in Tasks PROVE st[u] # "running"
    BY <1>1, <1>4 DEF DoneInv
  <2>1. \A v \in Batch : st[v] # "running"
    BY <1>1 DEF CancelsDone, Join
  <2>2. StageOf[u] < stage \/ StageOf[u] = stage \/ StageOf[u] > stage
    BY DEF Tasks
  <2>3. StageOf[u] # stage => st[u] \in Taken \cup {"pending"}
    BY <2>2 DEF StagesInv
  <2> QED BY <2>1, <2>3 DEF Batch
<1> QED BY <1>2, <1>3, <1>4, <1>5

(* At the end of a stage whose calls were all collected, and of one that a  *)
(* first error cut short, no call is under way.                             *)
LEMMA StageOverQuiet ==
  ASSUME IInv, EndStage, NEW t \in Tasks
  PROVE  st[t] \in Taken \cup {"error", "pending"}
<1> USE PoolAssumption DEF IInv, TypeOK
<1>1. CASE t \notin Batch
  BY <1>1 DEF StagesInv, Batch, Tasks
<1>2. CASE t \in seen
  BY <1>2 DEF CollectInv
<1>3. CASE t \in Batch \ seen
  BY <1>3 DEF EndStage, SequentialInv, Made
<1> QED BY <1>1, <1>2, <1>3

LEMMA EndStageStep ==
  ASSUME IInv, EndStage
  PROVE  IInv'
<1> USE PoolAssumption DEF IInv, TypeOK
<1>1. /\ pc = "collecting" /\ raised = "none"
      /\ UNCHANGED <<workers, st, failure, raised, uncancelled>>
  BY DEF EndStage, RaiseInv
<1>2. synced' = {t \in Tasks : /\ StageOf[t] < stage \/ (StageOf[t] = stage /\ st[t] \in Taken)
                               /\ StageOf[t] \in Collected}
  <2>1. successes = {t \in Batch : st[t] \in Taken}
    <3>1. ASSUME NEW t \in Batch \ seen PROVE st[t] \notin Taken
      BY <3>1 DEF EndStage, SequentialInv, Made
    <3> QED BY <3>1 DEF CollectInv
  <2>2. synced = {t \in Tasks : StageOf[t] < stage /\ StageOf[t] \in Collected}
    BY <1>1 DEF SyncedInv
  <2> QED BY <2>1, <2>2 DEF EndStage, Batch, Tasks
<1>3. failure = NoTask => \A t \in Batch : st[t] \in Taken
  BY DEF EndStage, CollectInv
<1>4. CASE failure # NoTask \/ stage = Stages
  <2>1. pc' = "done" /\ UNCHANGED <<workers, stage, seen, successes>>
    BY <1>4 DEF EndStage
  <2>2. TypeOK' /\ StagesInv' /\ CollectInv' /\ SequentialInv' /\ RaiseInv' /\ SyncedInv'
    BY <1>1, <1>2, <2>1
       DEF StagesInv, CollectInv, SequentialInv, RaiseInv, SyncedInv, Batch, Sequential, Made
  <2>3. \A t \in Tasks : st[t] \in Taken => StageOf[t] <= stage
    BY DEF StagesInv, Tasks
  <2>4. synced' = {t \in Tasks : st[t] \in Taken /\ StageOf[t] \in Collected}
    BY <1>2, <2>3 DEF StagesInv, Tasks
  <2>5. failure = NoTask => \A t \in Tasks : st[t] \in Taken
    BY <1>3, <1>4 DEF StagesInv, Batch, Tasks
  <2>6. DoneInv'
    BY <1>1, <2>1, <2>4, <2>5, StageOverQuiet DEF DoneInv
  <2> QED BY <2>2, <2>6
<1>5. CASE failure = NoTask /\ stage # Stages
  <2>1. /\ stage' = stage + 1 /\ stage' \in 1..Stages
        /\ seen' = {} /\ successes' = {} /\ pc' = pc
    BY <1>5 DEF EndStage
  <2>2. \A t \in Tasks : /\ StageOf[t] <= stage => st[t] \in Taken
                         /\ StageOf[t] > stage => st[t] = "pending"
    BY <1>3, <1>5 DEF StagesInv, Batch, Tasks
  <2>3. StagesInv'
    BY <1>1, <2>1, <2>2 DEF StagesInv, Tasks
  <2>4. synced' = {t \in Tasks : StageOf[t] < stage + 1 /\ StageOf[t] \in Collected}
    BY <1>2, <2>2 DEF Tasks
  <2>5. TypeOK' /\ SyncedInv'
    BY <1>1, <2>1, <2>4 DEF SyncedInv
  <2>6. CollectInv' /\ RaiseInv' /\ DoneInv'
    BY <1>1, <1>5, <2>1 DEF CollectInv, RaiseInv, DoneInv
  <2>7. SequentialInv'
    BY <1>1, <2>1, <2>2 DEF SequentialInv, Batch, Made, Tasks
  <2> QED BY <2>3, <2>5, <2>6, <2>7
<1> QED BY <1>4, <1>5

LEMMA NextIInv == IInv /\ [Next]_vars => IInv'
<1> SUFFICES ASSUME IInv, [Next]_vars PROVE IInv'
  OBVIOUS
<1>1. CASE UNCHANGED vars
  BY <1>1 DEF vars, IInv, TypeOK, StagesInv, CollectInv, SequentialInv, RaiseInv,
     SyncedInv, DoneInv, Batch, Sequential, Made
<1>2. ASSUME NEW t \in Tasks, TaskStep(t) PROVE IInv'
  BY <1>2, StartStep, FinishStep, CollectValueStep, CollectExceptionStep, CancelStep
     DEF TaskStep
<1> QED BY <1>1, <1>2, LoopStep, EndStageStep DEF Next

(* The inductive invariant holds in every reachable state. *)
THEOREM Invariance == Spec => []IInv
<1> QED BY InitIInv, NextIInv, PTL DEF Spec

(* Every variable keeps its type. *)
THEOREM TypeCorrect == Spec => []TypeOK
<1>1. IInv => TypeOK
  BY DEF IInv
<1> QED BY <1>1, Invariance, PTL

(* _run_staged_tasks: no call before every call of the earlier stages has   *)
(* succeeded, for any number of calls, stages and workers.                  *)
THEOREM StagesInOrder == Spec => []StageOrder
<1>1. IInv => StageOrder
  BY PoolAssumption DEF IInv, TypeOK, StagesInv, StageOrder, Tasks
<1> QED BY <1>1, Invariance, PTL

(* A returned list of labels is exactly the calls that succeeded. *)
THEOREM ReportIsTruthful == Spec => []TruthfulReport
<1>1. IInv => TruthfulReport
  BY DEF IInv, DoneInv, TruthfulReport
<1> QED BY <1>1, Invariance, PTL

(* Success is reported only if everything succeeded, and an auth error or a *)
(* crash always reaches the caller.                                         *)
THEOREM VerdictIsTruthful == Spec => []TruthfulVerdict
<1>1. IInv => TruthfulVerdict
  <2> SUFFICES ASSUME IInv, pc = "done"
               PROVE  /\ (raised = "none" /\ failure = NoTask)
                           <=> \A t \in Tasks : st[t] \in Taken
                      /\ (\E t \in Tasks : st[t] \in {"auth", "crash"}) => raised # "none"
    BY DEF TruthfulVerdict
  <2>1. ASSUME \A t \in Tasks : st[t] \in Taken PROVE raised = "none" /\ failure = NoTask
    BY <2>1 DEF IInv, TypeOK, RaiseInv, CollectInv, Batch
  <2>2. ASSUME raised = "none"
        PROVE  /\ failure = NoTask => \A t \in Tasks : st[t] \in Taken
               /\ ~ \E t \in Tasks : st[t] \in {"auth", "crash"}
    BY <2>2 DEF IInv, DoneInv
  <2> QED BY <2>1, <2>2
<1> QED BY <1>1, Invariance, PTL

(* apply_parallel, sequential path: nothing is called after a failure. *)
THEOREM SequentialFailsFast == Spec => []FailFast
<1>1. IInv => FailFast
  BY DEF IInv, SequentialInv, FailFast, Batch, Made
<1> QED BY <1>1, Invariance, PTL

(* Once apply_parallel has returned or raised, no call is under way. *)
THEOREM QuietAfterReturn == Spec => NothingAfterReturn
<1>1. IInv /\ [Next]_vars => [pc = "done" => UNCHANGED st]_vars
  BY DoneIsFinal DEF vars
<1> QED BY <1>1, Invariance, PTL DEF Spec, NothingAfterReturn

(* The cancel loop leaves no call of the batch waiting behind it. *)
CancelInv ==
  (raised = "auth" /\ pc \in {"cancelling", "joining"}) =>
    \A t \in Batch : st[t] = "pending" => t \in uncancelled

LEMMA CancelInvStep == IInv /\ CancelInv /\ [Next]_vars => CancelInv'
<1> SUFFICES ASSUME IInv, CancelInv, [Next]_vars PROVE CancelInv'
  OBVIOUS
<1>1. CASE UNCHANGED vars
  BY <1>1 DEF vars, CancelInv, Batch
<1>2. ASSUME NEW t \in Tasks, TaskStep(t) PROVE CancelInv'
  <2>1. CASE Call(t) \/ Start(t) \/ Finish(t)
    BY <2>1 DEF Call, Start, Finish, pool, CancelInv, Batch, IInv, TypeOK, Outcomes
  <2>2. CASE CollectOk(t) \/ CollectError(t) \/ CollectCrash(t)
    BY <2>2 DEF CollectOk, CollectError, CollectCrash, CancelInv, IInv, RaiseInv
  <2>3. CASE CollectAuth(t)
    BY <2>3 DEF CollectAuth, CancelInv, Batch
  <2>4. CASE Cancel(t)
    BY <2>4 DEF Cancel, CancelInv, Batch, IInv, TypeOK
  <2> QED BY <1>2, <2>1, <2>2, <2>3, <2>4 DEF TaskStep
<1>3. CASE CancelsDone \/ Join \/ EndStage
  BY <1>3 DEF CancelsDone, Join, EndStage, CancelInv, Batch, IInv, RaiseInv
<1> QED BY <1>1, <1>2, <1>3 DEF Next

(* apply_parallel: once the futures are cancelled after an auth error, no   *)
(* further call of the plan is started.                                     *)
THEOREM CancelIsFinalHolds == Spec => CancelIsFinal
<1>1. Init => CancelInv
  BY DEF Init, CancelInv
<1>2. IInv /\ CancelInv /\ [Next]_vars
        => [(pc = "joining" /\ raised = "auth") =>
              \A t \in Tasks : st[t] # "running" => st'[t] # "running"]_vars
  <2> SUFFICES ASSUME IInv, CancelInv, Next, pc = "joining", raised = "auth",
                      NEW t \in Tasks, st[t] # "running"
               PROVE  st'[t] # "running"
    BY DEF vars
  <2>1. \A u \in Batch : st[u] # "pending"
    BY DEF CancelInv, IInv, RaiseInv
  <2>2. ASSUME NEW u \in Tasks, TaskStep(u) PROVE st'[t] # "running"
    BY <2>1, <2>2 DEF TaskStep, Call, Start, Finish, CollectOk, CollectError,
       CollectAuth, CollectCrash, Cancel, IInv, TypeOK, Outcomes
  <2> QED BY <2>2 DEF Next, CancelsDone, Join, EndStage
<1> QED BY <1>1, <1>2, Invariance, CancelInvStep, PTL DEF Spec, CancelIsFinal

-----------------------------------------------------------------------------
(* The pool implements the contract. *)

LEMMA InitContract == Init => Contract!Init
BY DEF Init, Contract!Init, Effect, Verdict, Tasks

(* A step that decides no call and gives no verdict is a stutter. *)
LEMMA Quiet ==
  ASSUME IInv, pc # "done", pc' # "done",
         \A t \in Tasks : Effect(t)' = Effect(t)
  PROVE  UNCHANGED Contract!vars
<1>1. [t \in Tasks |-> Effect(t)]' = [t \in Tasks |-> Effect(t)]
  OBVIOUS
<1>2. Verdict = "open" /\ Verdict' = "open"
  BY DEF Verdict
<1> QED BY <1>1, <1>2 DEF Contract!vars

(* The call itself is the step that has the effect. *)
LEMMA FinishContract ==
  ASSUME IInv, NEW t \in Tasks, Finish(t)
  PROVE  Contract!Do(t)
<1> USE PoolAssumption DEF IInv, TypeOK
<1>1. PICK outcome \in Outcomes : st' = [st EXCEPT ![t] = outcome]
  BY DEF Finish
<1>2. st[t] = "running" /\ UNCHANGED pool
  BY DEF Finish
<1>3. pc # "done"
  BY <1>2 DEF DoneInv
<1>4. Verdict = "open" /\ Verdict' = "open"
  BY <1>2, <1>3 DEF Verdict, pool
<1>5. \A u \in Tasks : StageOf[u] < StageOf[t] => Effect(u) = "ok"
  BY <1>2 DEF StagesInv, Effect, Tasks
<1>6. Effect(t) = "none" /\ Effect(t)' \in {"ok", "failed"}
  BY <1>1, <1>2 DEF Effect, Outcomes
<1>7. \A u \in Tasks \ {t} : Effect(u)' = Effect(u)
  BY <1>1 DEF Effect
<1>8. [u \in Tasks |-> Effect(u)]' = [[u \in Tasks |-> Effect(u)] EXCEPT ![t] = Effect(t)']
  BY <1>7
<1> QED BY <1>4, <1>5, <1>6, <1>8 DEF Contract!Do

(* An exception reaches the caller only if some call failed. *)
LEMMA RaiseContract ==
  ASSUME IInv, IInv', pc # "done", pc' = "done", raised' # "none", UNCHANGED st
  PROVE  Contract!Raise
<1>1. \E t \in Tasks : Effect(t) = "failed"
  BY DEF IInv, RaiseInv, Effect
<1>2. Verdict = "open" /\ Verdict' = "raised"
  BY DEF Verdict
<1>3. [t \in Tasks |-> Effect(t)]' = [t \in Tasks |-> Effect(t)]
  BY DEF Effect
<1> QED BY <1>1, <1>2, <1>3 DEF Contract!Raise

LEMMA EndStageContract ==
  ASSUME IInv, IInv', EndStage
  PROVE  [Contract!Next]_(Contract!vars)
<1>1. /\ pc = "collecting" /\ raised = "none" /\ raised' = "none"
      /\ UNCHANGED <<workers, st, failure>>
  BY DEF EndStage, IInv, RaiseInv
<1>2. \A t \in Tasks : Effect(t)' = Effect(t)
  BY <1>1 DEF Effect
<1>3. CASE pc' # "done"
  BY <1>1, <1>2, <1>3, Quiet
<1>4. CASE pc' = "done"
  <2>1. Verdict = "open" /\ Verdict' = IF failure # NoTask THEN "error" ELSE "ok"
    BY <1>1, <1>4 DEF Verdict
  <2>2. synced' = {t \in Tasks : st[t] \in Taken /\ StageOf[t] \in Collected}
    BY <1>1, <1>4 DEF IInv, DoneInv
  <2>3. \A t \in Tasks : Effect(t) = "ok" <=> st[t] \in Taken
    BY DEF Effect
  <2>4. failure = NoTask => \A t \in Tasks : Effect(t) = "ok"
    BY <1>1, <1>4, <2>3 DEF IInv, DoneInv
  <2>5. failure # NoTask => \E t \in Tasks : Effect(t) = "failed"
    BY DEF IInv, TypeOK, CollectInv, Effect
  <2>6. [t \in Tasks |-> Effect(t)]' = [t \in Tasks |-> Effect(t)]
    BY <1>2
  <2>7. Contract!Return
    BY <2>1, <2>2, <2>3, <2>4, <2>5, <2>6 DEF Contract!Return
  <2> QED BY <2>7 DEF Contract!Next
<1> QED BY <1>3, <1>4

LEMMA StepContract ==
  IInv /\ IInv' /\ [Next]_vars => [Contract!Next]_(Contract!vars)
<1> SUFFICES ASSUME IInv, IInv', [Next]_vars PROVE [Contract!Next]_(Contract!vars)
  OBVIOUS
<1> DEFINE SameEffect == \A t \in Tasks : Effect(t)' = Effect(t)
<1>1. CASE pc = "done"
  <2>1. UNCHANGED vars
    BY <1>1, DoneIsFinal
  <2> QED BY <2>1 DEF vars, Contract!vars, Effect, Verdict
<1>2. CASE pc # "done" /\ UNCHANGED vars
  BY <1>2 DEF vars, Contract!vars, Effect, Verdict
<1>3. ASSUME pc # "done", NEW t \in Tasks, TaskStep(t)
      PROVE  [Contract!Next]_(Contract!vars)
  <2>1. CASE Finish(t)
    BY <2>1, FinishContract DEF Contract!Next
  <2>2. CASE Call(t) \/ Start(t)
    <3>1. pc' # "done" /\ SameEffect
      BY <1>3, <2>2 DEF Call, Start, pool, IInv, TypeOK, Effect
    <3> QED BY <1>3, <3>1, Quiet
  <2>3. CASE CollectOk(t) \/ CollectError(t)
    <3>1. pc' # "done" /\ SameEffect
      BY <1>3, <2>3 DEF CollectOk, CollectError, Effect
    <3> QED BY <1>3, <3>1, Quiet
  <2>4. CASE CollectAuth(t) \/ CollectCrash(t)
    <3>1. raised' # "none" /\ UNCHANGED st /\ SameEffect
      BY <2>4 DEF CollectAuth, CollectCrash, Effect
    <3> QED BY <1>3, <3>1, Quiet, RaiseContract DEF Contract!Next
  <2>5. CASE Cancel(t)
    <3>1. pc' # "done" /\ SameEffect
      BY <1>3, <2>5 DEF Cancel, IInv, TypeOK, Effect
    <3> QED BY <1>3, <3>1, Quiet
  <2> QED BY <1>3, <2>1, <2>2, <2>3, <2>4, <2>5 DEF TaskStep
<1>4. CASE CancelsDone
  <2>1. pc # "done" /\ pc' # "done" /\ SameEffect
    BY <1>4 DEF CancelsDone, Effect
  <2> QED BY <2>1, Quiet
<1>5. CASE Join
  <2>1. pc # "done" /\ pc' = "done" /\ raised' # "none" /\ UNCHANGED st
    BY <1>5 DEF Join, IInv, RaiseInv
  <2> QED BY <2>1, RaiseContract DEF Contract!Next
<1>6. CASE EndStage
  BY <1>6, EndStageContract
<1> QED BY <1>1, <1>2, <1>3, <1>4, <1>5, <1>6 DEF Next

(* Every behaviour of the pool, whatever its size, is one the contract of   *)
(* StageContract allows.                                                    *)
THEOREM PoolKeepsContract == Spec => KeepsContract
<1> QED BY InitContract, Invariance, StepContract, PTL DEF Spec, KeepsContract, Contract!Spec
=============================================================================
