-------------------------- MODULE PlanFetchProofs --------------------------
(***************************************************************************)
(* What planning a scope fetches, for any number of extensions, phases and *)
(* background fetches and any number of workers.  The invariant says what  *)
(* a collected job was, which jobs the caller has behind it at each place, *)
(* and how it may have come to leave a pool.                               *)
(***************************************************************************)
EXTENDS PlanFetch, TLAPS

(* A job whose result was collected has ended, and is booked as what it     *)
(* ended as.                                                                *)
CollectedInv ==
  /\ \A j \in Hooks \cap seen : st[j] = "ok"
  /\ \A j \in Fetches \cap seen : st[j] \in {"ok", "void", "error"}
  /\ \A j \in background \cap seen : st[j] \in {"ok", "error"}
  /\ results = {j \in Fetches \cap seen : st[j] = "ok"}
  /\ failed = {j \in Fetches \cap seen : st[j] = "error"}
  /\ defaulted = {j \in background \cap seen : st[j] = "error"}

(* What lies behind the caller: a later pool is used only when the earlier  *)
(* one was collected in full.                                               *)
BehindInv ==
  /\ pc = "start" => seen = {}
  /\ pc \in {"start", "prefetching"} => \A j \in Fetches : st[j] = "none"
  /\ pc \in {"fetching", "joining", "finalizing", "shutdown"} => Hooks \subseteq seen
  /\ pc \in {"joining", "finalizing"} => Fetches \subseteq seen
  /\ pc = "finalizing" => background \subseteq seen

(* How a pool was left, and what the caller then waits for.                 *)
LeavingInv ==
  /\ pc \in {"cancelling", "leaving"} =>
       \/ (\E j \in Hooks : st[j] = "crash") /\ \A j \in Fetches : st[j] = "none"
       \/ (\E j \in Fetches : st[j] # "none") /\ Hooks \subseteq seen
  /\ pc \in {"shutdown", "returned"} => Idle(Hooks \cup Fetches)
  /\ pc = "returned" => Idle(background) \/ \E j \in Hooks : st[j] = "crash"

(* A plan is the outcome only at the very end.                              *)
PlanInv ==
  outcome = "plan" =>
    /\ pc \in {"shutdown", "returned"}
    /\ Hooks \cup Fetches \cup background \subseteq seen
    /\ finalized = Hooks

IInv == TypeOK /\ CollectedInv /\ BehindInv /\ LeavingInv /\ PlanInv

(* The kinds of jobs are disjoint. *)
LEMMA Kinds ==
  ASSUME TypeOK
  PROVE  /\ \A j \in Hooks : j \notin Fetches /\ j \notin background
         /\ \A j \in Fetches : j \notin Hooks /\ j \notin background
         /\ \A j \in background : j \notin Hooks /\ j \notin Fetches
  BY FetchAssumption DEF TypeOK

LEMMA InitHolds == Init => IInv
<1> SUFFICES ASSUME Init PROVE IInv
  OBVIOUS
<1>1. TypeOK
  BY DEF Init, TypeOK
<1>2. CollectedInv /\ BehindInv /\ LeavingInv /\ PlanInv
  BY DEF Init, CollectedInv, BehindInv, LeavingInv, PlanInv, Jobs
<1> QED BY <1>1, <1>2 DEF IInv

-----------------------------------------------------------------------------
(* What a thread does to a job that waits or runs disturbs nothing the      *)
(* caller has collected, and idle pools have no such job.                   *)
LEMMA ThreadStep ==
  ASSUME IInv, NEW j \in Jobs, st[j] \in Under, NEW s \in Under \cup Over \cup {"cancelled"},
         st' = [st EXCEPT ![j] = s],
         UNCHANGED <<options, seen, results, failed, defaulted, finalized, outcome, pc>>
  PROVE  CollectedInv' /\ BehindInv' /\ LeavingInv' /\ PlanInv'
<1> USE DEF IInv, options, Under, Over
<1>1. \A k \in Jobs : k # j => st'[k] = st[k]
  BY DEF TypeOK
<1>2. st'[j] = s /\ s # "none"
  BY DEF TypeOK
<1>3. Hooks \subseteq Jobs /\ Fetches \subseteq Jobs /\ background \subseteq Jobs
  BY DEF Jobs
<1>4. j \notin seen
  BY DEF CollectedInv, Jobs
<1>5. \A k \in seen : k \in Jobs /\ st'[k] = st[k]
  BY <1>1, <1>4 DEF TypeOK
<1>6. CollectedInv'
  BY <1>5 DEF CollectedInv
<1>7. BehindInv'
  <2>1. st[j] # "none"
    OBVIOUS
  <2> QED BY <1>1, <1>3, <2>1 DEF BehindInv
<1>8. \A k \in Jobs : st[k] = "crash" => st'[k] = "crash"
  BY <1>1
<1>9. \A k \in Jobs : st[k] = "none" <=> st'[k] = "none"
  BY <1>1, <1>2
<1>10. ASSUME NEW jobs \in SUBSET Jobs, Idle(jobs)
       PROVE  Idle(jobs)'
  BY <1>1, <1>10 DEF Idle
<1>11. LeavingInv'
  <2>1. pc \in {"cancelling", "leaving"} =>
          \/ (\E k \in Hooks : st'[k] = "crash") /\ \A k \in Fetches : st'[k] = "none"
          \/ (\E k \in Fetches : st'[k] # "none") /\ Hooks \subseteq seen'
    BY <1>3, <1>8, <1>9 DEF LeavingInv
  <2>2. pc \in {"shutdown", "returned"} => Idle(Hooks \cup Fetches)'
    BY <1>3, <1>10 DEF LeavingInv
  <2>3. pc = "returned" => (Idle(background) \/ \E k \in Hooks : st[k] = "crash")'
    BY <1>3, <1>8, <1>10 DEF LeavingInv
  <2> QED BY <2>1, <2>2, <2>3 DEF LeavingInv
<1>12. PlanInv'
  BY DEF PlanInv
<1> QED BY <1>6, <1>7, <1>11, <1>12

LEMMA ThreadHolds ==
  ASSUME IInv, NEW j \in Jobs, Start(j) \/ Finish(j)
  PROVE  IInv'
<1>1. /\ st[j] \in Under
      /\ \E s \in Under \cup Over : st' = [st EXCEPT ![j] = s]
      /\ UNCHANGED <<options, seen, results, failed, defaulted, finalized, uncancelled,
                     outcome, pc>>
  BY DEF Start, Finish, Under, Over
<1>2. PICK s \in Under \cup Over : st' = [st EXCEPT ![j] = s]
  BY <1>1
<1>3. CollectedInv' /\ BehindInv' /\ LeavingInv' /\ PlanInv'
  BY <1>1, <1>2, ThreadStep
<1>4. TypeOK'
  BY <1>1, <1>2 DEF IInv, TypeOK, options, Jobs
<1> QED BY <1>3, <1>4 DEF IInv

LEMMA CancelHolds ==
  ASSUME IInv, NEW j \in Jobs, Cancel(j)
  PROVE  IInv'
<1>1. TypeOK'
  BY DEF Cancel, IInv, TypeOK, options, Jobs
<1>2. CASE st[j] = "queued"
  <2>1. st' = [st EXCEPT ![j] = "cancelled"] /\ st[j] \in Under
    BY <1>2 DEF Cancel, Under
  <2>2. CollectedInv' /\ BehindInv' /\ LeavingInv' /\ PlanInv'
    BY <2>1, ThreadStep DEF Cancel
  <2> QED BY <1>1, <2>2 DEF IInv
<1>3. CASE st[j] # "queued"
  BY <1>1, <1>3
  DEF Cancel, IInv, options, CollectedInv, BehindInv, LeavingInv, PlanInv, Idle
<1> QED BY <1>2, <1>3

-----------------------------------------------------------------------------
(* The caller.  A collected job is put down as what it ended as.            *)
LEMMA CollectHolds ==
  ASSUME IInv, NEW j \in Jobs, CollectHook(j) \/ CollectFetch(j) \/ JoinBackground(j)
  PROVE  IInv'
<1> USE DEF IInv, options
<1>1. CASE CollectHook(j) /\ st[j] = "ok"
  <2>1. j \in Hooks /\ seen' = seen \cup {j} /\ pc = "prefetching"
        /\ UNCHANGED <<options, st, results, failed, defaulted, finalized, uncancelled,
                       outcome, pc>>
    BY <1>1 DEF CollectHook
  <2>2. j \notin Fetches /\ j \notin background
    BY <2>1, Kinds
  <2>3. TypeOK'
    BY <2>1 DEF TypeOK, Jobs
  <2>4. CollectedInv'
    BY <1>1, <2>1, <2>2 DEF CollectedInv
  <2>5. BehindInv' /\ LeavingInv' /\ PlanInv'
    BY <2>1 DEF BehindInv, LeavingInv, PlanInv, Idle
  <2> QED BY <2>3, <2>4, <2>5
<1>2. CASE CollectHook(j) /\ st[j] # "ok"
  <2>1. /\ j \in Hooks /\ st[j] = "crash" /\ pc = "prefetching"
        /\ uncancelled' = Hooks /\ outcome' \in {"raised", "none"} /\ pc' = "cancelling"
        /\ UNCHANGED <<options, st, seen, results, failed, defaulted, finalized>>
    BY <1>2 DEF CollectHook, HookFailure
  <2>2. TypeOK'
    BY <2>1 DEF TypeOK, Jobs
  <2>3. CollectedInv' /\ BehindInv' /\ LeavingInv' /\ PlanInv'
    BY <2>1 DEF CollectedInv, BehindInv, LeavingInv, PlanInv
  <2> QED BY <2>2, <2>3
<1>3. CASE CollectFetch(j)
  <2>1. /\ j \in Fetches /\ seen' = seen \cup {j} /\ pc = "fetching"
        /\ st[j] \in {"ok", "void", "error"}
        /\ results' = IF st[j] = "ok" THEN results \cup {j} ELSE results
        /\ failed' = IF st[j] = "error" THEN failed \cup {j} ELSE failed
        /\ UNCHANGED <<options, st, defaulted, finalized, uncancelled, outcome, pc>>
    BY <1>3 DEF CollectFetch
  <2>2. j \notin Hooks /\ j \notin background
    BY <2>1, Kinds
  <2>3. TypeOK'
    BY <2>1 DEF TypeOK, Jobs
  <2>4. CollectedInv'
    BY <2>1, <2>2 DEF CollectedInv
  <2>5. BehindInv' /\ LeavingInv' /\ PlanInv'
    BY <2>1 DEF BehindInv, LeavingInv, PlanInv, Idle
  <2> QED BY <2>3, <2>4, <2>5
<1>4. CASE JoinBackground(j)
  <2>1. /\ j \in background /\ seen' = seen \cup {j} /\ pc = "joining"
        /\ st[j] \in {"ok", "error"}
        /\ defaulted' = IF st[j] = "error" THEN defaulted \cup {j} ELSE defaulted
        /\ UNCHANGED <<options, st, results, failed, finalized, uncancelled, outcome, pc>>
    BY <1>4 DEF JoinBackground
  <2>2. j \notin Hooks /\ j \notin Fetches
    BY <2>1, Kinds
  <2>3. TypeOK'
    BY <2>1 DEF TypeOK, Jobs
  <2>4. CollectedInv'
    BY <2>1, <2>2 DEF CollectedInv
  <2>5. BehindInv' /\ LeavingInv' /\ PlanInv'
    BY <2>1 DEF BehindInv, LeavingInv, PlanInv, Idle
  <2> QED BY <2>3, <2>4, <2>5
<1> QED BY <1>1, <1>2, <1>3, <1>4

(* When the caller gives up on a phase or on a background fetch, it has the *)
(* earlier pools behind it.                                                 *)
LEMMA RaiseHolds ==
  ASSUME IInv, NEW j \in Jobs, CollectFetchError(j) \/ JoinRaises(j) \/ Finalize(j)
  PROVE  IInv'
<1> USE DEF IInv, options
<1>1. CASE CollectFetchError(j)
  <2>1. /\ j \in Fetches /\ st[j] # "none" /\ pc = "fetching"
        /\ outcome' = "raised" /\ pc' \in {"cancelling", "leaving"}
        /\ uncancelled' \in {Fetches, {}}
        /\ UNCHANGED <<options, st, seen, results, failed, defaulted, finalized>>
    BY <1>1 DEF CollectFetchError
  <2>2. TypeOK'
    BY <2>1 DEF TypeOK, Jobs
  <2>3. CollectedInv' /\ BehindInv' /\ LeavingInv' /\ PlanInv'
    BY <2>1 DEF CollectedInv, BehindInv, LeavingInv, PlanInv
  <2> QED BY <2>2, <2>3
<1>2. ASSUME pc \in {"joining", "finalizing"}
      PROVE  Idle(Hooks \cup Fetches)
  BY <1>2 DEF CollectedInv, BehindInv, Idle, Under
<1>3. CASE JoinRaises(j)
  <2>1. /\ pc = "joining" /\ outcome' = "raised" /\ pc' = "shutdown"
        /\ UNCHANGED <<options, st, seen, results, failed, defaulted, finalized, uncancelled>>
    BY <1>3 DEF JoinRaises
  <2>2. TypeOK'
    BY <2>1 DEF TypeOK, Jobs
  <2>3. CollectedInv' /\ BehindInv' /\ LeavingInv' /\ PlanInv'
    BY <1>2, <2>1 DEF CollectedInv, BehindInv, LeavingInv, PlanInv, Idle
  <2> QED BY <2>2, <2>3
<1>4. CASE Finalize(j)
  <2>1. /\ pc = "finalizing" /\ j \in Hooks
        /\ \/ finalized' = finalized \cup {j} /\ UNCHANGED <<outcome, pc>>
           \/ outcome' \in {"raised", "none"} /\ pc' = "shutdown" /\ UNCHANGED finalized
        /\ UNCHANGED <<options, st, seen, results, failed, defaulted, uncancelled>>
    BY <1>4 DEF Finalize, HookFailure
  <2>2. TypeOK'
    BY <2>1 DEF TypeOK, Jobs
  <2>3. CollectedInv' /\ BehindInv' /\ LeavingInv' /\ PlanInv'
    BY <1>2, <2>1 DEF CollectedInv, BehindInv, LeavingInv, PlanInv, Idle
  <2> QED BY <2>2, <2>3
<1> QED BY <1>1, <1>3, <1>4

(* Submitting a pool's jobs touches none that was collected.                *)
LEMMA QueueHolds ==
  ASSUME IInv, Submit \/ BeginFetch
  PROVE  IInv'
<1> USE DEF IInv, options
<1>1. CASE Submit
  <2>1. /\ pc = "start" /\ pc' = "prefetching"
        /\ st' = [k \in Jobs |-> IF k \in background \cup Hooks THEN "queued" ELSE st[k]]
        /\ UNCHANGED <<options, seen, results, failed, defaulted, finalized, uncancelled,
                       outcome>>
    BY <1>1 DEF Submit, Queue
  <2>2. TypeOK'
    BY <2>1 DEF TypeOK, Jobs, Under
  <2>3. seen' = {} /\ seen = {}
    BY <2>1 DEF BehindInv
  <2>4. CollectedInv'
    BY <2>1, <2>3 DEF CollectedInv
  <2>5. \A k \in Fetches : st'[k] = "none"
    BY <2>1, Kinds DEF BehindInv, Jobs
  <2>6. BehindInv' /\ LeavingInv' /\ PlanInv'
    BY <2>1, <2>5 DEF BehindInv, LeavingInv, PlanInv
  <2> QED BY <2>2, <2>4, <2>6
<1>2. CASE BeginFetch /\ pc' = "fetching"
  <2>1. /\ pc = "prefetching" /\ Hooks \subseteq seen
        /\ st' = [k \in Jobs |-> IF k \in Fetches THEN "queued" ELSE st[k]]
        /\ UNCHANGED <<options, seen, results, failed, defaulted, finalized, uncancelled,
                       outcome>>
    BY <1>2 DEF BeginFetch, Queue
  <2>2. TypeOK'
    BY <1>2, <2>1 DEF TypeOK, Jobs, Under
  <2>3. \A k \in Fetches : k \notin seen
    BY <2>1 DEF CollectedInv, BehindInv
  <2>4. \A k \in seen : k \in Jobs /\ st'[k] = st[k]
    BY <2>1, <2>3 DEF TypeOK
  <2>5. CollectedInv'
    BY <2>1, <2>4 DEF CollectedInv
  <2>6. BehindInv' /\ LeavingInv' /\ PlanInv'
    BY <1>2, <2>1 DEF BehindInv, LeavingInv, PlanInv
  <2> QED BY <2>2, <2>5, <2>6
<1>3. CASE BeginFetch /\ pc' # "fetching"
  <2>1. /\ pc = "prefetching" /\ Hooks \subseteq seen /\ pc' = "shutdown"
        /\ outcome' \in {"none", "raised"}
        /\ UNCHANGED <<options, st, seen, results, failed, defaulted, finalized, uncancelled>>
    BY <1>3 DEF BeginFetch
  <2>2. TypeOK'
    BY <2>1 DEF TypeOK, Jobs
  <2>3. Idle(Hooks \cup Fetches)'
    BY <2>1 DEF CollectedInv, BehindInv, Idle, Under
  <2>4. CollectedInv' /\ BehindInv' /\ LeavingInv' /\ PlanInv'
    BY <2>1, <2>3 DEF CollectedInv, BehindInv, LeavingInv, PlanInv
  <2> QED BY <2>2, <2>4
<1> QED BY <1>1, <1>2, <1>3

(* Leaving a pool: with no phase submitted it is the extensions' and one of *)
(* them raised, otherwise every prefetch had been collected.                *)
LEMMA LeaveHolds ==
  ASSUME IInv, CancelsDone \/ LeavePool \/ Shutdown
  PROVE  IInv'
<1> USE DEF IInv, options
<1>1. UNCHANGED <<options, st, seen, results, failed, defaulted, finalized, uncancelled, outcome>>
  BY DEF CancelsDone, LeavePool, Shutdown
<1>2. CASE CancelsDone
  <2>1. TypeOK'
    BY <1>1, <1>2 DEF CancelsDone, TypeOK, Jobs
  <2>2. CollectedInv' /\ BehindInv' /\ LeavingInv' /\ PlanInv'
    BY <1>1, <1>2 DEF CancelsDone, CollectedInv, BehindInv, LeavingInv, PlanInv
  <2> QED BY <2>1, <2>2
<1>3. CASE LeavePool
  <2>1. /\ pc = "leaving" /\ Idle(Hooks \cup Fetches)
        /\ pc' = IF \A j \in Fetches : st[j] = "none" THEN "returned" ELSE "shutdown"
    BY <1>3 DEF LeavePool
  <2>2. TypeOK'
    BY <1>1, <2>1 DEF TypeOK, Jobs
  <2>3. pc' = "shutdown" => Hooks \subseteq seen
    BY <2>1 DEF LeavingInv
  <2>4. pc' = "returned" => \E j \in Hooks : st[j] = "crash"
    BY <2>1 DEF LeavingInv
  <2>5. CollectedInv' /\ PlanInv'
    BY <1>1, <2>1 DEF CollectedInv, PlanInv
  <2>6. BehindInv' /\ LeavingInv'
    BY <1>1, <2>1, <2>3, <2>4 DEF BehindInv, LeavingInv, Idle
  <2> QED BY <2>2, <2>5, <2>6
<1>4. CASE Shutdown
  <2>1. pc = "shutdown" /\ Idle(background) /\ pc' = "returned"
    BY <1>4 DEF Shutdown
  <2>2. TypeOK'
    BY <1>1, <2>1 DEF TypeOK, Jobs
  <2>3. CollectedInv' /\ BehindInv' /\ LeavingInv' /\ PlanInv'
    BY <1>1, <2>1 DEF CollectedInv, BehindInv, LeavingInv, PlanInv, Idle
  <2> QED BY <2>2, <2>3
<1> QED BY <1>2, <1>3, <1>4

(* Moving on to the next stage takes that the one before is complete.       *)
LEMMA StageHolds ==
  ASSUME IInv, EndFetch \/ NothingToPlan \/ BeginFinalize \/ EndPlan
  PROVE  IInv'
<1> USE DEF IInv, options
<1>1. UNCHANGED <<options, st, seen, results, failed, defaulted, finalized, uncancelled>>
  BY DEF EndFetch, NothingToPlan, BeginFinalize, EndPlan
<1>2. TypeOK'
  BY <1>1 DEF TypeOK, Jobs, EndFetch, NothingToPlan, BeginFinalize, EndPlan
<1>3. CollectedInv'
  BY <1>1 DEF CollectedInv
<1>4. ASSUME pc \in {"joining", "finalizing"}
      PROVE  Idle(Hooks \cup Fetches)'
  BY <1>1, <1>4 DEF CollectedInv, BehindInv, Idle, Under
<1>5. CASE EndFetch \/ BeginFinalize
  BY <1>1, <1>2, <1>3, <1>5
  DEF EndFetch, BeginFinalize, BehindInv, LeavingInv, PlanInv
<1>6. CASE NothingToPlan
  BY <1>1, <1>2, <1>3, <1>4, <1>6 DEF NothingToPlan, BehindInv, LeavingInv, PlanInv
<1>7. CASE EndPlan
  BY <1>1, <1>2, <1>3, <1>4, <1>7 DEF EndPlan, BehindInv, LeavingInv, PlanInv
<1> QED BY <1>5, <1>6, <1>7

LEMMA StutterHolds ==
  ASSUME IInv, UNCHANGED vars
  PROVE  IInv'
<1>1. TypeOK'
  BY DEF IInv, vars, TypeOK, Jobs
<1>2. CollectedInv' /\ BehindInv' /\ LeavingInv' /\ PlanInv'
  BY DEF IInv, vars, CollectedInv, BehindInv, LeavingInv, PlanInv, Idle
<1> QED BY <1>1, <1>2 DEF IInv

LEMMA Inductive == IInv /\ [Next]_vars => IInv'
<1> SUFFICES ASSUME IInv, [Next]_vars PROVE IInv'
  OBVIOUS
<1>1. ASSUME NEW j \in Jobs, JobStep(j) PROVE IInv'
  <2>1. CASE Start(j) \/ Finish(j)
    BY <2>1, ThreadHolds
  <2>2. CASE CollectHook(j) \/ CollectFetch(j) \/ JoinBackground(j)
    BY <2>2, CollectHolds
  <2>3. CASE CollectFetchError(j) \/ JoinRaises(j) \/ Finalize(j)
    BY <2>3, RaiseHolds
  <2>4. CASE Cancel(j)
    BY <2>4, CancelHolds
  <2> QED BY <1>1, <2>1, <2>2, <2>3, <2>4 DEF JobStep
<1>2. CASE Submit \/ BeginFetch
  BY <1>2, QueueHolds
<1>3. CASE CancelsDone \/ LeavePool \/ Shutdown
  BY <1>3, LeaveHolds
<1>4. CASE EndFetch \/ NothingToPlan \/ BeginFinalize \/ EndPlan
  BY <1>4, StageHolds
<1>5. CASE UNCHANGED vars
  BY <1>5, StutterHolds
<1> QED BY <1>1, <1>2, <1>3, <1>4, <1>5 DEF Next

LEMMA Invariance == Spec => []IInv
  BY InitHolds, Inductive, PTL DEF Spec

-----------------------------------------------------------------------------
(* What planning a scope promises.                                          *)

(* The state stays well typed: nothing is kept, listed as failed, defaulted *)
(* or finalized that is not a job of its kind.                              *)
THEOREM TypeCorrect == Spec => []TypeOK
<1>1. IInv => TypeOK
  BY DEF IInv
<1> QED BY Invariance, <1>1, PTL

(* For any number of phases and workers, and in whatever order the answers  *)
(* come: once fetch_parallel has returned, the phases it kept are those     *)
(* that were read and the ones it lists as failed those that were not.      *)
THEOREM FetchesAccounted == Spec => []FetchIsAccounted
<1>1. IInv => FetchIsAccounted
  <2> SUFFICES ASSUME IInv, pc \in {"joining", "finalizing"} \/ outcome = "plan"
               PROVE  /\ results = {j \in Fetches : st[j] = "ok"}
                      /\ failed = {j \in Fetches : st[j] = "error"}
                      /\ \A j \in Fetches : st[j] \in {"ok", "void", "error"}
    BY DEF FetchIsAccounted
  <2>1. Fetches \subseteq seen
    BY DEF IInv, BehindInv, PlanInv
  <2> QED BY <2>1 DEF IInv, CollectedInv
<1> QED BY Invariance, <1>1, PTL

(* For any number of extensions and background fetches: a scope is given a  *)
(* plan only when every extension has fetched and added its part and no job *)
(* met an auth or unexpected error or is late.                              *)
THEOREM PlansComplete == Spec => []PlanIsComplete
<1>1. IInv => PlanIsComplete
  <2> SUFFICES ASSUME IInv, outcome = "plan"
               PROVE  /\ finalized = Hooks /\ \A j \in Hooks : st[j] = "ok"
                      /\ \A j \in Jobs : st[j] \in {"ok", "void", "error"}
                      /\ defaulted = {j \in background : st[j] = "error"}
    BY DEF PlanIsComplete
  <2>1. Hooks \subseteq seen /\ Fetches \subseteq seen /\ background \subseteq seen
        /\ finalized = Hooks
    BY DEF IInv, PlanInv
  <2> QED BY <2>1 DEF IInv, CollectedInv, Jobs
<1> QED BY Invariance, <1>1, PTL

(* For any pools: once planning the scope is over no prefetch and no phase  *)
(* fetch of it waits or runs, and a background one only if a prefetch       *)
(* raised.                                                                  *)
THEOREM QuietWhenReturned == Spec => []QuietAfterReturn
<1>1. IInv => QuietAfterReturn
  BY DEF IInv, LeavingInv, QuietAfterReturn
<1> QED BY Invariance, <1>1, PTL
=============================================================================
