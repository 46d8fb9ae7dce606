------------------------------ MODULE TaskPool ------------------------------
(***************************************************************************)
(* _run_staged_tasks and apply_parallel: the calls of a plan are applied   *)
(* stage by stage, those of one stage by a pool of worker threads (or one  *)
(* after the other by the caller) while the caller collects the results.   *)
(* A provider error is recorded and stops the later stages; an auth error  *)
(* cancels the calls that wait and is raised; any other exception is       *)
(* raised and leaves the calls that wait to the pool.                      *)
(***************************************************************************)
EXTENDS Integers, FiniteSets

CONSTANTS
  N,            \* the calls of the plan are 1..N, in submission order
  Stages,       \* the stages are 1..Stages
  StageOf,      \* [1..N -> 1..Stages]
  Collected,    \* the stages whose successes are reported
  WorkerLimits  \* the values of provider.max_workers to consider

ASSUME PoolAssumption ==
  /\ N \in Nat
  /\ Stages \in Nat \ {0}
  /\ StageOf \in [1..N -> 1..Stages]
  /\ Collected \subseteq 1..Stages
  /\ WorkerLimits \subseteq Nat

Tasks == 1..N
NoTask == 0

VARIABLES
  workers,      \* provider.max_workers
  stage,        \* the stage being applied
  st,           \* what has become of each call
  seen,         \* the calls of this stage whose result was collected
  successes,    \* of those, the ones that succeeded
  failure,      \* the call whose error was collected first
  raised,       \* the exception under way
  uncancelled,  \* the calls the cancel loop has not reached
  synced,       \* the successes of the stages done
  pc            \* what the caller is doing

vars == <<workers, stage, st, seen, successes, failure, raised, uncancelled, synced, pc>>
pool == <<workers, stage, seen, successes, failure, raised, uncancelled, synced, pc>>

Outcomes == {"ok", "silent", "error", "auth", "crash"}
States == {"pending", "running", "cancelled"} \cup Outcomes

(* "if error:" - a call whose error has no message is taken for a success. *)
Taken == {"ok", "silent"}

TypeOK ==
  /\ workers \in Nat
  /\ stage \in 1..Stages
  /\ st \in [Tasks -> States]
  /\ seen \subseteq Tasks
  /\ successes \subseteq Tasks
  /\ failure \in Tasks \cup {NoTask}
  /\ raised \in {"none", "auth", "crash"}
  /\ uncancelled \subseteq Tasks
  /\ synced \subseteq Tasks
  /\ pc \in {"collecting", "cancelling", "joining", "done"}

Batch == {t \in Tasks : StageOf[t] = stage}

(* The fast path: one worker, or nothing to run in parallel. *)
Sequential == workers <= 1 \/ \A t, u \in Batch : t = u

Init ==
  /\ workers \in WorkerLimits
  /\ stage = 1
  /\ st = [t \in Tasks |-> "pending"]
  /\ seen = {} /\ successes = {} /\ synced = {}
  /\ failure = NoTask
  /\ raised = "none"
  /\ uncancelled = {}
  /\ pc = "collecting"

-----------------------------------------------------------------------------
(* The caller makes the next call itself; the first error ends the stage. *)
Call(t) ==
  /\ pc = "collecting" /\ Sequential
  /\ t \in Batch /\ st[t] = "pending"
  /\ failure = NoTask
  /\ \A u \in Batch : u < t => u \in seen
  /\ st' = [st EXCEPT ![t] = "running"]
  /\ UNCHANGED pool

(* A faulty variant: the calls of all the stages are submitted at once. *)
StartOfAnyStage(t) ==
  /\ pc # "done" /\ ~Sequential
  /\ st[t] = "pending"
  /\ \A u \in Tasks : u < t => st[u] # "pending"
  /\ Cardinality({u \in Tasks : st[u] = "running"}) < workers
  /\ st' = [st EXCEPT ![t] = "running"]
  /\ UNCHANGED pool

(* A free worker takes the first call that waits; the pool works on while   *)
(* the caller collects, cancels and joins.                                  *)
Start(t) ==
  /\ pc # "done" /\ ~Sequential
  /\ t \in Batch /\ st[t] = "pending"
  /\ \A u \in Batch : u < t => st[u] # "pending"
  /\ Cardinality({u \in Batch : st[u] = "running"}) < workers
  /\ st' = [st EXCEPT ![t] = "running"]
  /\ UNCHANGED pool

(* The call returns, or raises a ProviderError or TimeoutError (without or  *)
(* with a message), a ProviderAuthError, or anything else.                  *)
Finish(t) ==
  /\ st[t] = "running"
  /\ \E outcome \in Outcomes : st' = [st EXCEPT ![t] = outcome]
  /\ UNCHANGED pool

(* A faulty variant: successes that arrive after an error are not kept. *)
CollectOkUntilError(t) ==
  /\ pc = "collecting"
  /\ t \in Batch \ seen /\ st[t] \in Taken
  /\ seen' = seen \cup {t}
  /\ successes' = IF failure = NoTask THEN successes \cup {t} ELSE successes
  /\ UNCHANGED <<workers, stage, st, failure, raised, uncancelled, synced, pc>>

(* The caller collects a result, in no particular order. *)
CollectOk(t) ==
  /\ pc = "collecting"
  /\ t \in Batch \ seen /\ st[t] \in Taken
  /\ seen' = seen \cup {t}
  /\ successes' = successes \cup {t}
  /\ UNCHANGED <<workers, stage, st, failure, raised, uncancelled, synced, pc>>

CollectError(t) ==
  /\ pc = "collecting"
  /\ t \in Batch \ seen /\ st[t] = "error"
  /\ seen' = seen \cup {t}
  /\ failure' = IF failure = NoTask THEN t ELSE failure
  /\ UNCHANGED <<workers, stage, st, successes, raised, uncancelled, synced, pc>>

CollectAuth(t) ==
  /\ pc = "collecting"
  /\ t \in Batch \ seen /\ st[t] = "auth"
  /\ raised' = "auth"
  /\ pc' = IF Sequential THEN "done" ELSE "cancelling"
  /\ uncancelled' = IF Sequential THEN {} ELSE Batch
  /\ UNCHANGED <<workers, stage, st, seen, successes, failure, synced>>

(* A faulty variant: an unexpected exception is swallowed. *)
CollectCrashSilently(t) ==
  /\ pc = "collecting"
  /\ t \in Batch \ seen /\ st[t] = "crash"
  /\ seen' = seen \cup {t}
  /\ UNCHANGED <<workers, stage, st, successes, failure, raised, uncancelled, synced, pc>>

CollectCrash(t) ==
  /\ pc = "collecting"
  /\ t \in Batch \ seen /\ st[t] = "crash"
  /\ raised' = "crash"
  /\ pc' = IF Sequential THEN "done" ELSE "joining"
  /\ UNCHANGED <<workers, stage, st, seen, successes, failure, uncancelled, synced>>

(* A faulty variant: the cancel loop stops after one call. *)
CancelOne(t) ==
  /\ pc = "cancelling"
  /\ t \in uncancelled
  /\ \A u \in uncancelled : t <= u
  /\ st' = IF st[t] = "pending" THEN [st EXCEPT ![t] = "cancelled"] ELSE st
  /\ uncancelled' = {}
  /\ UNCHANGED <<workers, stage, seen, successes, failure, raised, synced, pc>>

(* future.cancel() in submission order: a call that runs goes on. *)
Cancel(t) ==
  /\ pc = "cancelling"
  /\ t \in uncancelled
  /\ \A u \in uncancelled : t <= u
  /\ st' = IF st[t] = "pending" THEN [st EXCEPT ![t] = "cancelled"] ELSE st
  /\ uncancelled' = uncancelled \ {t}
  /\ UNCHANGED <<workers, stage, seen, successes, failure, raised, synced, pc>>

CancelsDone ==
  /\ pc = "cancelling" /\ uncancelled = {}
  /\ pc' = "joining"
  /\ UNCHANGED <<workers, stage, st, seen, successes, failure, raised, uncancelled, synced>>

(* A faulty variant: calls that were cancelled are waited for as well. *)
JoinCancelled ==
  /\ pc = "joining"
  /\ \A t \in Batch : st[t] \in Outcomes
  /\ pc' = "done"
  /\ UNCHANGED <<workers, stage, st, seen, successes, failure, raised, uncancelled, synced>>

(* Leaving the executor's with block waits for the whole queue. *)
Join ==
  /\ pc = "joining"
  /\ \A t \in Batch : st[t] \notin {"pending", "running"}
  /\ pc' = "done"
  /\ UNCHANGED <<workers, stage, st, seen, successes, failure, raised, uncancelled, synced>>

(* apply_parallel returns; an error ends the run, else the next stage is on. *)
EndStage ==
  /\ pc = "collecting"
  /\ seen = Batch \/ (Sequential /\ failure # NoTask)
  /\ synced' = IF stage \in Collected THEN synced \cup successes ELSE synced
  /\ IF failure # NoTask \/ stage = Stages
       THEN pc' = "done" /\ UNCHANGED <<stage, seen, successes>>
       ELSE /\ stage' = stage + 1
            /\ seen' = {} /\ successes' = {}
            /\ UNCHANGED pc
  /\ UNCHANGED <<workers, st, failure, raised, uncancelled>>

TaskStep(t) ==
  \/ Call(t) \/ Start(t) \/ Finish(t)
  \/ CollectOk(t) \/ CollectError(t) \/ CollectAuth(t) \/ CollectCrash(t)
  \/ Cancel(t)

Next == (\E t \in Tasks : TaskStep(t)) \/ CancelsDone \/ Join \/ EndStage

(* Threads are scheduled and every provider call returns or times out. *)
Spec == Init /\ [][Next]_vars /\ WF_vars(Next)

-----------------------------------------------------------------------------
(* Properties. *)

(* A call is made only when every call of the earlier stages was taken for  *)
(* a success: no item write before its list's create, no delete before the  *)
(* updates.                                                                 *)
StageOrder ==
  \A t, u \in Tasks :
    (StageOf[u] < StageOf[t] /\ st[t] \notin {"pending", "cancelled"}) => st[u] \in Taken

(* When a list of synced labels is returned, it holds exactly the calls of  *)
(* the collected stages taken for a success: none lost, though results      *)
(* arrive in any order and some after the first error.                      *)
TruthfulReport ==
  (pc = "done" /\ raised = "none") =>
    synced = {t \in Tasks : st[t] \in Taken /\ StageOf[t] \in Collected}

(* Success is reported if and only if every call of every stage was taken   *)
(* for one (which an error without a text also is), and an auth or          *)
(* unexpected error of any call always reaches the caller.                  *)
TruthfulVerdict ==
  pc = "done" =>
    /\ (raised = "none" /\ failure = NoTask) <=> \A t \in Tasks : st[t] \in Taken
    /\ (\E t \in Tasks : st[t] \in {"auth", "crash"}) => raised # "none"

(* In the sequential path nothing is called after the first failure. *)
FailFast ==
  \A t, u \in Tasks :
    (Sequential /\ StageOf[t] = stage /\ StageOf[u] = stage /\ t < u
       /\ st[t] \notin Taken)
      => st[u] = "pending"

(* Once apply_parallel has returned or raised, no worker is still calling   *)
(* the provider behind the caller's back.                                   *)
NothingAfterReturn == [][pc = "done" => UNCHANGED st]_vars

(* Once the cancel loop is through, no call starts any more. *)
CancelIsFinal ==
  [][(pc = "joining" /\ raised = "auth") =>
       \A t \in Tasks : st[t] # "running" => st'[t] # "running"]_vars

(* Every plan comes to a verdict. *)
Terminates == <>(pc = "done")

(* The pool implements the contract of StageContract. *)
Effect(t) ==
  CASE st[t] \in Taken -> "ok"
    [] st[t] \in {"error", "auth", "crash"} -> "failed"
    [] OTHER -> "none"
Verdict ==
  CASE pc # "done" -> "open"
    [] pc = "done" /\ raised # "none" -> "raised"
    [] pc = "done" /\ raised = "none" /\ failure # NoTask -> "error"
    [] OTHER -> "ok"
Contract == INSTANCE StageContract WITH
  effect <- [t \in Tasks |-> Effect(t)],
  verdict <- Verdict,
  report <- IF Verdict \in {"ok", "error"} THEN synced ELSE {}
KeepsContract == Contract!Spec
=============================================================================
