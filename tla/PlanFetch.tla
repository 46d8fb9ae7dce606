----------------------------- MODULE PlanFetch -----------------------------
(***************************************************************************)
(* Planning one scope (_plan_single_zone, _plan_account) fetches on three  *)
(* pools: lists and custom rulesets in the background, the prefetch of     *)
(* every extension (call_plan_zone_prefetch), then the phases (the         *)
(* provider's get_all_phase_rules, built on fetch_parallel).  The caller   *)
(* collects, gives up on late answers, lets the extensions finalize their  *)
(* plans and shuts the background pool down.  What is planned from the     *)
(* data is ZonePhases and AccountSync; here it is who has fetched what.    *)
(***************************************************************************)
EXTENDS Integers, FiniteSets

CONSTANTS
  Hooks,             \* the applicable extensions, numbered in order
  Fetches,           \* the phases to fetch, numbered in submission order
  Backgrounds,       \* the sets of background fetches a scope may need
  WorkerLimits       \* the values of max_workers to consider

ASSUME FetchAssumption ==
  /\ IsFiniteSet(Hooks) /\ IsFiniteSet(Fetches)
  /\ Hooks \subseteq Nat /\ Fetches \subseteq Nat
  /\ \A back \in Backgrounds : IsFiniteSet(back) /\ back \subseteq Nat
  /\ Hooks \cap Fetches = {}
  /\ \A back \in Backgrounds : back \cap (Hooks \cup Fetches) = {}
  /\ WorkerLimits \subseteq Nat \ {0}

VARIABLES
  account,      \* whether the scope is an account
  background,   \* the background fetches it needs, in the order of joining
  workers,      \* max_workers of the phase fetch
  st,           \* what has become of each job
  seen,         \* the jobs whose result was collected
  results,      \* the phases in the result of fetch_parallel
  failed,       \* failed_phases
  defaulted,    \* the background fetches replaced by an empty default
  finalized,    \* the extensions that have added their plans
  uncancelled,  \* the jobs a cancel loop has not reached
  outcome,      \* what planning the scope gives
  pc            \* what the caller is doing

vars == <<account, background, workers, st, seen, results, failed, defaulted, finalized,
          uncancelled, outcome, pc>>
options == <<account, background, workers>>

Jobs == Hooks \cup Fetches \cup background
Over == {"ok", "void", "error", "auth", "crash"}
Under == {"queued", "running"}

TypeOK ==
  /\ account \in BOOLEAN
  /\ background \in Backgrounds
  /\ workers \in WorkerLimits
  /\ st \in [Jobs -> {"none", "cancelled"} \cup Under \cup Over]
  /\ seen \subseteq Jobs
  /\ results \subseteq Fetches /\ failed \subseteq Fetches
  /\ defaulted \subseteq background
  /\ finalized \subseteq Hooks
  /\ uncancelled \subseteq Hooks \cup Fetches
  /\ outcome \in {"open", "plan", "none", "raised"}
  /\ pc \in {"start", "prefetching", "fetching", "cancelling", "leaving", "joining",
             "finalizing", "shutdown", "returned"}

Init ==
  /\ account \in BOOLEAN
  /\ background \in Backgrounds
  /\ background # {} => account
  /\ workers \in WorkerLimits
  /\ st = [j \in Jobs |-> "none"]
  /\ seen = {} /\ results = {} /\ failed = {} /\ defaulted = {} /\ finalized = {}
  /\ uncancelled = {}
  /\ outcome = "open"
  /\ pc = "start"

-----------------------------------------------------------------------------
(* The threads. *)

Pool(j) == CHOOSE pool \in {Hooks, Fetches, background} : j \in pool
Limit(j) == IF j \in Fetches THEN workers ELSE Cardinality(Pool(j))

(* A free thread takes the first job of its pool's queue. *)
Start(j) ==
  /\ st[j] = "queued"
  /\ \A k \in Pool(j) : k < j => st[k] # "queued"
  /\ Cardinality({k \in Pool(j) : st[k] = "running"}) < Limit(j)
  /\ st' = [st EXCEPT ![j] = "running"]
  /\ UNCHANGED <<options, seen, results, failed, defaulted, finalized, uncancelled, outcome, pc>>

(* A job returns (a phase may answer with nothing to keep: result_fn gives  *)
(* None), or raises a ProviderError or TimeoutError, a ProviderAuthError,   *)
(* or anything else.  Of an extension's prefetch any exception is the same. *)
Finish(j) ==
  /\ st[j] = "running"
  /\ \E end \in Over :
       /\ end = "void" => j \in Fetches
       /\ j \in Hooks => end \in {"ok", "crash"}
       /\ st' = [st EXCEPT ![j] = end]
  /\ UNCHANGED <<options, seen, results, failed, defaulted, finalized, uncancelled, outcome, pc>>

-----------------------------------------------------------------------------
(* The caller. *)

(* A ProviderError of an extension fails a zone (_plan_single_zone_safe),   *)
(* but is raised out of _plan_account, as are all other exceptions.         *)
HookFailure == IF account THEN {"raised"} ELSE {"raised", "none"}

Queue(jobs) == st' = [j \in Jobs |-> IF j \in jobs THEN "queued" ELSE st[j]]

(* Background fetches and prefetches are submitted. *)
Submit ==
  /\ pc = "start"
  /\ Queue(background \cup Hooks)
  /\ pc' = "prefetching"
  /\ UNCHANGED <<options, seen, results, failed, defaulted, finalized, uncancelled, outcome>>

(* The first prefetch that raises cancels the others; its exception is      *)
(* raised once the pool is empty.                                           *)
CollectHook(j) ==
  /\ pc = "prefetching" /\ j \in Hooks \ seen
  /\ \/ /\ st[j] = "ok"
        /\ seen' = seen \cup {j}
        /\ UNCHANGED <<uncancelled, outcome, pc>>
     \/ /\ st[j] = "crash"
        /\ uncancelled' = Hooks
        /\ outcome' \in HookFailure
        /\ pc' = "cancelling"
        /\ UNCHANGED seen
  /\ UNCHANGED <<options, st, results, failed, defaulted, finalized>>

(* get_all_phase_rules: every prefetch is in, the phases are submitted; or  *)
(* the provider fails before that.                                          *)
BeginFetch ==
  /\ pc = "prefetching" /\ Hooks \subseteq seen
  /\ \/ Queue(Fetches) /\ pc' = "fetching" /\ UNCHANGED outcome
     \/ outcome' \in {"none", "raised"} /\ pc' = "shutdown" /\ UNCHANGED st
  /\ UNCHANGED <<options, seen, results, failed, defaulted, finalized, uncancelled>>

(* A faulty variant: a phase that failed is neither kept nor listed. *)
CollectFetchForgetting(j) ==
  /\ pc = "fetching" /\ j \in Fetches \ seen
  /\ st[j] \in {"ok", "void", "error"}
  /\ seen' = seen \cup {j}
  /\ results' = IF st[j] = "ok" THEN results \cup {j} ELSE results
  /\ UNCHANGED <<options, st, failed, defaulted, finalized, uncancelled, outcome, pc>>

(* fetch_parallel collects in any order; a transient error lists the phase  *)
(* among the failed ones.                                                   *)
CollectFetch(j) ==
  /\ pc = "fetching" /\ j \in Fetches \ seen
  /\ st[j] \in {"ok", "void", "error"}
  /\ seen' = seen \cup {j}
  /\ results' = IF st[j] = "ok" THEN results \cup {j} ELSE results
  /\ failed' = IF st[j] = "error" THEN failed \cup {j} ELSE failed
  /\ UNCHANGED <<options, st, defaulted, finalized, uncancelled, outcome, pc>>

(* An auth error cancels the phases that wait and is raised; anything else  *)
(* is raised with the queue left to run.                                    *)
CollectFetchError(j) ==
  /\ pc = "fetching" /\ j \in Fetches \ seen
  /\ st[j] \in {"auth", "crash"}
  /\ outcome' = "raised"
  /\ pc' = IF st[j] = "auth" THEN "cancelling" ELSE "leaving"
  /\ uncancelled' = IF st[j] = "auth" THEN Fetches ELSE {}
  /\ UNCHANGED <<options, st, seen, results, failed, defaulted, finalized>>

(* future.cancel() in submission order: a job that runs goes on. *)
Cancel(j) ==
  /\ pc = "cancelling"
  /\ j \in uncancelled /\ \A k \in uncancelled : j <= k
  /\ st' = IF st[j] = "queued" THEN [st EXCEPT ![j] = "cancelled"] ELSE st
  /\ uncancelled' = uncancelled \ {j}
  /\ UNCHANGED <<options, seen, results, failed, defaulted, finalized, outcome, pc>>

CancelsDone ==
  /\ pc = "cancelling" /\ uncancelled = {}
  /\ pc' = "leaving"
  /\ UNCHANGED <<options, st, seen, results, failed, defaulted, finalized, uncancelled, outcome>>

Idle(jobs) == \A j \in jobs : st[j] \notin Under

(* Faulty variants: the pool is left without waiting for it, ... *)
LeavePoolAtOnce ==
  /\ pc = "leaving"
  /\ pc' = IF \A j \in Fetches : st[j] = "none" THEN "returned" ELSE "shutdown"
  /\ UNCHANGED <<options, st, seen, results, failed, defaulted, finalized, uncancelled, outcome>>

(* ... or jobs that were cancelled are waited for as well. *)
LeavePoolWhenRun ==
  /\ pc = "leaving"
  /\ \A j \in Hooks \cup Fetches : st[j] \in Over \cup {"none"}
  /\ pc' = IF \A j \in Fetches : st[j] = "none" THEN "returned" ELSE "shutdown"
  /\ UNCHANGED <<options, st, seen, results, failed, defaulted, finalized, uncancelled, outcome>>

(* Leaving the with block waits for its pool.  The prefetch stands before   *)
(* the try that shuts the background pool down, the phase fetch within it.  *)
LeavePool ==
  /\ pc = "leaving"
  /\ Idle(Hooks \cup Fetches)
  /\ pc' = IF \A j \in Fetches : st[j] = "none" THEN "returned" ELSE "shutdown"
  /\ UNCHANGED <<options, st, seen, results, failed, defaulted, finalized, uncancelled, outcome>>

EndFetch ==
  /\ pc = "fetching" /\ Fetches \subseteq seen
  /\ pc' = "joining"
  /\ UNCHANGED <<options, st, seen, results, failed, defaulted, finalized, uncancelled, outcome>>

(* _plan_account: nothing declared and no live rule; what is fetched in the *)
(* background is not looked at.                                             *)
NothingToPlan ==
  /\ pc = "joining" /\ account /\ results = {}
  /\ seen \cap background = {}
  /\ outcome' = "none"
  /\ pc' = "shutdown"
  /\ UNCHANGED <<options, st, seen, results, failed, defaulted, finalized, uncancelled>>

(* A faulty variant: an auth error is answered with the default as well. *)
JoinWhateverCame(j) ==
  /\ pc = "joining"
  /\ j \in background \ seen /\ \A k \in background \ seen : j <= k
  /\ st[j] \in Over
  /\ seen' = seen \cup {j}
  /\ defaulted' = IF st[j] = "ok" THEN defaulted ELSE defaulted \cup {j}
  /\ UNCHANGED <<options, st, results, failed, finalized, uncancelled, outcome, pc>>

(* _future_result_or_default: the answer, or the default after a            *)
(* ProviderError.                                                           *)
JoinBackground(j) ==
  /\ pc = "joining"
  /\ j \in background \ seen /\ \A k \in background \ seen : j <= k
  /\ st[j] \in {"ok", "error"}
  /\ seen' = seen \cup {j}
  /\ defaulted' = IF st[j] = "error" THEN defaulted \cup {j} ELSE defaulted
  /\ UNCHANGED <<options, st, results, failed, finalized, uncancelled, outcome, pc>>

(* ... any other exception is raised, as is TimeoutError when the answer is *)
(* late.                                                                    *)
JoinRaises(j) ==
  /\ pc = "joining"
  /\ j \in background \ seen /\ \A k \in background \ seen : j <= k
  /\ st[j] \in {"auth", "crash"} \cup Under
  /\ outcome' = "raised"
  /\ pc' = "shutdown"
  /\ UNCHANGED <<options, st, seen, results, failed, defaulted, finalized, uncancelled>>

BeginFinalize ==
  /\ pc = "joining" /\ background \subseteq seen
  /\ pc' = "finalizing"
  /\ UNCHANGED <<options, st, seen, results, failed, defaulted, finalized, uncancelled, outcome>>

(* call_plan_zone_finalize, in the order of the extensions. *)
Finalize(j) ==
  /\ pc = "finalizing"
  /\ j \in Hooks \ finalized /\ \A k \in Hooks \ finalized : j <= k
  /\ \/ finalized' = finalized \cup {j} /\ UNCHANGED <<outcome, pc>>
     \/ outcome' \in HookFailure /\ pc' = "shutdown" /\ UNCHANGED finalized
  /\ UNCHANGED <<options, st, seen, results, failed, defaulted, uncancelled>>

EndPlan ==
  /\ pc = "finalizing" /\ finalized = Hooks
  /\ outcome' = "plan"
  /\ pc' = "shutdown"
  /\ UNCHANGED <<options, st, seen, results, failed, defaulted, finalized, uncancelled>>

(* bg.shutdown(wait=True), also for answers that were too late. *)
Shutdown ==
  /\ pc = "shutdown"
  /\ Idle(background)
  /\ pc' = "returned"
  /\ UNCHANGED <<options, st, seen, results, failed, defaulted, finalized, uncancelled, outcome>>

JobStep(j) ==
  \/ Start(j) \/ Finish(j)
  \/ CollectHook(j) \/ CollectFetch(j) \/ CollectFetchError(j) \/ Cancel(j)
  \/ JoinBackground(j) \/ JoinRaises(j) \/ Finalize(j)

Next ==
  \/ \E j \in Jobs : JobStep(j)
  \/ Submit \/ BeginFetch \/ CancelsDone \/ LeavePool \/ EndFetch
  \/ NothingToPlan \/ BeginFinalize \/ EndPlan \/ Shutdown

(* Threads are scheduled and every provider call returns. *)
Spec == Init /\ [][Next]_vars /\ WF_vars(Next)

-----------------------------------------------------------------------------
(* Properties. *)

(* Once fetch_parallel has returned, the phases it kept are those that were *)
(* read and the ones listed as failed those that were not: in whatever      *)
(* order the answers came, no failure can be taken for an empty phase.      *)
FetchIsAccounted ==
  pc \in {"joining", "finalizing"} \/ outcome = "plan" =>
    /\ results = {j \in Fetches : st[j] = "ok"}
    /\ failed = {j \in Fetches : st[j] = "error"}
    /\ \A j \in Fetches : st[j] \in {"ok", "void", "error"}

(* A plan is made only when every extension has fetched and added its part, *)
(* no job met an auth or unexpected error and none is late; a default       *)
(* stands for exactly the background fetches that failed.                   *)
PlanIsComplete ==
  outcome = "plan" =>
    /\ finalized = Hooks /\ \A j \in Hooks : st[j] = "ok"
    /\ \A j \in Jobs : st[j] \in {"ok", "void", "error"}
    /\ defaulted = {j \in background : st[j] = "error"}

(* When planning the scope is over, so are its fetches; only the background *)
(* ones may go on, and only if a prefetch raised.                           *)
QuietAfterReturn ==
  pc = "returned" =>
    /\ Idle(Hooks \cup Fetches)
    /\ Idle(background) \/ \E j \in Hooks : st[j] = "crash"

(* Planning a scope ends, if all its calls do. *)
Terminates == <>(pc = "returned")
=============================================================================
