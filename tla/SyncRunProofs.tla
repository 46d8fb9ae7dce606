--------------------------- MODULE SyncRunProofs ---------------------------
(***************************************************************************)
(* Proofs about SyncRun, for every number of zones and workers: no write   *)
(* passes a closed gate, exit code 0 and the audit log tell the truth, a   *)
(* failure is isolated, and no thread works on after the command.          *)
(***************************************************************************)
EXTENDS SyncRun, TLAPS

(* Before the apply step nothing has happened; while it runs, every scope   *)
(* to apply has been handed to the executor and nothing is decided.  All    *)
(* scopes are planned at once, and a threshold needs changes to be exceeded. *)
EarlyInv ==
  /\ over \subseteq Actionable
  /\ \A s, t \in Scopes : plan[s] = "unplanned" => plan[t] = "unplanned"
  /\ pc \in {"planning", "gates"} =>
       /\ \A s \in Scopes : st[s] = "idle" /\ wrote[s] = "nothing"
       /\ seen = {}
  /\ pc = "applying" => \A s \in ToApply : st[s] # "idle"
  /\ pc \in {"planning", "gates", "applying"} => exit = Undecided /\ audit = Unlogged

(* A scope that has left "idle" passed the gates, one that wrote was        *)
(* started, and one is written in full exactly when it ended well.          *)
ScopeInv ==
  \A s \in Scopes :
    /\ st[s] # "idle" => MayApply /\ s \in ToApply
    /\ wrote[s] # "nothing" => st[s] \notin {"idle", "queued"}
    /\ wrote[s] = "all" <=> st[s] = "ok"
    /\ s \in seen => st[s] \in {"ok", "unseen", "error"}

(* What was decided stays true of scopes that threads still apply.          *)
DecisionInv ==
  /\ exit = 0 => \A s \in ToApply : st[s] \in {"ok", "unseen"}
  /\ audit # Unlogged =>
       /\ DOMAIN audit = ToApply
       /\ \A s \in ToApply : st[s] \in {"ok", "unseen", "error"} /\ audit[s] = Status(s)

(* In the sequential path a scope starts after the earlier ones were        *)
(* collected, so that none is running when the caller leaves.               *)
SequentialInv ==
  Sequential =>
    /\ \A s \in Scopes : st[s] \notin {"idle", "queued"} =>
         \A t \in ToApply : t < s => t \in seen
    /\ pc \in {"leaving", "done"} => Running = {}

(* The caller leaves with scopes queued only after an exception, and is     *)
(* done when nobody is going to take them.                                  *)
LeavingInv ==
  /\ pc \in {"leaving", "done"} =>
       Queued = {} \/ \E s \in Scopes : st[s] \in {"auth", "crash"}
  /\ pc = "done" => Running = {} /\ (Sequential \/ Queued = {})

IInv == TypeOK /\ EarlyInv /\ ScopeInv /\ DecisionInv /\ SequentialInv /\ LeavingInv

LEMMA ScopesAreIntegers == Scopes \subseteq Int
  BY RunAssumption DEF Scopes, Zones, Account

LEMMA UndecidedIsNoCode == Undecided # 0
  BY DEF Undecided

LEMMA InitIInv == Init => IInv
  BY DEF Init, IInv, TypeOK, EarlyInv, ScopeInv, DecisionInv, SequentialInv, LeavingInv,
         Unlogged, Undecided, Queued, Running, ToApply, Actionable

(* Leaving before anything was handed to the executor.                      *)
LEMMA EarlyLeave ==
  ASSUME IInv, pc \in {"planning", "gates"}, NEW code \in {0, 1}, Leave(code),
         code = 0 => ToApply = {}
  PROVE  IInv'
<1> USE DEF IInv, Leave, options
<1>1. TypeOK'
  BY DEF TypeOK, ToApply, Actionable
<1>2. EarlyInv'
  BY DEF EarlyInv, Actionable
<1>3. ScopeInv'
  BY DEF EarlyInv, ScopeInv, TypeOK
<1>4. DecisionInv'
  BY DEF EarlyInv, DecisionInv, ToApply, Actionable, Undecided
<1>5. SequentialInv'
  BY DEF EarlyInv, SequentialInv, Sequential, Running
<1>6. LeavingInv'
  BY DEF EarlyInv, LeavingInv, Queued
<1> QED BY <1>1, <1>2, <1>3, <1>4, <1>5, <1>6

(* Leaving the apply step, by an exception or with the results complete.    *)
LEMMA LateLeave ==
  ASSUME IInv, pc = "applying", pc' = "leaving", exit' \in {0, 1},
         UNCHANGED <<options, plan, over, st, wrote, seen>>,
         exit' = 0 => \A s \in ToApply : st[s] \in {"ok", "unseen"},
         audit' # Unlogged => seen = ToApply /\ audit' = [s \in ToApply |-> Status(s)],
         seen = ToApply \/ \E s \in ToApply : st[s] \in {"auth", "crash"}
  PROVE  IInv'
<1> USE DEF IInv, options
<1>a. Actionable' = Actionable /\ ToApply' = ToApply /\ MayApply' = MayApply /\ ToApply \subseteq Scopes
  BY DEF ToApply, Actionable, MayApply, Unsafe, FailedZones
<1>b. audit' # Unlogged => \A s \in ToApply : st[s] \in {"ok", "unseen", "error"}
  BY <1>a DEF ScopeInv
<1>1. TypeOK'
  <2>1. audit' = Unlogged \/ (/\ DOMAIN audit' = ToApply
                              /\ \A s \in ToApply : audit'[s] \in {"ok", "error"})
    BY DEF Status
  <2>2. exit' \in {Undecided, 0, 1} /\ pc' \in {"planning", "gates", "applying", "leaving", "done"}
    OBVIOUS
  <2> QED BY <1>a, <2>1, <2>2 DEF TypeOK
<1>2. EarlyInv'
  BY DEF EarlyInv, Actionable
<1>3. ScopeInv'
  BY <1>a DEF ScopeInv
<1>4. DecisionInv'
  BY <1>a, <1>b DEF DecisionInv, ScopeInv, Status
<1>5. SequentialInv'
  <2>1. SUFFICES ASSUME Sequential, NEW s \in Scopes, st[s] = "running" PROVE FALSE
    BY <1>a DEF SequentialInv, Sequential, Running
  <2>2. s \in ToApply /\ s \notin seen
    BY <2>1 DEF ScopeInv
  <2>3. PICK t \in ToApply : st[t] \in {"auth", "crash"}
    BY <2>2
  <2>4. t \notin seen /\ t # s
    BY <2>1, <2>3, <1>a DEF ScopeInv
  <2>5. t < s \/ s < t
    BY <2>4, <1>a, ScopesAreIntegers
  <2> QED BY <2>1, <2>2, <2>3, <2>4, <2>5, <1>a DEF SequentialInv
<1>6. LeavingInv'
  <2>1. seen = ToApply => Queued = {}
    BY <1>a DEF ScopeInv, Queued
  <2> QED BY <2>1, <1>a DEF LeavingInv, Queued
<1> QED BY <1>1, <1>2, <1>3, <1>4, <1>5, <1>6

(* A thread takes a scope.                                                   *)
LEMMA StartStep ==
  ASSUME IInv, NEW s \in Scopes, Start(s)
  PROVE  IInv'
<1> USE DEF IInv, Start, options
<1>a. Actionable' = Actionable /\ ToApply' = ToApply /\ MayApply' = MayApply /\ ToApply \subseteq Scopes
  BY DEF ToApply, Actionable, MayApply, Unsafe, FailedZones
<1>b. st[s] = "queued" /\ s \in ToApply
  BY DEF Queued, ScopeInv
<1>c. pc # "planning" /\ pc # "gates"
  BY <1>b DEF EarlyInv
<1>1. TypeOK'
  BY <1>a DEF TypeOK
<1>2. EarlyInv'
  BY <1>a, <1>b, <1>c DEF EarlyInv, TypeOK
<1>3. ScopeInv'
  BY <1>a, <1>b DEF ScopeInv, TypeOK
<1>4. DecisionInv'
  BY <1>a, <1>b DEF DecisionInv, TypeOK, Status
<1>5. SequentialInv'
  BY <1>a, <1>b DEF SequentialInv, Sequential, TypeOK, Running
<1>6. LeavingInv'
  BY <1>a, <1>b DEF LeavingInv, TypeOK, Queued, Running, Sequential
<1> QED BY <1>1, <1>2, <1>3, <1>4, <1>5, <1>6

(* A call of a scope reaches the provider.                                   *)
LEMMA WriteStep ==
  ASSUME IInv, NEW s \in Scopes, Write(s)
  PROVE  IInv'
<1> USE DEF IInv, Write, options
<1>a. Actionable' = Actionable /\ ToApply' = ToApply /\ MayApply' = MayApply
  BY DEF ToApply, Actionable, MayApply, Unsafe, FailedZones
<1>1. TypeOK'
  BY <1>a DEF TypeOK
<1>2. EarlyInv'
  BY <1>a DEF EarlyInv, TypeOK
<1>3. ScopeInv'
  BY <1>a DEF ScopeInv, TypeOK
<1>4. DecisionInv'
  BY <1>a DEF DecisionInv, TypeOK, ToApply, Actionable, Status
<1>5. SequentialInv'
  BY <1>a DEF SequentialInv, Sequential, Running
<1>6. LeavingInv'
  BY <1>a DEF LeavingInv, Queued, Running, Sequential
<1> QED BY <1>1, <1>2, <1>3, <1>4, <1>5, <1>6

(* A scope ends.                                                             *)
LEMMA FinishStep ==
  ASSUME IInv, NEW s \in Scopes, Finish(s)
  PROVE  IInv'
<1> USE DEF IInv, options
<1>0. PICK outcome \in Outcomes :
        /\ outcome = "ok" => wrote[s] = "some"
        /\ st' = [st EXCEPT ![s] = outcome]
        /\ wrote' = IF outcome = "ok" THEN [wrote EXCEPT ![s] = "all"] ELSE wrote
  BY DEF Finish
<1>a. Actionable' = Actionable /\ ToApply' = ToApply /\ MayApply' = MayApply /\ ToApply \subseteq Scopes
  BY DEF Finish, ToApply, Actionable, MayApply, Unsafe, FailedZones
<1>b. st[s] = "running" /\ UNCHANGED <<workers, force, checksum, logging, plan, over, seen, audit, exit, pc>>
  BY DEF Finish
<1>c. outcome \notin {"idle", "queued", "running"}
  BY DEF Outcomes
<1>1. TypeOK'
  BY <1>0, <1>a, <1>b DEF TypeOK
<1>2. EarlyInv'
  BY <1>0, <1>a, <1>b, <1>c DEF EarlyInv, TypeOK
<1>3. ScopeInv'
  BY <1>0, <1>a, <1>b, <1>c DEF ScopeInv, TypeOK
<1>4. DecisionInv'
  BY <1>0, <1>a, <1>b, <1>c DEF DecisionInv, TypeOK, Status
<1>5. SequentialInv'
  BY <1>0, <1>a, <1>b, <1>c DEF SequentialInv, Sequential, TypeOK, Running
<1>6. LeavingInv'
  BY <1>0, <1>a, <1>b, <1>c DEF LeavingInv, TypeOK, Queued, Running, Sequential
<1> QED BY <1>1, <1>2, <1>3, <1>4, <1>5, <1>6

(* Every step preserves the invariant.                                       *)
LEMMA NextIInv == IInv /\ [Next]_vars => IInv'
<1> SUFFICES ASSUME IInv, [Next]_vars PROVE IInv'
  OBVIOUS
<1>1. CASE PlanAll
  <2> USE <1>1 DEF PlanAll, options, IInv
  <2>1. TypeOK'
    <3>1. seen' = {} /\ audit' = Unlogged /\ over' \subseteq Scopes
      BY DEF EarlyInv, Actionable
    <3>2. plan' \in [Scopes -> {"unplanned", "changes", "no changes", "failed"}]
      OBVIOUS
    <3> QED BY <3>1, <3>2 DEF TypeOK
  <2>2. EarlyInv' /\ DecisionInv'
    <3>1. \A s \in Scopes : plan'[s] # "unplanned"
      OBVIOUS
    <3>2. over' \subseteq Actionable'
      BY DEF Actionable
    <3>3. exit' = Undecided /\ audit' = Unlogged
      BY DEF EarlyInv, Actionable
    <3>4. EarlyInv'
      BY <3>1, <3>2, <3>3 DEF EarlyInv
    <3>5. exit' # 0
      BY <3>3, UndecidedIsNoCode
    <3>6. DecisionInv'
      BY <3>3, <3>5 DEF DecisionInv
    <3> QED BY <3>4, <3>6
  <2>3. ScopeInv'
    BY DEF EarlyInv, ScopeInv
  <2>4. SequentialInv' /\ LeavingInv'
    BY DEF EarlyInv, SequentialInv, LeavingInv
  <2> QED BY <2>1, <2>2, <2>3, <2>4
<1>2. CASE PlanAuth
  BY <1>2, EarlyLeave DEF PlanAuth
<1>3. CASE Stop
  <2>1. PICK code \in {0, 1} : Leave(code) /\ (code = 0 => ToApply = {})
    BY <1>3 DEF Stop, ToApply
  <2> QED BY <1>3, <2>1, EarlyLeave DEF Stop
<1>4. CASE StartApply
  <2> USE <1>4 DEF StartApply, options, IInv
  <2>a. Actionable' = Actionable /\ ToApply' = ToApply /\ MayApply' = MayApply /\ ToApply \subseteq Scopes
    BY DEF ToApply, Actionable, MayApply, Unsafe, FailedZones
  <2>1. TypeOK'
    BY <2>a DEF TypeOK
  <2>2. EarlyInv' /\ DecisionInv'
    BY <2>a DEF EarlyInv, DecisionInv, Undecided
  <2>3. ScopeInv'
    BY <2>a DEF EarlyInv, ScopeInv
  <2>4. SequentialInv' /\ LeavingInv'
    BY <2>a DEF EarlyInv, SequentialInv, LeavingInv
  <2> QED BY <2>1, <2>2, <2>3, <2>4
<1>5. ASSUME NEW s \in Scopes, Start(s) PROVE IInv'
  BY <1>5, StartStep
<1>6. ASSUME NEW s \in Scopes, Write(s) PROVE IInv'
  BY <1>6, WriteStep
<1>7. ASSUME NEW s \in Scopes, Finish(s) PROVE IInv'
  BY <1>7, FinishStep
<1>8. ASSUME NEW s \in Scopes, Collect(s) PROVE IInv'
  <2> USE <1>8 DEF Collect, options, IInv
  <2>a. Actionable' = Actionable /\ ToApply' = ToApply /\ MayApply' = MayApply /\ ToApply \subseteq Scopes
    BY DEF ToApply, Actionable, MayApply, Unsafe, FailedZones
  <2>1. TypeOK'
    BY <2>a DEF TypeOK
  <2>2. EarlyInv' /\ DecisionInv'
    BY <2>a DEF EarlyInv, DecisionInv, Status
  <2>3. ScopeInv'
    BY <2>a DEF ScopeInv
  <2>4. SequentialInv' /\ LeavingInv'
    BY <2>a DEF SequentialInv, LeavingInv, Sequential, Running, Queued
  <2> QED BY <2>1, <2>2, <2>3, <2>4
<1>9. ASSUME NEW s \in Scopes, CollectException(s) PROVE IInv'
  BY <1>9, LateLeave DEF CollectException, Leave, IInv, EarlyInv
<1>10. CASE Report
  <2>1. seen = ToApply /\ \A s \in ToApply : st[s] \in {"ok", "unseen", "error"}
    BY <1>10 DEF Report, IInv, ScopeInv, ToApply, Actionable
  <2>2. audit' # Unlogged => audit' = [s \in ToApply |-> Status(s)]
    BY <1>10 DEF Report
  <2>3. exit' \in {0, 1} /\ (exit' = 0 => \A s \in ToApply : st[s] \in {"ok", "unseen"})
    BY <1>10, <2>1 DEF Report
  <2> QED BY <1>10, <2>1, <2>2, <2>3, LateLeave DEF Report
<1>11. CASE Shutdown
  <2> USE <1>11 DEF Shutdown, options, IInv
  <2>a. Actionable' = Actionable /\ ToApply' = ToApply /\ MayApply' = MayApply /\ ToApply \subseteq Scopes
    BY DEF ToApply, Actionable, MayApply, Unsafe, FailedZones
  <2>1. TypeOK'
    BY <2>a DEF TypeOK
  <2>2. EarlyInv' /\ DecisionInv'
    BY <2>a DEF EarlyInv, DecisionInv, Status
  <2>3. ScopeInv'
    BY <2>a DEF ScopeInv
  <2>4. SequentialInv' /\ LeavingInv'
    BY <2>a DEF SequentialInv, LeavingInv, Sequential, Running, Queued
  <2> QED BY <2>1, <2>2, <2>3, <2>4
<1>12. CASE UNCHANGED vars
  <2> USE <1>12 DEF vars, options, IInv
  <2>a. Actionable' = Actionable /\ ToApply' = ToApply /\ MayApply' = MayApply
    BY DEF ToApply, Actionable, MayApply, Unsafe, FailedZones
  <2>1. TypeOK'
    BY <2>a DEF TypeOK
  <2>2. EarlyInv' /\ DecisionInv' /\ ScopeInv'
    BY <2>a DEF EarlyInv, DecisionInv, ScopeInv, Status
  <2>3. SequentialInv' /\ LeavingInv'
    BY <2>a DEF SequentialInv, LeavingInv, Sequential, Running, Queued
  <2> QED BY <2>1, <2>2, <2>3
<1> QED
  BY <1>1, <1>2, <1>3, <1>4, <1>5, <1>6, <1>7, <1>8, <1>9, <1>10, <1>11, <1>12
     DEF Next, ScopeStep

LEMMA Invariance == Spec => []IInv
  BY InitIInv, NextIInv, PTL DEF Spec

(* The variables keep their types: the log, when there is one, has an entry *)
(* for each scope that _apply_zone_changes was given and for no other.      *)
THEOREM TypeCorrect == Spec => []TypeOK
  BY Invariance, PTL DEF IInv

(* No write passes a closed gate of _cmd_sync_inner, whatever threads do.   *)
THEOREM WritesAreGated == Spec => []GatedWrites
<1>1. IInv => GatedWrites
  <2> SUFFICES ASSUME IInv, NEW s \in Scopes, wrote[s] # "nothing"
               PROVE  /\ \A z \in Zones : plan[z] \in {"changes", "no changes"}
                      /\ checksum # "mismatch"
                      /\ ~force => over \subseteq DryRun
                      /\ s \in Actionable \ DryRun
    BY DEF GatedWrites
  <2>1. MayApply /\ s \in ToApply
    BY DEF IInv, ScopeInv
  <2>2. \A z \in Zones : plan[z] \in {"changes", "no changes"}
    <3>1. \A z \in Scopes : plan[z] # "unplanned"
      BY <2>1 DEF ToApply, Actionable, IInv, EarlyInv
    <3> QED BY <2>1, <3>1 DEF MayApply, FailedZones, IInv, TypeOK, Scopes
  <2>3. ~force => over \subseteq DryRun
    BY <2>1 DEF MayApply, Unsafe, IInv, EarlyInv
  <2> QED BY <2>1, <2>2, <2>3 DEF MayApply, ToApply
<1> QED BY <1>1, Invariance, PTL

(* Exit code 0 means that every change planned was made, zones with         *)
(* always_dry_run aside and scopes of which a call failed with an error     *)
(* that has no text: the `if error:` of apply_parallel takes it for done.   *)
THEOREM ExitZeroIsTrue == Spec => []ExitZeroMeansApplied
<1>1. IInv => ExitZeroMeansApplied
  BY DEF IInv, DecisionInv, ScopeInv, ExitZeroMeansApplied, ToApply, Actionable
<1> QED BY <1>1, Invariance, PTL

(* One scope that fails does not keep the others from their turn.           *)
THEOREM FailuresIsolated == Spec => []FailuresAreIsolated
<1>1. IInv => FailuresAreIsolated
  BY DEF IInv, LeavingInv, FailuresAreIsolated, Queued
<1> QED BY <1>1, Invariance, PTL

(* The audit log has every scope that was applied, as "ok" exactly those    *)
(* written in full and those whose failure had no error text.               *)
THEOREM AuditIsTruthful == Spec => []AuditTruthful
<1>1. IInv => AuditTruthful
  BY DEF IInv, DecisionInv, ScopeInv, AuditTruthful, ToApply, Actionable, Status
<1> QED BY <1>1, Invariance, PTL

(* When cmd_sync has returned, none of its threads applies anything.        *)
THEOREM NothingAfterExit == Spec => QuietAtExit
<1>1. IInv /\ [Next]_vars => [pc = "done" => UNCHANGED <<st, wrote>>]_vars
  <2> SUFFICES ASSUME IInv, Next, pc = "done" PROVE UNCHANGED <<st, wrote>>
    OBVIOUS
  <2>1. ASSUME NEW s \in Scopes PROVE ~Start(s) /\ ~Write(s) /\ ~Finish(s)
    BY <2>1 DEF IInv, LeavingInv, Start, Write, Finish, Queued, Running
  <2> QED BY <2>1 DEF Next, ScopeStep, PlanAll, PlanAuth, Stop, StartApply, Collect,
                      CollectException, Leave, Report, Shutdown
<1> QED BY <1>1, Invariance, PTL DEF Spec, QuietAtExit
=============================================================================
