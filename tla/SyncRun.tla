------------------------------ MODULE SyncRun ------------------------------
(***************************************************************************)
(* One run of cmd_sync over the zones and the account of a configuration:  *)
(* plan every scope (_plan_all_scopes), pass the gates (_cmd_sync_inner),  *)
(* apply the scopes with changes on the shared executor                    *)
(* (_apply_zone_changes, _map_ordered), report and exit.  What applying    *)
(* one scope does is AccountSync and ZonePhases; here it is calls that may *)
(* reach the provider and an outcome.                                      *)
(***************************************************************************)
EXTENDS Integers, FiniteSets

CONSTANTS
  ZoneCount,    \* the zones (or zone targets) are 1..ZoneCount, in order
  DryRun,       \* the zones with always_dry_run
  WorkerLimits  \* the values of manager.max_workers to consider

ASSUME RunAssumption ==
  /\ ZoneCount \in Nat
  /\ DryRun \subseteq 1..ZoneCount
  /\ WorkerLimits \subseteq Nat \ {0}

Zones == 1..ZoneCount
Account == ZoneCount + 1           \* planned last, whatever finished first
Scopes == Zones \cup {Account}

VARIABLES
  workers,    \* manager.max_workers
  force,      \* --force
  checksum,   \* --checksum: "none", or how the plan compares with it
  logging,    \* --audit-log
  plan,       \* [Scopes -> what planning the scope gave]
  over,       \* the scopes whose plan exceeds a safety threshold
  st,         \* [Scopes -> how far applying the scope has come]
  wrote,      \* [Scopes -> how much of its plan has reached the provider]
  seen,       \* the scopes whose result was collected
  audit,      \* [scope -> status] as logged, or Unlogged
  exit,       \* the exit code, once decided
  pc

options == <<workers, force, checksum, logging>>
vars == <<options, plan, over, st, wrote, seen, audit, exit, pc>>

(* "unseen": a call failed with an error that has no text, and was taken    *)
(* for a success.                                                           *)
Outcomes == {"ok", "unseen", "error", "auth", "crash"}
Unlogged == <<>>
Undecided == -1

(* The scopes whose changes are applied. *)
Actionable == {s \in Scopes : plan[s] = "changes"}
ToApply == Actionable \ DryRun

TypeOK ==
  /\ workers \in WorkerLimits
  /\ force \in BOOLEAN
  /\ checksum \in {"none", "match", "mismatch"}
  /\ logging \in BOOLEAN
  /\ plan \in [Scopes -> {"unplanned", "changes", "no changes", "failed"}]
  /\ over \subseteq Scopes
  /\ st \in [Scopes -> {"idle", "queued", "running"} \cup Outcomes]
  /\ wrote \in [Scopes -> {"nothing", "some", "all"}]
  /\ seen \subseteq ToApply
  /\ audit = Unlogged \/ (DOMAIN audit = ToApply /\ \A s \in ToApply : audit[s] \in {"ok", "error"})
  /\ exit \in {Undecided, 0, 1}
  /\ pc \in {"planning", "gates", "applying", "leaving", "done"}

Init ==
  /\ workers \in WorkerLimits
  /\ force \in BOOLEAN
  /\ checksum \in {"none", "match", "mismatch"}
  /\ logging \in BOOLEAN
  /\ plan = [s \in Scopes |-> "unplanned"]
  /\ over = {}
  /\ st = [s \in Scopes |-> "idle"]
  /\ wrote = [s \in Scopes |-> "nothing"]
  /\ seen = {}
  /\ audit = Unlogged
  /\ exit = Undecided
  /\ pc = "planning"

-----------------------------------------------------------------------------
(* Leave with an exit code; nothing is logged on this way out. *)
Leave(code) ==
  /\ exit' = code
  /\ pc' = "leaving"
  /\ UNCHANGED <<options, plan, over, st, wrote, seen, audit>>

(* _plan_all_scopes: a provider error fails the zone, but leaves the        *)
(* account out (_plan_account returns None).                                *)
PlanAll ==
  /\ pc = "planning"
  /\ plan' \in [Scopes -> {"changes", "no changes", "failed"}]
  /\ over' \in SUBSET {s \in Scopes : plan'[s] = "changes"}
  /\ pc' = "gates"
  /\ UNCHANGED <<options, st, wrote, seen, audit, exit>>

(* An auth error of any scope is raised out of planning. *)
PlanAuth == pc = "planning" /\ Leave(1)

FailedZones == {z \in Zones : plan[z] = "failed"}
Unsafe == (over \cap Actionable) \ DryRun
(* A faulty variant: the changes are applied though a zone has no plan. *)
MayApplyRest ==
  /\ Actionable # {}
  /\ checksum # "mismatch"
  /\ force \/ Unsafe = {}

MayApply ==
  /\ FailedZones = {}
  /\ Actionable # {}
  /\ checksum # "mismatch"
  /\ force \/ Unsafe = {}

(* _cmd_sync_inner up to _apply_zone_changes: a failed plan, an output that *)
(* cannot be written, no changes, a checksum that differs, a threshold.     *)
Stop ==
  /\ pc = "gates"
  /\ \/ FailedZones # {} /\ Leave(1)
     \/ Leave(1)                       \* _emit_plan_outputs fails
     \/ FailedZones = {} /\ Actionable = {} /\ Leave(0)
     \/ Actionable # {} /\ checksum = "mismatch" /\ Leave(1)
     \/ Actionable # {} /\ ~force /\ Unsafe # {} /\ Leave(1)
     \/ MayApply /\ ToApply = {} /\ Leave(0)

StartApply ==
  /\ pc = "gates"
  /\ MayApply /\ ToApply # {}
  /\ st' = [s \in Scopes |-> IF s \in ToApply THEN "queued" ELSE "idle"]
  /\ pc' = "applying"
  /\ UNCHANGED <<options, plan, over, wrote, seen, audit, exit>>

Sequential == workers <= 1
Queued == {s \in Scopes : st[s] = "queued"}
Running == {s \in Scopes : st[s] = "running"}

(* The next scope in plan order: the caller applies it itself, or a free    *)
(* worker of the shared executor takes it, even when the caller has left.   *)
Start(s) ==
  /\ s \in Queued /\ \A t \in Queued : s <= t
  /\ IF Sequential THEN pc = "applying" /\ \A t \in ToApply : t < s => t \in seen
                   ELSE Cardinality(Running) < workers
  /\ st' = [st EXCEPT ![s] = "running"]
  /\ UNCHANGED <<options, plan, over, wrote, seen, audit, exit, pc>>

(* A call of the scope reaches the provider. *)
Write(s) ==
  /\ st[s] = "running" /\ wrote[s] = "nothing"
  /\ wrote' = [wrote EXCEPT ![s] = "some"]
  /\ UNCHANGED <<options, plan, over, st, seen, audit, exit, pc>>

(* _apply_single_zone: all was written, or is taken to be (apply_parallel   *)
(* asks for the error's text), an error (a refusal included) is returned,   *)
(* an auth error or anything else is raised.                                *)
Finish(s) ==
  /\ st[s] = "running"
  /\ \E outcome \in Outcomes :
       /\ outcome = "ok" => wrote[s] = "some"
       /\ st' = [st EXCEPT ![s] = outcome]
       /\ wrote' = IF outcome = "ok" THEN [wrote EXCEPT ![s] = "all"] ELSE wrote
  /\ UNCHANGED <<options, plan, over, seen, audit, exit, pc>>

(* _map_ordered collects values in any order... *)
Collect(s) ==
  /\ pc = "applying" /\ s \in ToApply \ seen
  /\ st[s] \in {"ok", "unseen", "error"}
  /\ seen' = seen \cup {s}
  /\ UNCHANGED <<options, plan, over, st, wrote, audit, exit, pc>>

(* ... and lets an exception out at once: an auth error is turned into exit *)
(* code 1, anything else reaches the command line, which exits 1 as well.   *)
CollectException(s) ==
  /\ pc = "applying" /\ s \in ToApply
  /\ st[s] \in {"auth", "crash"}
  /\ Leave(1)

(* SyncResult: what is not an error counts as a success. *)
Status(s) == IF st[s] = "error" THEN "error" ELSE "ok"

(* Faulty variants: only a run without any success fails, ... *)
ReportBestCase ==
  /\ pc = "applying" /\ seen = ToApply
  /\ exit' = IF \A s \in ToApply : st[s] = "error" THEN 1 ELSE 0
  /\ audit' \in IF logging THEN {[s \in ToApply |-> Status(s)], Unlogged} ELSE {Unlogged}
  /\ pc' = "leaving"
  /\ UNCHANGED <<options, plan, over, st, wrote, seen>>

(* ... the first error ends the run, ... *)
ReportFirstError ==
  /\ pc = "applying"
  /\ seen = ToApply \/ \E s \in seen : st[s] = "error"
  /\ exit' = IF \E s \in seen : st[s] = "error" THEN 1 ELSE 0
  /\ audit' = Unlogged
  /\ pc' = "leaving"
  /\ UNCHANGED <<options, plan, over, st, wrote, seen>>

(* ... or the log has every scope down as synced. *)
ReportAllSynced ==
  /\ pc = "applying" /\ seen = ToApply
  /\ exit' = IF \E s \in ToApply : st[s] = "error" THEN 1 ELSE 0
  /\ audit' = [s \in ToApply |-> "ok"]
  /\ pc' = "leaving"
  /\ UNCHANGED <<options, plan, over, st, wrote, seen>>

(* Every result is in: report, write the audit log (which may fail), exit. *)
Report ==
  /\ pc = "applying" /\ seen = ToApply
  /\ exit' = IF \E s \in ToApply : st[s] = "error" THEN 1 ELSE 0
  /\ audit' \in IF logging THEN {[s \in ToApply |-> Status(s)], Unlogged} ELSE {Unlogged}
  /\ pc' = "leaving"
  /\ UNCHANGED <<options, plan, over, st, wrote, seen>>

(* Faulty variants: the command ends without waiting for its threads, ... *)
ShutdownAtOnce ==
  /\ pc = "leaving"
  /\ pc' = "done"
  /\ UNCHANGED <<options, plan, over, st, wrote, seen, audit, exit>>

(* ... or waits for scopes that no thread is going to apply. *)
ShutdownWhenEmpty ==
  /\ pc = "leaving"
  /\ Queued \cup Running = {}
  /\ pc' = "done"
  /\ UNCHANGED <<options, plan, over, st, wrote, seen, audit, exit>>

(* cmd_sync shuts the executor down and waits for whatever is queued. *)
Shutdown ==
  /\ pc = "leaving"
  /\ Sequential \/ Queued \cup Running = {}
  /\ pc' = "done"
  /\ UNCHANGED <<options, plan, over, st, wrote, seen, audit, exit>>

ScopeStep(s) ==
  Start(s) \/ Write(s) \/ Finish(s) \/ Collect(s) \/ CollectException(s)

Next ==
  \/ PlanAll \/ PlanAuth \/ Stop \/ StartApply
  \/ \E s \in Scopes : ScopeStep(s)
  \/ Report \/ Shutdown

(* Threads are scheduled and every provider call returns. *)
Spec == Init /\ [][Next]_vars /\ WF_vars(Next)

-----------------------------------------------------------------------------
(* Properties. *)

(* No scope is written, not even in part, unless every zone was planned,    *)
(* the checksum (if any) matched and no threshold was exceeded without      *)
(* --force; and a zone with always_dry_run is never written.                *)
GatedWrites ==
  \A s \in Scopes : wrote[s] # "nothing" =>
    /\ \A z \in Zones : plan[z] \in {"changes", "no changes"}
    /\ checksum # "mismatch"
    /\ ~force => over \subseteq DryRun
    /\ s \in Actionable \ DryRun

(* Exit code 0 means that all the changes planned have been made, except in *)
(* zones with always_dry_run and in a scope one of whose calls failed with  *)
(* an error that has no text.                                               *)
ExitZeroMeansApplied ==
  exit = 0 => \A s \in Actionable \ DryRun : wrote[s] = "all" \/ st[s] = "unseen"

(* A failed zone does not keep the others from being applied: unless an     *)
(* exception ends the run, every scope has its turn.                        *)
FailuresAreIsolated ==
  (pc = "done" /\ \A s \in Scopes : st[s] \notin {"auth", "crash"})
    => \A s \in Scopes : st[s] # "queued"

(* The audit log lists every scope applied, and as "ok" exactly those that  *)
(* were written in full and those whose failure had no error text.          *)
AuditTruthful ==
  audit # Unlogged =>
    \A s \in Scopes :
      /\ s \in DOMAIN audit <=> st[s] # "idle"
      /\ s \in DOMAIN audit => (audit[s] = "ok" <=> wrote[s] = "all" \/ st[s] = "unseen")

(* When the command has ended, no thread of it still writes. *)
QuietAtExit == [][pc = "done" => UNCHANGED <<st, wrote>>]_vars

Terminates == <>(pc = "done")
=============================================================================
