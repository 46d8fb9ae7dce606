----------------------------- MODULE ZonePhases -----------------------------
(***************************************************************************)
(* plan and sync of the phases of one zone for one target: fetch the live  *)
(* rules (_plan_single_zone), diff them (plan_zone), filter the changes    *)
(* (ChangeTypeFilter), check the thresholds (check_safety), check that the *)
(* writes do what the plan shows (_unplanned_writes), then put one list    *)
(* per changed phase (_apply_single_zone).  A sync may be run again, and   *)
(* the provider may be edited behind its back.                             *)
(***************************************************************************)
EXTENDS RuleDiff

CONSTANTS
  Phases,            \* the phases of the zone
  Undeclared,        \* a phase the rules file does not mention
  Failed,            \* a phase whose live rules could not be fetched
  DeleteThreshold,   \* percent of existing rules a sync may delete
  UpdateThreshold,   \* percent of existing rules a sync may update
  MinExisting,       \* thresholds apply from this many existing rules on
  FileLists,         \* the rule lists a file may declare
  LiveLists,         \* the rule lists a provider may hold at first
  DriftLists,        \* the rule lists an outside edit may leave behind
  Selections,        \* the --phase selections to consider
  Excludes,          \* the change types a ChangeTypeFilter may block
  Forces,            \* whether --force may be given
  MaxRuns,           \* bound: runs of the command
  MaxTroubles        \* bound: failed fetches, failed writes and outside edits

ASSUME ThresholdAssumption ==
  DeleteThreshold \in Nat /\ UpdateThreshold \in Nat /\ MinExisting \in Nat

ASSUME ListAssumption ==
  /\ IsFiniteSet(Phases)
  /\ FileLists \subseteq Seq(FileRule) /\ Undeclared \notin FileLists
  /\ LiveLists \subseteq Seq(LiveRule) /\ DriftLists \subseteq Seq(LiveRule)
  /\ Failed \notin Seq(LiveRule)
  /\ Selections \subseteq SUBSET Phases

VARIABLES
  file,      \* [Phases -> rules or Undeclared], the rules file
  selected,  \* the phases --phase selects
  exclude,   \* the change types blocked by the processors
  force,     \* --force
  live,      \* [Phases -> rules], the provider
  fetched,   \* [selected -> rules or Failed], get_all_phase_rules
  plans,     \* [phases with changes -> PhasePlan], ZonePlan.phase_plans
  todo,      \* phases whose write has not been tried
  broken,    \* phases whose write failed
  unseen,    \* phases whose write failed and was taken for done
  pc,        \* where the run is
  runs, faults, drifts

config == <<file, selected, exclude, force>>
vars == <<file, selected, exclude, force, live, fetched, plans, todo, broken,
          unseen, pc, runs, faults, drifts>>

Outcomes == {"failed", "clean", "blocked", "refused", "synced", "error"}

Init ==
  /\ file \in [Phases -> FileLists \cup {Undeclared}]
  /\ \A p \in Phases : file[p] # Undeclared => ValidRules(FilterByTarget(file[p]))
  /\ selected \in Selections
  /\ exclude \in Excludes
  /\ force \in Forces
  /\ live \in [Phases -> LiveLists]
  /\ fetched = <<>> /\ plans = <<>>
  /\ todo = {} /\ broken = {} /\ unseen = {}
  /\ pc = "idle"
  /\ runs = 1 /\ faults = 0 /\ drifts = 0

-----------------------------------------------------------------------------
(* A faulty variant: a failed fetch counts as an empty list. *)
PlanZoneBlind(rules) ==
  LET declared == {p \in DOMAIN rules : file[p] # Undeclared}
      diff(p) == DiffPhase(FilterByTarget(file[p]),
                           IF rules[p] = Failed THEN <<>> ELSE rules[p])
      changed == {p \in declared : diff(p).changes # {}}
  IN  [p \in changed |-> [diff(p) EXCEPT !.changes = FilterChanges(@, exclude)]]

(* plan_zone over the phases that are declared, selected and fetched; only *)
(* a phase with changes gets a plan, then the filter thins its changes.    *)
PlanZone(rules) ==
  LET declared == {p \in DOMAIN rules : file[p] # Undeclared /\ rules[p] # Failed}
      diff(p) == DiffPhase(FilterByTarget(file[p]), rules[p])
      changed == {p \in declared : diff(p).changes # {}}
  IN  [p \in changed |->
         [diff(p) EXCEPT !.changes = FilterChanges(@, exclude)]]

(* _plan_single_zone: the phases in down cannot be fetched. *)
Plan(down) ==
  /\ pc = "idle"
  /\ faults + drifts + Cardinality(down) <= MaxTroubles
  /\ faults' = faults + Cardinality(down)
  /\ fetched' = [p \in selected |-> IF p \in down THEN Failed ELSE live[p]]
  /\ plans' = PlanZone(fetched')
  /\ pc' = "planned"
  /\ UNCHANGED <<config, live, todo, broken, unseen, runs, drifts>>

(* _plan_single_zone_safe: the whole fetch fails and the sync aborts. *)
PlanFails ==
  /\ pc = "idle"
  /\ faults + drifts < MaxTroubles
  /\ faults' = faults + 1
  /\ pc' = "failed"
  /\ UNCHANGED <<config, live, fetched, plans, todo, broken, unseen, runs, drifts>>

(* A faulty variant: a new order alone is no change. *)
HasCountedChanges ==
  \E p \in DOMAIN plans : plans[p].changes \ {Reorder} # {}

HasChanges == \E p \in DOMAIN plans : plans[p].changes # {}

FetchedPhases == {p \in DOMAIN fetched : fetched[p] # Failed}
ExistingCount == Cardinality(UNION {{p} \X DOMAIN fetched[p] : p \in FetchedPhases})

ChangesOf(type) ==
  UNION {{p} \X {c \in plans[p].changes : c.type = type} : p \in DOMAIN plans}
CountType(type) == Cardinality(ChangesOf(type))

(* A faulty variant: the thresholds apply from one rule more on. *)
SafetyViolatedAbove ==
  /\ ExistingCount > MinExisting
  /\ \/ CountType("REMOVE") * 100 > DeleteThreshold * ExistingCount
     \/ CountType("MODIFY") * 100 > UpdateThreshold * ExistingCount

(* check_safety: counts over the whole zone, against the rules fetched. *)
SafetyViolated ==
  /\ ExistingCount >= MinExisting
  /\ ExistingCount > 0
  /\ \/ CountType("REMOVE") * 100 > DeleteThreshold * ExistingCount
     \/ CountType("MODIFY") * 100 > UpdateThreshold * ExistingCount

(* _cmd_sync_inner up to the apply step. *)
CheckPlan ==
  /\ pc = "planned"
  /\ pc' = IF ~HasChanges THEN "clean"
           ELSE IF ~force /\ SafetyViolated THEN "blocked" ELSE "checked"
  /\ UNCHANGED <<config, live, fetched, plans, todo, broken, unseen, runs, faults, drifts>>

(* _unplanned_writes: no write at all if one would do what no plan shows. *)
UnplannedWrites ==
  \E p \in DOMAIN plans :
    UnplannedChanges(plans[p].changes, plans[p].prepared, plans[p].current) # {}

StartWrites ==
  /\ pc = "checked"
  /\ IF UnplannedWrites THEN pc' = "refused" /\ UNCHANGED todo
     ELSE pc' = "writing" /\ todo' = DOMAIN plans
  /\ UNCHANGED <<config, live, fetched, plans, broken, unseen, runs, faults, drifts>>

(* put_phase_rules succeeds. *)
WritePhase(p) ==
  /\ pc = "writing" /\ p \in todo
  /\ live' = [live EXCEPT ![p] = Stored(plans[p].prepared)]
  /\ todo' = todo \ {p}
  /\ UNCHANGED <<config, fetched, plans, broken, unseen, pc, runs, faults, drifts>>

(* put_phase_rules raises; the provider may have stored the list before the *)
(* answer was lost.  Sequentially the remaining puts are skipped; in        *)
(* parallel they still run, except those an auth error cancels in time.     *)
FailPhase(p) ==
  /\ pc = "writing" /\ p \in todo
  /\ faults + drifts < MaxTroubles
  /\ faults' = faults + 1
  /\ live' \in {live, [live EXCEPT ![p] = Stored(plans[p].prepared)]}
  /\ todo' \in SUBSET (todo \ {p})
  /\ broken' = broken \cup {p}
  /\ UNCHANGED <<config, fetched, plans, unseen, pc, runs, drifts>>

(* The error has no text: apply_parallel takes the put for done. *)
FailUnseen(p) ==
  /\ pc = "writing" /\ p \in todo
  /\ faults + drifts < MaxTroubles
  /\ faults' = faults + 1
  /\ live' \in {live, [live EXCEPT ![p] = Stored(plans[p].prepared)]}
  /\ todo' = todo \ {p}
  /\ unseen' = unseen \cup {p}
  /\ UNCHANGED <<config, fetched, plans, broken, pc, runs, drifts>>

FinishWrites ==
  /\ pc = "writing" /\ todo = {}
  /\ pc' = IF broken = {} THEN "synced" ELSE "error"
  /\ UNCHANGED <<config, live, fetched, plans, todo, broken, unseen, runs, faults, drifts>>

(* The command is run again; nothing of the last run is kept. *)
Rerun ==
  /\ pc \in Outcomes
  /\ runs < MaxRuns
  /\ runs' = runs + 1
  /\ fetched' = <<>> /\ plans' = <<>>
  /\ todo' = {} /\ broken' = {} /\ unseen' = {}
  /\ pc' = "idle"
  /\ UNCHANGED <<config, live, faults, drifts>>

(* Somebody edits a phase at the provider. *)
Drift(p) ==
  /\ faults + drifts < MaxTroubles
  /\ drifts' = drifts + 1
  /\ \E rules \in DriftLists : live' = [live EXCEPT ![p] = rules]
  /\ UNCHANGED <<config, fetched, plans, todo, broken, unseen, pc, runs, faults>>

Step ==
  \/ PlanFails
  \/ \E down \in SUBSET selected : Plan(down)
  \/ CheckPlan
  \/ StartWrites
  \/ \E p \in Phases : WritePhase(p) \/ FailPhase(p) \/ FailUnseen(p)
  \/ FinishWrites
  \/ Rerun

Next == Step \/ \E p \in Phases : Drift(p)

(* A run that has started goes on, and a failed one is repeated. *)
Spec == Init /\ [][Next]_vars /\ WF_vars(Step)
-----------------------------------------------------------------------------
(* Properties. *)

(* The declared phases this run plans and writes. *)
Owned == {p \in DOMAIN fetched : file[p] # Undeclared /\ fetched[p] # Failed}

(* What a reader sees change when the list new takes the place of old. *)
Visible(old, new) ==
  LET before == RulesByRef(old)
      after == RulesByRef(new)
  IN  {Change("REMOVE", ref) : ref \in DOMAIN before \ DOMAIN after}
      \cup {Change("ADD", ref) : ref \in DOMAIN after \ DOMAIN before}
      \cup {Change("MODIFY", ref) : ref \in
              {r \in DOMAIN before \cap DOMAIN after : before[r].body # after[r].body}}

Before(rules, ref, other) ==
  \E i, j \in DOMAIN rules : i < j /\ rules[i].ref = ref /\ rules[j].ref = other

(* Two refs swap when they trade places outright. *)
Swaps(old, new) ==
  \E ref, other \in RefsOf(old) \cap RefsOf(new) :
    /\ Before(old, ref, other) /\ ~Before(old, other, ref)
    /\ Before(new, other, ref) /\ ~Before(new, ref, other)

(* A write over the list it was planned on adds, removes, changes and moves *)
(* only what the plan shows, whatever the processors hid from the plan      *)
(* (_unplanned_writes before put_phase_rules).                              *)
WritesMatchPlan ==
  [][\A p \in Phases :
       (Step /\ live'[p] # live[p] /\ live[p] = fetched[p]) =>
         /\ p \in DOMAIN plans
         /\ Visible(live[p], live'[p]) \subseteq plans[p].changes
         /\ Swaps(live[p], live'[p]) => Reorder \in plans[p].changes]_vars

(* A phase the file does not declare, --phase does not select or the fetch  *)
(* could not read is never written, even if outside edits arrive.           *)
OnlyOwnedPhases ==
  [][\A p \in Phases : (Step /\ live'[p] # live[p]) => p \in Owned]_vars

(* An ignored rule that is live survives each write with its body, and one  *)
(* that is not live is not created (_payload_keeping_ignored).              *)
IgnoredUntouched ==
  [][\A p \in Phases :
       (Step /\ live'[p] # live[p] /\ live[p] = fetched[p]) =>
         \A i \in DOMAIN file[p] :
           LET ref == file[p][i].ref
           IN  (file[p][i].ignored /\ file[p][i].targeted) =>
                 /\ ref \in RefsOf(live[p]) <=> ref \in RefsOf(live'[p])
                 /\ ref \in RefsOf(live[p]) =>
                      RulesByRef(live[p])[ref].body = RulesByRef(live'[p])[ref].body]_vars

(* What a sync that ended well leaves behind needs no second sync: the next *)
(* plan of the phases it owned is empty, but for one whose put failed with  *)
(* an error that has no text.                                               *)
Converged ==
  (pc = "synced" /\ drifts = 0) =>
    \A p \in Owned \ unseen : DiffPhase(FilterByTarget(file[p]), live[p]).changes = {}

(* Without --force a run deletes at most the allowed share of the rules it  *)
(* fetched, over all the phases it writes and however many writes fail.     *)
Lost == UNION {{p} \X (RefsOf(fetched[p]) \ RefsOf(live[p])) : p \in FetchedPhases}
BoundedLoss ==
  (~force /\ drifts = 0 /\ ExistingCount >= MinExisting) =>
    Cardinality(Lost) * 100 <= DeleteThreshold * ExistingCount

(* The sync keeps the promise of RuleListOwner: lists are replaced whole,   *)
(* each by what its file declares.                                          *)
Owner == INSTANCE RuleListOwner
ReplacesWholeLists == Owner!Spec

(* With more runs than faults and outside edits, some run with --force and  *)
(* without filters brings every declared phase to what its file says.       *)
Settled ==
  \A p \in Phases : file[p] # Undeclared =>
    DiffPhase(FilterByTarget(file[p]), live[p]).changes = {}
EventuallySettled ==
  (force /\ exclude = {} /\ selected = Phases) => <>Settled

(* README.md:744: "sync refuses a zone whose phase or custom ruleset writes *)
(* would add, remove, change or reorder a rule the plan does not show".     *)
(* Stated of every rule, those without a ref included.                      *)
NoHiddenDeletion ==
  [][\A p \in Phases :
       (Step /\ live'[p] # live[p] /\ live[p] = fetched[p]) =>
         \A i \in DOMAIN live[p] :
           \/ \E j \in DOMAIN live'[p] : live'[p][j].ref = live[p][i].ref
           \/ Change("REMOVE", live[p][i].ref) \in plans[p].changes]_vars
=============================================================================
