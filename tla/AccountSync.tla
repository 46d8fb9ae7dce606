---------------------------- MODULE AccountSync ----------------------------
(***************************************************************************)
(* plan and sync of one account: its lists, its custom rulesets and the    *)
(* phase whose rules refer to them by name (_plan_account, _apply_lists,   *)
(* _apply_custom_rulesets, _apply_single_zone).  Each kind of work is a    *)
(* stage; the tasks of a stage run together, and the first stage with an   *)
(* error is the last.  Lists and rulesets are fetched in the background,   *)
(* and a failed fetch counts as "there are none".  A failure whose error    *)
(* has no text counts as a success.                                         *)
(***************************************************************************)
EXTENDS Integers, FiniteSets, Sequences

CONSTANTS
  Lists, Rulesets,   \* names
  Contents, Empty,   \* what a list or a ruleset holds; Empty is nothing
  Descs, NoDesc,     \* descriptions of a list; NoDesc is none
  NoText,            \* the description that is an empty text
  Absent,            \* an object the provider does not hold
  Undeclared,        \* a lists: section the file does not have
  FileLists,         \* the lists: sections a file may have
  FileRulesets,      \* the custom_rulesets: sections a file may have
  LiveLists,         \* what the provider may hold at first
  LiveRulesets,
  FileRefs,          \* the references the phase of a file may make
  MaxRuns,           \* bound: runs of the command
  MaxFaults          \* bound: failed fetches and calls

List == [items : Contents, desc : Descs \cup {NoDesc}]

ASSUME AccountAssumption ==
  /\ Empty \in Contents
  /\ NoDesc \notin Descs /\ NoText \in Descs
  /\ Lists \cap Rulesets = {}
  /\ Absent \notin List /\ Absent \notin Contents
  /\ FileLists \ {Undeclared} \subseteq UNION {[names -> List] : names \in SUBSET Lists}
  /\ FileRulesets \subseteq UNION {[names -> Contents] : names \in SUBSET Rulesets}
  /\ FileRefs \subseteq SUBSET (Lists \cup Rulesets)
  /\ LiveLists \subseteq [Lists -> List \cup {Absent}]
  /\ LiveRulesets \subseteq [Rulesets -> Contents \cup {Absent}]

(* Faulty variants of the order: the phase is written first, ... *)
StagesPhaseFirst ==
  <<"put_phase", "create_list", "put_items", "set_desc", "delete_list",
    "create_ruleset", "put_ruleset", "delete_ruleset">>

(* ... or what is deleted makes room first. *)
StagesDeleteFirst ==
  <<"delete_list", "create_list", "put_items", "set_desc",
    "delete_ruleset", "create_ruleset", "put_ruleset", "put_phase">>

(* The work of a sync, in the order of _apply_single_zone. *)
Stages ==
  <<"create_list", "put_items", "set_desc", "delete_list",
    "create_ruleset", "put_ruleset", "delete_ruleset", "put_phase">>

Task(op, name) == [op |-> op, name |-> name]
Phase == "phase"

VARIABLES
  fileLists, fileRulesets, fileRefs,   \* the account's rules file
  lists, rulesets, refs,               \* the provider
  unread,   \* the sections this run planned without their live state
  plan,     \* the tasks of this run
  stage, todo, broken,
  unseen,   \* the tasks of this run that failed and were taken for done
  pc, runs, faults

file == <<fileLists, fileRulesets, fileRefs>>
live == <<lists, rulesets, refs>>
vars == <<file, live, unread, plan, stage, todo, broken, unseen, pc, runs, faults>>

Outcomes == {"skipped", "clean", "synced", "error"}
Sections == {"lists", "rulesets"}

DeclaredLists == IF fileLists = Undeclared THEN {} ELSE DOMAIN fileLists
DeclaredRulesets == DOMAIN fileRulesets

(* A section that is not planned keeps what is live: no lists: key, or an  *)
(* empty custom_rulesets: list.                                            *)
KeptLists == IF fileLists = Undeclared THEN {n \in Lists : lists[n] # Absent} ELSE {}
KeptRulesets ==
  IF DeclaredRulesets = {} THEN {n \in Rulesets : rulesets[n] # Absent} ELSE {}

(* The phase of a file refers to what the file declares or leaves alone. *)
FileConsistent ==
  fileRefs \subseteq DeclaredLists \cup KeptLists \cup DeclaredRulesets \cup KeptRulesets

Init ==
  /\ fileLists \in FileLists /\ fileRulesets \in FileRulesets
  /\ fileRefs \in FileRefs
  /\ lists \in LiveLists /\ rulesets \in LiveRulesets
  /\ refs = {}
  /\ FileConsistent
  /\ unread = {} /\ plan = {}
  /\ stage = 1 /\ todo = {} /\ broken = FALSE /\ unseen = {}
  /\ pc = "idle" /\ runs = 1 /\ faults = 0

-----------------------------------------------------------------------------
(* diff_list: a new list gets its description when it is created. *)
ListTasks(n, current) ==
  LET want == fileLists[n]
  IN  IF current = Absent
        THEN {Task("create_list", n)}
               \cup {Task("put_items", n) : items \in {want.items} \ {Empty}}
        ELSE {Task("put_items", n) : items \in {want.items} \ {current.items}}
               \cup {Task("set_desc", n) : desc \in {want.desc} \ {current.desc}}

(* A faulty variant: a file without a lists: section declares no list. *)
DiffListsGreedy(current) ==
  (UNION {ListTasks(n, current[n]) : n \in DeclaredLists})
    \cup {Task("delete_list", n) :
            n \in {m \in Lists \ DeclaredLists : current[m] # Absent}}

(* diff_lists_full; a lists: section plans even when it is empty. *)
DiffLists(current) ==
  IF fileLists = Undeclared THEN {}
  ELSE (UNION {ListTasks(n, current[n]) : n \in DeclaredLists})
         \cup {Task("delete_list", n) :
                 n \in {m \in Lists \ DeclaredLists : current[m] # Absent}}

(* diff_custom_rulesets_full; an empty custom_rulesets: section does not. *)
DiffRulesets(current) ==
  IF DeclaredRulesets = {} THEN {}
  ELSE {Task("create_ruleset", n) : n \in {m \in DeclaredRulesets : current[m] = Absent}}
         \cup {Task("put_ruleset", n) :
                 n \in {m \in DeclaredRulesets : current[m] \notin {Absent, fileRulesets[m]}}}
         \cup {Task("delete_ruleset", n) :
                 n \in {m \in Rulesets \ DeclaredRulesets : current[m] # Absent}}

DiffPhase == {Task("put_phase", Phase) : rules \in {fileRefs} \ {refs}}

(* _future_result_or_default: what could not be read is taken for none. *)
Current(section, held, failed) ==
  IF section \in failed THEN [n \in DOMAIN held |-> Absent] ELSE held

Fetched ==
  {"lists" : s \in {fileLists} \ {Undeclared}}
    \cup {"rulesets" : s \in {DeclaredRulesets} \ {{}}}

(* _plan_account *)
Plan(failed) ==
  /\ pc = "idle"
  /\ failed \subseteq Fetched
  /\ faults + Cardinality(failed) <= MaxFaults
  /\ faults' = faults + Cardinality(failed)
  /\ unread' = failed
  /\ plan' = DiffLists(Current("lists", lists, failed))
               \cup DiffRulesets(Current("rulesets", rulesets, failed))
               \cup DiffPhase
  /\ pc' = IF plan' = {} THEN "clean" ELSE "planned"
  /\ UNCHANGED <<file, live, stage, todo, broken, unseen, runs>>

(* The phase rules cannot be read: the account is left out of the sync. *)
PlanFails ==
  /\ pc = "idle" /\ faults < MaxFaults
  /\ faults' = faults + 1
  /\ pc' = "skipped"
  /\ UNCHANGED <<file, live, unread, plan, stage, todo, broken, unseen, runs>>

(* The tasks of a stage are built when it starts: a list whose create       *)
(* brought no id gets no items.                                             *)
TasksOf(i) ==
  {task \in plan :
     /\ task.op = Stages[i]
     /\ task.op = "put_items" => Task("create_list", task.name) \notin unseen}

StartApply ==
  /\ pc = "planned"
  /\ pc' = "applying"
  /\ stage' = 1 /\ todo' = TasksOf(1)
  /\ UNCHANGED <<file, live, unread, plan, broken, unseen, runs, faults>>

(* No description is sent as an empty text, and read back as one. *)
Sent(desc) == IF desc = NoDesc THEN NoText ELSE desc

(* What a call does at the provider. *)
Effect(task) ==
  LET n == task.name
      setList(value) == /\ lists' = [lists EXCEPT ![n] = value]
                        /\ UNCHANGED <<rulesets, refs>>
      setRuleset(value) == /\ rulesets' = [rulesets EXCEPT ![n] = value]
                           /\ UNCHANGED <<lists, refs>>
  IN  CASE task.op = "create_list" ->
             setList([items |-> Empty, desc |-> Sent(fileLists[n].desc)])
        [] task.op = "put_items" ->
             setList([items |-> fileLists[n].items, desc |-> lists[n].desc])
        [] task.op = "set_desc" ->
             setList([items |-> lists[n].items, desc |-> Sent(fileLists[n].desc)])
        [] task.op = "delete_list" -> setList(Absent)
        [] task.op \in {"create_ruleset", "put_ruleset"} -> setRuleset(fileRulesets[n])
        [] task.op = "delete_ruleset" -> setRuleset(Absent)
        [] task.op = "put_phase" -> refs' = fileRefs /\ UNCHANGED <<lists, rulesets>>

(* A name is taken: the provider refuses to create it again. *)
Refused(task) ==
  \/ task.op = "create_list" /\ lists[task.name] # Absent
  \/ task.op = "create_ruleset" /\ rulesets[task.name] # Absent

Apply(task) ==
  /\ pc = "applying" /\ task \in todo
  /\ ~Refused(task)
  /\ Effect(task)
  /\ todo' = todo \ {task}
  /\ UNCHANGED <<file, unread, plan, stage, broken, unseen, pc, runs, faults>>

(* A call ends in an error: refused, before or after it had its effect, or  *)
(* between the create and the put of a new ruleset.                         *)
Interrupted(task) ==
  \/ UNCHANGED live
  \/ ~Refused(task) /\ Effect(task)
  \/ /\ ~Refused(task) /\ task.op = "create_ruleset"
     /\ rulesets' = [rulesets EXCEPT ![task.name] = Empty]
     /\ UNCHANGED <<lists, refs>>

(* Sequentially the other tasks of the stage are skipped; in parallel some  *)
(* or all of them still run.                                                *)
Fail(task) ==
  /\ pc = "applying" /\ task \in todo
  /\ IF Refused(task)
       THEN UNCHANGED <<live, faults>>
       ELSE /\ faults < MaxFaults
            /\ faults' = faults + 1
            /\ Interrupted(task)
  /\ todo' \in SUBSET (todo \ {task})
  /\ broken' = TRUE
  /\ UNCHANGED <<file, unread, plan, stage, unseen, pc, runs>>

(* The error has no text, or a create answers without an id: the run goes   *)
(* on as if the task were done.                                             *)
FailUnseen(task) ==
  /\ pc = "applying" /\ task \in todo
  /\ faults < MaxFaults
  /\ faults' = faults + 1
  /\ Interrupted(task)
  /\ todo' = todo \ {task}
  /\ unseen' = unseen \cup {task}
  /\ UNCHANGED <<file, unread, plan, stage, broken, pc, runs>>

(* A faulty variant: the last stage is never entered. *)
NextStageButLast ==
  /\ pc = "applying" /\ todo = {}
  /\ IF broken \/ stage = Len(Stages) - 1
       THEN /\ pc' = IF broken THEN "error" ELSE "synced"
            /\ UNCHANGED <<stage, todo>>
       ELSE /\ stage' = stage + 1
            /\ todo' = TasksOf(stage + 1)
            /\ UNCHANGED pc
  /\ UNCHANGED <<file, live, unread, plan, broken, unseen, runs, faults>>

(* _run_staged_tasks, and the early returns of _apply_single_zone *)
NextStage ==
  /\ pc = "applying" /\ todo = {}
  /\ IF broken \/ stage = Len(Stages)
       THEN /\ pc' = IF broken THEN "error" ELSE "synced"
            /\ UNCHANGED <<stage, todo>>
       ELSE /\ stage' = stage + 1
            /\ todo' = TasksOf(stage + 1)
            /\ UNCHANGED pc
  /\ UNCHANGED <<file, live, unread, plan, broken, unseen, runs, faults>>

(* The command is run again; nothing of the last run is kept. *)
Rerun ==
  /\ pc \in Outcomes /\ runs < MaxRuns
  /\ runs' = runs + 1
  /\ pc' = "idle"
  /\ unread' = {} /\ plan' = {} /\ stage' = 1 /\ todo' = {} /\ broken' = FALSE
  /\ unseen' = {}
  /\ UNCHANGED <<file, live, faults>>

Next ==
  \/ \E failed \in SUBSET Sections : Plan(failed)
  \/ PlanFails
  \/ StartApply
  \/ \E task \in todo : Apply(task) \/ Fail(task) \/ FailUnseen(task)
  \/ NextStage
  \/ Rerun

Spec == Init /\ [][Next]_vars /\ WF_vars(Next)

-----------------------------------------------------------------------------
(* Properties. *)

(* A list that is as the file wants it: the provider may hold an empty text *)
(* where the file has no description.                                       *)
Stands(n) ==
  /\ lists[n] # Absent
  /\ lists[n].items = fileLists[n].items
  /\ lists[n].desc \in {fileLists[n].desc, Sent(fileLists[n].desc)}

(* What planning never gets rid of: no description differs from an empty    *)
(* one, and the change that is planned for it sends the empty one again.    *)
Repeats(task) ==
  /\ task.op = "set_desc"
  /\ fileLists[task.name].desc = NoDesc /\ lists[task.name].desc = NoText

ListsSettled == \A task \in DiffLists(lists) : Repeats(task)
RulesetsSettled == DiffRulesets(rulesets) = {}

(* What a run that goes on counts as done and is not. *)
Overlooked == {task.name : task \in unseen}

(* No write makes the phase refer to a list or ruleset that is not there:   *)
(* "apply lists first", "rulesets before deploy rules reference them" - but *)
(* for one whose create failed in this very run without an error text.      *)
Exists(n) == IF n \in Lists THEN lists[n] # Absent ELSE rulesets[n] # Absent
CreatedBlindly(n) == {Task("create_list", n), Task("create_ruleset", n)} \cap unseen # {}
NewReferencesResolve == [][\A n \in refs' \ refs : Exists(n) \/ CreatedBlindly(n)]_vars

(* What is deleted is deleted last: by then every object the file declares  *)
(* stands as declared, so nothing is lost before its replacement is there.  *)
(* The exceptions are the objects a call of this run failed on unseen.      *)
DeletesLast ==
  [][/\ (\E n \in Lists : lists[n] # Absent /\ lists'[n] = Absent) =>
          \A n \in DeclaredLists : Stands(n) \/ n \in Overlooked
     /\ (\E n \in Rulesets : rulesets[n] # Absent /\ rulesets'[n] = Absent) =>
          /\ \A n \in DeclaredLists : Stands(n) \/ n \in Overlooked
          /\ \A n \in DeclaredRulesets :
               rulesets[n] = fileRulesets[n] \/ n \in Overlooked]_vars

(* Nothing the file does not own is ever touched, and a failed fetch        *)
(* deletes nothing.                                                         *)
KeepsUnowned ==
  [][/\ fileLists = Undeclared \/ "lists" \in unread =>
          \A n \in Lists : lists[n] # Absent => lists'[n] = lists[n] \/ n \in DeclaredLists
     /\ DeclaredRulesets = {} \/ "rulesets" \in unread =>
          \A n \in Rulesets :
            rulesets[n] # Absent => rulesets'[n] = rulesets[n] \/ n \in DeclaredRulesets]_vars

(* However the faults fall, seen or not, a rerun after the last of them     *)
(* finishes the job, half-created rulesets included: what is left to plan   *)
(* is at most the change of a missing description to an empty one, which    *)
(* every later run plans again.                                             *)
EventuallySettled == <>(ListsSettled /\ RulesetsSettled /\ refs = fileRefs)
=============================================================================
