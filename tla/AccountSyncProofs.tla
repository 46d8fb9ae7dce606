------------------------- MODULE AccountSyncProofs -------------------------
(***************************************************************************)
(* What a sync does to an account, for any lists, rulesets, files and      *)
(* provider.  The invariant says what stands between the provider and the  *)
(* file: wherever they differ, the task that will remove the difference is *)
(* in the plan and still to come, or has failed, seen or unseen.           *)
(***************************************************************************)
EXTENDS AccountSync, TLAPS

ListStates == [Lists -> List \cup {Absent}]
RulesetStates == [Rulesets -> Contents \cup {Absent}]

TypeOK ==
  /\ DeclaredLists \subseteq Lists
  /\ \A n \in DeclaredLists : fileLists[n] \in List
  /\ DeclaredRulesets \subseteq Rulesets
  /\ \A n \in DeclaredRulesets : fileRulesets[n] \in Contents
  /\ fileRefs \subseteq Lists \cup Rulesets
  /\ lists \in ListStates
  /\ rulesets \in RulesetStates

(* A planned task is one of the eight kinds, on an object the file declares *)
(* or, for a delete, on one it leaves out of a section it has and whose     *)
(* live state was read.                                                     *)
IsTask(t) ==
  \/ t.op \in {"create_list", "put_items", "set_desc"} /\ t.name \in DeclaredLists
  \/ /\ t.op = "delete_list" /\ t.name \in Lists \ DeclaredLists
     /\ fileLists # Undeclared /\ "lists" \notin unread
  \/ t.op \in {"create_ruleset", "put_ruleset"} /\ t.name \in DeclaredRulesets
  \/ /\ t.op = "delete_ruleset" /\ t.name \in Rulesets \ DeclaredRulesets
     /\ DeclaredRulesets # {} /\ "rulesets" \notin unread
  \/ t.op = "put_phase" /\ t.name = Phase

TasksInv ==
  /\ \A t \in plan : IsTask(t) /\ t = Task(t.op, t.name)
  /\ \A n \in DeclaredLists :
       Task("create_list", n) \in plan =>
         /\ fileLists[n].items = Empty \/ Task("put_items", n) \in plan
         /\ Task("set_desc", n) \notin plan
  /\ unseen \subseteq plan
  /\ pc = "idle" => unseen = {}
  /\ pc = "applying" => stage \in 1..8 /\ todo \subseteq TasksOf(stage)

(* The task of stage i on n failed unseen, or was skipped for one that did. *)
Missed(i, n) ==
  \/ Task(Stages[i], n) \in unseen
  \/ i = 2 /\ Task(Stages[1], n) \in unseen

(* The task of stage i on n is planned and not behind the run, or is missed *)
(* in it; a failed run stays in its stage.                                  *)
Pending(i, n) ==
  /\ Task(Stages[i], n) \in plan
  /\ \/ pc = "planned"
     \/ stage < i
     \/ stage = i /\ (Task(Stages[i], n) \in todo \/ broken)
     \/ Missed(i, n)

(* What the provider may hold as the description the file gives to n. *)
Texts(n) == {fileLists[n].desc, Sent(fileLists[n].desc)}

Active == pc \in {"planned", "applying"}

ListsInv ==
  /\ Active => \A n \in DeclaredLists :
       /\ lists[n] = Absent => Pending(1, n)
       /\ lists[n] # Absent /\ lists[n].items # fileLists[n].items => Pending(1, n) \/ Pending(2, n)
       /\ lists[n] # Absent /\ lists[n].desc \notin Texts(n) => Pending(1, n) \/ Pending(3, n)
  /\ Active /\ fileLists # Undeclared /\ "lists" \notin unread =>
       \A n \in Lists \ DeclaredLists : lists[n] # Absent => Pending(4, n)

RulesetsInv ==
  /\ Active => \A n \in DeclaredRulesets :
       /\ rulesets[n] = Absent => Pending(5, n)
       /\ rulesets[n] # fileRulesets[n] => Pending(5, n) \/ Pending(6, n)
  /\ Active /\ DeclaredRulesets # {} /\ "rulesets" \notin unread =>
       \A n \in Rulesets \ DeclaredRulesets : rulesets[n] # Absent => Pending(7, n)

PhaseInv == Active /\ refs # fileRefs => Pending(8, Phase)

(* Everything the file declares stands as declared, and what it left out of *)
(* a section that was read is gone, but for what failed unseen.             *)
Accomplished ==
  /\ \A n \in DeclaredLists : Stands(n) \/ n \in Overlooked
  /\ \A n \in DeclaredRulesets : rulesets[n] = fileRulesets[n] \/ n \in Overlooked
  /\ refs = fileRefs \/ Task("put_phase", Phase) \in unseen
  /\ fileLists # Undeclared /\ "lists" \notin unread =>
       \A n \in Lists \ DeclaredLists : lists[n] = Absent \/ n \in Overlooked
  /\ DeclaredRulesets # {} /\ "rulesets" \notin unread =>
       \A n \in Rulesets \ DeclaredRulesets : rulesets[n] = Absent \/ n \in Overlooked

DoneInv == pc \in {"clean", "synced"} => Accomplished

IInv ==
  /\ TypeOK /\ FileConsistent
  /\ TasksInv /\ ListsInv /\ RulesetsInv /\ PhaseInv /\ DoneInv

-----------------------------------------------------------------------------
(* The stages by name and number.                                           *)
LEMMA StageNames ==
  /\ Len(Stages) = 8
  /\ Stages[1] = "create_list" /\ Stages[2] = "put_items"
  /\ Stages[3] = "set_desc" /\ Stages[4] = "delete_list"
  /\ Stages[5] = "create_ruleset" /\ Stages[6] = "put_ruleset"
  /\ Stages[7] = "delete_ruleset" /\ Stages[8] = "put_phase"
  BY DEF Stages

LEMMA StageOfOp ==
  ASSUME NEW i \in 1..8, NEW j \in 1..8, Stages[i] = Stages[j]
  PROVE  i = j
  BY StageNames

LEMMA TaskParts ==
  ASSUME NEW op, NEW name
  PROVE  Task(op, name).op = op /\ Task(op, name).name = name
  BY DEF Task

(* The text that is sent for a description is a description.                *)
LEMMA SentText ==
  ASSUME NEW desc \in Descs \cup {NoDesc}
  PROVE  Sent(desc) \in Descs \cup {NoDesc}
  BY AccountAssumption DEF Sent

(* A missed task is one the run overlooked.                                 *)
LEMMA MissedIsOverlooked ==
  ASSUME NEW i \in 1..8, NEW n, Missed(i, n)
  PROVE  n \in Overlooked
  BY TaskParts DEF Missed, Overlooked

LEMMA InitHolds == Init => IInv
<1> SUFFICES ASSUME Init PROVE IInv
  OBVIOUS
<1>1. fileLists # Undeclared =>
        DOMAIN fileLists \subseteq Lists /\ fileLists \in [DOMAIN fileLists -> List]
  BY AccountAssumption DEF Init
<1>2. DOMAIN fileRulesets \subseteq Rulesets
      /\ fileRulesets \in [DOMAIN fileRulesets -> Contents]
  BY AccountAssumption DEF Init
<1>3. lists \in ListStates /\ rulesets \in RulesetStates /\ fileRefs \subseteq Lists \cup Rulesets
  BY AccountAssumption DEF Init, ListStates, RulesetStates
<1>4. TypeOK
  BY <1>1, <1>2, <1>3 DEF TypeOK, DeclaredLists, DeclaredRulesets
<1> QED BY <1>4 DEF Init, IInv, TasksInv, ListsInv, RulesetsInv, PhaseInv, DoneInv, Active

-----------------------------------------------------------------------------
(* What the diffs plan, given what they take for the provider's state.      *)
LEMMA ListPlan ==
  ASSUME TypeOK, NEW current
  PROVE  /\ \A t \in DiffLists(current) :
              /\ t = Task(t.op, t.name)
              /\ \/ t.op \in {"create_list", "put_items", "set_desc"} /\ t.name \in DeclaredLists
                 \/ /\ t.op = "delete_list" /\ t.name \in Lists \ DeclaredLists
                    /\ fileLists # Undeclared /\ current[t.name] # Absent
         /\ \A n \in DeclaredLists :
              /\ Task("create_list", n) \in DiffLists(current) => current[n] = Absent
              /\ Task("set_desc", n) \in DiffLists(current) => current[n] # Absent
              /\ current[n] = Absent =>
                   /\ Task("create_list", n) \in DiffLists(current)
                   /\ fileLists[n].items # Empty => Task("put_items", n) \in DiffLists(current)
              /\ current[n] # Absent =>
                   /\ current[n].items # fileLists[n].items =>
                        Task("put_items", n) \in DiffLists(current)
                   /\ current[n].desc # fileLists[n].desc =>
                        Task("set_desc", n) \in DiffLists(current)
         /\ fileLists # Undeclared =>
              \A n \in Lists \ DeclaredLists :
                current[n] # Absent => Task("delete_list", n) \in DiffLists(current)
<1>1. ASSUME NEW n, NEW c
      PROVE  \A t \in ListTasks(n, c) :
               t.op \in {"create_list", "put_items", "set_desc"} /\ t.name = n
               /\ t = Task(t.op, t.name)
  BY DEF ListTasks, Task
<1>2. \A t \in DiffLists(current) :
        /\ t = Task(t.op, t.name)
        /\ \/ t.op \in {"create_list", "put_items", "set_desc"} /\ t.name \in DeclaredLists
           \/ /\ t.op = "delete_list" /\ t.name \in Lists \ DeclaredLists
              /\ fileLists # Undeclared /\ current[t.name] # Absent
  <2> SUFFICES ASSUME NEW t \in DiffLists(current)
               PROVE  /\ t = Task(t.op, t.name)
                      /\ \/ /\ t.op \in {"create_list", "put_items", "set_desc"}
                            /\ t.name \in DeclaredLists
                         \/ /\ t.op = "delete_list" /\ t.name \in Lists \ DeclaredLists
                            /\ fileLists # Undeclared /\ current[t.name] # Absent
    OBVIOUS
  <2>1. CASE \E n \in DeclaredLists : t \in ListTasks(n, current[n])
    BY <1>1, <2>1
  <2>2. CASE \E n \in Lists \ DeclaredLists : current[n] # Absent /\ t = Task("delete_list", n)
             /\ fileLists # Undeclared
    BY <2>2, TaskParts
  <2> QED BY <2>1, <2>2 DEF DiffLists
<1>3. ASSUME NEW n \in DeclaredLists
      PROVE  /\ fileLists # Undeclared
             /\ \A t : t \in ListTasks(n, current[n]) => t \in DiffLists(current)
  BY DEF DiffLists, DeclaredLists
<1>4. ASSUME NEW n \in DeclaredLists, NEW op \in {"create_list", "set_desc"},
             Task(op, n) \in DiffLists(current)
      PROVE  Task(op, n) \in ListTasks(n, current[n])
  <2>1. \A m \in Lists \ DeclaredLists : Task(op, n) # Task("delete_list", m)
    BY TaskParts
  <2>2. PICK m \in DeclaredLists : Task(op, n) \in ListTasks(m, current[m])
    BY <1>3, <1>4, <2>1 DEF DiffLists
  <2>3. m = n
    BY <1>1, <2>2, TaskParts
  <2> QED BY <2>2, <2>3
<1>8. ASSUME NEW n \in DeclaredLists
      PROVE  /\ Task("create_list", n) \in DiffLists(current) => current[n] = Absent
             /\ Task("set_desc", n) \in DiffLists(current) => current[n] # Absent
  <2>1. Task("create_list", n) \in ListTasks(n, current[n]) => current[n] = Absent
    BY DEF ListTasks, Task
  <2>2. Task("set_desc", n) \in ListTasks(n, current[n]) => current[n] # Absent
    BY DEF ListTasks, Task
  <2> QED BY <1>4, <2>1, <2>2
<1>5. ASSUME NEW n \in DeclaredLists, current[n] = Absent
      PROVE  /\ Task("create_list", n) \in DiffLists(current)
             /\ fileLists[n].items # Empty => Task("put_items", n) \in DiffLists(current)
  <2>1. Task("create_list", n) \in ListTasks(n, current[n])
    BY <1>5 DEF ListTasks
  <2>2. fileLists[n].items # Empty => Task("put_items", n) \in ListTasks(n, current[n])
    BY <1>5 DEF ListTasks
  <2> QED BY <1>3, <2>1, <2>2
<1>6. ASSUME NEW n \in DeclaredLists, current[n] # Absent
      PROVE  /\ current[n].items # fileLists[n].items =>
                  Task("put_items", n) \in DiffLists(current)
             /\ current[n].desc # fileLists[n].desc =>
                  Task("set_desc", n) \in DiffLists(current)
  <2>1. current[n].items # fileLists[n].items =>
          Task("put_items", n) \in ListTasks(n, current[n])
    BY <1>6 DEF ListTasks
  <2>2. current[n].desc # fileLists[n].desc =>
          Task("set_desc", n) \in ListTasks(n, current[n])
    BY <1>6 DEF ListTasks
  <2> QED BY <1>3, <2>1, <2>2
<1>7. fileLists # Undeclared =>
        \A n \in Lists \ DeclaredLists :
          current[n] # Absent => Task("delete_list", n) \in DiffLists(current)
  <2> DEFINE Left == {m \in Lists \ DeclaredLists : current[m] # Absent}
  <2>1. fileLists # Undeclared => {Task("delete_list", n) : n \in Left} \subseteq DiffLists(current)
    BY DEF DiffLists
  <2>2. \A n \in Left : Task("delete_list", n) \in {Task("delete_list", m) : m \in Left}
    OBVIOUS
  <2> QED BY <2>1, <2>2
<1> QED BY <1>2, <1>5, <1>6, <1>7, <1>8

LEMMA RulesetPlan ==
  ASSUME TypeOK, NEW current
  PROVE  /\ \A t \in DiffRulesets(current) :
              /\ t = Task(t.op, t.name)
              /\ \/ t.op \in {"create_ruleset", "put_ruleset"} /\ t.name \in DeclaredRulesets
                 \/ /\ t.op = "delete_ruleset" /\ t.name \in Rulesets \ DeclaredRulesets
                    /\ DeclaredRulesets # {} /\ current[t.name] # Absent
         /\ \A n \in DeclaredRulesets :
              /\ current[n] = Absent => Task("create_ruleset", n) \in DiffRulesets(current)
              /\ current[n] \notin {Absent, fileRulesets[n]} =>
                   Task("put_ruleset", n) \in DiffRulesets(current)
         /\ DeclaredRulesets # {} =>
              \A n \in Rulesets \ DeclaredRulesets :
                current[n] # Absent => Task("delete_ruleset", n) \in DiffRulesets(current)
<1>1. ASSUME NEW t \in DiffRulesets(current)
      PROVE  /\ t = Task(t.op, t.name)
             /\ \/ t.op \in {"create_ruleset", "put_ruleset"} /\ t.name \in DeclaredRulesets
                \/ /\ t.op = "delete_ruleset" /\ t.name \in Rulesets \ DeclaredRulesets
                   /\ DeclaredRulesets # {} /\ current[t.name] # Absent
  <2>1. CASE \E n \in DeclaredRulesets : t \in {Task("create_ruleset", n), Task("put_ruleset", n)}
    BY <2>1, TaskParts
  <2>2. CASE \E n \in Rulesets \ DeclaredRulesets :
               DeclaredRulesets # {} /\ current[n] # Absent /\ t = Task("delete_ruleset", n)
    BY <2>2, TaskParts
  <2> QED BY <1>1, <2>1, <2>2 DEF DiffRulesets
<1>2. ASSUME NEW n \in DeclaredRulesets
      PROVE  /\ current[n] = Absent => Task("create_ruleset", n) \in DiffRulesets(current)
             /\ current[n] \notin {Absent, fileRulesets[n]} =>
                  Task("put_ruleset", n) \in DiffRulesets(current)
  BY DEF DiffRulesets
<1>3. DeclaredRulesets # {} =>
        \A n \in Rulesets \ DeclaredRulesets :
          current[n] # Absent => Task("delete_ruleset", n) \in DiffRulesets(current)
  BY DEF DiffRulesets
<1> QED BY <1>1, <1>2, <1>3

-----------------------------------------------------------------------------
(* Planning: whatever differs from the file has its task; of a section that *)
(* could not be read every object is to be created.                         *)
LEMMA PlanHolds ==
  ASSUME IInv, NEW failed \in SUBSET Sections, Plan(failed)
  PROVE  IInv'
<1> DEFINE curL == Current("lists", lists, failed)
           curR == Current("rulesets", rulesets, failed)
<1>1. /\ UNCHANGED <<fileLists, fileRulesets, fileRefs, lists, rulesets, refs>>
      /\ unread' = failed
      /\ plan' = (DiffLists(curL) \cup DiffRulesets(curR)) \cup DiffPhase
      /\ pc' = IF plan' = {} THEN "clean" ELSE "planned"
      /\ unseen = {} /\ unseen' = {}
  BY DEF Plan, file, live, IInv, TasksInv
<1>2. /\ \A n \in Lists : curL[n] = IF "lists" \in failed THEN Absent ELSE lists[n]
      /\ \A n \in Rulesets : curR[n] = IF "rulesets" \in failed THEN Absent ELSE rulesets[n]
  BY DEF Current, IInv, TypeOK, ListStates, RulesetStates
<1> HIDE DEF curL, curR
<1>3. DeclaredLists' = DeclaredLists /\ DeclaredRulesets' = DeclaredRulesets
  BY <1>1 DEF DeclaredLists, DeclaredRulesets
<1>4. TypeOK' /\ FileConsistent'
  BY <1>1, <1>3 DEF IInv, TypeOK, FileConsistent, KeptLists, KeptRulesets
<1>5. \A t \in DiffPhase : t = Task("put_phase", Phase)
  BY DEF DiffPhase
<1>6. TasksInv'
  <2>1. ASSUME NEW t \in plan' PROVE IsTask(t)' /\ t = Task(t.op, t.name)
    <3>1. CASE t \in DiffLists(curL)
      BY <1>1, <1>2, <1>3, <3>1, ListPlan DEF IInv, IsTask
    <3>2. CASE t \in DiffRulesets(curR)
      BY <1>1, <1>2, <1>3, <3>2, RulesetPlan DEF IInv, IsTask
    <3>3. CASE t \in DiffPhase
      BY <1>5, <3>3, TaskParts DEF IsTask
    <3> QED BY <1>1, <2>1, <3>1, <3>2, <3>3
  <2>2. ASSUME NEW n \in DeclaredLists, Task("create_list", n) \in plan'
        PROVE  /\ fileLists[n].items = Empty \/ Task("put_items", n) \in plan'
               /\ Task("set_desc", n) \notin plan'
    <3>1. \A op \in {"create_list", "set_desc"} :
            Task(op, n) \notin DiffRulesets(curR) \cup DiffPhase
      BY <1>5, RulesetPlan, TaskParts DEF IInv
    <3>2. Task("create_list", n) \in DiffLists(curL)
      BY <1>1, <2>2, <3>1
    <3>3. Task("set_desc", n) \notin DiffLists(curL)
      BY <3>2, ListPlan DEF IInv
    <3> QED BY <1>1, <3>1, <3>2, <3>3, ListPlan DEF IInv
  <2>3. pc' \notin {"applying", "idle"}
    BY <1>1
  <2> QED BY <1>1, <1>3, <2>1, <2>2, <2>3 DEF TasksInv
<1>7. ASSUME NEW i \in 1..8, NEW n, Task(Stages[i], n) \in plan'
      PROVE  pc' = "planned" /\ Pending(i, n)'
  BY <1>1, <1>7 DEF Pending
<1>8. ASSUME NEW n \in DeclaredLists
      PROVE  /\ lists[n] = Absent => Pending(1, n)'
             /\ lists[n] # Absent /\ lists[n].items # fileLists[n].items =>
                  Pending(1, n)' \/ Pending(2, n)'
             /\ lists[n] # Absent /\ lists[n].desc \notin Texts(n) =>
                  Pending(1, n)' \/ Pending(3, n)'
  <2>1. n \in Lists
    BY DEF IInv, TypeOK
  <2>2. CASE curL[n] = Absent
    <3>1. Task(Stages[1], n) \in plan'
      BY <1>1, <2>2, ListPlan, StageNames DEF IInv
    <3> QED BY <1>7, <3>1
  <2>3. CASE curL[n] # Absent
    <3>1. curL[n] = lists[n]
      BY <1>2, <2>1, <2>3
    <3>2. lists[n].items # fileLists[n].items => Task(Stages[2], n) \in plan'
      BY <1>1, <2>3, <3>1, ListPlan, StageNames DEF IInv
    <3>3. lists[n].desc \notin Texts(n) => Task(Stages[3], n) \in plan'
      BY <1>1, <2>3, <3>1, ListPlan, StageNames DEF IInv, Texts
    <3> QED BY <1>7, <2>3, <3>1, <3>2, <3>3
  <2> QED BY <2>2, <2>3
<1>9. ASSUME fileLists # Undeclared, "lists" \notin failed, NEW n \in Lists \ DeclaredLists,
             lists[n] # Absent
      PROVE  Pending(4, n)'
  <2>1. Task(Stages[4], n) \in plan'
    BY <1>1, <1>2, <1>9, ListPlan, StageNames DEF IInv
  <2> QED BY <1>7, <2>1
<1>10. ListsInv'
  BY <1>1, <1>3, <1>8, <1>9 DEF ListsInv, Texts
<1>11. ASSUME NEW n \in DeclaredRulesets
       PROVE  /\ rulesets[n] = Absent => Pending(5, n)'
              /\ rulesets[n] # fileRulesets[n] => Pending(5, n)' \/ Pending(6, n)'
  <2>1. n \in Rulesets
    BY DEF IInv, TypeOK
  <2>2. CASE curR[n] = Absent
    <3>1. Task(Stages[5], n) \in plan'
      BY <1>1, <2>2, RulesetPlan, StageNames DEF IInv
    <3> QED BY <1>7, <3>1
  <2>3. CASE curR[n] # Absent
    <3>1. curR[n] = rulesets[n]
      BY <1>2, <2>1, <2>3
    <3>2. rulesets[n] # fileRulesets[n] => Task(Stages[6], n) \in plan'
      BY <1>1, <2>3, <3>1, RulesetPlan, StageNames DEF IInv
    <3> QED BY <1>7, <2>3, <3>1, <3>2
  <2> QED BY <2>2, <2>3
<1>12. ASSUME DeclaredRulesets # {}, "rulesets" \notin failed,
              NEW n \in Rulesets \ DeclaredRulesets, rulesets[n] # Absent
       PROVE  Pending(7, n)'
  <2>1. Task(Stages[7], n) \in plan'
    BY <1>1, <1>2, <1>12, RulesetPlan, StageNames DEF IInv
  <2> QED BY <1>7, <2>1
<1>13. RulesetsInv'
  BY <1>1, <1>3, <1>11, <1>12 DEF RulesetsInv
<1>14. refs # fileRefs => Pending(8, Phase)'
  <2>1. refs # fileRefs => Task(Stages[8], Phase) \in plan'
    BY <1>1, StageNames DEF DiffPhase
  <2> QED BY <1>7, <2>1
<1>15. PhaseInv'
  BY <1>1, <1>14 DEF PhaseInv
<1>16. DoneInv'
  <2> SUFFICES ASSUME plan' = {} PROVE Accomplished'
    BY <1>1 DEF DoneInv
  <2>1. \A i \in 1..8 : \A n : ~Pending(i, n)'
    BY DEF Pending
  <2>2. \A n \in DeclaredLists : Stands(n)
    BY <1>8, <2>1 DEF Stands, Texts
  <2>3. \A n \in DeclaredRulesets : rulesets[n] = fileRulesets[n]
    BY <1>11, <2>1
  <2> QED BY <1>1, <1>3, <1>9, <1>12, <1>14, <2>1, <2>2, <2>3 DEF Accomplished, Stands
<1> QED BY <1>4, <1>6, <1>10, <1>13, <1>15, <1>16 DEF IInv

-----------------------------------------------------------------------------
(* Steps that leave file and provider alone.                                *)
LEMMA SameFile ==
  ASSUME UNCHANGED <<file, live>>
  PROVE  /\ DeclaredLists' = DeclaredLists /\ DeclaredRulesets' = DeclaredRulesets
         /\ TypeOK' = TypeOK /\ FileConsistent' = FileConsistent
  BY DEF file, live, DeclaredLists, DeclaredRulesets, TypeOK, FileConsistent, KeptLists,
         KeptRulesets

(* If what was pending stays so, and nothing new is planned, the provider   *)
(* still differs from the file only where a task is pending.                *)
LEMMA PendingKeeps ==
  ASSUME IInv, UNCHANGED <<file, live, unread, plan>>,
         \A i \in 1..8 : \A n : Active' /\ Pending(i, n) => Pending(i, n)',
         Active' => Active
  PROVE  ListsInv' /\ RulesetsInv' /\ PhaseInv'
<1>1. DeclaredLists' = DeclaredLists /\ DeclaredRulesets' = DeclaredRulesets
      /\ UNCHANGED <<fileLists, fileRulesets, fileRefs, lists, rulesets, refs>>
  BY SameFile DEF file, live
<1>2. ListsInv'
  BY <1>1 DEF IInv, ListsInv, Texts
<1>3. RulesetsInv'
  BY <1>1 DEF IInv, RulesetsInv
<1>4. PhaseInv'
  BY <1>1 DEF IInv, PhaseInv
<1> QED BY <1>2, <1>3, <1>4

LEMMA SkipHolds ==
  ASSUME IInv, PlanFails \/ Rerun \/ UNCHANGED vars
  PROVE  IInv'
<1>1. UNCHANGED <<file, live>>
  BY DEF PlanFails, Rerun, vars
<1>2. CASE PlanFails \/ Rerun
  <2>1. pc' \in {"skipped", "idle"} /\ (UNCHANGED plan \/ plan' = {})
        /\ (UNCHANGED unread \/ plan' = {})
        /\ unseen' = {}
    BY <1>2 DEF PlanFails, Rerun, IInv, TasksInv
  <2>2. TasksInv'
    BY <1>1, <2>1, SameFile DEF IInv, TasksInv, IsTask, file
  <2> QED BY <1>1, <2>1, <2>2, SameFile
          DEF IInv, ListsInv, RulesetsInv, PhaseInv, DoneInv, Active
<1>3. CASE UNCHANGED vars
  <2>1. TasksInv'
    BY <1>1, <1>3, SameFile DEF IInv, TasksInv, IsTask, TasksOf, vars, file
  <2>2. ListsInv' /\ RulesetsInv' /\ PhaseInv'
    BY <1>3, PendingKeeps DEF vars, Active, Pending, Missed
  <2>3. DoneInv'
    BY <1>1, <1>3, SameFile DEF IInv, DoneInv, Accomplished, Stands, Overlooked, vars, file, live
  <2> QED BY <1>1, <2>1, <2>2, <2>3, SameFile DEF IInv
<1> QED BY <1>2, <1>3

LEMMA StartHolds ==
  ASSUME IInv, StartApply
  PROVE  IInv'
<1>1. /\ pc = "planned" /\ pc' = "applying" /\ stage' = 1 /\ todo' = TasksOf(1)
      /\ UNCHANGED <<file, live, unread, plan, broken, unseen>>
  BY DEF StartApply
<1>2. TasksInv'
  BY <1>1, SameFile DEF IInv, TasksInv, IsTask, TasksOf, file
<1>3. \A i \in 1..8 : \A n : Pending(i, n) => Pending(i, n)'
  <2> SUFFICES ASSUME NEW i \in 1..8, NEW n, Pending(i, n)
               PROVE  Pending(i, n)'
    OBVIOUS
  <2>1. i = 1 => Task(Stages[i], n) \in todo'
    BY <1>1, TaskParts, StageNames DEF TasksOf, Pending
  <2> QED BY <1>1, <2>1 DEF Pending, Missed
<1>4. ListsInv' /\ RulesetsInv' /\ PhaseInv'
  BY <1>1, <1>3, PendingKeeps DEF Active
<1>5. DoneInv'
  BY <1>1 DEF DoneInv
<1> QED BY <1>1, <1>2, <1>4, <1>5, SameFile DEF IInv

(* A stage is left only with nothing of it pending, so that the last one    *)
(* leaves nothing that differs from the file.                               *)
LEMMA NextStageHolds ==
  ASSUME IInv, NextStage
  PROVE  IInv'
<1>1. /\ pc = "applying" /\ todo = {}
      /\ stage \in 1..8 /\ todo \subseteq TasksOf(stage)
      /\ UNCHANGED <<file, live, unread, plan, broken, unseen>>
  BY DEF NextStage, IInv, TasksInv
<1>2. CASE ~broken /\ stage # 8
  <2>1. stage' = stage + 1 /\ todo' = TasksOf(stage + 1) /\ pc' = "applying"
    BY <1>1, <1>2, StageNames DEF NextStage
  <2>2. TasksInv'
    <3>1. \A t \in plan' : IsTask(t)'
      BY <1>1, SameFile DEF IInv, TasksInv, IsTask, file
    <3>2. (todo \subseteq TasksOf(stage))'
      BY <1>1, <2>1 DEF TasksOf
    <3>3. /\ DeclaredLists' = DeclaredLists /\ fileLists' = fileLists
          /\ plan' = plan /\ unseen' = unseen /\ pc' # "idle"
      BY <1>1, <2>1, SameFile DEF file
    <3>4. stage' \in 1..8
      BY <1>1, <1>2, <2>1
    <3> QED BY <3>1, <3>2, <3>3, <3>4 DEF IInv, TasksInv
  <2>3. \A i \in 1..8 : \A n : Pending(i, n) => Pending(i, n)'
    <3> SUFFICES ASSUME NEW i \in 1..8, NEW n, Pending(i, n)
                 PROVE  Pending(i, n)'
      OBVIOUS
    <3>0. Missed(i, n)' = Missed(i, n)
      BY <1>1 DEF Missed
    <3>1. Task(Stages[i], n) \in plan /\ (stage < i \/ Missed(i, n))
      BY <1>1, <1>2 DEF Pending
    <3>2. i = stage + 1 => Task(Stages[i], n) \in todo' \/ Missed(i, n)
      <4> SUFFICES ASSUME i = stage + 1, ~Missed(i, n) PROVE Task(Stages[i], n) \in TasksOf(i)
        BY <2>1
      <4>1. Task(Stages[i], n).op = "put_items" => i = 2
        BY StageNames, TaskParts
      <4>2. Task(Stages[i], n).op = "put_items" => Task("create_list", n) \notin unseen
        BY <4>1, StageNames DEF Missed
      <4> QED BY <3>1, <4>2, TaskParts DEF TasksOf
    <3> QED BY <1>1, <2>1, <3>0, <3>1, <3>2 DEF Pending
  <2>4. ListsInv' /\ RulesetsInv' /\ PhaseInv'
    BY <1>1, <2>1, <2>3, PendingKeeps DEF Active
  <2>5. DoneInv'
    BY <2>1 DEF DoneInv
  <2> QED BY <1>1, <2>2, <2>4, <2>5, SameFile DEF IInv
<1>3. CASE broken \/ stage = 8
  <2>1. pc' = (IF broken THEN "error" ELSE "synced") /\ UNCHANGED <<stage, todo>>
    BY <1>3, StageNames DEF NextStage
  <2>2. TasksInv'
    BY <1>1, <2>1, SameFile DEF IInv, TasksInv, IsTask, file
  <2>3. ListsInv' /\ RulesetsInv' /\ PhaseInv'
    BY <2>1 DEF ListsInv, RulesetsInv, PhaseInv, Active
  <2>4. DoneInv'
    <3> SUFFICES ASSUME ~broken PROVE Accomplished
      BY <1>1, <2>1, SameFile DEF DoneInv, Accomplished, Stands, Overlooked, file, live
    <3>1. \A i \in 1..8 : \A n : Pending(i, n) => Missed(i, n) /\ n \in Overlooked
      BY <1>1, <1>3, MissedIsOverlooked DEF Pending
    <3>2. \A n \in DeclaredLists : Stands(n) \/ n \in Overlooked
      BY <1>1, <3>1 DEF IInv, ListsInv, Active, Stands, Texts
    <3>3. \A n \in DeclaredRulesets : rulesets[n] = fileRulesets[n] \/ n \in Overlooked
      BY <1>1, <3>1 DEF IInv, RulesetsInv, Active
    <3>4. refs = fileRefs \/ Task("put_phase", Phase) \in unseen
      <4>1. refs # fileRefs => Missed(8, Phase)
        BY <1>1, <3>1 DEF IInv, PhaseInv, Active
      <4> QED BY <4>1, StageNames DEF Missed
    <3> QED BY <1>1, <3>1, <3>2, <3>3, <3>4
            DEF IInv, ListsInv, RulesetsInv, Accomplished, Active
  <2> QED BY <1>1, <2>2, <2>3, <2>4, SameFile DEF IInv
<1> QED BY <1>2, <1>3

-----------------------------------------------------------------------------
(* A call of the run.                                                       *)
LEMMA EffectOf ==
  ASSUME NEW task, Effect(task)
  PROVE  /\ task.op = "create_list" =>
              /\ lists' = [lists EXCEPT ![task.name] =
                                [items |-> Empty, desc |-> Sent(fileLists[task.name].desc)]]
              /\ UNCHANGED <<rulesets, refs>>
         /\ task.op = "put_items" =>
              /\ lists' = [lists EXCEPT ![task.name] =
                                [items |-> fileLists[task.name].items,
                                 desc |-> lists[task.name].desc]]
              /\ UNCHANGED <<rulesets, refs>>
         /\ task.op = "set_desc" =>
              /\ lists' = [lists EXCEPT ![task.name] =
                                [items |-> lists[task.name].items,
                                 desc |-> Sent(fileLists[task.name].desc)]]
              /\ UNCHANGED <<rulesets, refs>>
         /\ task.op = "delete_list" =>
              lists' = [lists EXCEPT ![task.name] = Absent] /\ UNCHANGED <<rulesets, refs>>
         /\ task.op \in {"create_ruleset", "put_ruleset"} =>
              /\ rulesets' = [rulesets EXCEPT ![task.name] = fileRulesets[task.name]]
              /\ UNCHANGED <<lists, refs>>
         /\ task.op = "delete_ruleset" =>
              rulesets' = [rulesets EXCEPT ![task.name] = Absent] /\ UNCHANGED <<lists, refs>>
         /\ task.op = "put_phase" => refs' = fileRefs /\ UNCHANGED <<lists, rulesets>>
  BY DEF Effect

(* What a task takes away and what it leaves behind in todo and broken.     *)
Taken(task) ==
  /\ pc = "applying" /\ task \in todo
  /\ pc' = pc /\ UNCHANGED <<file, unread, plan, stage>>
  /\ todo' \subseteq todo /\ (broken => broken')
  /\ broken' \/ todo' = todo \ {task}
  /\ unseen \subseteq unseen' /\ unseen' \subseteq unseen \cup {task}

LEMMA TakenFacts ==
  ASSUME IInv, NEW task, Taken(task)
  PROVE  /\ UNCHANGED <<fileLists, fileRulesets, fileRefs, unread, plan, stage, pc>>
         /\ DeclaredLists' = DeclaredLists /\ DeclaredRulesets' = DeclaredRulesets
         /\ stage \in 1..8 /\ Active /\ Active'
         /\ task \in plan /\ task = Task(Stages[stage], task.name) /\ task.op = Stages[stage]
         /\ IsTask(task)
         /\ TasksInv'
         /\ \A i \in 1..8 : \A n : Pending(i, n) =>
              /\ stage <= i \/ Missed(i, n)
              /\ Pending(i, n)' \/ (i = stage /\ n = task.name)
<1>1. /\ UNCHANGED <<fileLists, fileRulesets, fileRefs, unread, plan, stage, pc>>
      /\ DeclaredLists' = DeclaredLists /\ DeclaredRulesets' = DeclaredRulesets
  BY DEF Taken, file, DeclaredLists, DeclaredRulesets
<1>2. stage \in 1..8 /\ Active /\ Active'
  BY DEF Taken, IInv, TasksInv, Active
<1>3. /\ task \in plan /\ task = Task(Stages[stage], task.name) /\ task.op = Stages[stage]
      /\ IsTask(task)
  BY DEF Taken, IInv, TasksInv, TasksOf
<1>4. TasksInv'
  <2>1. \A t \in plan' : IsTask(t)'
    BY <1>1 DEF IInv, TasksInv, IsTask
  <2>2. ASSUME NEW t \in todo' PROVE t \in TasksOf(stage)'
    <3>1. t \in TasksOf(stage)
      BY <2>2 DEF Taken, IInv, TasksInv
    <3>2. t.op = Stages[stage] /\ t \in plan
          /\ (t.op = "put_items" => Task("create_list", t.name) \notin unseen)
      BY <3>1 DEF TasksOf
    <3>3. t.op = "put_items" => task # Task("create_list", t.name)
      BY <1>3, <3>2, TaskParts
    <3>4. t.op = "put_items" => Task("create_list", t.name) \notin unseen'
      BY <3>2, <3>3 DEF Taken
    <3> QED BY <1>1, <3>2, <3>4 DEF TasksOf
  <2>3. unseen' \subseteq plan' /\ pc' # "idle"
    BY <1>1, <1>3 DEF Taken, IInv, TasksInv
  <2> QED BY <1>1, <2>1, <2>2, <2>3 DEF IInv, TasksInv
<1>5. ASSUME NEW i \in 1..8, NEW n, Pending(i, n)
      PROVE  /\ stage <= i \/ Missed(i, n)
             /\ Pending(i, n)' \/ (i = stage /\ n = task.name)
  <2>1. stage <= i \/ Missed(i, n)
    BY <1>2, <1>5 DEF Pending, Taken
  <2>2. CASE Missed(i, n)
    <3>1. Missed(i, n)'
      BY <2>2 DEF Missed, Taken
    <3> QED BY <1>1, <1>5, <2>2, <3>1 DEF Pending
  <2>3. CASE i = stage /\ n # task.name /\ ~Missed(i, n)
    <3>1. Task(Stages[i], n) # task
      BY <2>3, TaskParts
    <3> QED BY <1>1, <1>5, <2>1, <2>3, <3>1 DEF Pending, Taken
  <2>4. CASE i # stage /\ ~Missed(i, n)
    BY <1>1, <1>2, <1>5, <2>1, <2>4 DEF Pending, Taken
  <2> QED BY <2>1, <2>2, <2>3, <2>4
<1> QED BY <1>1, <1>2, <1>3, <1>4, <1>5

(* What one assignment does to the lists and to the rulesets.               *)
LEMMA SetOne ==
  ASSUME TypeOK, NEW n, NEW v
  PROVE  /\ n \in Lists /\ v \in List \cup {Absent} /\ lists' = [lists EXCEPT ![n] = v] =>
              /\ lists' \in ListStates /\ lists'[n] = v
              /\ \A m \in Lists \ {n} : lists'[m] = lists[m]
         /\ n \in Rulesets /\ v \in Contents \cup {Absent}
               /\ rulesets' = [rulesets EXCEPT ![n] = v] =>
              /\ rulesets' \in RulesetStates /\ rulesets'[n] = v
              /\ \A m \in Rulesets \ {n} : rulesets'[m] = rulesets[m]
  BY DEF TypeOK, ListStates, RulesetStates

(* One list is set: to what the file says, but for what is still pending,   *)
(* or to nothing if the file leaves it out.                                 *)
LEMMA ListChange ==
  ASSUME IInv, NEW task, Taken(task), stage \in 1..4,
         lists' \in ListStates, \A m \in Lists \ {task.name} : lists'[m] = lists[m],
         rulesets' = rulesets, refs' = refs,
         task.name \in DeclaredLists =>
           /\ lists'[task.name] # Absent
           /\ lists'[task.name].items # fileLists[task.name].items =>
                Pending(1, task.name)' \/ Pending(2, task.name)'
           /\ lists'[task.name].desc \notin Texts(task.name) =>
                Pending(1, task.name)' \/ Pending(3, task.name)',
         task.name \notin DeclaredLists => lists'[task.name] = Absent
  PROVE  IInv'
<1> DEFINE n == task.name
<1>1. /\ UNCHANGED <<fileLists, fileRulesets, fileRefs, unread, plan, stage, pc>>
      /\ DeclaredLists' = DeclaredLists /\ DeclaredRulesets' = DeclaredRulesets
      /\ IsTask(task) /\ task.op = Stages[stage] /\ Active /\ Active' /\ TasksInv'
  BY TakenFacts
<1>2. \A i \in 1..8 : \A m : Pending(i, m) =>
         Pending(i, m)' \/ (i = stage /\ m = n)
  BY TakenFacts
<1>3. n \in Lists /\ fileLists # Undeclared
  BY <1>1, StageNames DEF IsTask, IInv, TypeOK, DeclaredLists
<1>4. \A m \in Lists \ {n} : lists'[m] = lists[m]
  OBVIOUS
<1>5. TypeOK'
  BY <1>1 DEF IInv, TypeOK
<1>6. FileConsistent'
  BY <1>1, <1>3 DEF IInv, FileConsistent, KeptLists, KeptRulesets
<1>7. ASSUME NEW m \in DeclaredLists
      PROVE  /\ lists'[m] = Absent => Pending(1, m)'
             /\ lists'[m] # Absent /\ lists'[m].items # fileLists[m].items =>
                  Pending(1, m)' \/ Pending(2, m)'
             /\ lists'[m] # Absent /\ lists'[m].desc \notin Texts(m) =>
                  Pending(1, m)' \/ Pending(3, m)'
  <2>1. CASE m = n
    BY <1>4, <2>1
  <2>2. CASE m # n
    <3>1. m \in Lists /\ lists'[m] = lists[m]
      BY <1>4, <2>2 DEF IInv, TypeOK
    <3> QED BY <1>1, <1>2, <2>2, <3>1 DEF IInv, ListsInv
  <2> QED BY <2>1, <2>2
<1>8. ASSUME "lists" \notin unread, NEW m \in Lists \ DeclaredLists, lists'[m] # Absent
      PROVE  Pending(4, m)'
  <2>1. m # n
    BY <1>4, <1>8
  <2>2. Pending(4, m)
    BY <1>1, <1>3, <1>4, <1>8, <2>1 DEF IInv, ListsInv
  <2> QED BY <1>2, <2>1, <2>2
<1>9. ListsInv'
  BY <1>1, <1>7, <1>8 DEF ListsInv, Texts
<1>10. \A i \in 5..8 : \A m : Pending(i, m) => Pending(i, m)'
  BY <1>2
<1>11. RulesetsInv'
  BY <1>1, <1>10 DEF IInv, RulesetsInv
<1>12. PhaseInv'
  BY <1>1, <1>10 DEF IInv, PhaseInv
<1>13. DoneInv'
  BY <1>1 DEF DoneInv, Active
<1> QED BY <1>1, <1>5, <1>6, <1>9, <1>11, <1>12, <1>13 DEF IInv

LEMMA RulesetChange ==
  ASSUME IInv, NEW task, Taken(task), stage \in 5..7,
         rulesets' \in RulesetStates,
         \A m \in Rulesets \ {task.name} : rulesets'[m] = rulesets[m],
         lists' = lists, refs' = refs,
         task.name \in DeclaredRulesets =>
           /\ rulesets'[task.name] # Absent
           /\ rulesets'[task.name] # fileRulesets[task.name] =>
                Pending(5, task.name)' \/ Pending(6, task.name)',
         task.name \notin DeclaredRulesets => rulesets'[task.name] = Absent
  PROVE  IInv'
<1> DEFINE n == task.name
<1>1. /\ UNCHANGED <<fileLists, fileRulesets, fileRefs, unread, plan, stage, pc>>
      /\ DeclaredLists' = DeclaredLists /\ DeclaredRulesets' = DeclaredRulesets
      /\ IsTask(task) /\ task.op = Stages[stage] /\ Active /\ Active' /\ TasksInv'
  BY TakenFacts
<1>2. \A i \in 1..8 : \A m : Pending(i, m) =>
         Pending(i, m)' \/ (i = stage /\ m = n)
  BY TakenFacts
<1>3. n \in Rulesets /\ DeclaredRulesets # {}
  BY <1>1, StageNames DEF IsTask, IInv, TypeOK
<1>4. \A m \in Rulesets \ {n} : rulesets'[m] = rulesets[m]
  OBVIOUS
<1>5. TypeOK'
  BY <1>1 DEF IInv, TypeOK
<1>6. FileConsistent'
  BY <1>1, <1>3 DEF IInv, FileConsistent, KeptLists, KeptRulesets
<1>7. ASSUME NEW m \in DeclaredRulesets
      PROVE  /\ rulesets'[m] = Absent => Pending(5, m)'
             /\ rulesets'[m] # fileRulesets[m] => Pending(5, m)' \/ Pending(6, m)'
  <2>1. CASE m = n
    BY <1>4, <2>1
  <2>2. CASE m # n
    <3>1. m \in Rulesets /\ rulesets'[m] = rulesets[m]
      BY <1>4, <2>2 DEF IInv, TypeOK
    <3> QED BY <1>1, <1>2, <2>2, <3>1 DEF IInv, RulesetsInv
  <2> QED BY <2>1, <2>2
<1>8. ASSUME "rulesets" \notin unread, NEW m \in Rulesets \ DeclaredRulesets,
             rulesets'[m] # Absent
      PROVE  Pending(7, m)'
  <2>1. m # n
    BY <1>4, <1>8
  <2>2. Pending(7, m)
    BY <1>1, <1>3, <1>4, <1>8, <2>1 DEF IInv, RulesetsInv
  <2> QED BY <1>2, <2>1, <2>2
<1>9. RulesetsInv'
  BY <1>1, <1>7, <1>8 DEF RulesetsInv
<1>10. \A i \in 1..4 : \A m : Pending(i, m) => Pending(i, m)'
  BY <1>2
<1>11. ListsInv'
  BY <1>1, <1>10 DEF IInv, ListsInv, Texts
<1>12. PhaseInv'
  BY <1>1, <1>2 DEF IInv, PhaseInv
<1>13. DoneInv'
  BY <1>1 DEF DoneInv, Active
<1> QED BY <1>1, <1>5, <1>6, <1>9, <1>11, <1>12, <1>13 DEF IInv

LEMMA PhaseChange ==
  ASSUME IInv, NEW task, Taken(task), stage = 8,
         refs' = fileRefs, lists' = lists, rulesets' = rulesets
  PROVE  IInv'
<1>1. /\ UNCHANGED <<fileLists, fileRulesets, fileRefs, unread, plan, stage, pc>>
      /\ DeclaredLists' = DeclaredLists /\ DeclaredRulesets' = DeclaredRulesets
      /\ Active /\ Active' /\ TasksInv'
  BY TakenFacts
<1>2. \A i \in 1..7 : \A m : Pending(i, m) => Pending(i, m)'
  BY TakenFacts
<1>3. TypeOK' /\ FileConsistent'
  BY <1>1 DEF IInv, TypeOK, FileConsistent, KeptLists, KeptRulesets
<1>4. ListsInv' /\ RulesetsInv'
  BY <1>1, <1>2 DEF IInv, ListsInv, RulesetsInv, Texts
<1>5. PhaseInv' /\ DoneInv'
  BY <1>1 DEF PhaseInv, DoneInv, Active
<1> QED BY <1>1, <1>3, <1>4, <1>5 DEF IInv

(* Of an earlier stage than the task's nothing is pending but what is       *)
(* missed, and a task that depends on a missed one is not in todo.          *)
LEMMA EffectHolds ==
  ASSUME IInv, NEW task, Taken(task), ~Refused(task), Effect(task)
  PROVE  IInv'
<1> DEFINE n == task.name
<1>1. /\ UNCHANGED <<fileLists, fileRulesets, fileRefs, unread, plan, stage, pc>>
      /\ stage \in 1..8 /\ Active
      /\ task \in plan /\ task = Task(task.op, n) /\ task.op = Stages[stage] /\ IsTask(task)
  BY TakenFacts
<1>2. \A i \in 1..8 : \A m : Pending(i, m) =>
         Pending(i, m)' \/ (i = stage /\ m = n)
  BY TakenFacts
<1>3. CASE stage \in 1..3
  <2>1. n \in DeclaredLists /\ fileLists[n] \in List /\ n \in Lists
        /\ lists[n] \in List \cup {Absent}
    BY <1>1, <1>3, StageNames DEF IsTask, IInv, TypeOK, ListStates
  <2>2. fileLists[n].items \in Contents /\ fileLists[n].desc \in Descs \cup {NoDesc}
    BY <2>1 DEF List
  <2>3. lists[n] # Absent =>
          lists[n].items \in Contents /\ lists[n].desc \in Descs \cup {NoDesc}
    BY <2>1 DEF List
  <2>3a. Sent(fileLists[n].desc) \in Descs \cup {NoDesc}
    BY <2>2, SentText
  <2>4. CASE stage = 1
    <3> DEFINE v == [items |-> Empty, desc |-> Sent(fileLists[n].desc)]
    <3>1. task.op = "create_list"
      BY <1>1, <2>4, StageNames
    <3>2. lists' = [lists EXCEPT ![n] = v]
      BY <3>1, EffectOf
    <3>2a. UNCHANGED <<rulesets, refs>>
      BY <3>1, EffectOf
    <3>3. v \in List
      BY <2>3a, AccountAssumption DEF List
    <3>4. v # Absent
      BY <3>3, AccountAssumption
    <3>5. fileLists[n].items # Empty => Task(Stages[2], n) \in plan
      BY <1>1, <2>1, <3>1, StageNames DEF IInv, TasksInv
    <3>6. fileLists[n].items # Empty => Pending(2, n)'
      BY <1>1, <2>4, <3>5 DEF Pending
    <3>7. v.items = Empty /\ v.desc \in Texts(n)
      BY DEF Texts
    <3> HIDE DEF v
    <3>8. /\ lists' \in ListStates /\ lists'[n] = v
          /\ \A m \in Lists \ {n} : lists'[m] = lists[m]
      BY <2>1, <3>2, <3>3, SetOne DEF IInv
    <3>9. n \in DeclaredLists =>
             /\ lists'[n] # Absent
             /\ lists'[n].items # fileLists[n].items => Pending(1, n)' \/ Pending(2, n)'
             /\ lists'[n].desc \notin Texts(n) => Pending(1, n)' \/ Pending(3, n)'
      BY <2>1, <3>4, <3>6, <3>7, <3>8
    <3>10. n \notin DeclaredLists => lists'[n] = Absent
      BY <2>1, <3>4, <3>6, <3>7, <3>8
    <3> QED BY <2>4, <3>2a, <3>8, <3>9, <3>10, ListChange
  <2>5. CASE stage = 2
    <3> DEFINE v == [items |-> fileLists[n].items, desc |-> lists[n].desc]
    <3>1. task.op = "put_items"
      BY <1>1, <2>5, StageNames
    <3>2. lists' = [lists EXCEPT ![n] = v]
      BY <3>1, EffectOf
    <3>2a. UNCHANGED <<rulesets, refs>>
      BY <3>1, EffectOf
    <3>2b. ~Pending(1, n)
      <4>1. Task(Stages[1], n) \notin unseen /\ pc = "applying"
        BY <3>1, StageNames DEF Taken, IInv, TasksInv, TasksOf
      <4> QED BY <2>5, <4>1 DEF Pending, Missed
    <3>3. lists[n] # Absent
      BY <1>1, <2>1, <3>2b DEF IInv, ListsInv
    <3>4. v \in List
      BY <2>2, <2>3, <3>3 DEF List
    <3>5. v # Absent
      BY <3>4, AccountAssumption
    <3>6. lists[n].desc \notin Texts(n) => Pending(3, n)'
      <4>1. lists[n].desc \notin Texts(n) => Pending(3, n)
        BY <1>1, <2>1, <3>2b, <3>3 DEF IInv, ListsInv
      <4> QED BY <1>2, <2>5, <4>1
    <3>7. v.items = fileLists[n].items /\ v.desc = lists[n].desc
      OBVIOUS
    <3> HIDE DEF v
    <3>8. /\ lists' \in ListStates /\ lists'[n] = v
          /\ \A m \in Lists \ {n} : lists'[m] = lists[m]
      BY <2>1, <3>2, <3>4, SetOne DEF IInv
    <3>9. n \in DeclaredLists =>
             /\ lists'[n] # Absent
             /\ lists'[n].items # fileLists[n].items => Pending(1, n)' \/ Pending(2, n)'
             /\ lists'[n].desc \notin Texts(n) => Pending(1, n)' \/ Pending(3, n)'
      BY <2>1, <3>5, <3>6, <3>7, <3>8
    <3>10. n \notin DeclaredLists => lists'[n] = Absent
      BY <2>1, <3>5, <3>6, <3>7, <3>8
    <3> QED BY <2>5, <3>2a, <3>8, <3>9, <3>10, ListChange
  <2>6. CASE stage = 3
    <3> DEFINE v == [items |-> lists[n].items, desc |-> Sent(fileLists[n].desc)]
    <3>1. task.op = "set_desc"
      BY <1>1, <2>6, StageNames
    <3>2. lists' = [lists EXCEPT ![n] = v]
      BY <3>1, EffectOf
    <3>2a. UNCHANGED <<rulesets, refs>>
      BY <3>1, EffectOf
    <3>2b. ~Pending(1, n)
      <4>1. Task(Stages[1], n) \notin plan
        BY <1>1, <2>1, <3>1, StageNames DEF IInv, TasksInv
      <4> QED BY <4>1 DEF Pending
    <3>3. lists[n] # Absent
      BY <1>1, <2>1, <3>2b DEF IInv, ListsInv
    <3>4. v \in List
      BY <2>3, <2>3a, <3>3 DEF List
    <3>5. v # Absent
      BY <3>4, AccountAssumption
    <3>6. lists[n].items # fileLists[n].items => Pending(2, n)'
      <4>1. lists[n].items # fileLists[n].items => Pending(2, n)
        BY <1>1, <2>1, <3>2b, <3>3 DEF IInv, ListsInv
      <4> QED BY <1>2, <2>6, <4>1
    <3>7. v.items = lists[n].items /\ v.desc \in Texts(n)
      BY DEF Texts
    <3> HIDE DEF v
    <3>8. /\ lists' \in ListStates /\ lists'[n] = v
          /\ \A m \in Lists \ {n} : lists'[m] = lists[m]
      BY <2>1, <3>2, <3>4, SetOne DEF IInv
    <3>9. n \in DeclaredLists =>
             /\ lists'[n] # Absent
             /\ lists'[n].items # fileLists[n].items => Pending(1, n)' \/ Pending(2, n)'
             /\ lists'[n].desc \notin Texts(n) => Pending(1, n)' \/ Pending(3, n)'
      BY <2>1, <3>5, <3>6, <3>7, <3>8
    <3>10. n \notin DeclaredLists => lists'[n] = Absent
      BY <2>1, <3>5, <3>6, <3>7, <3>8
    <3> QED BY <2>6, <3>2a, <3>8, <3>9, <3>10, ListChange
  <2> QED BY <1>3, <2>4, <2>5, <2>6
<1>4. CASE stage = 4
  <2>1. task.op = "delete_list" /\ n \in Lists \ DeclaredLists
    BY <1>1, <1>4, StageNames DEF IsTask
  <2>2. lists' = [lists EXCEPT ![n] = Absent]
    BY <2>1, EffectOf
  <2>2a. UNCHANGED <<rulesets, refs>>
    BY <2>1, EffectOf
  <2>3. /\ lists' \in ListStates /\ lists'[n] = Absent
        /\ \A m \in Lists \ {n} : lists'[m] = lists[m]
    BY <2>1, <2>2, SetOne DEF IInv
  <2>4. n \in DeclaredLists =>
           /\ lists'[n] # Absent
           /\ lists'[n].items # fileLists[n].items => Pending(1, n)' \/ Pending(2, n)'
           /\ lists'[n].desc \notin Texts(n) => Pending(1, n)' \/ Pending(3, n)'
    BY <2>1, <2>3
  <2>5. n \notin DeclaredLists => lists'[n] = Absent
    BY <2>1, <2>3
  <2> QED BY <1>4, <2>2a, <2>3, <2>4, <2>5, ListChange
<1>5. CASE stage \in {5, 6}
  <2>1. task.op \in {"create_ruleset", "put_ruleset"} /\ n \in DeclaredRulesets
    BY <1>1, <1>5, StageNames DEF IsTask
  <2>2. n \in Rulesets /\ fileRulesets[n] \in Contents /\ fileRulesets[n] # Absent
    BY <2>1, AccountAssumption DEF IInv, TypeOK
  <2>3. rulesets' = [rulesets EXCEPT ![n] = fileRulesets[n]]
    BY <2>1, EffectOf
  <2>3a. UNCHANGED <<lists, refs>>
    BY <2>1, EffectOf
  <2>4. /\ rulesets' \in RulesetStates /\ rulesets'[n] = fileRulesets[n]
        /\ \A m \in Rulesets \ {n} : rulesets'[m] = rulesets[m]
    BY <2>2, <2>3, SetOne DEF IInv
  <2>5. n \in DeclaredRulesets =>
           /\ rulesets'[n] # Absent
           /\ rulesets'[n] # fileRulesets[n] => Pending(5, n)' \/ Pending(6, n)'
    BY <2>1, <2>2, <2>4
  <2>6. n \notin DeclaredRulesets => rulesets'[n] = Absent
    BY <2>1, <2>2, <2>4
  <2> QED BY <1>5, <2>3a, <2>4, <2>5, <2>6, RulesetChange
<1>6. CASE stage = 7
  <2>1. task.op = "delete_ruleset" /\ n \in Rulesets \ DeclaredRulesets
    BY <1>1, <1>6, StageNames DEF IsTask
  <2>2. rulesets' = [rulesets EXCEPT ![n] = Absent]
    BY <2>1, EffectOf
  <2>2a. UNCHANGED <<lists, refs>>
    BY <2>1, EffectOf
  <2>3. /\ rulesets' \in RulesetStates /\ rulesets'[n] = Absent
        /\ \A m \in Rulesets \ {n} : rulesets'[m] = rulesets[m]
    BY <2>1, <2>2, SetOne DEF IInv
  <2>4. n \in DeclaredRulesets =>
           /\ rulesets'[n] # Absent
           /\ rulesets'[n] # fileRulesets[n] => Pending(5, n)' \/ Pending(6, n)'
    BY <2>1, <2>3
  <2>5. n \notin DeclaredRulesets => rulesets'[n] = Absent
    BY <2>1, <2>3
  <2> QED BY <1>6, <2>2a, <2>3, <2>4, <2>5, RulesetChange
<1>7. CASE stage = 8
  <2>1. task.op = "put_phase"
    BY <1>1, <1>7, StageNames
  <2>2. refs' = fileRefs /\ UNCHANGED <<lists, rulesets>>
    BY <2>1, EffectOf
  <2> QED BY <1>7, <2>2, PhaseChange
<1> QED BY <1>1, <1>3, <1>4, <1>5, <1>6, <1>7

LEMMA ApplyHolds ==
  ASSUME IInv, NEW task, Apply(task)
  PROVE  IInv'
<1>1. Taken(task) /\ ~Refused(task) /\ Effect(task)
  BY DEF Apply, Taken
<1> QED BY <1>1, EffectHolds

(* A failed task leaves its stage broken, or is noted as missed: whatever   *)
(* it did not do stays pending for good.                                    *)
LEMMA InterruptedHolds ==
  ASSUME IInv, NEW task, Taken(task), Interrupted(task), broken' \/ task \in unseen'
  PROVE  IInv'
<1>1. \A i \in 1..8 : \A m : Pending(i, m) => Pending(i, m)'
  <2> SUFFICES ASSUME NEW i \in 1..8, NEW m, Pending(i, m), i = stage, m = task.name
               PROVE  Pending(i, m)'
    BY TakenFacts
  <2>1. Task(Stages[i], m) \in plan' /\ task = Task(Stages[i], m) /\ stage' = i
    BY TakenFacts DEF Pending
  <2> QED BY <2>1 DEF Pending, Missed
<1>2. \/ UNCHANGED live
      \/ ~Refused(task) /\ Effect(task)
      \/ /\ task.op = "create_ruleset"
         /\ rulesets' = [rulesets EXCEPT ![task.name] = Empty]
         /\ UNCHANGED <<lists, refs>>
  BY DEF Interrupted
<1>3. CASE UNCHANGED live
  <2>1. UNCHANGED <<file, live, unread, plan, stage, pc>> /\ Active /\ Active' /\ TasksInv'
    BY <1>3, TakenFacts DEF file
  <2>3. ListsInv' /\ RulesetsInv' /\ PhaseInv'
    BY <1>1, <2>1, PendingKeeps
  <2>4. DoneInv'
    BY <2>1 DEF DoneInv, Active
  <2> QED BY <2>1, <2>3, <2>4, SameFile DEF IInv
<1>4. CASE ~Refused(task) /\ Effect(task)
  BY <1>4, EffectHolds
<1>5. CASE /\ task.op = "create_ruleset"
           /\ rulesets' = [rulesets EXCEPT ![task.name] = Empty]
           /\ UNCHANGED <<lists, refs>>
  <2>1. /\ stage = 5 /\ task.name \in DeclaredRulesets /\ Task(Stages[5], task.name) \in plan
        /\ stage' = stage /\ plan' = plan
    <3>1. stage \in 1..8 /\ task.op = Stages[stage] /\ IsTask(task)
          /\ task \in plan /\ task = Task(Stages[stage], task.name)
          /\ stage' = stage /\ plan' = plan
      BY TakenFacts
    <3>2. stage = 5
      BY <1>5, <3>1, StageNames
    <3> QED BY <1>5, <3>1, <3>2 DEF IsTask
  <2>2. Pending(5, task.name)'
    <3>1. task = Task(Stages[5], task.name)
      BY <2>1, TakenFacts
    <3> QED BY <2>1, <3>1 DEF Pending, Missed
  <2>3. Empty \in Contents /\ Empty # Absent
    BY AccountAssumption
  <2> DEFINE n == task.name
  <2>4. /\ rulesets' \in RulesetStates /\ rulesets'[n] = Empty
        /\ \A m \in Rulesets \ {n} : rulesets'[m] = rulesets[m]
    BY <1>5, <2>1, <2>3, SetOne DEF IInv, TypeOK
  <2>5. n \in DeclaredRulesets =>
           /\ rulesets'[n] # Absent
           /\ rulesets'[n] # fileRulesets[n] => Pending(5, n)' \/ Pending(6, n)'
    BY <2>1, <2>2, <2>3, <2>4
  <2>6. n \notin DeclaredRulesets => rulesets'[n] = Absent
    BY <2>1, <2>2, <2>3, <2>4
  <2>7. UNCHANGED <<lists, refs>>
    BY <1>5
  <2> QED BY <2>1, <2>7, <2>4, <2>5, <2>6, RulesetChange
<1> QED BY <1>2, <1>3, <1>4, <1>5

LEMMA FailHolds ==
  ASSUME IInv, NEW task, Fail(task) \/ FailUnseen(task)
  PROVE  IInv'
<1>1. Taken(task) /\ (broken' \/ task \in unseen')
  BY DEF Fail, FailUnseen, Taken
<1>2. Interrupted(task)
  BY DEF Fail, FailUnseen, Interrupted
<1> QED BY <1>1, <1>2, InterruptedHolds

LEMMA Inductive == IInv /\ [Next]_vars => IInv'
<1> SUFFICES ASSUME IInv, [Next]_vars PROVE IInv'
  OBVIOUS
<1>1. ASSUME NEW failed \in SUBSET Sections, Plan(failed) PROVE IInv'
  BY <1>1, PlanHolds
<1>2. CASE PlanFails \/ Rerun \/ UNCHANGED vars
  BY <1>2, SkipHolds
<1>3. CASE StartApply
  BY <1>3, StartHolds
<1>4. ASSUME NEW task \in todo, Apply(task) \/ Fail(task) \/ FailUnseen(task) PROVE IInv'
  BY <1>4, ApplyHolds, FailHolds
<1>5. CASE NextStage
  BY <1>5, NextStageHolds
<1> QED BY <1>1, <1>2, <1>3, <1>4, <1>5 DEF Next

(* In every reachable state: the file and the provider are well-formed, and *)
(* wherever they differ while a run is under way, the task that removes the *)
(* difference is planned and still to come, or its stage has failed, or it  *)
(* failed in this run without an error text; after a success they differ by *)
(* no more than such failures and a description that is empty or missing.   *)
THEOREM Invariance == Spec => []IInv
<1>1. Init => IInv
  BY InitHolds
<1>2. IInv /\ [Next]_vars => IInv'
  BY Inductive
<1> QED BY <1>1, <1>2, PTL DEF Spec

-----------------------------------------------------------------------------
(* Only a task of the current stage writes at the provider.                 *)
LEMMA Writer ==
  ASSUME IInv, [Next]_vars, ~UNCHANGED live
  PROVE  \E task :
           /\ Taken(task)
           /\ \/ Effect(task)
              \/ /\ task.op = "create_ruleset"
                 /\ rulesets' = [rulesets EXCEPT ![task.name] = Empty]
                 /\ UNCHANGED <<lists, refs>>
<1>1. PICK task \in todo : Apply(task) \/ Fail(task) \/ FailUnseen(task)
  BY DEF Next, Plan, PlanFails, StartApply, NextStage, Rerun, vars
<1>2. Taken(task)
  BY <1>1 DEF Apply, Fail, FailUnseen, Taken
<1>3. \/ Effect(task)
      \/ /\ task.op = "create_ruleset"
         /\ rulesets' = [rulesets EXCEPT ![task.name] = Empty]
         /\ UNCHANGED <<lists, refs>>
  BY <1>1 DEF Apply, Fail, FailUnseen, Interrupted
<1> QED BY <1>2, <1>3

(* Which stage a write belongs to, and what was done before it.             *)
LEMMA WriteStage ==
  ASSUME IInv, [Next]_vars
  PROVE  /\ \A n \in Lists : lists'[n] # lists[n] =>
              /\ Active /\ stage \in 1..4 /\ IsTask(Task(Stages[stage], n))
              /\ lists[n] # Absent /\ lists'[n] = Absent => stage = 4
         /\ \A n \in Rulesets : rulesets'[n] # rulesets[n] =>
              /\ Active /\ stage \in 5..7 /\ IsTask(Task(Stages[stage], n))
              /\ rulesets[n] # Absent /\ rulesets'[n] = Absent => stage = 7
         /\ refs' # refs => Active /\ stage = 8 /\ refs' = fileRefs
         /\ ~UNCHANGED live => \A i \in 1..8 : \A m : Pending(i, m) => stage <= i \/ Missed(i, m)
<1>1. CASE UNCHANGED live
  BY <1>1 DEF live
<1>2. CASE ~UNCHANGED live
  <2>1. PICK task : /\ Taken(task)
                    /\ \/ Effect(task)
                       \/ /\ task.op = "create_ruleset"
                          /\ rulesets' = [rulesets EXCEPT ![task.name] = Empty]
                          /\ UNCHANGED <<lists, refs>>
    BY <1>2, Writer
  <2>2. /\ stage \in 1..8 /\ Active /\ task.op = Stages[stage] /\ IsTask(task)
        /\ task = Task(Stages[stage], task.name)
    BY <2>1, TakenFacts
  <2>3. \A i \in 1..8 : \A m : Pending(i, m) => stage <= i \/ Missed(i, m)
    BY <2>1, TakenFacts
  <2>4. Empty \in Contents /\ Empty # Absent
    BY AccountAssumption
  <2>5. CASE stage \in 1..4
    <3>a. Effect(task)
          /\ task.op \in {"create_list", "put_items", "set_desc", "delete_list"}
      BY <2>1, <2>2, <2>5, StageNames
    <3>b. PICK v : lists' = [lists EXCEPT ![task.name] = v]
      BY <3>a, EffectOf
    <3>1. UNCHANGED <<rulesets, refs>>
      BY <3>a, EffectOf
    <3>2. \A n \in Lists : lists'[n] # lists[n] => n = task.name
      BY <3>b DEF IInv, TypeOK, ListStates
    <3>3. ASSUME stage # 4, NEW n \in Lists, lists[n] # Absent PROVE lists'[n] # Absent
      <4>1. CASE n # task.name
        BY <3>2, <3>3, <4>1
      <4>2. CASE n = task.name
        <5>1. /\ fileLists[n].items \in Contents /\ Sent(fileLists[n].desc) \in Descs \cup {NoDesc}
              /\ lists[n].items \in Contents /\ lists[n].desc \in Descs \cup {NoDesc}
          <6>1. n \in DeclaredLists
            BY <2>2, <2>5, <3>3, <4>2, StageNames DEF IsTask
          <6>2. fileLists[n] \in List /\ lists[n] \in List
            BY <3>3, <6>1 DEF IInv, TypeOK, ListStates
          <6> QED BY <6>2, SentText DEF List
        <5>2. /\ [items |-> Empty, desc |-> Sent(fileLists[n].desc)] \in List
              /\ [items |-> fileLists[n].items, desc |-> lists[n].desc] \in List
              /\ [items |-> lists[n].items, desc |-> Sent(fileLists[n].desc)] \in List
          BY <2>4, <5>1 DEF List
        <5>3. \/ lists'[n] = [items |-> Empty, desc |-> Sent(fileLists[n].desc)]
              \/ lists'[n] = [items |-> fileLists[n].items, desc |-> lists[n].desc]
              \/ lists'[n] = [items |-> lists[n].items, desc |-> Sent(fileLists[n].desc)]
          BY <2>1, <2>2, <2>5, <3>3, <4>2, EffectOf, StageNames DEF IInv, TypeOK, ListStates
        <5> QED BY <5>2, <5>3, AccountAssumption
      <4> QED BY <4>1, <4>2
    <3> QED BY <2>2, <2>3, <2>5, <3>1, <3>2, <3>3
  <2>6. CASE stage \in 5..7
    <3>a. task.op \in {"create_ruleset", "put_ruleset", "delete_ruleset"}
      BY <2>2, <2>6, StageNames
    <3>b. \/ rulesets' = [rulesets EXCEPT ![task.name] = Absent]
          \/ rulesets' = [rulesets EXCEPT ![task.name] = fileRulesets[task.name]]
          \/ rulesets' = [rulesets EXCEPT ![task.name] = Empty]
      BY <2>1, <3>a, EffectOf
    <3>c. UNCHANGED <<lists, refs>>
      BY <2>1, <3>a, EffectOf
    <3>d. PICK v : rulesets' = [rulesets EXCEPT ![task.name] = v]
      BY <3>b
    <3>2. \A n \in Rulesets : rulesets'[n] # rulesets[n] => n = task.name
      BY <3>d DEF IInv, TypeOK, RulesetStates
    <3>3. ASSUME stage # 7, NEW n \in Rulesets, rulesets[n] # Absent PROVE rulesets'[n] # Absent
      <4>1. CASE n # task.name
        BY <3>2, <3>3, <4>1
      <4>2. CASE n = task.name
        <5>1. n \in DeclaredRulesets
          BY <2>2, <2>6, <3>3, <4>2, StageNames DEF IsTask
        <5>2. fileRulesets[n] # Absent
          BY <5>1, AccountAssumption DEF IInv, TypeOK
        <5>3. task.op \in {"create_ruleset", "put_ruleset"}
          BY <2>2, <2>6, <3>3, StageNames
        <5>4. \/ rulesets' = [rulesets EXCEPT ![n] = fileRulesets[n]]
              \/ rulesets' = [rulesets EXCEPT ![n] = Empty]
          BY <2>1, <4>2, <5>3, EffectOf
        <5>5. rulesets'[n] = fileRulesets[n] \/ rulesets'[n] = Empty
          BY <5>4 DEF IInv, TypeOK, RulesetStates
        <5> QED BY <2>4, <5>2, <5>5
      <4> QED BY <4>1, <4>2
    <3> QED BY <2>2, <2>3, <2>6, <3>c, <3>2, <3>3
  <2>7. CASE stage = 8
    <3>1. refs' = fileRefs /\ UNCHANGED <<lists, rulesets>>
      BY <2>1, <2>2, <2>7, EffectOf, StageNames
    <3> QED BY <2>2, <2>3, <2>7, <3>1
  <2> QED BY <2>2, <2>5, <2>6, <2>7
<1> QED BY <1>1, <1>2

(* A phase is written last: by then every list and ruleset the file         *)
(* declares exists, but for one whose create failed in this run without an  *)
(* error text, and those it leaves alone exist anyway (_apply_single_zone,  *)
(* the order of its stages).                                                *)
THEOREM ReferencesResolve == Spec => NewReferencesResolve
<1>1. ASSUME IInv, [Next]_vars, NEW n \in refs' \ refs PROVE Exists(n) \/ CreatedBlindly(n)
  <2>1. Active /\ stage = 8 /\ refs' = fileRefs
        /\ \A i \in 1..7 : \A m : Pending(i, m) => Missed(i, m)
    <3>1. refs' # refs
      BY <1>1
    <3>2. ~UNCHANGED live
      BY <3>1 DEF live
    <3> QED BY <1>1, <3>1, <3>2, WriteStage
  <2>2. n \in DeclaredLists \cup KeptLists \cup DeclaredRulesets \cup KeptRulesets
    BY <1>1, <2>1 DEF IInv, FileConsistent
  <2>3. CASE n \in DeclaredLists
    <3>1. lists[n] = Absent => Missed(1, n)
      BY <1>1, <2>1, <2>3 DEF IInv, ListsInv
    <3> QED BY <1>1, <2>3, <3>1, StageNames DEF IInv, TypeOK, Exists, Missed, CreatedBlindly
  <2>4. CASE n \in DeclaredRulesets
    <3>1. rulesets[n] = Absent => Missed(5, n)
      BY <1>1, <2>1, <2>4 DEF IInv, RulesetsInv
    <3> QED BY <1>1, <2>4, <3>1, StageNames, AccountAssumption
            DEF IInv, TypeOK, Exists, Missed, CreatedBlindly
  <2>5. CASE n \in KeptLists \cup KeptRulesets
    BY <2>5, AccountAssumption DEF KeptLists, KeptRulesets, Exists
  <2> QED BY <2>2, <2>3, <2>4, <2>5
<1>2. IInv /\ [Next]_vars => [\A n \in refs' \ refs : Exists(n) \/ CreatedBlindly(n)]_vars
  BY <1>1
<1> QED BY <1>2, Invariance, PTL DEF Spec, NewReferencesResolve

(* A list is deleted only once every list of the file stands as declared,   *)
(* a ruleset only once the rulesets do as well (the stages of               *)
(* _apply_lists and _apply_custom_rulesets) - each but for those a call of  *)
(* this run failed on without an error text.                                *)
THEOREM DeletesComeLast == Spec => DeletesLast
<1> DEFINE ListsStand == \A n \in DeclaredLists : Stands(n) \/ n \in Overlooked
           RulesetsStand == \A n \in DeclaredRulesets :
                              rulesets[n] = fileRulesets[n] \/ n \in Overlooked
           ListGone == \E n \in Lists : lists[n] # Absent /\ lists'[n] = Absent
           RulesetGone == \E n \in Rulesets : rulesets[n] # Absent /\ rulesets'[n] = Absent
<1>1. ASSUME IInv, Active, \A i \in 1..3 : \A m : Pending(i, m) => m \in Overlooked
      PROVE  ListsStand
  BY <1>1 DEF IInv, ListsInv, Stands, Texts
<1>2. ASSUME IInv, [Next]_vars, ListGone PROVE ListsStand
  <2>1. Active /\ stage = 4 /\ ~UNCHANGED live
    BY <1>2, WriteStage DEF live
  <2>2. \A i \in 1..3 : \A m : Pending(i, m) => m \in Overlooked
    BY <1>2, <2>1, WriteStage, MissedIsOverlooked
  <2> QED BY <1>1, <1>2, <2>1, <2>2
<1>3. ASSUME IInv, [Next]_vars, RulesetGone PROVE ListsStand /\ RulesetsStand
  <2>1. Active /\ stage = 7 /\ ~UNCHANGED live
    BY <1>3, WriteStage DEF live
  <2>2. \A i \in 1..6 : \A m : Pending(i, m) => m \in Overlooked
    BY <1>3, <2>1, WriteStage, MissedIsOverlooked
  <2>3. RulesetsStand
    BY <1>3, <2>1, <2>2 DEF IInv, RulesetsInv
  <2> QED BY <1>1, <1>3, <2>1, <2>2, <2>3
<1>4. IInv /\ [Next]_vars =>
        [(ListGone => ListsStand) /\ (RulesetGone => ListsStand /\ RulesetsStand)]_vars
  BY <1>2, <1>3
<1> QED BY <1>4, Invariance, PTL DEF Spec, DeletesLast

(* A section the file does not have, or whose live state could not be read, *)
(* is never changed but where the file declares something                   *)
(* (diff_lists_full, diff_custom_rulesets_full, _future_result_or_default). *)
THEOREM UnownedIsKept == Spec => KeepsUnowned
<1> DEFINE OnLists == fileLists = Undeclared \/ "lists" \in unread =>
             \A n \in Lists : lists[n] # Absent => lists'[n] = lists[n] \/ n \in DeclaredLists
           OnRulesets == DeclaredRulesets = {} \/ "rulesets" \in unread =>
             \A n \in Rulesets :
               rulesets[n] # Absent => rulesets'[n] = rulesets[n] \/ n \in DeclaredRulesets
<1>1. ASSUME IInv, [Next]_vars PROVE OnLists
  <2> SUFFICES ASSUME fileLists = Undeclared \/ "lists" \in unread,
                      NEW n \in Lists, lists'[n] # lists[n]
               PROVE  n \in DeclaredLists
    OBVIOUS
  <2>1. stage \in 1..4 /\ IsTask(Task(Stages[stage], n))
    BY <1>1, WriteStage
  <2> QED BY <2>1, StageNames, TaskParts DEF IsTask
<1>2. ASSUME IInv, [Next]_vars PROVE OnRulesets
  <2> SUFFICES ASSUME DeclaredRulesets = {} \/ "rulesets" \in unread,
                      NEW n \in Rulesets, rulesets'[n] # rulesets[n]
               PROVE  n \in DeclaredRulesets
    OBVIOUS
  <2>1. stage \in 5..7 /\ IsTask(Task(Stages[stage], n))
    BY <1>2, WriteStage
  <2> QED BY <2>1, StageNames, TaskParts DEF IsTask
<1>3. IInv /\ [Next]_vars => [OnLists /\ OnRulesets]_vars
  BY <1>1, <1>2
<1> QED BY <1>3, Invariance, PTL DEF Spec, KeepsUnowned

(* What a run that reports success has left to plan, of a section that was  *)
(* read, is of an object a call of the run failed on without an error text, *)
(* or the change of a missing description to an empty one, whatever went    *)
(* wrong in the runs before.                                                *)
THEOREM SuccessIsComplete ==
  Spec => [](pc \in {"clean", "synced"} =>
               /\ "lists" \in unread
                    \/ \A t \in DiffLists(lists) : t.name \in Overlooked \/ Repeats(t)
               /\ "rulesets" \in unread
                    \/ \A t \in DiffRulesets(rulesets) : t.name \in Overlooked
               /\ refs = fileRefs \/ Task("put_phase", Phase) \in unseen)
<1> DEFINE Complete == pc \in {"clean", "synced"} =>
             /\ "lists" \in unread
                  \/ \A t \in DiffLists(lists) : t.name \in Overlooked \/ Repeats(t)
             /\ "rulesets" \in unread
                  \/ \A t \in DiffRulesets(rulesets) : t.name \in Overlooked
             /\ refs = fileRefs \/ Task("put_phase", Phase) \in unseen
<1>1. ASSUME IInv, pc \in {"clean", "synced"} PROVE Complete
  <2>1. Accomplished /\ TypeOK
    BY <1>1 DEF IInv, DoneInv
  <2>2. ASSUME "lists" \notin unread, NEW t \in DiffLists(lists)
        PROVE  t.name \in Overlooked \/ Repeats(t)
    <3>1. CASE fileLists = Undeclared
      BY <2>2, <3>1 DEF DiffLists
    <3>2. CASE t \in UNION {ListTasks(n, lists[n]) : n \in DeclaredLists}
      <4>1. PICK n \in DeclaredLists : t \in ListTasks(n, lists[n])
        BY <3>2
      <4>2. t.name = n
        BY <4>1, TaskParts DEF ListTasks
      <4>3. CASE Stands(n)
        <5>1. lists[n] # Absent /\ lists[n].items = fileLists[n].items
              /\ lists[n].desc \in {fileLists[n].desc, Sent(fileLists[n].desc)}
          BY <4>3 DEF Stands
        <5>2. t = Task("set_desc", n) /\ lists[n].desc # fileLists[n].desc
          BY <4>1, <5>1 DEF ListTasks
        <5>3. fileLists[n].desc = NoDesc /\ lists[n].desc = NoText
          BY <5>1, <5>2 DEF Sent
        <5> QED BY <5>2, <5>3, TaskParts DEF Repeats
      <4> QED BY <2>1, <4>2, <4>3 DEF Accomplished
    <3>3. CASE fileLists # Undeclared /\ \E n \in Lists \ DeclaredLists :
                 lists[n] # Absent /\ t = Task("delete_list", n)
      BY <2>1, <2>2, <3>3, TaskParts DEF Accomplished
    <3> QED BY <2>2, <3>1, <3>2, <3>3 DEF DiffLists
  <2>3. ASSUME "rulesets" \notin unread, NEW t \in DiffRulesets(rulesets)
        PROVE  t.name \in Overlooked
    <3>0. DeclaredRulesets # {}
      BY <2>3 DEF DiffRulesets
    <3>1. CASE \E n \in DeclaredRulesets :
                 /\ rulesets[n] # fileRulesets[n]
                 /\ t \in {Task("create_ruleset", n), Task("put_ruleset", n)}
      BY <2>1, <3>1, TaskParts DEF Accomplished
    <3>2. CASE \E n \in Rulesets \ DeclaredRulesets :
                 rulesets[n] # Absent /\ t = Task("delete_ruleset", n)
      BY <2>1, <2>3, <3>0, <3>2, TaskParts DEF Accomplished
    <3>3. \A n \in DeclaredRulesets : fileRulesets[n] # Absent
      BY <2>1, AccountAssumption DEF TypeOK
    <3> QED BY <2>3, <3>0, <3>1, <3>2, <3>3 DEF DiffRulesets
  <2> QED BY <2>1, <2>2, <2>3 DEF Accomplished
<1>2. IInv => Complete
  BY <1>1
<1> QED BY <1>2, Invariance, PTL
=============================================================================
