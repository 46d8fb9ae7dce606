---------------------------- MODULE PlanChecksum ----------------------------
(***************************************************************************)
(* plan --checksum, some time, then sync --checksum, for one phase: the    *)
(* plan a reviewer saw is not stored, it is computed again from the file   *)
(* and the live rules of the moment, and only its digest is compared       *)
(* (compute_checksum).  Meanwhile the file or the live rules may change.   *)
(***************************************************************************)
EXTENDS RuleDiff

CONSTANTS
  FileStates,  \* the rule lists the file may declare
  LiveStates,  \* the rule lists the provider may hold
  MaxEdits     \* bound: edits between the plan and the sync

(* The file's list is filtered and validated before it is diffed.          *)
ASSUME StateAssumption ==
  /\ \A rules \in FileStates : rules \in Seq(FileRule) /\ ValidRules(rules)
  /\ LiveStates \subseteq Seq(LiveRule)

VARIABLES
  fileNow, liveNow,
  reviewed,    \* the changes the reviewer saw
  checksum,    \* its digest
  toSend,      \* what the sync sends
  stage,
  edits

reviewVars == <<fileNow, liveNow, reviewed, checksum, toSend, stage, edits>>

(* A change as a reader of the plan sees it: what it replaces and by what. *)
BodyIn(rules, ref) ==
  {RulesByRef(rules)[r].body : r \in {ref} \cap RefsOf(rules)}
Shown(changes, desired, current) ==
  {[type |-> c.type, ref |-> c.ref,
    current |-> BodyIn(current, c.ref), desired |-> BodyIn(desired, c.ref)] : c \in changes}

(* A faulty variant: of a change only what it replaces is serialised. *)
SerializeCurrent(change) ==
  [type |-> change.type, ref |-> change.ref,
   current |-> IF change.type \in {"REMOVE", "MODIFY"} THEN change.current ELSE {},
   desired |-> {}]

(* _serialize_change and compute_checksum: the changes as a set, each with  *)
(* its ref and normalised sides; a REORDER has no sides, and the position   *)
(* of a rule plays no part.                                                 *)
SerializeChange(change) ==
  [type |-> change.type, ref |-> change.ref,
   current |-> IF change.type \in {"REMOVE", "MODIFY"} THEN change.current ELSE {},
   desired |-> IF change.type \in {"ADD", "MODIFY"} THEN change.desired ELSE {}]
ComputeChecksum(shown) == {SerializeChange(change) : change \in shown}

ReviewInit ==
  /\ fileNow \in FileStates /\ liveNow \in LiveStates
  /\ reviewed = {} /\ checksum = {}
  /\ toSend = <<>>
  /\ stage = "reviewing"
  /\ edits = 0

ShownNow ==
  LET plan == DiffPhase(fileNow, liveNow)
  IN  Shown(plan.changes, PrepareDesired(fileNow), liveNow)

(* plan --checksum prints the plan and its digest. *)
Review ==
  /\ stage = "reviewing"
  /\ reviewed' = ShownNow
  /\ checksum' = ComputeChecksum(ShownNow)
  /\ stage' = "waiting"
  /\ UNCHANGED <<fileNow, liveNow, toSend, edits>>

EditFile ==
  /\ stage = "waiting" /\ edits < MaxEdits
  /\ fileNow' \in FileStates
  /\ edits' = edits + 1
  /\ UNCHANGED <<liveNow, reviewed, checksum, toSend, stage>>

EditLive ==
  /\ stage = "waiting" /\ edits < MaxEdits
  /\ liveNow' \in LiveStates
  /\ edits' = edits + 1
  /\ UNCHANGED <<fileNow, reviewed, checksum, toSend, stage>>

(* sync --checksum plans again; without changes the checksum is not asked. *)
Compare ==
  /\ stage = "waiting"
  /\ stage' = IF ShownNow = {} THEN "clean"
              ELSE IF ComputeChecksum(ShownNow) # checksum THEN "mismatch" ELSE "accepted"
  /\ toSend' = IF stage' = "accepted" THEN DiffPhase(fileNow, liveNow).prepared ELSE <<>>
  /\ UNCHANGED <<fileNow, liveNow, reviewed, checksum, edits>>

Put ==
  /\ stage = "accepted"
  /\ liveNow' = Stored(toSend)
  /\ stage' = "synced"
  /\ UNCHANGED <<fileNow, reviewed, checksum, toSend, edits>>

ReviewNext == Review \/ EditFile \/ EditLive \/ Compare \/ Put

ReviewSpec == ReviewInit /\ [][ReviewNext]_reviewVars

-----------------------------------------------------------------------------
(* Properties. *)

(* Whatever was edited in between, a sync the checksum lets through adds,   *)
(* removes and changes the rules the reviewer saw, from the bodies he saw   *)
(* to the bodies he saw (ignored rules are not shown).                      *)
Says(rules) == {NormalizeRule(RulesByRef(rules)[ref]) : ref \in RefsOf(rules)}
AppliedAsReviewed ==
  [][(stage = "accepted" /\ stage' = "synced") =>
       /\ \A rule \in Says(liveNow) \ Says(liveNow') :
            \E c \in reviewed : c.ref = rule.ref /\ c.current = {rule.body}
       /\ \A rule \in Says(liveNow') \ Says(liveNow) :
            \E c \in reviewed : c.ref = rule.ref /\ c.desired = {rule.body}]_reviewVars
=============================================================================
