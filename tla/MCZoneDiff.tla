----------------------------- MODULE MCZoneDiff -----------------------------
(***************************************************************************)
(* The rule list of one phase, in two scenarios.                           *)
(*                                                                         *)
(* A run (ZonePhases), files against live lists.  Kinds: lists of up to    *)
(* two rules over two refs and two bodies, with ignored rules, rules for   *)
(* another target, live rules without a ref and duplicated refs.  Orders:  *)
(* lists of up to three rules that differ only in ref, position and being  *)
(* ignored.  Each is planned with and without a blocked change type.       *)
(*                                                                         *)
(* A review and a sync of what was reviewed (PlanChecksum): files and live *)
(* lists of up to two rules with two bodies, some of them ignored, and one *)
(* edit on each side or two on one in between.                             *)
(***************************************************************************)
EXTENDS ZonePhases, PlanChecksum

CONSTANTS r1, r2, r3, b1, b2

Lists(rules, n) == UNION {[1..k -> rules] : k \in 0..n}

KindsFile ==
  {rules \in Lists({rule \in FileRule : rule.ref # r3}, 2) :
     ValidRules(FilterByTarget(rules))}
OrdersFile ==
  {rules \in Lists({rule \in FileRule : rule.targeted /\ rule.body = b1}, 3) :
     ValidRules(rules)}
MCFileLists == KindsFile \cup OrdersFile

KindsLive == Lists({rule \in LiveRule : rule.ref # r3}, 2)
OrdersLive == Lists({rule \in LiveRule : rule.body = b1}, 3)
MCLiveLists == KindsLive \cup OrdersLive

MCSelections == {Phases}
MCExcludes == {{}, {"REMOVE"}, {"MODIFY"}, {"REORDER"}}
MCForces == {TRUE}
MCNoLists == {}

MCFileStates ==
  {rules \in Lists({rule \in FileRule : rule.targeted /\ rule.ref # r3}, 2) :
     ValidRules(rules) /\ Cardinality(IgnoredRefs(rules)) <= 1}
MCLiveStates ==
  {rules \in Lists({rule \in LiveRule : rule.ref \notin {NoRef, r3}}, 2) : ValidRules(rules)}

(* One scenario at a time: the state of the other rests. *)
Resting == "resting"

NoReview ==
  /\ fileNow = <<>> /\ liveNow = <<>>
  /\ reviewed = {} /\ checksum = {} /\ toSend = <<>>
  /\ stage = Resting /\ edits = 0

NoRun ==
  /\ file = [p \in Phases |-> Undeclared] /\ selected = {} /\ exclude = {} /\ force = TRUE
  /\ live = [p \in Phases |-> <<>>] /\ fetched = <<>> /\ plans = <<>>
  /\ todo = {} /\ broken = {} /\ unseen = {}
  /\ pc = Resting /\ runs = 1 /\ faults = 0 /\ drifts = 0

MCInit == (Init /\ NoReview) \/ (ReviewInit /\ NoRun)

MCNext ==
  \/ Next /\ UNCHANGED reviewVars
  \/ Review /\ UNCHANGED vars
  \/ EditFile /\ UNCHANGED vars
  \/ EditLive /\ UNCHANGED vars
  \/ Compare /\ UNCHANGED vars
  \/ Put /\ UNCHANGED vars

MCSpec == MCInit /\ [][MCNext]_<<vars, reviewVars>>
=============================================================================
