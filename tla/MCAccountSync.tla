--------------------------- MODULE MCAccountSync ---------------------------
(***************************************************************************)
(* Two lists and two rulesets: one to create, one to change, one to delete *)
(* in some file, sections left out, empty sections, and a phase that       *)
(* refers to a list, a ruleset, both or neither.                           *)
(***************************************************************************)
EXTENDS AccountSync, TLC

CONSTANTS l1, l2, s1, s2, c1, d1

L(items, desc) == [items |-> items, desc |-> desc]

MCFileLists ==
  {Undeclared, <<>>, l1 :> L(c1, NoDesc), l1 :> L(c1, NoText),
   l1 :> L(c1, d1) @@ l2 :> L(Empty, d1)}
MCFileRulesets == {<<>>, s1 :> c1, s1 :> c1 @@ s2 :> Empty}
MCFileRefs == {{}, {l1}, {l1, s1}, {s2}}

MCLiveLists ==
  {l1 :> Absent @@ l2 :> Absent,
   l1 :> L(Empty, d1) @@ l2 :> Absent,
   l1 :> Absent @@ l2 :> L(c1, d1),
   l1 :> L(c1, NoDesc) @@ l2 :> L(c1, NoDesc)}
MCLiveRulesets ==
  {s1 :> Absent @@ s2 :> Absent, s1 :> Empty @@ s2 :> c1, s1 :> Absent @@ s2 :> c1}
=============================================================================
