------------------------------ MODULE MCAudit ------------------------------
(***************************************************************************)
(* Two files and five networks over eight addresses: W holds all, A and B  *)
(* are its halves, A0 and A1 the halves of A.  The files between them have *)
(* rules whose ranges meet within and across phases, one that is off, one  *)
(* in a custom ruleset, lists that are used, excluded, unused and named    *)
(* alike in two namespaces, one ref in two phases, and one file is empty.  *)
(* Each text stands for one way to place a directive.                      *)
(***************************************************************************)
EXTENDS AuditRun

W == [lo |-> 0, hi |-> 7]
A == [lo |-> 0, hi |-> 3]
A0 == [lo |-> 0, hi |-> 1]
A1 == [lo |-> 2, hi |-> 3]
B == [lo |-> 4, hi |-> 7]
MCNets == {W, A, A0, A1, B}

MCPhases == <<"waf", "rate">>
MCSources == {"Cloudflare", "Google Cloud"}
MCRank == [s \in MCSources |-> IF s = "Cloudflare" THEN 1 ELSE 2]
MCPublished == [s \in MCSources |-> IF s = "Cloudflare" THEN {A} ELSE {A1}]
MCRefs == <<<<"a">>, <<"b">>, <<"c">>, <<"m">>, <<"rs", "a">>, <<"rs", "n">>,
            <<"list", "", "bad">>, <<"list", "", "ok">>, <<"list", "", "asns">>,
            <<"list", "cf", "bad">>, <<"list", "aws", "bad">>>>
MCPlaces == <<"waf", "rate", "lists">>
MCRules == Elements(MCRefs) \X Elements(MCPlaces)
MCPlace == [r \in MCRules |->
              CHOOSE n \in 0..(Len(MCPlaces) * Len(MCRefs)) :
                \E i \in DOMAIN MCRefs, j \in DOMAIN MCPlaces :
                  r = <<MCRefs[i], MCPlaces[j]>> /\ n = j * Len(MCRefs) + i - Len(MCRefs)]

Rule(ref, phase, action, nets) ==
  [ref |-> ref, phase |-> phase, ruleset |-> "", action |-> action, nets |-> nets,
   lists |-> {}, negated |-> {}, on |-> TRUE]
Drawing(rule, lists) == [rule EXCEPT !.lists = lists]
Excluding(rule, lists) == [rule EXCEPT !.negated = lists]
Off(rule) == [rule EXCEPT !.on = FALSE]
Nested(rule) == [rule EXCEPT !.ruleset = "rs"]
List(ns, name, nets) == [ns |-> ns, name |-> name, nets |-> nets]
File(rules, lists, several) == [rules |-> rules, lists |-> lists, several |-> several]

Layered == File({Rule("a", "waf", "block", {A}), Rule("b", "rate", "log", {A0}),
                 Drawing(Rule("c", "rate", "block", {}), {"bad"}),
                 Drawing(Rule("m", "waf", "block", {}), {"managed"})},
                {List("", "bad", {B, A1})}, FALSE)
WithRuleset == File({Rule("a", "waf", "log", {A}), Nested(Rule("n", "waf", "block", {B})),
                     Excluding(Off(Rule("b", "rate", "log", {W})), {"ok"}),
                     Excluding(Rule("c", "rate", "log", {B}), {"ok"})},
                    {List("", "ok", {A0}), List("", "bad", {B}), List("", "asns", {})},
                   FALSE)
Several == File({Rule("a", "waf", "block", {B}), Nested(Rule("a", "waf", "block", {W})),
                 Drawing(Rule("b", "rate", "log", {}), {"bad"})},
                {List("cf", "bad", {A1}), List("aws", "bad", {B})}, TRUE)
SameRef == File({Rule("a", "waf", "block", {B}), Rule("a", "rate", "log", {B}),
                 Rule("c", "rate", "log", {W}),
                 Off(Drawing(Rule("b", "rate", "log", {}), {"bad"}))},
                {List("", "bad", {B})}, FALSE)
Unused == File({Off(Rule("a", "waf", "block", {A}))}, {List("cf", "bad", {A0})}, TRUE)
Single == File({Rule("a", "waf", "block", {A})}, {}, FALSE)
Empty == File({}, {}, FALSE)

MCFiles == {<<Layered, WithRuleset>>, <<WithRuleset, Several>>, <<Several, SameRef>>,
            <<SameRef, Layered>>, <<Unused, SameRef>>, <<Empty, Empty>>,
            <<Layered, Layered>>, <<Empty, Several>>, <<Empty, Single>>}

MCChecks == {AllChecks, {"ip-overlap"}, {"zone-drift", "cdn-ranges"}}

Line(names, ref, list, blank) ==
  [names |-> names, ref |-> ref, list |-> list, blank |-> blank]
Accepts(names) == Line(names, NoAnchor, NoAnchor, TRUE)
At(ref) == Line({}, <<ref>>, NoAnchor, FALSE)
AtAccepting(ref, names) == Line(names, <<ref>>, NoAnchor, FALSE)
Content == Line({}, NoAnchor, NoAnchor, FALSE)
Comment == Line({}, NoAnchor, NoAnchor, TRUE)
Name(list) == Line({}, NoAnchor, ListRef("", list), FALSE)
Main(lines) == [main |-> lines, includes |-> <<>>]

Plain == Main(<<Content, At("a"), At("b"), At("c")>>)
FileWide == Main(<<Accepts(AllChecks), Content, At("a"), At("b"), At("c")>>)
FirstRule == Main(<<Content, Accepts(AllChecks), At("a"), Content, At("b")>>)
SecondRule == Main(<<Content, At("a"), Accepts({"ip-overlap", "ip-shadow"}), Comment,
                     At("b"), At("c")>>)
Lost == Main(<<Content, At("a"), Accepts(AllChecks), Content, At("b")>>)
OnRuleLine == Main(<<Content, At("a"), AtAccepting("b", AllChecks), At("c")>>)
OnFirstRuleLine == Main(<<AtAccepting("a", AllChecks), Content, At("b")>>)
AtEndOfFile == Main(<<Content, At("a"), Accepts(AllChecks)>>)
ForList == [main |-> <<Content, At("a"), At("c")>>,
            includes |-> <<<<Accepts(AllChecks \cup {"typo"}), Name("bad"), Content>>>>]
ForListBelowKind == [main |-> <<At("a"), At("b")>>,
                     includes |-> <<<<Accepts({"cdn-ranges"}), Content, Name("bad")>>>>]

MCTexts == {<<t, Plain>> : t \in {Plain, FirstRule, Lost, OnFirstRuleLine, AtEndOfFile}}
             \cup {<<t, FileWide>> : t \in {Plain, FileWide, SecondRule, ForList}}
             \cup {<<OnRuleLine, ForList>>, <<ForListBelowKind, SecondRule>>}
=============================================================================
