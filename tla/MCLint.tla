------------------------------- MODULE MCLint -------------------------------
(***************************************************************************)
(* Files with one or two sections of every kind, under every choice of     *)
(* rule sets; a second file follows to see that findings add up.  Two      *)
(* plugins: cf owns X1 (default set), X2 (strict set) and X9 (undeclared). *)
(***************************************************************************)
EXTENDS LintRun

Section(key, kind, ns, rules) ==
  [key |-> key, kind |-> kind, ns |-> ns, rules |-> rules, list |-> TRUE,
   prepares |-> TRUE, malformed |-> FALSE]
On(ref) == [ref |-> ref, on |-> TRUE]
Off(ref) == [ref |-> ref, on |-> FALSE]

Waf == Section("cf.waf", "phase", "cf", {On("a"), Off("b")})
Rates == Section("cf.rate", "phase", "cf", {On("b"), On("c")})
Broken == [Section("cf.rate", "phase", "cf", {On("c")}) EXCEPT !.prepares = FALSE]
AllOff == Section("cf.rate", "phase", "cf", {Off("c"), Off("d")})
NotRules == [Section("cf.rate", "phase", "cf", {}) EXCEPT !.prepares = FALSE]
Settings == [Waf EXCEPT !.list = FALSE, !.rules = {}]
Null == [Settings EXCEPT !.key = "cf.bots", !.prepares = FALSE]
Lists == [Section("lists", "known", "", {}) EXCEPT !.malformed = TRUE]
Rulesets == [Section("custom_rulesets", "known", "", {}) EXCEPT !.list = FALSE, !.malformed = TRUE]
Typo == Section("cf.wfa", "member", "cf", {On("a")})
TypoOff == Section("wfa", "unknown", "", {Off("e"), Off("f")})
Absent == [Section("aws", "absent", "", {}) EXCEPT !.list = FALSE]
Foreign == Section("aws.waf", "phase", "aws", {On("g")})

MCSectionSets ==
  {{}, {Waf}, {Waf, Rates}, {Waf, Broken}, {Waf, AllOff}, {NotRules}, {Settings, Absent}, {Null, Rates},
   {Lists, Waf}, {Rulesets}, {Typo}, {Typo, Waf}, {TypoOff}, {TypoOff, Waf},
   {Waf, Foreign}}

Reports(sections) ==
  [cf |-> {Result("X1", Warning, s.key, "a") : s \in {l \in sections : l.kind = "phase" /\ l.ns = "cf"}}
            \cup {Result("X9", Error, s.key, "") : s \in {l \in sections : l.kind = "member"}}
            \cup {Result("X2", Error, "", "b")},
   aws |-> {Result("X9", Warning, s.key, "") : s \in {l \in sections : l.ns = "aws"}}
             \cup {Result("X9", Error, "", "g")}]

File1(sections, sets, plugins, namespaces) ==
  [sections |-> sections, reports |-> Reports(sections), plugins |-> plugins,
   namespaces |-> namespaces, sets |-> sets, configured |-> TRUE]

(* A file no zone of the config names: no plugin routing and no sets. *)
Unconfigured(sections) ==
  [File1(sections, NoLimit, NoLimit, NoLimit) EXCEPT !.configured = FALSE]

MCSets == {{}, {"default"}, {"strict"}, {"default", "strict"}}
MCZones ==
  {<<File1(sections, sets, {"cf"}, {"cf"})>> : sections \in MCSectionSets, sets \in MCSets}
    \cup {<<Unconfigured(sections)>> : sections \in MCSectionSets}
    \cup {<<File1(sections, {"default", "strict"}, NoLimit, NoLimit),
            File1({Waf}, {"default"}, {"cf"}, {"cf"})>> : sections \in MCSectionSets}
    \cup {<<File1({TypoOff}, {"default", "strict"}, NoLimit, NoLimit),
            File1({TypoOff, Waf}, {"default"}, {"cf"}, {"cf"})>>}

Ask(severity, ids, phases, only, granular) ==
  [severity |-> severity, ids |-> ids, phases |-> phases, zones |-> only,
   granular |-> granular]
MCOptions ==
  {Ask(severity, NoLimit, NoLimit, NoLimit, granular) :
     severity \in Error..Info, granular \in BOOLEAN}
  \cup {Ask(Info, {"X2", "CORE011"}, NoLimit, NoLimit, TRUE),
        Ask(Info, NoLimit, {"cf.waf"}, NoLimit, TRUE),
        Ask(Info, NoLimit, NoLimit, {1}, TRUE)}

Line(names, ref, blank) == [names |-> names, ref |-> ref, list |-> NoAnchor, blank |-> blank]
Disables(names) == Line(names, NoAnchor, TRUE)
At(ref) == Line({}, ref, FALSE)
Key == Line({}, NoAnchor, FALSE)

MCTexts ==
  {<<Key, At("a"), At("b")>>,
   <<Disables({"CORE011", "CORE007", "CORE003"}), Key, At("a"), At("b")>>,
   <<Key, Disables({"X1", "X9"}), At("a"), Key, At("b")>>,
   <<Key, At("a"), Line({"X2"}, "b", FALSE), At("c")>>,
   <<Key, At("a"), Disables({"X1", "X2"}), Key, At("b")>>,
   <<Disables({"X2", "X9", "CORE012", "CORE008"}), Key, At("a")>>}

MCKnown == CoreRules \cup {"X1", "X2", "X9"}
MCPluginSets == [id \in {"X1", "X2"} |-> IF id = "X1" THEN {"default"} ELSE {"strict"}]
=============================================================================
