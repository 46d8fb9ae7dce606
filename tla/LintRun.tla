------------------------------ MODULE LintRun ------------------------------
(***************************************************************************)
(* `octorules lint`: the provider plugins that own a rules file and the    *)
(* core checks report on it, the options and the comments of the file take *)
(* findings away, and what is left decides the exit code.  Its core check  *)
(* of sections (CORE011) is meant to foretell what `plan` refuses; the     *)
(* refusal of plan, check_zone_sections, is here to compare it with.       *)
(*                                                                         *)
(* A section of a file is what the two commands tell apart: its key is a   *)
(* registered phase, a known other key, an unknown member of an installed  *)
(* namespace, a mapping that may be a namespace not installed, or unknown. *)
(***************************************************************************)
EXTENDS Directives, FiniteSets

CONSTANTS
  Zones,       \* sequences of rules files, one candidate per run
  Options,     \* what the command may be asked
  Texts,       \* the lines a file may have
  PluginSets,  \* [plugin rule -> the sets it declares], other rules declare none
  NoLimit       \* no restriction

Error == 1
Warning == 2
Info == 3
Undecided == -1

VARIABLES
  zones,      \* the rules files, in the order lint goes through them
  opts,       \* the options
  pc,         \* where the command is
  at,         \* the file it is at
  text,       \* [file -> its lines], of the files read
  ctx,        \* the LintContext of the file: results, waived, noted
  all,        \* <<file, result>>: what the command reports
  processed,  \* the files it has gone through
  code        \* the exit code

vars == <<zones, opts, pc, at, text, ctx, all, processed, code>>

EmptyContext == [results |-> {}, waived |-> {}, noted |-> {}]

File == zones[at]

Result(id, severity, phase, ref) ==
  [id |-> id, severity |-> severity, phase |-> phase, ref |-> ref, about |-> ""]

NoOp(id) == [Result("CORE012", Warning, "", "") EXCEPT !.about = id]
-----------------------------------------------------------------------------
(* The rule registry: the core rules, and those the plugins declare.       *)
CoreRules == {"CORE002", "CORE003", "CORE004", "CORE006", "CORE007", "CORE008",
              "CORE009", "CORE010", "CORE011", "CORE012", "CORE013"}

(* A file's sets are of the two there are, the rules of plugins are not    *)
(* called like the core's (each provider has a prefix of its own,          *)
(* README.md:424), and no rule's ref looks like the whole file.            *)
ASSUME LintAssumption ==
  /\ DOMAIN PluginSets \subseteq KnownNames
  /\ \A zs \in Zones :
       /\ DOMAIN zs = 1..Len(zs) /\ Len(zs) \in Nat
       /\ \A i \in DOMAIN zs :
            /\ zs[i].sets = NoLimit \/ zs[i].sets \subseteq {"default", "strict"}
            /\ \A p \in DOMAIN zs[i].reports : \A r \in zs[i].reports[p] : r.id \notin CoreRules
  /\ \A asked \in Options : asked.severity \in Error..Info
  /\ \A lines \in Texts :
       /\ DOMAIN lines = 1..Len(lines) /\ Len(lines) \in Nat
       /\ \A i \in DOMAIN lines : lines[i].ref # WholeFile

IsDeclared(id) == id \in CoreRules \cup DOMAIN PluginSets

SetsOf(id) ==
  IF id \in {"CORE011", "CORE012"} THEN {"default", "strict"}
  ELSE IF id \in CoreRules THEN {"default"}
  ELSE PluginSets[id]

(* Only the rule that guards the deployment cannot be waived in a file.    *)
IsSuppressible(id) == id # "CORE011"

IsActive(id, sets) == IsDeclared(id) => SetsOf(id) \cap sets # {}

(* The filters of LintContext.add, in its order: severity, rule, phase and *)
(* set; to ask for a rule is to enable it.                                 *)
IsSelected(r) ==
  /\ r.severity <= opts.severity
  /\ opts.ids # NoLimit => r.id \in opts.ids
  /\ opts.phases # NoLimit => r.phase = "" \/ r.phase \in opts.phases
  /\ \/ File.sets = NoLimit
     \/ opts.ids # NoLimit /\ r.id \in opts.ids
     \/ IsActive(r.id, File.sets)

Suppressions == ScanDisables(text[at])

IsSuppressed(r) ==
  \/ <<WholeFile, r.id>> \in Suppressions
  \/ r.ref # "" /\ <<r.ref, r.id>> \in Suppressions

(* A directive that may not waive a rule is noted, and the finding stays.  *)
AddAll(c, findings) ==
  LET selected == {r \in findings : IsSelected(r)}
      waived == {r \in selected : IsSuppressed(r) /\ IsSuppressible(r.id)}
  IN  [results |-> c.results \cup (selected \ waived),
       waived |-> c.waived \cup waived,
       noted |-> c.noted \cup {r.id : r \in {q \in selected \ waived : IsSuppressed(q)}}]
-----------------------------------------------------------------------------
(* --phase leaves the other phases, and every unknown section, out.        *)
Desired ==
  {s \in File.sections : opts.phases # NoLimit => s.key \in opts.phases \/ s.kind = "known"}

Stems == {i \in DOMAIN zones : opts.zones # NoLimit => i \in opts.zones}

NextFile(i) ==
  LET later == {j \in Stems : j > i}
  IN  IF later = {} THEN Len(zones) + 1 ELSE CHOOSE j \in later : \A k \in later : j <= k

(* A file without rules is passed over, and counts as gone through.        *)
ReadFile ==
  /\ pc = "read"
  /\ IF at > Len(zones)
       THEN pc' = "orphans" /\ UNCHANGED <<at, text, processed>>
       ELSE /\ processed' = processed \cup {at}
            /\ IF Desired = {}
                 THEN at' = NextFile(at) /\ UNCHANGED <<pc, text>>
                 ELSE /\ \E lines \in Texts : text' = [text EXCEPT ![at] = lines]
                      /\ pc' = "plugins" /\ UNCHANGED at
  /\ ctx' = EmptyContext
  /\ UNCHANGED <<zones, opts, all, code>>

(* A file that cannot be loaded ends the command.                          *)
RefuseFile ==
  /\ pc = "read" /\ at <= Len(zones)
  /\ code' = 1
  /\ pc' = "refused"
  /\ UNCHANGED <<zones, opts, at, text, ctx, all, processed>>

(* Only the plugins of the zone's targets run, if they are known.          *)
Runs(plugin) == File.plugins = NoLimit \/ plugin \in File.plugins

RunPlugins ==
  /\ pc = "plugins"
  /\ ctx' = AddAll(ctx, UNION {File.reports[p] : p \in {q \in DOMAIN File.reports : Runs(q)}})
  /\ pc' = "rules"
  /\ UNCHANGED <<zones, opts, at, text, all, processed, code>>

(* The sections the core checks take for rule lists: all but known keys.   *)
RuleLists == {s \in Desired : s.kind # "known" /\ s.list}

AllDisabled ==
  {Result("CORE003", Warning, s.key, "") : s \in
     {l \in RuleLists : Cardinality(l.rules) >= 2 /\ \A rule \in l.rules : ~rule.on}}

SharedRefs ==
  {Result("CORE004", Warning, "", ref) : ref \in
     {rule.ref : rule \in UNION {s.rules : s \in RuleLists}} \cap
     {ref \in UNION {{rule.ref : rule \in s.rules} : s \in RuleLists} :
        \E s, t \in RuleLists : s # t /\ (\E a \in s.rules : a.ref = ref)
                                      /\ (\E b \in t.rules : b.ref = ref)}}

NoRules ==
  IF (\A s \in RuleLists : s.rules = {}) /\ (\A s \in Desired : s.kind # "absent")
    THEN {Result("CORE006", Info, "", "")} ELSE {}

(* A faulty variant: an empty section is not prepared. *)
UnpreparedRules ==
  {Result("CORE007", Error, s.key, "") : s \in
     {l \in RuleLists : l.kind = "phase" /\ l.rules # {} /\ ~l.prepares}}

(* The rule lists of registered phases go through what plan does to them.  *)
Unprepared ==
  {Result("CORE007", Error, s.key, "") : s \in
     {l \in RuleLists : l.kind = "phase" /\ ~l.prepares}}

Malformed ==
  {Result(IF s.key = "lists" THEN "CORE008" ELSE "CORE009", Error, "", "") : s \in
     {l \in Desired : l.kind = "known" /\ l.list /\ l.malformed}}

CheckRules ==
  /\ pc = "rules"
  /\ ctx' = AddAll(ctx, AllDisabled \cup SharedRefs \cup NoRules \cup Unprepared \cup Malformed)
  /\ pc' = "sections"
  /\ UNCHANGED <<zones, opts, at, text, all, processed, code>>

(* A faulty variant: the reports on earlier files claim sections too. *)
ClaimedAnywhere == {r.phase : r \in ctx.results \cup {f[2] : f \in all}}

(* A section somebody has reported on is left to that report.              *)
Claimed == {r.phase : r \in ctx.results}

SkippedSections ==
  {Result("CORE011", IF s.kind = "absent" THEN Warning ELSE Error, s.key, "") : s \in
     {l \in Desired : l.kind \in {"member", "absent", "unknown"} /\ l.key \notin Claimed}}

CheckSections ==
  /\ pc = "sections"
  /\ ctx' = AddAll(ctx, SkippedSections)
  /\ pc' = "hooks"
  /\ UNCHANGED <<zones, opts, at, text, all, processed, code>>

(* A validation hook reports errors and warnings; if it raises, that is an *)
(* error too.                                                              *)
HookFindings ==
  SUBSET {Result("CORE010", Error, "", ""), Result("CORE013", Warning, "", "")}

RunHooks ==
  /\ pc = "hooks"
  /\ \E findings \in HookFindings : ctx' = AddAll(ctx, findings)
  /\ pc' = "ineffective"
  /\ UNCHANGED <<zones, opts, at, text, all, processed, code>>

(* Directives that changed nothing: noted above, or of a rule no enabled   *)
(* set has.                                                                *)
Ineffective ==
  ctx.noted \cup
    (IF File.sets = NoLimit THEN {}
     ELSE {id \in {s[2] : s \in Suppressions} : ~IsActive(id, File.sets)})

ReportIneffective ==
  /\ pc = "ineffective"
  /\ ctx' = AddAll(ctx, {NoOp(id) : id \in Ineffective})
  /\ pc' = "finish"
  /\ UNCHANGED <<zones, opts, at, text, all, processed, code>>

FinishFile ==
  /\ pc = "finish"
  /\ all' = all \cup {<<at, r>> : r \in ctx.results}
  /\ at' = NextFile(at)
  /\ pc' = "read"
  /\ UNCHANGED <<zones, opts, text, ctx, processed, code>>

(* CORE002, for the files not gone through; not asked under --zone.        *)
Orphans ==
  IF opts.zones # NoLimit THEN {}
  ELSE {<<i, Result("CORE002", Warning, "", "")>> : i \in DOMAIN zones \ processed}

CheckOrphans ==
  /\ pc = "orphans"
  /\ all' = all \cup Orphans
  /\ pc' = "exit"
  /\ UNCHANGED <<zones, opts, at, text, ctx, processed, code>>

Has(severity) == \E f \in all : f[2].severity = severity

Exit ==
  /\ pc = "exit"
  /\ \E written \in BOOLEAN :
       /\ all = {} => written
       /\ code' = IF ~written \/ Has(Error) THEN 1
                  ELSE IF Has(Warning) /\ opts.granular THEN 2
                  ELSE 0
  /\ pc' = "done"
  /\ UNCHANGED <<zones, opts, at, text, ctx, all, processed>>

Init ==
  /\ zones \in Zones /\ opts \in Options
  /\ pc = "read" /\ at = NextFile(0)
  /\ text = [i \in DOMAIN zones |-> <<>>]
  /\ ctx = EmptyContext
  /\ all = {} /\ processed = {} /\ code = Undecided

Next ==
  \/ ReadFile \/ RefuseFile \/ RunPlugins \/ CheckRules \/ CheckSections
  \/ RunHooks \/ ReportIneffective \/ FinishFile \/ CheckOrphans \/ Exit

Spec == Init /\ [][Next]_vars
-----------------------------------------------------------------------------
(* What plan makes of the sections of a configured zone: with the strict   *)
(* set it refuses the zone over an unknown section, and over one of a      *)
(* namespace the zone does not target; a namespace that may only not be    *)
(* installed is passed with a warning.                                     *)
IsUntargeted(zone, s) ==
  zone.namespaces # NoLimit /\ s.ns # "" /\ s.ns \notin zone.namespaces

PlanRefuses(zone, s) ==
  /\ "strict" \in zone.sets
  /\ \/ s.kind \in {"member", "unknown"}
     \/ IsUntargeted(zone, s)

Unfiltered == opts.ids = NoLimit /\ opts.phases = NoLimit /\ opts.zones = NoLimit

(* The properties speak of runs that came to their end. *)
Done == pc = "done"

(* A directive of the file that reaches the finding: on the rule's line,   *)
(* right above it, or the file's.                                          *)
IsAnchor(line) == line.ref # NoAnchor

Reaches(lines, id, ref) ==
  \E i \in DOMAIN lines :
    /\ id \in lines[i].names
    /\ LET stop(line) == IsContent(line) \/ IsAnchor(line)
           next == {j \in DOMAIN lines : IsAnchor(lines[j]) /\ StandsAbove(lines, i, j, stop)}
       IN  IF IsAnchor(lines[i]) THEN lines[i].ref = ref
           ELSE \/ \E j \in next : lines[j].ref = ref
                \/ next = {} /\ BeforeEveryRule(lines, i, IsAnchor)

(* A plugin that runs has a report on the section, and a comment waives it. *)
IsWaived(i, s) ==
  \E p \in DOMAIN zones[i].reports :
    /\ zones[i].plugins = NoLimit \/ p \in zones[i].plugins
    /\ \E r \in zones[i].reports[p] :
         r.phase = s.key /\ r.severity <= opts.severity /\ Reaches(text[i], r.id, r.ref)

IsUnmanaged(s) == s.kind \in {"member", "unknown"}

(* An unknown section is never passed over: whoever reported on it first,  *)
(* and whatever was found in other files, the report names it in its own   *)
(* file (the rule "decides whether plan manages a section",                *)
(* engine.py:314-317); and where nobody else did, plan's refusal is lint's *)
(* failure.  Of the sections whose plugin report a comment waives,         *)
(* SuppressedReportClaims speaks.                                          *)
SkippedIsReported ==
  Done /\ Unfiltered => \A i \in DOMAIN zones : \A s \in zones[i].sections :
    /\ IsUnmanaged(s) /\ ~IsWaived(i, s)
    /\ zones[i].sets = NoLimit \/ zones[i].sets # {}
    => /\ \E f \in all : f[1] = i /\ f[2].phase = s.key
       /\ \/ \E f \in all : f[1] = i /\ f[2].phase = s.key /\ f[2].id # "CORE011"
          \/ code = 1

(* A suppressed report still claims its section, so that the core check    *)
(* says nothing of it (_lint.py:212-213: "A plugin finding the user        *)
(* suppressed is treated as claimed too").                                 *)
SuppressedReportClaims ==
  Done /\ Unfiltered => \A i \in DOMAIN zones : \A s \in zones[i].sections :
    IsUnmanaged(s) /\ IsWaived(i, s) =>
      \A f \in all : f[1] = i /\ f[2].phase = s.key => f[2].id # "CORE011"

(* A green lint without filters: every phase section that is a list of     *)
(* rules survives what plan does to it, and every entry of lists and       *)
(* rulesets that are lists has its shape, or a comment of that file        *)
(* disables the check, or the sets leave it out (CORE007: "would abort     *)
(* plan/sync").  A section that is no list is checked by neither rule      *)
(* (_lint.py:156, 182), and lint may be green over it.                     *)
GreenMeansPlannable ==
  Done /\ Unfiltered /\ code = 0 => \A i \in DOMAIN zones : \A s \in zones[i].sections :
    zones[i].sets = NoLimit \/ "default" \in zones[i].sets =>
      /\ s.kind = "phase" /\ s.list /\ ~s.prepares => Reaches(text[i], "CORE007", "")
      /\ s.kind = "known" /\ s.list /\ s.malformed =>
           Reaches(text[i], IF s.key = "lists" THEN "CORE008" ELSE "CORE009", "")

(* What plan refuses lint fails on (planner.py:483-484: "This is the same  *)
(* rule ``octorules lint`` reports, so the two cannot disagree about what  *)
(* counts as skipped").                                                    *)
LintFailsWhenPlanRefuses ==
  Done /\ Unfiltered =>
    \A i \in DOMAIN zones : \A s \in zones[i].sections :
      zones[i].configured /\ PlanRefuses(zones[i], s) => code = 1
=============================================================================
