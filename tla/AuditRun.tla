------------------------------ MODULE AuditRun ------------------------------
(***************************************************************************)
(* `octorules audit`: what the rules of every file match is extracted by   *)
(* the providers' extensions, the four checks run on what was extracted,   *)
(* the comments of the files waive some of the findings, and the rest      *)
(* decides the exit code.                                                  *)
(*                                                                         *)
(* An address range is a pair of first and last address, one family of     *)
(* addresses for all.  The overlap check is the sweep of AuditSweep, step  *)
(* by step; the other checks are one step each.                            *)
(***************************************************************************)
EXTENDS AuditSweep, Directives, FiniteSets

CONSTANTS
  Files,        \* sequences of rules files, one candidate per run
  Texts,        \* what their lines may be: sequences of [main, includes]
  CheckChoices, \* the --check options: sets of checks
  Phases,       \* the rule phases, in the order traffic meets them
  Place,        \* [Rules -> Nat], the order rules are extracted in
  Blocking,     \* the actions that block
  Sources,      \* the CDN providers whose ranges are published
  Rank,         \* their alphabetical order
  Published,    \* [Sources -> the ranges]
  Active,       \* the CDN providers this configuration fronts on
  MaxCrashes    \* how many sections of a file an extension may crash on

AllChecks == {"ip-overlap", "ip-shadow", "cdn-ranges", "zone-drift"}

ASSUME AuditAssumption ==
  /\ CheckChoices \subseteq SUBSET AllChecks
  /\ Active \subseteq Sources
  /\ Rank \in [Sources -> Nat]
  /\ \A s \in Sources : Published[s] \subseteq Nets
  /\ AllChecks \subseteq KnownNames

NoFile == 0
Undecided == -1

VARIABLES
  files,       \* the rules files, in the order of their names
  checks,      \* the checks asked for
  pc,          \* where the command is
  at,          \* the file it is at
  infos,       \* what was extracted: RuleIPInfo
  failed,      \* the files an extension crashed on
  sweeping,    \* whether the sweep of file `at` has begun
  cdn,         \* the CDN ranges in use: [ranges, stale]
  found,       \* the findings
  text,        \* the lines of the files
  kept,        \* the findings no directive waived
  code         \* [granular: --exit-code, value: the exit code]

auditVars == <<files, checks, pc, at, infos, failed, sweeping, cdn, found, text,
               kept, code>>

vars == <<sweepVars, auditVars>>

ZoneOf == DOMAIN files

Elements(seq) == {seq[i] : i \in DOMAIN seq}

(* Refs are sequences of names: <<ref>> of a rule, <<label, ref>> of a rule *)
(* inside a custom ruleset, <<"list", ns, name>> of a list on its own.     *)
ListRef(ns, name) == <<"list", ns, name>>
IsListRef(ref) == Len(ref) = 3
RuleRef(rule) == IF rule.ruleset = "" THEN <<rule.ref>> ELSE <<rule.ruleset, rule.ref>>

(* Rules and Nets are those of the files.  The report of an audit has one  *)
(* text per file; no rule or list bears the name that stands for the file, *)
(* and no phase is called as the lists' own.                               *)
ASSUME FilesAssumption ==
  /\ IsFiniteSet(Nets) /\ IsFiniteSet(Rules)
  /\ Place \in [Rules -> Nat] /\ \A q, r \in Rules : Place[q] = Place[r] => q = r
  /\ "" \notin Blocking
  /\ \A fs \in Files :
       /\ DOMAIN fs = 1..Len(fs) /\ Len(fs) \in Nat \ {0}
       /\ \A z \in DOMAIN fs :
            /\ \A r \in fs[z].rules :
                 /\ r.nets \subseteq Nets /\ r.phase # "lists"
                 /\ <<RuleRef(r), r.phase>> \in Rules
            /\ \A l \in fs[z].lists :
                 l.nets \subseteq Nets /\ <<ListRef(l.ns, l.name), "lists">> \in Rules
  /\ \A fs \in Files, texts \in Texts : DOMAIN texts = DOMAIN fs
  /\ \A texts \in Texts : \A z \in DOMAIN texts :
       \A lines \in {texts[z].main} \cup Elements(texts[z].includes) :
         /\ DOMAIN lines = 1..Len(lines) /\ Len(lines) \in Nat
         /\ \A i \in DOMAIN lines : WholeFile \notin {lines[i].ref, lines[i].list}
-----------------------------------------------------------------------------
(* Extraction.  A file is [rules, lists, several]; a rule that is off      *)
(* enforces nothing.  With several provider namespaces in the file the     *)
(* custom rulesets stand under dotted keys, which the audit does not read. *)
IsRead(file, rule) == rule.on /\ (rule.ruleset # "" => ~file.several)

Section(rule) == <<rule.ruleset, rule.phase>>

Extracted(file, crashed) ==
  {rule \in file.rules : IsRead(file, rule) /\ Section(rule) \notin crashed}

(* A bare name stands for the lists of every namespace that has one.       *)
ListsNamed(file, name) == {l \in file.lists : l.name = name}

Resolved(file, rule) ==
  rule.nets \cup (UNION {l.nets : l \in UNION {ListsNamed(file, n) : n \in rule.lists}})

(* A faulty variant: rules that are off reference lists too. *)
ReferencedAnywhere(file, rules) ==
  UNION {ListsNamed(file, n) :
           n \in UNION {rule.lists \cup rule.negated : rule \in file.rules}}

(* A list a rule only excludes is referenced all the same.                 *)
Referenced(file, rules) ==
  UNION {ListsNamed(file, n) : n \in UNION {rule.lists \cup rule.negated : rule \in rules}}

ExtractedInfos(z, crashed) ==
  LET file == files[z]
      rules == Extracted(file, crashed)
      ofRules == {[zone |-> z, phase |-> rule.phase, ref |-> RuleRef(rule),
                   action |-> rule.action, nets |-> Resolved(file, rule),
                   lists |-> rule.lists] : rule \in rules}
      ofLists == {[zone |-> z, phase |-> "lists", ref |-> ListRef(l.ns, l.name),
                   action |-> "", nets |-> l.nets, lists |-> {}] :
                    l \in file.lists \ Referenced(file, rules)}
  IN  ofRules \cup ofLists

(* What resolves to no address is dropped.                                 *)
AuditZone(z, crashed) == {info \in ExtractedInfos(z, crashed) : info.nets # {}}

Finding(check, severity, zone, phase, ref, nets, suppressible) ==
  [check |-> check, severity |-> severity, zone |-> zone, phase |-> phase,
   ref |-> ref, nets |-> nets, suppressible |-> suppressible]

(* A faulty variant: a crash is reported as a warning. *)
CrashFindingWaivable(z) ==
  Finding("extension-failure", "warning", z, "", <<>>, {}, FALSE)

CrashFinding(z) ==
  Finding("extension-failure", "error", z, "", <<>>, {}, FALSE)

(* The file after the last one ends the extraction: nothing extracted and  *)
(* nothing crashed ends the audit, with exit code 0.                       *)
Extract ==
  /\ pc = "extract"
  /\ \E crashed \in {c \in SUBSET {Section(rule) : rule \in files[at].rules} :
                       Cardinality(c) <= MaxCrashes} :
       /\ infos' = infos \cup AuditZone(at, crashed)
       /\ failed' = IF crashed = {} THEN failed ELSE failed \cup {at}
       /\ found' = IF crashed = {} THEN found ELSE found \cup {CrashFinding(at)}
  /\ IF at < Len(files) THEN at' = at + 1 /\ UNCHANGED <<pc, code>>
     ELSE /\ at' = 1
          /\ IF infos' # {} THEN pc' = "overlap" /\ UNCHANGED code
             ELSE IF failed' # {} THEN pc' = "accept" /\ UNCHANGED code
             ELSE pc' = "done" /\ code' = [code EXCEPT !.value = 0]
  /\ UNCHANGED <<files, checks, sweeping, cdn, text, kept, sweepVars>>
-----------------------------------------------------------------------------
(* ip-overlap: a sweep over the entries of each file.                      *)
EntriesOf(z) ==
  UNION {{[net |-> n, rule |-> <<info.ref, info.phase>>] : n \in info.nets} :
           info \in {i \in infos : i.zone = z}}

(* A faulty variant: of ranges that begin together the narrower is first. *)
PrecedesWhenNarrow(d, e) ==
  \/ d.net.lo < e.net.lo
  \/ d.net.lo = e.net.lo /\ d.net.hi < e.net.hi
  \/ d.net = e.net /\ Place[d.rule] <= Place[e.rule]

(* Entries with the same range stay in the order they were extracted.      *)
Precedes(d, e) ==
  IF d.net = e.net THEN Place[d.rule] <= Place[e.rule] ELSE Before(d, e)

Sorted(S) ==
  [k \in 1..Cardinality(S) |->
     CHOOSE e \in S : Cardinality({d \in S : Precedes(d, e)}) = k]

SkipOverlap ==
  /\ pc = "overlap" /\ "ip-overlap" \notin checks
  /\ pc' = "shadow"
  /\ UNCHANGED <<files, checks, at, infos, failed, sweeping, cdn, found, text, kept,
                 code, sweepVars>>

BeginSweep ==
  /\ pc = "overlap" /\ "ip-overlap" \in checks /\ ~sweeping
  /\ entries' = Sorted(EntriesOf(at)) /\ pos' = 0 /\ stack' = <<>> /\ hits' = {}
  /\ sweeping' = TRUE
  /\ UNCHANGED <<files, checks, pc, at, infos, failed, cdn, found, text, kept, code>>

Sweep ==
  /\ pc = "overlap" /\ sweeping
  /\ Pop \/ Visit
  /\ UNCHANGED auditVars

OverlapFinding(hit) ==
  LET e == entries[hit[1]]
  IN  Finding("ip-overlap", "warning", at, e.rule[2], e.rule[1],
              {e.net, entries[hit[2]].net}, TRUE)

EndSweep ==
  /\ pc = "overlap" /\ sweeping /\ Swept
  /\ found' = found \cup {OverlapFinding(h) : h \in hits}
  /\ sweeping' = FALSE
  /\ IF at < Len(files) THEN at' = at + 1 /\ UNCHANGED pc
     ELSE at' = 1 /\ pc' = "shadow"
  /\ UNCHANGED <<files, checks, infos, failed, cdn, text, kept, code, sweepVars>>
-----------------------------------------------------------------------------
(* ip-shadow: the rules one earlier blocking rule covers range by range.   *)
IsRanked(phase) == \E i \in DOMAIN Phases : Phases[i] = phase
PhaseRank(phase) == CHOOSE i \in DOMAIN Phases : Phases[i] = phase

IsBlocking(action) == action \in Blocking

(* A faulty variant: an overlap is enough. *)
CoversPartly(c, info, net) ==
  /\ c.zone = info.zone /\ c # info
  /\ IsRanked(c.phase) /\ IsBlocking(c.action)
  /\ PhaseRank(c.phase) < PhaseRank(info.phase)
  /\ \E n \in c.nets : Overlap(net, n)

Covers(c, info, net) ==
  /\ c.zone = info.zone /\ c # info
  /\ IsRanked(c.phase) /\ IsBlocking(c.action)
  /\ PhaseRank(c.phase) < PhaseRank(info.phase)
  /\ \E n \in c.nets : Within(net, n)

Shadowers(info) == {c \in infos : \A net \in info.nets : Covers(c, info, net)}

ShadowFindings ==
  {Finding("ip-shadow", "warning", info.zone, info.phase, info.ref, info.nets, TRUE) :
     info \in {i \in infos : IsRanked(i.phase) /\ Shadowers(i) # {}}}

Shadow ==
  /\ pc = "shadow"
  /\ found' = found \cup (IF "ip-shadow" \in checks THEN ShadowFindings ELSE {})
  /\ pc' = IF "cdn-ranges" \in checks THEN "fetch" ELSE "drift"
  /\ UNCHANGED <<files, checks, at, infos, failed, sweeping, cdn, text, kept, code,
                 sweepVars>>
-----------------------------------------------------------------------------
(* cdn-ranges: fresh packaged ranges are used as they are; otherwise each  *)
(* source is asked, what answered is all there is, and only when nobody    *)
(* answers are old packaged ranges used.                                   *)
RangesOf(sources) == UNION {{[source |-> s, net |-> n] : n \in Published[s]} : s \in sources}

FetchedRanges(packaged, answered) ==
  CASE packaged = "fresh" -> [ranges |-> RangesOf(Sources), stale |-> FALSE]
    [] packaged # "fresh" /\ answered # {} -> [ranges |-> RangesOf(answered), stale |-> FALSE]
    [] packaged = "stale" /\ answered = {} -> [ranges |-> RangesOf(Sources), stale |-> TRUE]
    [] packaged = "missing" /\ answered = {} -> [ranges |-> {}, stale |-> FALSE]

FetchCdnRanges ==
  /\ pc = "fetch"
  /\ \E packaged \in {"fresh", "stale", "missing"}, answered \in SUBSET Sources :
       /\ packaged = "fresh" => answered = {}
       /\ cdn' = FetchedRanges(packaged, answered)
  /\ pc' = "cdn"
  /\ UNCHANGED <<files, checks, at, infos, failed, sweeping, found, text, kept, code,
                 sweepVars>>

(* Of the ranges that meet a rule's range only one is looked at: the last  *)
(* in the order of first address, last address and provider.               *)
ComesLater(a, b) ==
  \/ a.net.lo > b.net.lo
  \/ a.net.lo = b.net.lo /\ a.net.hi > b.net.hi
  \/ a.net = b.net /\ Rank[a.source] >= Rank[b.source]

(* A faulty variant: only ranges around the rule's are looked at. *)
MeetingInside(net) == {r \in cdn.ranges : Within(net, r.net)}

Meeting(net) == {r \in cdn.ranges : Overlap(r.net, net)}
Match(net) == CHOOSE r \in Meeting(net) : \A q \in Meeting(net) : ComesLater(r, q)

CdnFinding(info, net) ==
  LET own == Match(net).source \in Active
  IN  Finding("cdn-ranges", IF own THEN "error" ELSE "warning", info.zone, info.phase,
              info.ref, {net, Match(net).net}, ~own)

(* A list's ranges are checked as a rule's are.                            *)
CdnFindings ==
  UNION {{CdnFinding(info, net) : net \in {n \in info.nets : Meeting(n) # {}}} :
           info \in infos}

StaleFinding == Finding("cdn-ranges", "warning", NoFile, "", <<>>, {}, TRUE)

StaleFindings == IF cdn.ranges # {} /\ cdn.stale THEN {StaleFinding} ELSE {}

CheckCdn ==
  /\ pc = "cdn"
  /\ found' = found \cup CdnFindings \cup StaleFindings
  /\ pc' = "drift"
  /\ UNCHANGED <<files, checks, at, infos, failed, sweeping, cdn, text, kept, code,
                 sweepVars>>
-----------------------------------------------------------------------------
(* zone-drift: a range that files treat differently.  The finding is the   *)
(* first such file's.                                                      *)
Uses(net) == {info \in infos : info.phase # "lists" /\ net \in info.nets}
ActionsIn(net, z) == {info.action : info \in {i \in Uses(net) : i.zone = z}}
ZonesUsing(net) == {info.zone : info \in Uses(net)}

FirstUsing(net) == CHOOSE z \in ZonesUsing(net) : \A y \in ZonesUsing(net) : z <= y

Drifts(net) == \E y, z \in ZonesUsing(net) : ActionsIn(net, y) # ActionsIn(net, z)

DriftFindings ==
  {Finding("zone-drift", "warning", FirstUsing(net), "", <<>>, {net}, TRUE) :
     net \in {n \in Nets : Drifts(n)}}

CheckDrift ==
  /\ pc = "drift"
  /\ found' = found \cup (IF "zone-drift" \in checks THEN DriftFindings ELSE {})
  /\ pc' = "accept"
  /\ UNCHANGED <<files, checks, at, infos, failed, sweeping, cdn, text, kept, code,
                 sweepVars>>
-----------------------------------------------------------------------------
(* The anchors a directive may name for a finding: the rule, the lists the *)
(* rule draws on, and a list by its bare name.                             *)
RuleLists(z, ref) == UNION {info.lists : info \in {i \in infos : i.zone = z /\ i.ref = ref}}

AnchorsOf(f) ==
  {f.ref} \cup {ListRef("", n) : n \in RuleLists(f.zone, f.ref)}
    \cup (IF IsListRef(f.ref) THEN {ListRef("", f.ref[3])} ELSE {})

AcceptedIn(f, acceptances) ==
  \/ <<WholeFile, f.check>> \in acceptances
  \/ \E anchor \in AnchorsOf(f) : <<anchor, f.check>> \in acceptances

(* Findings of no file, and those that are errors by design, always stay.  *)
IsAccepted(f, texts) ==
  /\ f.suppressible
  /\ f.zone # NoFile
  /\ AcceptedIn(f, ParseAcceptances(texts[f.zone]))

Accept ==
  /\ pc = "accept"
  /\ text' \in Texts
  /\ kept' = {f \in found : ~IsAccepted(f, text')}
  /\ pc' = "exit"
  /\ UNCHANGED <<files, checks, at, infos, failed, sweeping, cdn, found, code, sweepVars>>

Has(severity) == \E f \in kept : f.severity = severity

ExitCode(written, granular) ==
  CASE ~written \/ Has("error") -> 1
    [] written /\ ~Has("error") /\ Has("warning") /\ granular -> 2
    [] written /\ ~Has("error") /\ (Has("warning") => ~granular) -> 0

(* The report may go to a file, which may not be written.                  *)
Exit ==
  /\ pc = "exit"
  /\ \E written \in BOOLEAN :
       code' = [code EXCEPT !.value = ExitCode(written, code.granular)]
  /\ pc' = "done"
  /\ UNCHANGED <<files, checks, at, infos, failed, sweeping, cdn, found, text, kept,
                 sweepVars>>

Init ==
  /\ SweepInit
  /\ files \in Files
  /\ checks \in CheckChoices
  /\ pc = "extract" /\ at = 1 /\ sweeping = FALSE
  /\ infos = {} /\ failed = {} /\ found = {} /\ kept = {}
  /\ cdn = [ranges |-> {}, stale |-> FALSE]
  /\ text = <<>>
  /\ code \in [granular : BOOLEAN, value : {Undecided}]

Next ==
  \/ Extract \/ SkipOverlap \/ BeginSweep \/ Sweep \/ EndSweep \/ Shadow
  \/ FetchCdnRanges \/ CheckCdn \/ CheckDrift \/ Accept \/ Exit

Spec == Init /\ [][Next]_vars
-----------------------------------------------------------------------------
(* Every step of the audit is a step of the sweep AuditProofs proves       *)
(* complete, or leaves it alone: in particular the entries it begins with  *)
(* are sorted as the sweep needs them.                                     *)
KeepsSweep == SweepSpec

ExtractedAll(z) == pc # "extract" /\ z \notin failed

(* Extraction loses no address that is enforced and counts no list twice.  *)
(* For a file no extension crashed on: what an enabled rule matches, of    *)
(* its own or through a list, stands under that rule; a list stands on its *)
(* own exactly when no such rule names it (audit_zone_rules: "Unreferenced *)
(* IP lists are included as standalone pseudo-rules").                     *)
EveryAddressIsAudited ==
  \A z \in ZoneOf : ExtractedAll(z) =>
    LET file == files[z]
        visible == {r \in file.rules : r.on /\ (r.ruleset = "" \/ ~file.several)}
        ofZone == {i \in infos : i.zone = z}
    IN  /\ \A r \in visible, n \in Nets :
             (n \in r.nets \/ \E l \in file.lists : l.name \in r.lists /\ n \in l.nets)
               => \E i \in ofZone : i.ref = RuleRef(r) /\ i.phase = r.phase /\ n \in i.nets
        /\ \A l \in file.lists : \A n \in l.nets :
             (\E i \in ofZone : i.ref = ListRef(l.ns, l.name) /\ n \in i.nets)
               <=> \A r \in visible : l.name \notin r.lists \cup r.negated
        /\ \A i \in ofZone : i.phase # "lists" => \E r \in visible : RuleRef(r) = i.ref

Addresses(nets) == UNION {n.lo..n.hi : n \in nets}

(* A rule reported as shadowed never takes effect: one enabled rule of an  *)
(* earlier phase of its file blocks every address it matches.              *)
ShadowedNeverMatch ==
  \A f \in found : f.check = "ip-shadow" =>
    \E r \in files[f.zone].rules :
      /\ r.on /\ r.action \in Blocking
      /\ PhaseRank(r.phase) < PhaseRank(f.phase)
      /\ Addresses(f.nets) \subseteq
           Addresses(r.nets \cup UNION {l.nets : l \in {m \in files[f.zone].lists :
                                                           m.name \in r.lists}})

(* An extension that crashed cannot leave the audit green, whatever checks *)
(* were asked for and whatever the comments accept (cmd_audit: "so         *)
(* --exit-code CI runs go red instead of green-by-doing-less").            *)
NeverGreenAfterCrash == pc = "done" /\ failed # {} => code.value = 1

(* A directive in the text of the file of a finding that reaches it.  A    *)
(* directive between two rules reaches the next rule and no other; only    *)
(* one before every rule reaches the whole file.                           *)
IsRuleLine(line) == line.ref # NoAnchor /\ ~IsDirective(line)
IsListLine(line) == IsRuleLine(line) \/ (line.list # NoAnchor /\ ~IsDirective(line))

NamesAt(line, anchors) ==
  line.ref \in anchors \/ (line.ref = NoAnchor /\ line.list \in anchors)

ReachedIn(lines, check, anchors, isAnchor(_)) ==
  \E i \in DOMAIN lines :
    /\ check \in lines[i].names
    /\ LET stop(line) == IsContent(line) \/ isAnchor(line)
           next == {j \in DOMAIN lines : isAnchor(lines[j]) /\ StandsAbove(lines, i, j, stop)}
       IN  \/ \E j \in next : NamesAt(lines[j], anchors)
           \/ next = {} /\ BeforeEveryRule(lines, i, isAnchor)

(* A finding that was waived has such a directive in its own file, for its *)
(* own check: no directive waives what stands further down or in another   *)
(* file (README.md:532-536).                                               *)
WaivedByItsOwnDirective ==
  pc \in {"exit", "done"} => \A f \in found \ kept :
    /\ f.severity = "warning" /\ f.zone \in ZoneOf
    /\ \/ ReachedIn(text[f.zone].main, f.check, AnchorsOf(f), IsRuleLine)
       \/ \E i \in DOMAIN text[f.zone].includes :
            ReachedIn(text[f.zone].includes[i], f.check, AnchorsOf(f), IsListLine)

(* What the enabled rules of a file do with a range they have, of their    *)
(* own or through a list.                                                  *)
Treatment(z, net) ==
  LET file == files[z]
  IN  {r.action : r \in {q \in file.rules :
         /\ q.on /\ (q.ruleset = "" \/ ~file.several)
         /\ net \in q.nets \/ \E l \in file.lists : l.name \in q.lists /\ net \in l.nets}}

(* A green audit of everything: two enabled top-level rules of a file      *)
(* whose ranges meet, a range that meets a known CDN range, and a range    *)
(* that two files treat differently have all been waived in the file; and  *)
(* the CDN ranges it was compared with are not outdated ones.              *)
GreenMeansAccounted ==
  pc = "done" /\ code.value = 0 /\ code.granular /\ checks = AllChecks =>
    /\ \A z \in ZoneOf : \A r, s \in {q \in files[z].rules : q.on /\ q.ruleset = ""} :
         \A m \in r.nets, n \in s.nets :
           <<r.ref, r.phase>> # <<s.ref, s.phase>> /\ Overlap(m, n) =>
             \E f \in found \ kept : f.check = "ip-overlap" /\ f.zone = z /\ f.nets = {m, n}
    /\ \A info \in infos : \A n \in info.nets :
         (\E r \in cdn.ranges : Overlap(r.net, n)) =>
           \E f \in found \ kept :
             /\ f.check = "cdn-ranges" /\ f.zone = info.zone
             /\ f.ref = info.ref /\ n \in f.nets
    /\ \A y, z \in ZoneOf, n \in Nets :
         {} \notin {Treatment(y, n), Treatment(z, n)} /\ Treatment(y, n) # Treatment(z, n)
           => \E f \in found \ kept : f.check = "zone-drift" /\ f.nets = {n}
    /\ cdn.stale => cdn.ranges = {}
=============================================================================
