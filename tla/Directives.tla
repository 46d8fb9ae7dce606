----------------------------- MODULE Directives -----------------------------
(***************************************************************************)
(* The comments of a rules file that waive findings, and the two scanners  *)
(* that attach them to rules: `# octorules:disable=` for lint and          *)
(* `# octorules:accept=` for audit.  Both walk the lines of the file once, *)
(* with the names still to be attached and whether a rule has been seen.   *)
(*                                                                         *)
(* A line is what the scanners' patterns make of it: the names of a        *)
(* directive on it, the rule its `- ref:` or `description:` names, the     *)
(* list its `name:` names, and whether it is blank but for a comment.      *)
(***************************************************************************)
EXTENDS Integers, Sequences

CONSTANTS
  KnownNames,   \* the lint rules, or the audit checks, that exist
  NoAnchor,     \* a line that names no rule, or no list
  WholeFile     \* the anchor of a file-wide directive ("*")

IsDirective(line) == line.names # {}
IsContent(line) == ~line.blank /\ ~IsDirective(line)

(* What a scan knows after some lines. *)
NothingRead == [attached |-> {}, pending |-> {}, seen |-> FALSE]

Attach(st, anchor) == st.attached \cup ({anchor} \X st.pending)

(* A rule's own line takes what is pending. *)
AtAnchor(st, anchor) ==
  [attached |-> Attach(st, anchor), pending |-> {}, seen |-> TRUE]

(* A faulty variant: what waits is file-wide wherever it stands. *)
AtContentFileWide(st) ==
  [st EXCEPT !.attached = Attach(st, WholeFile), !.pending = {}]

(* Other content ends the wait: file-wide before the first rule, and lost  *)
(* after it.                                                               *)
AtContent(st) ==
  [st EXCEPT !.attached = IF st.seen THEN @ ELSE Attach(st, WholeFile),
             !.pending = {}]

AtEnd(st) == IF st.seen THEN st.attached ELSE Attach(st, WholeFile)

Awaiting(st, line) == [st EXCEPT !.pending = @ \cup (line.names \cap KnownNames)]

(* Lint: a directive may stand on the rule's line itself. *)
DisableStep(st, line) ==
  LET read == Awaiting(st, line)
  IN  IF line.ref # NoAnchor THEN AtAnchor(read, line.ref)
      ELSE IF IsContent(line) THEN AtContent(read)
      ELSE read

(* Audit: a line with a directive is never the rule's line.  Only in an    *)
(* included file does a list's name count.                                 *)
AcceptStep(st, line, lists) ==
  IF IsDirective(line) THEN Awaiting(st, line)
  ELSE IF line.ref # NoAnchor THEN AtAnchor(st, line.ref)
  ELSE IF lists /\ line.list # NoAnchor THEN AtAnchor(st, line.list)
  ELSE IF IsContent(line) THEN AtContent(st)
  ELSE st

(* What each scan knows after the first n lines. *)
Disabling(lines) ==
  LET st[n \in 0..Len(lines)] ==
        IF n = 0 THEN NothingRead ELSE DisableStep(st[n - 1], lines[n])
  IN  st

Accepting(lines, lists) ==
  LET st[n \in 0..Len(lines)] ==
        IF n = 0 THEN NothingRead ELSE AcceptStep(st[n - 1], lines[n], lists)
  IN  st

ScanDisables(lines) == AtEnd(Disabling(lines)[Len(lines)])

ScanAccepts(lines, lists) == AtEnd(Accepting(lines, lists)[Len(lines)])

(* A rules file and the files it includes: each is scanned on its own.     *)
ParseAcceptances(file) ==
  ScanAccepts(file.main, FALSE)
    \cup (UNION {ScanAccepts(file.includes[i], TRUE) : i \in DOMAIN file.includes})
-----------------------------------------------------------------------------
(* What the documentation says a directive reaches, read off the lines     *)
(* without a scan.  names(i) stands at line i; the rules are at the lines  *)
(* isAnchor, and stops are the lines a directive does not reach across.    *)
StandsAbove(lines, i, j, isStop(_)) ==
  i < j /\ \A k \in (i + 1)..(j - 1) : ~isStop(lines[k])

(* The directive is the file's, not a rule's: no rule before it.           *)
BeforeEveryRule(lines, i, isAnchor(_)) == \A k \in 1..(i - 1) : ~isAnchor(lines[k])
=============================================================================
