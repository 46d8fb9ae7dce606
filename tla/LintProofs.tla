----------------------------- MODULE LintProofs -----------------------------
(***************************************************************************)
(* What a green lint guarantees, for any files, plugins and comments.      *)
(* First the scan of the comments: no directive is carried past the rule   *)
(* or the content that follows it.  Then the command: file by file, what   *)
(* must be reported is among the results or waived by such a directive,    *)
(* and results reach the report and the exit code.                         *)
(***************************************************************************)
EXTENDS LintRun, WellFoundedInduction, TLAPS

(* A set of numbers that is not empty has a least element.                 *)
LEMMA LeastElement ==
  ASSUME NEW T \in SUBSET Nat, T # {}
  PROVE  \E x \in T : \A y \in T : ~(y < x)
<1>1. \E x \in T : \A y \in T : ~(<<y, x>> \in OpToRel(<, Nat))
  BY NatLessThanWellFounded, WFMin
<1> QED
  BY <1>1 DEF OpToRel

-----------------------------------------------------------------------------
(* The scan of the comments.                                               *)

IsText(lines) == DOMAIN lines = 1..Len(lines) /\ Len(lines) \in Nat

(* st is a scan of the first m lines.                                      *)
ScansUpTo(st, m, lines) ==
  st = [n \in 0..m |-> IF n = 0 THEN NothingRead ELSE DisableStep(st[n - 1], lines[n])]

(* There is a scan of all lines.                                           *)
LEMMA ScanExists ==
  ASSUME NEW lines, IsText(lines)
  PROVE  \E st : ScansUpTo(st, Len(lines), lines)
<1> DEFINE T == {m \in 0..Len(lines) : ~\E st : ScansUpTo(st, m, lines)}
<1>1. SUFFICES ASSUME T # {} PROVE FALSE
  BY DEF IsText
<1>2. PICK m \in T : \A k \in T : ~(k < m)
  <2>1. T \in SUBSET Nat
    BY DEF IsText
  <2> HIDE DEF T
  <2> QED
    BY <1>1, <2>1, LeastElement
<1>3. m \in Nat /\ m <= Len(lines) /\ Len(lines) \in Nat
  BY DEF IsText
<1>4. CASE m = 0
  <2> DEFINE st == [n \in 0..0 |-> NothingRead]
  <2>1. ScansUpTo(st, 0, lines)
    BY DEF ScansUpTo
  <2> QED
    BY <1>2, <1>4, <2>1
<1>5. CASE m # 0
  <2>1. m - 1 \in 0..Len(lines) /\ m - 1 < m
    BY <1>3, <1>5
  <2>2. PICK st : ScansUpTo(st, m - 1, lines)
    BY <1>2, <2>1
  <2> DEFINE next == [n \in 0..m |-> IF n < m THEN st[n]
                                    ELSE DisableStep(st[m - 1], lines[m])]
             step(f, n) == DisableStep(f[n - 1], lines[n])
  <2>3. \A n \in 0..(m - 1) : st[n] = IF n = 0 THEN NothingRead ELSE step(st, n)
    BY <2>2 DEF ScansUpTo
  <2>4. \A n \in 0..(m - 1) : next[n] = st[n]
    <3>1. \A n \in 0..(m - 1) : n \in 0..m /\ n < m
      <4>1. m \in Nat
        BY <1>3
      <4> QED
        BY ONLY <4>1
    <3> QED
      BY <3>1
  <2>5. \A n \in 1..m : step(next, n) = step(st, n)
    <3> TAKE n \in 1..m
    <3>1. n - 1 \in 0..(m - 1)
      BY <1>3
    <3> QED
      BY <2>4, <3>1
  <2>6. next[m] = step(st, m)
    BY <1>3
  <2>7. \A n \in 0..m : next[n] = IF n = 0 THEN NothingRead ELSE step(next, n)
    <3> TAKE n \in 0..m
    <3>1. CASE n = m
      BY <1>3, <1>5, <2>5, <2>6, <3>1
    <3>2. CASE n # m
      <4>1. n \in 0..(m - 1) /\ (n # 0 => n \in 1..m)
        BY <1>3, <3>2
      <4> HIDE DEF next, step
      <4> QED
        BY <2>3, <2>4, <2>5, <4>1
    <3> QED
      BY <3>1, <3>2
  <2>8. next = [n \in 0..m |-> next[n]]
    OBVIOUS
  <2> HIDE DEF next
  <2>9. next = [n \in 0..m |-> IF n = 0 THEN NothingRead ELSE DisableStep(next[n - 1], lines[n])]
    BY <2>7, <2>8
  <2> QED
    BY <1>2, <2>9 DEF ScansUpTo
<1> QED
  BY <1>4, <1>5

(* What the scan knows after a line is DisableStep of what it knew before. *)
LEMMA ScanSteps ==
  ASSUME NEW lines, IsText(lines)
  PROVE  /\ Disabling(lines)[0] = NothingRead
         /\ \A n \in 1..Len(lines) :
              Disabling(lines)[n] = DisableStep(Disabling(lines)[n - 1], lines[n])
<1> DEFINE st == Disabling(lines)
<1>1. st = CHOOSE f : ScansUpTo(f, Len(lines), lines)
  BY DEF Disabling, ScansUpTo
<1>2. ScansUpTo(st, Len(lines), lines)
  BY <1>1, ScanExists
<1> HIDE DEF st
<1>3. \A n \in 0..Len(lines) :
        st[n] = IF n = 0 THEN NothingRead ELSE DisableStep(st[n - 1], lines[n])
  BY <1>2 DEF ScansUpTo
<1>4. Len(lines) \in Nat
  BY DEF IsText
<1>5. 0 \in 0..Len(lines) /\ \A n \in 1..Len(lines) : n \in 0..Len(lines) /\ n # 0
  BY <1>4
<1> QED
  BY <1>3, <1>5 DEF st

(* A line a directive above it does not reach across.                      *)
Stops(line) == IsContent(line) \/ IsAnchor(line)

Quiet(lines, i, n) == \A k \in (i + 1)..n : ~Stops(lines[k])

(* The rule at line j takes what stands at line i.                         *)
Takes(lines, i, j) == IsAnchor(lines[j]) /\ i < j /\ Quiet(lines, i, j - 1)

(* A directive for id that is the file's: no rule before it, none below it *)
(* takes it.                                                               *)
FileWide(lines, id) ==
  \E i \in DOMAIN lines :
    /\ id \in lines[i].names /\ ~IsAnchor(lines[i])
    /\ \A j \in DOMAIN lines : ~Takes(lines, i, j)
    /\ \A k \in 1..(i - 1) : ~IsAnchor(lines[k])

(* One for the rule ref: on the rule's line, or right above it.            *)
ForRule(lines, id, ref) ==
  \E i \in DOMAIN lines :
    /\ id \in lines[i].names
    /\ \/ IsAnchor(lines[i]) /\ lines[i].ref = ref
       \/ ~IsAnchor(lines[i]) /\ \E j \in DOMAIN lines : Takes(lines, i, j) /\ lines[j].ref = ref

IsReached(lines, p) ==
  /\ p = <<p[1], p[2]>>
  /\ \/ p[1] = WholeFile /\ FileWide(lines, p[2])
     \/ ForRule(lines, p[2], p[1])

(* What the scan knows after n lines.                                      *)
Knows(st, n, lines) ==
  /\ DOMAIN st = {"attached", "pending", "seen"}
  /\ st.seen <=> \E k \in 1..n : IsAnchor(lines[k])
  /\ \A c \in st.pending :
       \E i \in 1..n : c \in lines[i].names /\ ~IsAnchor(lines[i]) /\ Quiet(lines, i, n)
  /\ \A p \in st.attached : IsReached(lines, p)

(* What the three kinds of lines do to what the scan knows.                *)
StepsTo(st, line, next) ==
  /\ DOMAIN next = {"attached", "pending", "seen"}
  /\ IsAnchor(line) =>
       /\ next.attached = st.attached \cup ({line.ref} \X (st.pending \cup (line.names \cap KnownNames)))
       /\ next.seen = TRUE /\ next.pending = {}
  /\ ~IsAnchor(line) /\ IsContent(line) =>
       /\ next.attached = IF st.seen THEN st.attached
                          ELSE st.attached \cup ({WholeFile} \X st.pending)
       /\ next.seen = st.seen /\ next.pending = {}
  /\ ~Stops(line) =>
       /\ next.attached = st.attached /\ next.seen = st.seen
       /\ next.pending \subseteq st.pending \cup line.names

LEMMA StepOnLine ==
  ASSUME NEW st, DOMAIN st = {"attached", "pending", "seen"},
         NEW line, NEW next, next = DisableStep(st, line)
  PROVE  StepsTo(st, line, next)
<1> DEFINE read == [st EXCEPT !.pending = @ \cup (line.names \cap KnownNames)]
<1>1. CASE IsAnchor(line)
  <2>1. next = AtAnchor(read, line.ref)
    BY <1>1 DEF DisableStep, Awaiting, IsAnchor
  <2> QED
    BY <1>1, <2>1 DEF AtAnchor, Attach, StepsTo, Stops
<1>2. CASE ~IsAnchor(line) /\ IsContent(line)
  <2>1. next = AtContent(read)
    BY <1>2 DEF DisableStep, Awaiting, IsAnchor
  <2>2. line.names = {}
    BY <1>2 DEF IsContent, IsDirective
  <2>3. read.pending = st.pending /\ read.attached = st.attached /\ read.seen = st.seen
    BY <2>2
  <2> HIDE DEF read
  <2>4. DOMAIN read = {"attached", "pending", "seen"}
    BY DEF read
  <2> QED
    BY <1>2, <2>1, <2>3, <2>4 DEF AtContent, Attach, StepsTo, Stops
<1>3. CASE ~Stops(line)
  <2>1. next = read
    BY <1>3 DEF DisableStep, Awaiting, IsAnchor, Stops
  <2> QED
    BY <1>3, <2>1 DEF StepsTo, Stops
<1> QED
  BY <1>1, <1>2, <1>3 DEF Stops

(* A directive waiting where no rule has been seen, at the end or at a     *)
(* line that stops it without taking it, is the file's.                    *)
LEMMA WaitingIsFileWide ==
  ASSUME NEW lines, IsText(lines),
         NEW n \in Nat, n <= Len(lines), NEW i \in 1..n, NEW c \in lines[i].names,
         Quiet(lines, i, n),
         \A k \in 1..n : ~IsAnchor(lines[k]),
         n = Len(lines) \/ (IsContent(lines[n + 1]) /\ ~IsAnchor(lines[n + 1]))
  PROVE  FileWide(lines, c)
<1>0. DOMAIN lines = 1..Len(lines) /\ Len(lines) \in Nat
  BY DEF IsText
<1>1. i \in DOMAIN lines
  <2>1. i \in 1..Len(lines)
    BY ONLY <1>0, n \in Nat, n <= Len(lines), i \in 1..n
  <2> QED
    BY <1>0, <2>1
<1>2. \A k \in 1..(i - 1) : ~IsAnchor(lines[k])
  <2>1. \A k \in 1..(i - 1) : k \in 1..n
    BY ONLY n \in Nat, i \in 1..n
  <2> QED
    BY <2>1
<1>3. ASSUME NEW j \in DOMAIN lines, Takes(lines, i, j)
      PROVE  FALSE
  <2> DEFINE N == Len(lines)
  <2>0. N \in Nat /\ DOMAIN lines = 1..N
    BY <1>0
  <2> HIDE DEF N
  <2>1. j \in Nat /\ 1 <= j /\ j <= N /\ i \in Nat
    BY ONLY <2>0, j \in DOMAIN lines, i \in 1..n, n \in Nat
  <2>2. IsAnchor(lines[j]) /\ i < j /\ Quiet(lines, i, j - 1)
    BY <1>3 DEF Takes
  <2>3. ~(j <= n)
    BY <2>1, <2>2
  <2>4. n # Len(lines)
    <3>1. n # N
      BY ONLY <2>0, <2>1, <2>3, n \in Nat
    <3> QED
      BY <3>1 DEF N
  <2>5. j # n + 1
    BY <2>2, <2>4
  <2>6. n + 1 \in (i + 1)..(j - 1)
    BY <2>1, <2>3, <2>5
  <2> QED
    BY <2>2, <2>4, <2>6 DEF Quiet, Stops
<1>4. ~IsAnchor(lines[i])
  OBVIOUS
<1> QED
  BY <1>1, <1>2, <1>3, <1>4 DEF FileWide

(* After each line the scan knows what it should.                          *)
LEMMA KnowsMore ==
  ASSUME NEW lines, IsText(lines),
         NEW n \in Nat, n < Len(lines), NEW st, Knows(st, n, lines)
  PROVE  Knows(DisableStep(st, lines[n + 1]), n + 1, lines)
<1> DEFINE line == lines[n + 1]
           next == DisableStep(st, line)
<1>1. /\ DOMAIN lines = 1..Len(lines) /\ Len(lines) \in Nat
      /\ n + 1 \in DOMAIN lines
  BY DEF IsText
<1>2. /\ DOMAIN st = {"attached", "pending", "seen"}
      /\ st.seen <=> \E k \in 1..n : IsAnchor(lines[k])
      /\ \A c \in st.pending :
           \E i \in 1..n : c \in lines[i].names /\ ~IsAnchor(lines[i]) /\ Quiet(lines, i, n)
      /\ \A p \in st.attached : IsReached(lines, p)
  BY DEF Knows
<1>0. StepsTo(st, line, next)
  BY <1>2, StepOnLine
<1> HIDE DEF next
<1>3. /\ DOMAIN next = {"attached", "pending", "seen"}
      /\ IsAnchor(line) =>
           /\ next.attached = st.attached \cup ({line.ref} \X (st.pending \cup (line.names \cap KnownNames)))
           /\ next.seen = TRUE /\ next.pending = {}
      /\ ~IsAnchor(line) /\ IsContent(line) =>
           /\ next.attached = IF st.seen THEN st.attached
                              ELSE st.attached \cup ({WholeFile} \X st.pending)
           /\ next.seen = st.seen /\ next.pending = {}
      /\ ~Stops(line) =>
           /\ next.attached = st.attached /\ next.seen = st.seen
           /\ next.pending \subseteq st.pending \cup line.names
      /\ Stops(line) <=> IsContent(line) \/ IsAnchor(line)
  BY <1>0 DEF StepsTo, Stops
<1>4. (\E k \in 1..(n + 1) : IsAnchor(lines[k]))
        <=> (\E k \in 1..n : IsAnchor(lines[k])) \/ IsAnchor(line)
  <2>1. \A k : k \in 1..(n + 1) <=> k \in 1..n \/ k = n + 1
    BY ONLY n \in Nat
  <2> QED
    BY <2>1
<1>5. ASSUME ~Stops(line), NEW i \in 1..n, Quiet(lines, i, n)
      PROVE  i \in 1..(n + 1) /\ Quiet(lines, i, n + 1)
  <2>1. \A k \in (i + 1)..(n + 1) : k \in (i + 1)..n \/ k = n + 1
    BY ONLY n \in Nat, i \in 1..n
  <2> QED
    BY <1>5, <2>1 DEF Quiet
<1>6. ASSUME NEW c \in next.pending
      PROVE  \E i \in 1..(n + 1) :
               c \in lines[i].names /\ ~IsAnchor(lines[i]) /\ Quiet(lines, i, n + 1)
  <2>1. ~Stops(line) /\ ~IsAnchor(line)
    BY <1>3, <1>6
  <2>2. c \in st.pending \/ c \in line.names
    BY <1>3, <1>6, <2>1
  <2>3. CASE c \in st.pending
    <3>1. PICK i \in 1..n : c \in lines[i].names /\ ~IsAnchor(lines[i]) /\ Quiet(lines, i, n)
      BY <1>2, <2>3
    <3> QED
      BY <1>5, <2>1, <3>1
  <2>4. CASE c \in line.names
    <3>1. Quiet(lines, n + 1, n + 1) /\ n + 1 \in 1..(n + 1)
      BY DEF Quiet
    <3> QED
      BY <2>1, <2>4, <3>1
  <2> QED
    BY <2>2, <2>3, <2>4
<1>7. ASSUME NEW p \in next.attached PROVE IsReached(lines, p)
  <2>1. CASE p \in st.attached
    BY <1>2, <2>1
  <2>2. CASE p \notin st.attached /\ IsAnchor(line)
    <3>1. p \in {line.ref} \X (st.pending \cup (line.names \cap KnownNames))
      BY <1>3, <1>7, <2>2
    <3>2. p = <<p[1], p[2]>> /\ p[1] = line.ref /\ (p[2] \in st.pending \/ p[2] \in line.names)
      BY <3>1
    <3>3. CASE p[2] \in line.names
      <4>1. ForRule(lines, p[2], p[1])
        BY <1>1, <2>2, <3>2, <3>3 DEF ForRule
      <4> QED
        BY <3>2, <4>1 DEF IsReached
    <3>4. CASE p[2] \in st.pending
      <4>1. PICK i \in 1..n : p[2] \in lines[i].names /\ ~IsAnchor(lines[i]) /\ Quiet(lines, i, n)
        BY <1>2, <3>4
      <4>2. i \in DOMAIN lines /\ i < n + 1 /\ (n + 1) - 1 = n
        BY <1>1
      <4>3. Takes(lines, i, n + 1)
        BY <2>2, <4>1, <4>2 DEF Takes
      <4>4. ForRule(lines, p[2], p[1])
        BY <1>1, <3>2, <4>1, <4>2, <4>3 DEF ForRule
      <4> QED
        BY <3>2, <4>4 DEF IsReached
    <3> QED
      BY <3>2, <3>3, <3>4
  <2>3. CASE p \notin st.attached /\ ~IsAnchor(line)
    <3>1. IsContent(line) /\ ~st.seen /\ p \in {WholeFile} \X st.pending
      BY <1>3, <1>7, <2>3
    <3>2. p = <<p[1], p[2]>> /\ p[1] = WholeFile /\ p[2] \in st.pending
      BY <3>1
    <3>3. PICK i \in 1..n : p[2] \in lines[i].names /\ ~IsAnchor(lines[i]) /\ Quiet(lines, i, n)
      BY <1>2, <3>2
    <3>4. \A k \in 1..n : ~IsAnchor(lines[k])
      BY <1>2, <3>1
    <3>5. n <= Len(lines)
      BY <1>1
    <3>6. FileWide(lines, p[2])
      BY <2>3, <3>1, <3>3, <3>4, <3>5, WaitingIsFileWide
    <3> QED
      BY <3>2, <3>6 DEF IsReached
  <2> QED
    BY <2>1, <2>2, <2>3
<1>8. next.seen <=> \E k \in 1..(n + 1) : IsAnchor(lines[k])
  BY <1>2, <1>3, <1>4
<1>9. Knows(next, n + 1, lines)
  BY <1>3, <1>6, <1>7, <1>8 DEF Knows
<1> QED
  BY <1>9 DEF next

(* All that a scan waives is named by a directive that reaches it: the     *)
(* file's, above every rule and taken by none, or one on the rule's own    *)
(* line or right above it (parse_suppressions), whatever the file.         *)
THEOREM DisablesAreReached ==
  ASSUME NEW lines, IsText(lines), NEW p \in ScanDisables(lines)
  PROVE  IsReached(lines, p)
<1> DEFINE st == Disabling(lines)
           N == Len(lines)
           T == {n \in 0..N : ~Knows(st[n], n, lines)}
<1>1. N \in Nat
  BY DEF IsText
<1>2. /\ st[0] = NothingRead
      /\ \A n \in 1..N : st[n] = DisableStep(st[n - 1], lines[n])
  BY ScanSteps
<1> HIDE DEF st
<1>3. Knows(st[0], 0, lines)
  BY <1>2 DEF Knows, NothingRead
<1>4. T = {}
  <2> SUFFICES ASSUME T # {} PROVE FALSE
    OBVIOUS
  <2>1. T \in SUBSET Nat
    BY <1>1
  <2>2. PICK n \in T : \A m \in T : ~(m < n)
    <3> HIDE DEF T
    <3> QED
      BY <2>1, LeastElement
  <2>3. n \in 0..N /\ ~Knows(st[n], n, lines)
    OBVIOUS
  <2>4. n # 0
    BY <1>3, <2>3
  <2>5. /\ n - 1 \in Nat /\ n - 1 < N /\ n - 1 < n /\ (n - 1) + 1 = n
        /\ n - 1 \in 0..N /\ n \in 1..N
    BY <1>1, <2>3, <2>4
  <2>6. Knows(st[n - 1], n - 1, lines)
    BY <2>2, <2>5
  <2> DEFINE m == n - 1
  <2>7. m \in Nat /\ m < Len(lines) /\ m + 1 = n /\ Knows(st[m], m, lines)
    BY <2>5, <2>6
  <2> HIDE DEF m
  <2>8. Knows(DisableStep(st[m], lines[m + 1]), m + 1, lines)
    BY <2>7, KnowsMore
  <2>9. st[n] = DisableStep(st[m], lines[n])
    BY <1>2, <2>5 DEF m
  <2> QED
    BY <2>3, <2>7, <2>8, <2>9
<1>5. Knows(st[N], N, lines)
  <2>1. N \in 0..N
    BY <1>1
  <2> QED
    BY <1>4, <2>1
<1>6. p \in AtEnd(st[N])
  BY DEF ScanDisables, st
<1>7. CASE p \in st[N].attached
  BY <1>5, <1>7 DEF Knows
<1>8. CASE p \notin st[N].attached
  <2>1. ~st[N].seen /\ p \in {WholeFile} \X st[N].pending
    BY <1>6, <1>8 DEF AtEnd, Attach
  <2>2. p = <<p[1], p[2]>> /\ p[1] = WholeFile /\ p[2] \in st[N].pending
    BY <2>1
  <2>3. PICK i \in 1..N : p[2] \in lines[i].names /\ ~IsAnchor(lines[i]) /\ Quiet(lines, i, N)
    BY <1>5, <2>2 DEF Knows
  <2>4. \A k \in 1..N : ~IsAnchor(lines[k])
    BY <1>5, <2>1 DEF Knows
  <2>5. N <= Len(lines)
    BY <1>1
  <2>6. FileWide(lines, p[2])
    BY <1>1, <2>3, <2>4, <2>5, WaitingIsFileWide
  <2> QED
    BY <2>2, <2>6 DEF IsReached
<1> QED
  BY <1>7, <1>8

(* A finding without a ref is waived by directives of the file alone.      *)
LEMMA WaivedForTheFile ==
  ASSUME NEW lines \in Texts, NEW id, NEW ref, <<WholeFile, id>> \in ScanDisables(lines)
  PROVE  Reaches(lines, id, ref)
<1>1. IsText(lines) /\ \A i \in DOMAIN lines : lines[i].ref # WholeFile
  BY LintAssumption DEF IsText
<1>2. IsReached(lines, <<WholeFile, id>>)
  BY <1>1, DisablesAreReached
<1>3. ~ForRule(lines, id, WholeFile)
  BY <1>1 DEF ForRule
<1>4. FileWide(lines, id)
  BY <1>2, <1>3 DEF IsReached
<1>5. \A line : Stops(line) <=> IsContent(line) \/ IsAnchor(line)
  BY DEF Stops
<1> QED
  BY <1>4, <1>5 DEF FileWide, Reaches, StandsAbove, BeforeEveryRule, Takes, Quiet

-----------------------------------------------------------------------------
(* The command as a whole.                                                 *)

InFile == {"plugins", "rules", "sections", "hooks", "ineffective", "finish"}
AfterRules == {"sections", "hooks", "ineffective", "finish"}
AfterSections == {"hooks", "ineffective", "finish"}
AfterFiles == {"orphans", "exit", "done"}

HasSets(i) == zones[i].sets = NoLimit \/ zones[i].sets # {}
HasDefault(i) == zones[i].sets = NoLimit \/ "default" \in zones[i].sets

(* The section s is named: by somebody else, or as an error of the core.   *)
IsNamed(s, results) ==
  \E r \in results : r.phase = s.key /\ (r.id # "CORE011" \/ r.severity = Error)

(* What plan would abort over is an error, or waived for the file.         *)
IsCounted(lines, s, results) ==
  /\ s.kind = "phase" /\ s.list /\ ~s.prepares =>
       (\E r \in results : r.severity = Error) \/ Reaches(lines, "CORE007", "")
  /\ s.kind = "known" /\ s.list /\ s.malformed =>
       \/ \E r \in results : r.severity = Error
       \/ Reaches(lines, IF s.key = "lists" THEN "CORE008" ELSE "CORE009", "")

ResultsOf(i) == {f[2] : f \in {g \in all : g[1] = i}}

TypeOK ==
  /\ zones \in Zones /\ opts \in Options
  /\ pc \in {"read", "refused"} \cup InFile \cup AfterFiles
  /\ DOMAIN text = DOMAIN zones
  /\ DOMAIN ctx = {"results", "waived", "noted"}

(* The command is in a file, or has gone through them all.                 *)
Reading ==
  /\ at \in Nat
  /\ pc \in InFile => at \in DOMAIN zones /\ text[at] \in Texts
  /\ pc = "read" => at >= 1
  /\ pc \in AfterFiles => at > Len(zones)

(* What the file it is in has been found to have.                          *)
ContextInv ==
  /\ pc \in {"plugins", "rules", "sections"} => \A r \in ctx.results : r.id # "CORE011"
  /\ pc \in AfterSections => \A s \in File.sections :
       IsUnmanaged(s) /\ HasSets(at) => IsNamed(s, ctx.results)
  /\ pc \in AfterRules => \A s \in File.sections :
       HasDefault(at) => IsCounted(text[at], s, ctx.results)

(* The files behind it are accounted for.                                  *)
ReportInv ==
  \A i \in DOMAIN zones : i < at => \A s \in zones[i].sections :
    /\ IsUnmanaged(s) /\ HasSets(i) => IsNamed(s, ResultsOf(i))
    /\ HasDefault(i) => IsCounted(text[i], s, ResultsOf(i))

VerdictInv == pc = "done" /\ Has(Error) => code = 1

LintInv ==
  /\ TypeOK /\ VerdictInv
  /\ Unfiltered => Reading /\ ContextInv /\ ReportInv

(* More results name and count as much.                                    *)
LEMMA Monotone ==
  ASSUME NEW s, NEW lines, NEW some, NEW more, some \subseteq more
  PROVE  /\ IsNamed(s, some) => IsNamed(s, more)
         /\ IsCounted(lines, s, some) => IsCounted(lines, s, more)
  BY DEF IsNamed, IsCounted

(* What the filters and the comments of the file leave of some findings.   *)
LEMMA AddMeans ==
  ASSUME NEW findings
  PROVE  /\ DOMAIN AddAll(ctx, findings) = {"results", "waived", "noted"}
         /\ ctx.results \subseteq AddAll(ctx, findings).results
         /\ AddAll(ctx, findings).results \subseteq ctx.results \cup findings
         /\ \A r \in findings : IsSelected(r) =>
              \/ r \in AddAll(ctx, findings).results
              \/ IsSuppressed(r) /\ IsSuppressible(r.id)
  BY DEF AddAll

(* Without filters an error of a rule that is active is selected.          *)
LEMMA ErrorsAreSelected ==
  ASSUME TypeOK, Unfiltered, NEW r, r.severity = Error,
         File.sets = NoLimit \/ IsActive(r.id, File.sets)
  PROVE  IsSelected(r)
<1>1. opts.severity \in Error..Info
  BY LintAssumption DEF TypeOK
<1>2. r.severity <= opts.severity
  BY <1>1 DEF Error, Info
<1> QED
  BY <1>2 DEF IsSelected, Unfiltered

(* The sets of a file.                                                     *)
LEMMA FileSets ==
  ASSUME TypeOK, Unfiltered, Reading, pc \in InFile
  PROVE  File.sets = NoLimit \/ File.sets \subseteq {"default", "strict"}
  BY LintAssumption DEF TypeOK, Reading, File

(* An error of the core that plan would abort over reaches the results,    *)
(* unless a comment of the file disables it.                               *)
LEMMA CoreErrorStands ==
  ASSUME TypeOK, Unfiltered, Reading, pc \in InFile, HasDefault(at),
         NEW id \in {"CORE007", "CORE008", "CORE009"}, NEW key,
         NEW findings, Result(id, Error, key, "") \in findings
  PROVE  \/ \E r \in AddAll(ctx, findings).results : r.severity = Error
         \/ Reaches(text[at], id, "")
<1> DEFINE r == Result(id, Error, key, "")
<1>1. r.severity = Error /\ r.id = id /\ r.ref = ""
  BY DEF Result
<1> HIDE DEF r
<1>2. File.sets = NoLimit \/ IsActive(id, File.sets)
  BY DEF HasDefault, File, IsActive, SetsOf, CoreRules
<1>3. IsSelected(r)
  BY <1>1, <1>2, ErrorsAreSelected
<1>4. CASE IsSuppressed(r)
  <2>1. <<WholeFile, id>> \in ScanDisables(text[at])
    BY <1>1, <1>4 DEF IsSuppressed, Suppressions
  <2>2. text[at] \in Texts
    BY DEF Reading
  <2> QED
    BY <2>1, <2>2, WaivedForTheFile
<1>5. CASE ~IsSuppressed(r)
  BY <1>1, <1>3, <1>5, AddMeans DEF r
<1> QED
  BY <1>4, <1>5

(* Unfiltered, the next file is the next.                                  *)
LEMMA NextIsNext ==
  ASSUME TypeOK, Unfiltered, NEW i \in Nat
  PROVE  /\ NextFile(i) \in Nat /\ NextFile(i) >= 1
         /\ \A k \in DOMAIN zones : k < NextFile(i) => k <= i
<1> DEFINE N == Len(zones)
<1>1. N \in Nat /\ DOMAIN zones = 1..N
  BY LintAssumption DEF TypeOK
<1> DEFINE later == {j \in Stems : j > i}
<1>2. Stems = 1..N
  BY <1>1 DEF Stems, Unfiltered
<1> HIDE DEF N
<1>3. NextFile(i) = IF later = {} THEN N + 1
                    ELSE CHOOSE j \in later : \A k \in later : j <= k
  BY DEF NextFile, N
<1>4. CASE later = {}
  <2>1. NextFile(i) = N + 1
    BY <1>3, <1>4
  <2>2. \A k \in 1..N : ~(k > i)
    BY <1>2, <1>4
  <2> QED
    BY <1>1, <2>1, <2>2
<1>5. CASE later # {}
  <2>1. i + 1 \in later /\ \A k \in later : i + 1 <= k
    <3>1. PICK j \in 1..N : j > i
      BY <1>2, <1>5
    <3>2. i + 1 \in 1..N
      BY <1>1, <3>1
    <3> QED
      BY <1>1, <1>2, <3>2
  <2> DEFINE least == CHOOSE j \in later : \A k \in later : j <= k
  <2>2. least \in later /\ \A k \in later : least <= k
    <3> HIDE DEF later
    <3> QED
      BY <2>1
  <2>3. NextFile(i) = least
    BY <1>3, <1>5
  <2> HIDE DEF least
  <2>4. least \in Nat /\ least > i /\ least <= i + 1
    BY <1>1, <1>2, <2>1, <2>2
  <2> QED
    BY <1>1, <2>3, <2>4
<1> QED
  BY <1>4, <1>5

(* The files behind the command stay accounted for.                        *)
LEMMA ReportStays ==
  ASSUME ReportInv, zones' = zones, all \subseteq all',
         \A i \in DOMAIN zones : i < at => text'[i] = text[i]
  PROVE  \A i \in DOMAIN zones : i < at => \A s \in zones[i].sections :
           /\ IsUnmanaged(s) /\ HasSets(i)' => IsNamed(s, ResultsOf(i)')
           /\ HasDefault(i)' => IsCounted(text'[i], s, ResultsOf(i)')
<1> SUFFICES ASSUME NEW i \in DOMAIN zones, i < at, NEW s \in zones[i].sections
             PROVE  /\ IsUnmanaged(s) /\ HasSets(i)' => IsNamed(s, ResultsOf(i)')
                    /\ HasDefault(i)' => IsCounted(text'[i], s, ResultsOf(i)')
  OBVIOUS
<1>1. ResultsOf(i) \subseteq ResultsOf(i)'
  BY DEF ResultsOf
<1>2. (HasSets(i)' <=> HasSets(i)) /\ (HasDefault(i)' <=> HasDefault(i))
  BY DEF HasSets, HasDefault
<1>3. /\ IsUnmanaged(s) /\ HasSets(i) => IsNamed(s, ResultsOf(i))
      /\ HasDefault(i) => IsCounted(text[i], s, ResultsOf(i))
  BY DEF ReportInv
<1>4. text'[i] = text[i]
  OBVIOUS
<1> QED
  BY <1>1, <1>2, <1>3, <1>4, Monotone

LEMMA InitHolds == Init => LintInv
<1> SUFFICES ASSUME Init PROVE LintInv
  OBVIOUS
<1>1. TypeOK /\ VerdictInv
  BY DEF Init, TypeOK, VerdictInv, EmptyContext
<1>2. ASSUME Unfiltered PROVE Reading /\ ContextInv /\ ReportInv
  <2>1. /\ NextFile(0) \in Nat /\ NextFile(0) >= 1
        /\ \A k \in DOMAIN zones : k < NextFile(0) => k <= 0
    BY <1>1, <1>2, NextIsNext
  <2>2. \A k \in DOMAIN zones : k \in Nat /\ k >= 1
    BY <1>1, LintAssumption DEF TypeOK
  <2>3. Reading
    BY <2>1 DEF Init, Reading, InFile, AfterFiles
  <2>4. ContextInv
    BY DEF Init, ContextInv, AfterRules, AfterSections
  <2>5. ReportInv
    BY <2>1, <2>2 DEF Init, ReportInv
  <2> QED
    BY <2>3, <2>4, <2>5
<1> QED
  BY <1>1, <1>2 DEF LintInv

(* The parts of the invariant about any run. *)
LEMMA TypesKeep == TypeOK /\ VerdictInv /\ [Next]_vars => TypeOK' /\ VerdictInv'
<1> SUFFICES ASSUME TypeOK, VerdictInv, [Next]_vars PROVE TypeOK' /\ VerdictInv'
  OBVIOUS
<1>1. \A findings : DOMAIN AddAll(ctx, findings) = {"results", "waived", "noted"}
  BY AddMeans
<1>2. DOMAIN EmptyContext = {"results", "waived", "noted"}
  BY DEF EmptyContext
<1> USE DEF TypeOK, VerdictInv, InFile, AfterFiles
<1>3. CASE ReadFile
  BY <1>2, <1>3 DEF ReadFile
<1>4. CASE RefuseFile
  BY <1>4 DEF RefuseFile
<1>5. CASE RunPlugins \/ CheckRules \/ CheckSections \/ RunHooks \/ ReportIneffective
  BY <1>1, <1>5 DEF RunPlugins, CheckRules, CheckSections, RunHooks, ReportIneffective
<1>6. CASE FinishFile \/ CheckOrphans
  BY <1>6 DEF FinishFile, CheckOrphans
<1>7. CASE Exit
  BY <1>7 DEF Exit, Has
<1>8. CASE UNCHANGED vars
  BY <1>8 DEF vars, Has
<1> QED
  BY <1>3, <1>4, <1>5, <1>6, <1>7, <1>8 DEF Next

(* The parts about a run without filters.                                  *)
AccountInv == TypeOK /\ Unfiltered /\ Reading /\ ContextInv /\ ReportInv

LEMMA ReadKeeps == AccountInv /\ ReadFile => Reading' /\ ContextInv' /\ ReportInv'
<1> SUFFICES ASSUME AccountInv, ReadFile PROVE Reading' /\ ContextInv' /\ ReportInv'
  OBVIOUS
<1> USE DEF AccountInv
<1>1. pc = "read" /\ at \in Nat /\ at >= 1 /\ zones' = zones /\ all' = all
  BY DEF ReadFile, Reading
<1>2. DOMAIN zones = 1..Len(zones) /\ Len(zones) \in Nat
  BY LintAssumption DEF TypeOK
<1>3. \A i \in DOMAIN zones : i < at => text'[i] = text[i]
  <2>1. text' = text \/ \E lines \in Texts : text' = [text EXCEPT ![at] = lines]
    BY <1>1 DEF ReadFile
  <2>2. \A i \in DOMAIN zones : i < at => i # at
    BY <1>1, <1>2
  <2> QED
    BY <2>1, <2>2 DEF TypeOK
<1>4. \A i \in DOMAIN zones : i < at => \A s \in zones[i].sections :
        /\ IsUnmanaged(s) /\ HasSets(i)' => IsNamed(s, ResultsOf(i)')
        /\ HasDefault(i)' => IsCounted(text'[i], s, ResultsOf(i)')
  BY <1>1, <1>3, ReportStays
<1>5. CASE at > Len(zones)
  <2>1. pc' = "orphans" /\ at' = at
    BY <1>1, <1>5 DEF ReadFile
  <2>2. Reading'
    BY <1>1, <1>5, <2>1 DEF Reading, InFile, AfterFiles
  <2>3. ContextInv'
    BY <2>1 DEF ContextInv, AfterRules, AfterSections
  <2>4. ReportInv'
    BY <1>1, <1>4, <2>1 DEF ReportInv
  <2> QED
    BY <2>2, <2>3, <2>4
<1>6. CASE ~(at > Len(zones)) /\ Desired = {}
  <2>1. pc' = "read" /\ at' = NextFile(at)
    BY <1>1, <1>6 DEF ReadFile
  <2>2. /\ NextFile(at) \in Nat /\ NextFile(at) >= 1
        /\ \A k \in DOMAIN zones : k < NextFile(at) => k <= at
    BY <1>1, NextIsNext
  <2>3. zones[at].sections = {}
    BY <1>6 DEF Desired, File, Unfiltered
  <2>4. Reading'
    BY <2>1, <2>2 DEF Reading, InFile, AfterFiles
  <2>5. ContextInv'
    BY <2>1 DEF ContextInv, AfterRules, AfterSections
  <2>6. ASSUME NEW i \in DOMAIN zones, i < at' PROVE i < at \/ i = at
    BY <1>1, <1>2, <2>1, <2>2, <2>6
  <2>7. ReportInv'
    BY <1>1, <1>4, <2>3, <2>6 DEF ReportInv
  <2> QED
    BY <2>4, <2>5, <2>7
<1>7. CASE ~(at > Len(zones)) /\ Desired # {}
  <2>1. pc' = "plugins" /\ at' = at
    BY <1>1, <1>7 DEF ReadFile
  <2>2. PICK lines \in Texts : text' = [text EXCEPT ![at] = lines]
    BY <1>1, <1>7 DEF ReadFile
  <2>3. at \in DOMAIN zones
    BY <1>1, <1>2, <1>7
  <2>4. text'[at] \in Texts
    BY <2>2, <2>3 DEF TypeOK
  <2>5. Reading'
    BY <1>1, <2>1, <2>3, <2>4 DEF Reading, InFile, AfterFiles
  <2>6. ctx'.results = {}
    BY DEF ReadFile, EmptyContext
  <2>7. ContextInv'
    BY <2>1, <2>6 DEF ContextInv, AfterRules, AfterSections
  <2>8. ReportInv'
    BY <1>1, <1>4, <2>1 DEF ReportInv
  <2> QED
    BY <2>5, <2>7, <2>8
<1> QED
  BY <1>5, <1>6, <1>7

(* Some findings are added to those of the file, and nothing else moves.   *)
Adds(findings, next) ==
  /\ pc \in InFile /\ next \in InFile
  /\ ctx' = AddAll(ctx, findings) /\ pc' = next
  /\ UNCHANGED <<zones, opts, at, text, all, processed, code>>

LEMMA AddKeeps ==
  ASSUME AccountInv, NEW findings, NEW next, Adds(findings, next)
  PROVE  /\ Reading' /\ ReportInv' /\ File' = File
         /\ ctx.results \subseteq ctx'.results
         /\ ctx'.results \subseteq ctx.results \cup findings
         /\ (HasSets(at)' <=> HasSets(at)) /\ (HasDefault(at)' <=> HasDefault(at))
         /\ text'[at'] = text[at]
<1> USE DEF AccountInv, Adds
<1>1. Reading'
  BY DEF Reading, InFile, AfterFiles
<1>2. \A i \in DOMAIN zones : i < at => \A s \in zones[i].sections :
        /\ IsUnmanaged(s) /\ HasSets(i)' => IsNamed(s, ResultsOf(i)')
        /\ HasDefault(i)' => IsCounted(text'[i], s, ResultsOf(i)')
  BY ReportStays
<1>3. ReportInv'
  BY <1>2 DEF ReportInv
<1>4. File' = File /\ (HasSets(at)' <=> HasSets(at)) /\ (HasDefault(at)' <=> HasDefault(at))
  BY DEF File, HasSets, HasDefault
<1>5. /\ ctx.results \subseteq ctx'.results
      /\ ctx'.results \subseteq ctx.results \cup findings
  BY AddMeans
<1> QED
  BY <1>1, <1>3, <1>4, <1>5

LEMMA PluginsKeep == AccountInv /\ RunPlugins => Reading' /\ ContextInv' /\ ReportInv'
<1> SUFFICES ASSUME AccountInv, RunPlugins PROVE Reading' /\ ContextInv' /\ ReportInv'
  OBVIOUS
<1> DEFINE findings == UNION {File.reports[p] : p \in {q \in DOMAIN File.reports : Runs(q)}}
<1>1. Adds(findings, "rules")
  BY DEF RunPlugins, Adds, InFile
<1>2. at \in DOMAIN zones
  BY DEF RunPlugins, AccountInv, Reading, InFile
<1>3. \A r \in findings : r.id # "CORE011"
  BY <1>2, LintAssumption DEF AccountInv, TypeOK, File, CoreRules
<1> HIDE DEF findings
<1>4. pc = "plugins" /\ pc' = "rules"
  BY DEF RunPlugins
<1>5. Reading' /\ ReportInv' /\ ctx'.results \subseteq ctx.results \cup findings
  BY <1>1, AddKeeps
<1>6. ContextInv'
  BY <1>3, <1>4, <1>5 DEF AccountInv, ContextInv, AfterRules, AfterSections
<1> QED
  BY <1>5, <1>6

(* What plan would abort over is found while the rules are checked.        *)
LEMMA RulesKeep == AccountInv /\ CheckRules => Reading' /\ ContextInv' /\ ReportInv'
<1> SUFFICES ASSUME AccountInv, CheckRules PROVE Reading' /\ ContextInv' /\ ReportInv'
  OBVIOUS
<1> DEFINE findings == AllDisabled \cup SharedRefs \cup NoRules \cup Unprepared \cup Malformed
<1>1. Adds(findings, "sections")
  BY DEF CheckRules, Adds, InFile
<1>2. \A r \in findings : r.id # "CORE011"
  <2>1. ASSUME NEW r, NEW id, NEW severity, NEW phase, NEW ref,
               r = Result(id, severity, phase, ref), id # "CORE011"
        PROVE  r.id # "CORE011"
    BY <2>1 DEF Result
  <2>2. ASSUME NEW r \in AllDisabled PROVE r.id # "CORE011"
    <3>1. PICK s \in RuleLists : r = Result("CORE003", Warning, s.key, "")
      BY <2>2 DEF AllDisabled
    <3> QED
      BY <2>1, <3>1
  <2>3. ASSUME NEW r \in SharedRefs PROVE r.id # "CORE011"
    <3>1. PICK ref : r = Result("CORE004", Warning, "", ref)
      BY <2>3 DEF SharedRefs
    <3> QED
      BY <2>1, <3>1
  <2>4. ASSUME NEW r \in NoRules PROVE r.id # "CORE011"
    <3>1. r = Result("CORE006", Info, "", "")
      BY <2>4 DEF NoRules
    <3> QED
      BY <2>1, <3>1
  <2>5. ASSUME NEW r \in Unprepared PROVE r.id # "CORE011"
    <3>1. PICK s \in RuleLists : r = Result("CORE007", Error, s.key, "")
      BY <2>5 DEF Unprepared
    <3> QED
      BY <2>1, <3>1
  <2>6. ASSUME NEW r \in Malformed PROVE r.id # "CORE011"
    <3>1. PICK s \in Desired : r = Result(IF s.key = "lists" THEN "CORE008" ELSE "CORE009", Error, "", "")
      BY <2>6 DEF Malformed
    <3> QED
      BY <2>1, <3>1
  <2> QED
    BY <2>2, <2>3, <2>4, <2>5, <2>6
<1>3. pc = "rules" /\ pc' = "sections" /\ ctx' = AddAll(ctx, findings) /\ pc \in InFile
  BY DEF CheckRules, InFile
<1>4. Desired = File.sections
  BY DEF Desired, AccountInv, Unfiltered
<1>5. ASSUME NEW s \in File.sections, s.kind = "phase", s.list, ~s.prepares
      PROVE  Result("CORE007", Error, s.key, "") \in findings
  BY <1>4, <1>5 DEF Unprepared, RuleLists
<1>6. ASSUME NEW s \in File.sections, s.kind = "known", s.list, s.malformed
      PROVE  Result(IF s.key = "lists" THEN "CORE008" ELSE "CORE009", Error, "", "") \in findings
  BY <1>4, <1>6 DEF Malformed
<1> HIDE DEF findings
<1>7. /\ Reading' /\ ReportInv' /\ File' = File
      /\ ctx'.results \subseteq ctx.results \cup findings
      /\ (HasDefault(at)' <=> HasDefault(at)) /\ text'[at'] = text[at]
  BY <1>1, AddKeeps
<1>8. ASSUME NEW s \in File.sections, HasDefault(at) PROVE IsCounted(text[at], s, ctx'.results)
  <2>1. ASSUME NEW id \in {"CORE007", "CORE008", "CORE009"}, NEW key,
               Result(id, Error, key, "") \in findings
        PROVE  (\E r \in ctx'.results : r.severity = Error) \/ Reaches(text[at], id, "")
    BY <1>3, <1>8, <2>1, CoreErrorStands DEF AccountInv
  <2>2. ASSUME s.kind = "phase", s.list, ~s.prepares
        PROVE  (\E r \in ctx'.results : r.severity = Error) \/ Reaches(text[at], "CORE007", "")
    BY <1>5, <2>1, <2>2
  <2>3. ASSUME s.kind = "known", s.list, s.malformed
        PROVE  \/ \E r \in ctx'.results : r.severity = Error
               \/ Reaches(text[at], IF s.key = "lists" THEN "CORE008" ELSE "CORE009", "")
    BY <1>6, <2>1, <2>3
  <2> QED
    BY <2>2, <2>3 DEF IsCounted
<1>9. at' = at
  BY <1>1 DEF Adds
<1>10. ContextInv'
  <2>1. \A r \in ctx'.results : r.id # "CORE011"
    BY <1>2, <1>3, <1>7 DEF AccountInv, ContextInv
  <2>2. \A s \in File'.sections : HasDefault(at)' => IsCounted(text'[at'], s, ctx'.results)
    BY <1>7, <1>8
  <2> QED
    BY <1>3, <1>9, <2>1, <2>2 DEF ContextInv, AfterRules, AfterSections
<1> QED
  BY <1>7, <1>10

(* An unknown section nobody has named is an error that stays.             *)
LEMMA SectionsKeep == AccountInv /\ CheckSections => Reading' /\ ContextInv' /\ ReportInv'
<1> SUFFICES ASSUME AccountInv, CheckSections PROVE Reading' /\ ContextInv' /\ ReportInv'
  OBVIOUS
<1>1. Adds(SkippedSections, "hooks")
  BY DEF CheckSections, Adds, InFile
<1>2. /\ pc = "sections" /\ pc' = "hooks" /\ ctx' = AddAll(ctx, SkippedSections)
      /\ at' = at /\ pc \in InFile
  BY DEF CheckSections, InFile
<1>3. /\ Reading' /\ ReportInv' /\ File' = File
      /\ ctx.results \subseteq ctx'.results
      /\ (HasSets(at)' <=> HasSets(at)) /\ (HasDefault(at)' <=> HasDefault(at))
      /\ text'[at'] = text[at]
  BY <1>1, AddKeeps
<1>4. ASSUME NEW s \in File.sections, IsUnmanaged(s), HasSets(at)
      PROVE  IsNamed(s, ctx'.results)
  <2>1. CASE s.key \in Claimed
    <3>1. PICK r \in ctx.results : r.phase = s.key
      BY <2>1 DEF Claimed
    <3>2. r.id # "CORE011"
      BY <1>2 DEF AccountInv, ContextInv
    <3> QED
      BY <1>3, <3>1, <3>2 DEF IsNamed
  <2>2. CASE s.key \notin Claimed
    <3> DEFINE r == Result("CORE011", Error, s.key, "")
    <3>1. r \in SkippedSections
      BY <1>4, <2>2 DEF SkippedSections, Desired, AccountInv, Unfiltered, IsUnmanaged
    <3>2. r.id = "CORE011" /\ r.severity = Error /\ r.phase = s.key
      BY DEF Result
    <3> HIDE DEF r
    <3>3. File.sets = NoLimit \/ IsActive("CORE011", File.sets)
      <4>1. File.sets = NoLimit \/ File.sets \subseteq {"default", "strict"}
        BY <1>2, FileSets DEF AccountInv
      <4> QED
        BY <1>4, <4>1 DEF HasSets, File, IsActive, SetsOf
    <3>4. IsSelected(r)
      BY <3>2, <3>3, ErrorsAreSelected DEF AccountInv
    <3>5. ~IsSuppressible(r.id)
      BY <3>2 DEF IsSuppressible
    <3>6. r \in ctx'.results
      BY <1>2, <3>1, <3>4, <3>5, AddMeans
    <3> QED
      BY <3>2, <3>6 DEF IsNamed
  <2> QED
    BY <2>1, <2>2
<1>5. ASSUME NEW s \in File.sections, HasDefault(at) PROVE IsCounted(text[at], s, ctx'.results)
  <2>1. IsCounted(text[at], s, ctx.results)
    BY <1>2, <1>5 DEF AccountInv, ContextInv, AfterRules
  <2> QED
    BY <1>3, <2>1, Monotone
<1>6. ContextInv'
  BY <1>2, <1>3, <1>4, <1>5 DEF ContextInv, AfterRules, AfterSections
<1> QED
  BY <1>3, <1>6

(* What comes after takes nothing away.                                    *)
LEMMA LaterKeep ==
  AccountInv /\ (RunHooks \/ ReportIneffective) => Reading' /\ ContextInv' /\ ReportInv'
<1> SUFFICES ASSUME AccountInv, RunHooks \/ ReportIneffective
             PROVE  Reading' /\ ContextInv' /\ ReportInv'
  OBVIOUS
<1>1. PICK findings, next : Adds(findings, next) /\ pc \in AfterSections /\ next \in AfterSections
  BY DEF RunHooks, ReportIneffective, Adds, InFile, AfterSections
<1>2. /\ Reading' /\ ReportInv' /\ File' = File
      /\ ctx.results \subseteq ctx'.results
      /\ (HasSets(at)' <=> HasSets(at)) /\ (HasDefault(at)' <=> HasDefault(at))
      /\ text'[at'] = text[at]
  BY <1>1, AddKeeps
<1>3. ASSUME NEW s \in File.sections
      PROVE  /\ IsUnmanaged(s) /\ HasSets(at) => IsNamed(s, ctx'.results)
             /\ HasDefault(at) => IsCounted(text[at], s, ctx'.results)
  <2>1. /\ IsUnmanaged(s) /\ HasSets(at) => IsNamed(s, ctx.results)
        /\ HasDefault(at) => IsCounted(text[at], s, ctx.results)
    BY <1>1 DEF AccountInv, ContextInv, AfterRules, AfterSections
  <2> QED
    BY <1>2, <2>1, Monotone
<1>4. pc' \in AfterSections /\ at' = at
  BY <1>1 DEF Adds
<1>5. ContextInv'
  BY <1>2, <1>3, <1>4 DEF ContextInv, AfterRules, AfterSections
<1> QED
  BY <1>2, <1>5

(* What the file was found to have is reported with it.                    *)
LEMMA FinishKeeps == AccountInv /\ FinishFile => Reading' /\ ContextInv' /\ ReportInv'
<1> SUFFICES ASSUME AccountInv, FinishFile PROVE Reading' /\ ContextInv' /\ ReportInv'
  OBVIOUS
<1> USE DEF AccountInv
<1>1. /\ pc = "finish" /\ pc' = "read" /\ at' = NextFile(at)
      /\ zones' = zones /\ text' = text
      /\ all' = all \cup {<<at, r>> : r \in ctx.results}
  BY DEF FinishFile
<1>2. at \in DOMAIN zones /\ at \in Nat
  BY <1>1 DEF Reading, InFile
<1>3. /\ NextFile(at) \in Nat /\ NextFile(at) >= 1
      /\ \A k \in DOMAIN zones : k < NextFile(at) => k <= at
  BY <1>2, NextIsNext
<1>4. Reading'
  BY <1>1, <1>3 DEF Reading, InFile, AfterFiles
<1>5. ContextInv'
  BY <1>1 DEF ContextInv, AfterRules, AfterSections
<1>6. \A i \in DOMAIN zones : i < at => \A s \in zones[i].sections :
        /\ IsUnmanaged(s) /\ HasSets(i)' => IsNamed(s, ResultsOf(i)')
        /\ HasDefault(i)' => IsCounted(text'[i], s, ResultsOf(i)')
  BY <1>1, ReportStays
<1>7. ASSUME NEW i, i = at PROVE ctx.results \subseteq ResultsOf(i)'
  <2> SUFFICES ASSUME NEW r \in ctx.results PROVE r \in ResultsOf(i)'
    OBVIOUS
  <2> DEFINE f == <<at, r>>
  <2>1. f \in all' /\ f[1] = i /\ f[2] = r
    BY <1>1, <1>7
  <2> HIDE DEF f
  <2>2. f[2] \in ResultsOf(i)'
    BY <2>1 DEF ResultsOf
  <2> QED
    BY <2>1, <2>2
<1>8. ASSUME NEW s \in zones[at].sections
      PROVE  /\ IsUnmanaged(s) /\ HasSets(at) => IsNamed(s, ctx.results)
             /\ HasDefault(at) => IsCounted(text[at], s, ctx.results)
  BY <1>1, <1>8 DEF ContextInv, AfterRules, AfterSections, File
<1>9. ReportInv'
  <2> SUFFICES ASSUME NEW i \in DOMAIN zones, i < at', NEW s \in zones[i].sections
               PROVE  /\ IsUnmanaged(s) /\ HasSets(i)' => IsNamed(s, ResultsOf(i)')
                      /\ HasDefault(i)' => IsCounted(text'[i], s, ResultsOf(i)')
    BY <1>1 DEF ReportInv
  <2>1. CASE i < at
    BY <1>6, <2>1
  <2>2. CASE i = at
    <3>1. (HasSets(i)' <=> HasSets(i)) /\ (HasDefault(i)' <=> HasDefault(i))
      BY <1>1 DEF HasSets, HasDefault
    <3>2. ctx.results \subseteq ResultsOf(i)' /\ text'[i] = text[i]
      BY <1>1, <1>7, <2>2
    <3>3. /\ IsUnmanaged(s) /\ HasSets(i) => IsNamed(s, ctx.results)
          /\ HasDefault(i) => IsCounted(text[i], s, ctx.results)
      BY <1>8, <2>2
    <3> QED
      BY <3>1, <3>2, <3>3, Monotone
  <2>3. i < at \/ i = at
    <3>1. DOMAIN zones = 1..Len(zones)
      BY LintAssumption DEF TypeOK
    <3> QED
      BY <1>1, <1>2, <1>3, <3>1
  <2> QED
    BY <2>1, <2>2, <2>3
<1> QED
  BY <1>4, <1>5, <1>9

LEMMA Inductive == LintInv /\ [Next]_vars => LintInv'
<1> SUFFICES ASSUME LintInv, [Next]_vars PROVE LintInv'
  OBVIOUS
<1>1. TypeOK' /\ VerdictInv'
  BY TypesKeep DEF LintInv
<1>2. opts' = opts
  BY DEF Next, ReadFile, RefuseFile, RunPlugins, CheckRules, CheckSections, RunHooks,
         ReportIneffective, FinishFile, CheckOrphans, Exit, vars
<1>3. ASSUME Unfiltered PROVE Reading' /\ ContextInv' /\ ReportInv'
  <2>0. AccountInv
    BY <1>3 DEF LintInv, AccountInv
  <2>1. CASE ReadFile
    BY <2>0, <2>1, ReadKeeps
  <2>2. CASE RunPlugins \/ CheckRules \/ CheckSections
    BY <2>0, <2>2, PluginsKeep, RulesKeep, SectionsKeep
  <2>3. CASE RunHooks \/ ReportIneffective
    BY <2>0, <2>3, LaterKeep
  <2>4. CASE FinishFile
    BY <2>0, <2>4, FinishKeeps
  <2>5. CASE RefuseFile \/ CheckOrphans \/ Exit \/ UNCHANGED vars
    <3>1. /\ zones' = zones /\ at' = at /\ text' = text /\ ctx' = ctx /\ all \subseteq all'
          /\ pc' = pc \/ (pc' \notin InFile /\ pc' # "read" /\ (pc' \in AfterFiles => pc \in AfterFiles))
      BY <2>5 DEF RefuseFile, CheckOrphans, Exit, vars, InFile, AfterFiles
    <3>2. Reading'
      BY <2>0, <3>1 DEF AccountInv, Reading
    <3>3. ContextInv'
      <4>1. CASE pc' = pc
        BY <2>0, <3>1, <4>1 DEF AccountInv, ContextInv, File, HasSets, HasDefault
      <4>2. CASE pc' \notin InFile
        BY <4>2 DEF ContextInv, InFile, AfterRules, AfterSections
      <4> QED
        BY <3>1, <4>1, <4>2
    <3>4. ReportInv'
      <4>1. \A i \in DOMAIN zones : i < at => \A s \in zones[i].sections :
              /\ IsUnmanaged(s) /\ HasSets(i)' => IsNamed(s, ResultsOf(i)')
              /\ HasDefault(i)' => IsCounted(text'[i], s, ResultsOf(i)')
        BY <2>0, <3>1, ReportStays DEF AccountInv
      <4> QED
        BY <3>1, <4>1 DEF ReportInv
    <3> QED
      BY <3>2, <3>3, <3>4
  <2> QED
    BY <2>1, <2>2, <2>3, <2>4, <2>5 DEF Next
<1> QED
  BY <1>1, <1>2, <1>3 DEF LintInv, Unfiltered

(* The inductive invariant: file by file, what lint has to report is among *)
(* its results.                                                            *)
THEOREM LintInvariant == Spec => []LintInv
<1> QED
  BY InitHolds, Inductive, PTL DEF Spec

(* What the report says of a file it is done with.                         *)
LEMMA DoneMeans ==
  ASSUME LintInv, Done, Unfiltered, NEW i \in DOMAIN zones, NEW s \in zones[i].sections
  PROVE  /\ IsUnmanaged(s) /\ HasSets(i) => IsNamed(s, ResultsOf(i))
         /\ HasDefault(i) => IsCounted(text[i], s, ResultsOf(i))
         /\ \A r \in ResultsOf(i) : r.severity = Error => code = 1
<1>1. i < at
  <2>1. at > Len(zones) /\ at \in Nat
    BY DEF LintInv, Reading, Done, AfterFiles
  <2>2. DOMAIN zones = 1..Len(zones) /\ Len(zones) \in Nat
    BY LintAssumption DEF LintInv, TypeOK
  <2> QED
    BY <2>1, <2>2
<1>2. ASSUME NEW r \in ResultsOf(i), r.severity = Error PROVE code = 1
  <2>1. PICK f \in all : f[2] = r
    BY DEF ResultsOf
  <2> QED
    BY <1>2, <2>1 DEF LintInv, VerdictInv, Done, Has
<1> QED
  BY <1>1, <1>2 DEF LintInv, ReportInv

(* An unknown section is never passed over, whoever reported on it first   *)
(* (CORE011, engine.py:314-317): the report names it, and if only as       *)
(* unknown, lint fails.  SkippedIsReported leaves out the sections whose   *)
(* plugin report a comment waives.                                         *)
THEOREM UnknownIsReported == Spec => []SkippedIsReported
<1>1. ASSUME LintInv, Done, Unfiltered, NEW i \in DOMAIN zones, NEW s \in zones[i].sections,
             IsUnmanaged(s), HasSets(i)
      PROVE  /\ \E f \in all : f[1] = i /\ f[2].phase = s.key
             /\ \/ \E f \in all : f[1] = i /\ f[2].phase = s.key /\ f[2].id # "CORE011"
                \/ code = 1
  <2>1. PICK r \in ResultsOf(i) : r.phase = s.key /\ (r.id # "CORE011" \/ r.severity = Error)
    BY <1>1, DoneMeans DEF IsNamed
  <2>2. PICK f \in all : f[1] = i /\ f[2] = r
    BY DEF ResultsOf
  <2>3. r.severity = Error => code = 1
    BY <1>1, DoneMeans
  <2> QED
    BY <2>1, <2>2, <2>3
<1>2. LintInv => SkippedIsReported
  BY <1>1 DEF SkippedIsReported, IsUnmanaged, HasSets
<1> QED
  BY <1>2, LintInvariant, PTL

(* Behind a green lint without filters every phase section that is a list  *)
(* of rules is one plan can prepare and every entry of a list of lists or  *)
(* rulesets has its shape, or a comment that reaches the whole file        *)
(* disables the check (CORE007 to CORE009).                                *)
THEOREM GreenIsPlannable == Spec => []GreenMeansPlannable
<1>1. ASSUME LintInv, Done, Unfiltered, code = 0,
             NEW i \in DOMAIN zones, NEW s \in zones[i].sections, HasDefault(i)
      PROVE  /\ s.kind = "phase" /\ s.list /\ ~s.prepares => Reaches(text[i], "CORE007", "")
             /\ s.kind = "known" /\ s.list /\ s.malformed =>
                  Reaches(text[i], IF s.key = "lists" THEN "CORE008" ELSE "CORE009", "")
  <2>1. IsCounted(text[i], s, ResultsOf(i)) /\ \A r \in ResultsOf(i) : r.severity # Error
    BY <1>1, DoneMeans
  <2> QED
    BY <2>1 DEF IsCounted
<1>2. LintInv => GreenMeansPlannable
  BY <1>1 DEF GreenMeansPlannable, HasDefault
<1> QED
  BY <1>2, LintInvariant, PTL
=============================================================================
