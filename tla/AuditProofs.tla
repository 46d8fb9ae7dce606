---------------------------- MODULE AuditProofs ----------------------------
(***************************************************************************)
(* What an audit guarantees, for any files, networks, comments and         *)
(* crashes.  First the sweep: it reports every overlap of any entries; its *)
(* invariant is SweepInv, and the step that matters is a visit: the new    *)
(* range meets exactly the ranges on the stack.  Then the scan of the      *)
(* comments, then the command as a whole.                                  *)
(***************************************************************************)
EXTENDS AuditRun, FiniteSetTheorems, WellFoundedInduction, TLAPS

USE NetsAssumption

(* The type of the networks in the entries. *)
LEMMA EntryNet ==
  ASSUME entries \in Seq(Entry), NEW i \in 1..Len(entries)
  PROVE  /\ entries[i] \in Entry
         /\ entries[i].net \in Nets
         /\ entries[i].net.lo \in Nat /\ entries[i].net.hi \in Nat
         /\ entries[i].net.lo <= entries[i].net.hi
<1>1. entries[i] \in Entry
  OBVIOUS
<1>2. entries[i].net \in Nets
  BY <1>1 DEF Entry
<1> QED
  BY <1>1, <1>2

(* Of two sorted entries whose ranges meet the later lies in the earlier. *)
LEMMA LaterWithinEarlier ==
  ASSUME SweepTypeOK, NEW i \in 1..Len(entries), NEW j \in 1..Len(entries), j < i,
         Overlap(entries[i].net, entries[j].net)
  PROVE  Within(entries[i].net, entries[j].net)
<1> DEFINE m == entries[i].net
           n == entries[j].net
<1>1. m \in Nets /\ n \in Nets /\ m.lo \in Nat /\ m.hi \in Nat
        /\ n.lo \in Nat /\ n.hi \in Nat
  BY EntryNet DEF SweepTypeOK
<1>2. Before(entries[j], entries[i])
  BY DEF SweepTypeOK, InOrder
<1>3. \/ n.lo < m.lo
      \/ n.lo = m.lo /\ n.hi >= m.hi
  BY <1>2 DEF Before
<1>4. m.lo <= n.hi /\ n.lo <= m.hi
  BY DEF Overlap
<1>5. \/ m.lo <= n.lo /\ n.hi <= m.hi
      \/ n.lo <= m.lo /\ m.hi <= n.hi
  BY <1>1, <1>4
<1> QED
  BY <1>1, <1>3, <1>5 DEF Within

(* Starts never decrease along the input. *)
LEMMA StartsGrow ==
  ASSUME SweepTypeOK, NEW i \in 1..Len(entries), NEW j \in 1..Len(entries), j <= i
  PROVE  entries[j].net.lo <= entries[i].net.lo
<1>1. entries[i].net.lo \in Nat /\ entries[j].net.lo \in Nat
  BY EntryNet DEF SweepTypeOK
<1>2. CASE j = i
  BY <1>1, <1>2
<1>3. CASE j < i
  BY <1>1, <1>3 DEF SweepTypeOK, InOrder, Before
<1> QED
  BY <1>2, <1>3

(* When the top of the stack has not ended, every range on the stack meets *)
(* the next one.                                                           *)
LEMMA StackMeetsNext ==
  ASSUME SweepInv, ~Swept, ~TopExpired, NEW k \in DOMAIN stack
  PROVE  Overlap(entries[pos + 1].net, entries[stack[k]].net)
<1> DEFINE top == stack[Len(stack)]
<1>1. /\ entries \in Seq(Entry) /\ pos \in Nat /\ pos + 1 \in 1..Len(entries)
      /\ stack \in Seq(1..pos) /\ k \in 1..Len(stack) /\ Len(stack) \in 1..Len(stack)
      /\ stack[k] \in 1..pos /\ top \in 1..pos
  BY DEF SweepInv, SweepTypeOK, Swept
<1>2. /\ stack[k] \in 1..Len(entries) /\ top \in 1..Len(entries)
      /\ stack[k] <= pos + 1
  BY <1>1
<1>3. /\ entries[top].net.hi \in Nat /\ entries[stack[k]].net.hi \in Nat
      /\ entries[pos + 1].net.lo \in Nat /\ entries[pos + 1].net.hi \in Nat
      /\ entries[pos + 1].net.lo <= entries[pos + 1].net.hi
      /\ entries[stack[k]].net.lo \in Nat
  BY <1>1, <1>2, EntryNet
<1>4. entries[top].net.hi >= entries[pos + 1].net.lo
  BY <1>1, <1>3 DEF TopExpired
<1>5. entries[top].net.hi <= entries[stack[k]].net.hi
  <2>1. CASE k = Len(stack)
    BY <2>1, <1>3
  <2>2. CASE k < Len(stack)
    BY <2>2, <1>1 DEF SweepInv, StackNested, Within
  <2> QED
    BY <2>1, <2>2, <1>1
<1>6. entries[stack[k]].net.lo <= entries[pos + 1].net.lo
  BY <1>1, <1>2, StartsGrow DEF SweepInv
<1> QED
  BY <1>3, <1>4, <1>5, <1>6 DEF Overlap

(* What a visit adds: the overlaps of the new entry with those before it. *)
LEMMA VisitAdds ==
  ASSUME SweepInv, ~Swept, ~TopExpired
  PROVE  {stack[k] : k \in {m \in DOMAIN stack : entries[stack[m]].rule # entries[pos + 1].rule}}
           = {j \in 1..pos : /\ Overlap(entries[pos + 1].net, entries[j].net)
                             /\ entries[pos + 1].rule # entries[j].rule}
<1> DEFINE L == {stack[k] : k \in {m \in DOMAIN stack :
                                     entries[stack[m]].rule # entries[pos + 1].rule}}
           R == {j \in 1..pos : /\ Overlap(entries[pos + 1].net, entries[j].net)
                                /\ entries[pos + 1].rule # entries[j].rule}
<1>1. stack \in Seq(1..pos) /\ pos \in Nat /\ pos + 1 \in 1..Len(entries)
      /\ entries \in Seq(Entry)
  BY DEF SweepInv, SweepTypeOK, Swept
<1>2. ASSUME NEW k \in DOMAIN stack, entries[stack[k]].rule # entries[pos + 1].rule
      PROVE  stack[k] \in R
  BY <1>1, <1>2, StackMeetsNext
<1>3. ASSUME NEW j \in R
      PROVE  j \in L
  <2>1. j \in 1..Len(entries) /\ j \in 1..pos
    BY <1>1
  <2>2. entries[j].net.hi \in Nat /\ entries[pos + 1].net.lo \in Nat
    BY <1>1, <2>1, EntryNet
  <2>3. ~(entries[j].net.hi < entries[pos + 1].net.lo)
    BY <2>2 DEF Overlap
  <2>4. PICK k \in DOMAIN stack : stack[k] = j
    BY <2>1, <2>3 DEF SweepInv, OffStackEnded
  <2> QED
    BY <2>4
<1> QED
  BY <1>2, <1>3

LEMMA SweepInitInv == SweepInit => SweepInv
BY DEF SweepInit, SweepInv, SweepTypeOK, InOrder, StackNested, OffStackEnded,
       HitsSoFar, OverlapsUpTo

LEMMA BeginInv == SweepInv /\ Begin => SweepInv'
BY DEF Begin, SweepInv, SweepTypeOK, StackNested, OffStackEnded, HitsSoFar,
       OverlapsUpTo

LEMMA PopInv == SweepInv /\ Pop => SweepInv'
<1> SUFFICES ASSUME SweepInv, Pop PROVE SweepInv'
  OBVIOUS
<1> DEFINE top == stack[Len(stack)]
<1>1. /\ entries' = entries /\ pos' = pos /\ hits' = hits
      /\ stack' = SubSeq(stack, 1, Len(stack) - 1)
      /\ stack \in Seq(1..pos) /\ stack # <<>> /\ Len(stack) \in Nat /\ Len(stack) > 0
      /\ pos \in Nat
  BY DEF Pop, SweepInv, SweepTypeOK, TopExpired
<1>2. /\ DOMAIN stack' = 1..(Len(stack) - 1)
      /\ \A k \in 1..(Len(stack) - 1) : stack'[k] = stack[k]
      /\ DOMAIN stack = 1..Len(stack)
  <2> DEFINE Shorter(s) == SubSeq(s, 1, Len(s) - 1)
  <2>1. ASSUME NEW s \in Seq(1..pos), Len(s) > 0
        PROVE  /\ DOMAIN Shorter(s) = 1..(Len(s) - 1)
               /\ \A k \in 1..(Len(s) - 1) : Shorter(s)[k] = s[k]
               /\ DOMAIN s = 1..Len(s)
    BY <2>1
  <2> QED
    BY <1>1, <2>1
<1>3. SweepTypeOK'
  <2>1. stack' \in Seq(1..pos)
    BY <1>1
  <2> QED
    BY <1>1, <2>1 DEF SweepInv, SweepTypeOK, InOrder, Before
<1>4. StackNested'
  <2> SUFFICES ASSUME NEW k \in DOMAIN stack', NEW m \in DOMAIN stack', k < m
               PROVE  /\ stack'[k] < stack'[m]
                      /\ Within(entries[stack'[m]].net, entries[stack'[k]].net)
    BY <1>1 DEF StackNested, Within
  <2>1. /\ k \in DOMAIN stack /\ stack'[k] = stack[k]
        /\ m \in DOMAIN stack /\ stack'[m] = stack[m]
    BY <1>1, <1>2
  <2> QED
    BY <2>1 DEF SweepInv, StackNested
<1>5. OffStackEnded'
  <2> SUFFICES ASSUME NEW j \in 1..pos
               PROVE  \/ \E k \in DOMAIN stack' : stack'[k] = j
                      \/ entries[j].net.hi < entries[pos + 1].net.lo
    BY <1>1 DEF OffStackEnded, Swept
  <2>1. CASE j = top
    BY <2>1 DEF Pop, TopExpired
  <2>2. CASE \E k \in 1..(Len(stack) - 1) : stack[k] = j
    BY <2>2, <1>2
  <2>3. CASE \A k \in DOMAIN stack : stack[k] # j
    BY <2>3 DEF Pop, SweepInv, OffStackEnded
  <2> QED
    BY <2>1, <2>2, <2>3, <1>1, <1>2
<1>6. HitsSoFar'
  BY <1>1 DEF SweepInv, HitsSoFar, OverlapsUpTo, Overlap
<1> QED
  BY <1>3, <1>4, <1>5, <1>6 DEF SweepInv

LEMMA VisitInv == SweepInv /\ Visit => SweepInv'
<1> SUFFICES ASSUME SweepInv, Visit PROVE SweepInv'
  OBVIOUS
<1> DEFINE new == pos + 1
<1>1. /\ entries' = entries /\ pos' = new /\ stack' = Append(stack, new)
      /\ stack \in Seq(1..pos) /\ Len(stack) \in Nat
      /\ pos \in Nat /\ new \in 1..Len(entries) /\ entries \in Seq(Entry)
      /\ ~Swept /\ ~TopExpired
  BY DEF Visit, SweepInv, SweepTypeOK, Swept
<1>2. /\ Len(stack') = Len(stack) + 1 /\ DOMAIN stack' = 1..(Len(stack) + 1)
      /\ \A k \in 1..Len(stack) : stack'[k] = stack[k]
      /\ stack'[Len(stack) + 1] = new
      /\ DOMAIN stack = 1..Len(stack)
      /\ \A k \in 1..Len(stack) : stack[k] \in 1..pos
  BY <1>1
<1>3. SweepTypeOK'
  <2>1. stack' \in Seq(1..new)
    <3>1. stack \in Seq(1..new)
      BY <1>1
    <3> QED
      BY <1>1, <3>1
  <2> QED
    BY <1>1, <2>1 DEF SweepInv, SweepTypeOK, InOrder, Before
<1>4. StackNested'
  <2> SUFFICES ASSUME NEW k \in DOMAIN stack', NEW m \in DOMAIN stack', k < m
               PROVE  /\ stack'[k] < stack'[m]
                      /\ Within(entries[stack'[m]].net, entries[stack'[k]].net)
    BY <1>1 DEF StackNested, Within
  <2>1. k \in DOMAIN stack /\ stack'[k] = stack[k] /\ stack[k] \in 1..pos
    BY <1>2
  <2>2. CASE m = Len(stack) + 1
    <3>1. Overlap(entries[new].net, entries[stack[k]].net)
      BY <2>1, <1>1, StackMeetsNext
    <3>2. stack[k] \in 1..Len(entries) /\ stack[k] < new /\ SweepTypeOK
      BY <2>1, <1>1 DEF SweepInv
    <3>3. Within(entries[new].net, entries[stack[k]].net)
      BY <1>1, <3>1, <3>2, LaterWithinEarlier
    <3> QED
      BY <2>1, <2>2, <3>3, <1>1, <1>2
  <2>3. CASE m \in DOMAIN stack
    BY <2>1, <2>3, <1>2 DEF SweepInv, StackNested
  <2> QED
    BY <2>2, <2>3, <1>2
<1>5. OffStackEnded'
  <2> SUFFICES ASSUME NEW j \in 1..new, new # Len(entries)
               PROVE  \/ \E k \in DOMAIN stack' : stack'[k] = j
                      \/ entries[j].net.hi < entries[new + 1].net.lo
    BY <1>1 DEF OffStackEnded, Swept
  <2>1. CASE j = new
    BY <2>1, <1>1, <1>2
  <2>2. CASE \E k \in DOMAIN stack : stack[k] = j
    BY <2>2, <1>2
  <2>3. CASE j # new /\ \A k \in DOMAIN stack : stack[k] # j
    <3>1. j \in 1..pos /\ j \in 1..Len(entries) /\ new + 1 \in 1..Len(entries)
      BY <2>3, <1>1
    <3>2. entries[j].net.hi < entries[new].net.lo
      BY <2>3, <3>1, <1>1 DEF SweepInv, OffStackEnded
    <3>3. entries[new].net.lo <= entries[new + 1].net.lo
      BY <3>1, <1>1, StartsGrow DEF SweepInv
    <3>4. /\ entries[j].net.hi \in Nat /\ entries[new].net.lo \in Nat
          /\ entries[new + 1].net.lo \in Nat
      BY <3>1, <1>1, EntryNet
    <3> QED
      BY <3>2, <3>3, <3>4
  <2> QED
    BY <2>1, <2>2, <2>3
<1>6. HitsSoFar'
  <2> DEFINE added == {j \in 1..pos : /\ Overlap(entries[new].net, entries[j].net)
                                      /\ entries[new].rule # entries[j].rule}
  <2>1. hits' = hits \cup {<<new, j>> : j \in added}
    <3>1. hits' = hits \cup {<<new, stack[k]>> : k \in
                    {m \in DOMAIN stack : entries[stack[m]].rule # entries[new].rule}}
      BY DEF Visit
    <3>2. {stack[k] : k \in {m \in DOMAIN stack :
                               entries[stack[m]].rule # entries[new].rule}} = added
      BY <1>1, VisitAdds
    <3> QED
      BY <3>1, <3>2
  <2>2. hits = OverlapsUpTo(pos)
    BY DEF SweepInv, HitsSoFar
  <2>3. OverlapsUpTo(new) = OverlapsUpTo(pos) \cup {<<new, j>> : j \in added}
    <3> DEFINE Meet(i, j) == /\ Overlap(entries[i].net, entries[j].net)
                             /\ entries[i].rule # entries[j].rule
    <3>1. \A n : OverlapsUpTo(n) = {h \in (1..n) \X (1..n) : h[2] < h[1] /\ Meet(h[1], h[2])}
      BY DEF OverlapsUpTo
    <3>2. added = {j \in 1..pos : Meet(new, j)}
      OBVIOUS
    <3> HIDE DEF Meet, added
    <3>3. {h \in (1..new) \X (1..new) : h[2] < h[1] /\ Meet(h[1], h[2])}
            = {h \in (1..pos) \X (1..pos) : h[2] < h[1] /\ Meet(h[1], h[2])}
                \cup {<<new, j>> : j \in added}
      <4>1. ASSUME NEW h \in (1..new) \X (1..new), h[2] < h[1], Meet(h[1], h[2]),
                   h \notin (1..pos) \X (1..pos)
            PROVE  h \in {<<new, j>> : j \in added}
        <5>1. h = <<h[1], h[2]>> /\ h[1] \in 1..new /\ h[2] \in 1..new
          BY <4>1
        <5>2. h[1] = new /\ h[2] \in 1..pos
          BY <1>1, <4>1, <5>1
        <5>3. h[2] \in added
          BY <3>2, <4>1, <5>2
        <5> QED
          BY <5>1, <5>2, <5>3
      <4>2. ASSUME NEW j \in added
            PROVE  /\ <<new, j>> \in (1..new) \X (1..new)
                   /\ j < new /\ Meet(new, j)
        BY <1>1, <3>2
      <4>3. (1..pos) \X (1..pos) \subseteq (1..new) \X (1..new)
        BY <1>1
      <4> QED
        BY <4>1, <4>2, <4>3
    <3> QED
      BY <3>1, <3>3
  <2>4. HitsSoFar' <=> hits' = OverlapsUpTo(new)
    BY <1>1 DEF HitsSoFar, OverlapsUpTo, Overlap
  <2> QED
    BY <2>1, <2>2, <2>3, <2>4
<1> QED
  BY <1>3, <1>4, <1>5, <1>6 DEF SweepInv

LEMMA SweepRests == SweepInv /\ UNCHANGED sweepVars => SweepInv'
BY DEF SweepInv, SweepTypeOK, InOrder, Before, StackNested, Within,
       OffStackEnded, Swept, HitsSoFar, OverlapsUpTo, Overlap, sweepVars

(* SweepInv holds throughout the sweep. *)
THEOREM SweepInvariant == SweepSpec => []SweepInv
BY SweepInitInv, BeginInv, PopInv, VisitInv, SweepRests, PTL DEF SweepSpec, SweepNext

(* The sweep of check_ip_overlap reports every overlap of two rules and    *)
(* nothing else, whatever the networks, the rules and their number.        *)
THEOREM SweepIsComplete == SweepSpec => []SweepFindsAll
<1>1. SweepInv => SweepFindsAll
  BY DEF SweepInv, HitsSoFar, SweepFindsAll, Swept
<1> QED
  BY <1>1, SweepInvariant, PTL

(* Of the two ranges it reports the first always lies within the second.   *)
THEOREM SweepReportsNarrower == SweepSpec => []NarrowerFirst
<1>1. SweepInv => NarrowerFirst
  <2> SUFFICES ASSUME SweepInv, NEW h \in hits
               PROVE  Within(entries[h[1]].net, entries[h[2]].net)
    BY DEF NarrowerFirst
  <2>1. /\ h[1] \in 1..pos /\ h[2] \in 1..pos /\ h[2] < h[1]
        /\ Overlap(entries[h[1]].net, entries[h[2]].net)
    BY DEF SweepInv, HitsSoFar, OverlapsUpTo
  <2>2. h[1] \in 1..Len(entries) /\ h[2] \in 1..Len(entries)
    BY <2>1 DEF SweepInv, SweepTypeOK
  <2> QED
    BY <2>1, <2>2, LaterWithinEarlier DEF SweepInv
<1> QED
  BY <1>1, SweepInvariant, PTL

-----------------------------------------------------------------------------
(* The entries a sweep begins with.                                        *)

UpTo(S, e) == {d \in S : Precedes(d, e)}

(* What the order looks at, and that it tells entries apart.               *)
LEMMA EntryParts ==
  ASSUME NEW d \in Entry
  PROVE  /\ d.net.lo \in Nat /\ d.net.hi \in Nat /\ Place[d.rule] \in Nat
         /\ \A e \in Entry : d.net.lo = e.net.lo /\ d.net.hi = e.net.hi => d.net = e.net
         /\ \A e \in Entry : d.net = e.net /\ Place[d.rule] = Place[e.rule] => d = e
<1>1. \A e \in Entry : e.net \in [lo : Nat, hi : Nat] /\ e.rule \in Rules
  BY DEF Entry
<1>2. \A e \in Entry : d.net = e.net /\ d.rule = e.rule => d = e
  BY DEF Entry
<1>3. /\ Place \in [Rules -> Nat]
      /\ \A q, r \in Rules : Place[q] = Place[r] => q = r
  BY FilesAssumption
<1>4. \A m, n \in [lo : Nat, hi : Nat] : m.lo = n.lo /\ m.hi = n.hi => m = n
  OBVIOUS
<1>5. d.net.lo \in Nat /\ d.net.hi \in Nat /\ Place[d.rule] \in Nat
  BY <1>1, <1>3
<1> QED
  BY <1>1, <1>2, <1>3, <1>4, <1>5

(* Precedes is a linear order.                                             *)
LEMMA PrecedesIsLinear ==
  ASSUME NEW d \in Entry, NEW e \in Entry
  PROVE  /\ Precedes(d, d)
         /\ Precedes(d, e) \/ Precedes(e, d)
         /\ Precedes(d, e) /\ Precedes(e, d) => d = e
         /\ Precedes(d, e) => Before(d, e)
         /\ \A c \in Entry : Precedes(c, d) /\ Precedes(d, e) => Precedes(c, e)
<1>1. /\ d.net.lo \in Int /\ d.net.hi \in Int /\ Place[d.rule] \in Int
      /\ e.net.lo \in Int /\ e.net.hi \in Int /\ Place[e.rule] \in Int
  BY EntryParts
<1>2. /\ d.net.lo = e.net.lo /\ d.net.hi = e.net.hi => d.net = e.net
      /\ d.net = e.net /\ Place[d.rule] = Place[e.rule] => d = e
  BY EntryParts
<1>3. /\ Precedes(d, d)
      /\ Precedes(d, e) \/ Precedes(e, d)
      /\ Precedes(d, e) /\ Precedes(e, d) => d = e
      /\ Precedes(d, e) => Before(d, e)
  BY ONLY <1>1, <1>2 DEF Precedes, Before
<1>4. ASSUME NEW c \in Entry, Precedes(c, d), Precedes(d, e) PROVE Precedes(c, e)
  <2>1. c.net.lo \in Int /\ c.net.hi \in Int /\ Place[c.rule] \in Int
    BY EntryParts
  <2>2. /\ c.net.lo = e.net.lo /\ c.net.hi = e.net.hi => c.net = e.net
        /\ c.net.lo = d.net.lo /\ c.net.hi = d.net.hi => c.net = d.net
    BY EntryParts
  <2> QED
    BY ONLY <1>1, <1>2, <1>4, <2>1, <2>2 DEF Precedes, Before
<1> QED
  BY ONLY <1>3, <1>4

(* Sorted lists the entries in that order, each of them once.              *)
LEMMA SortedIsInOrder ==
  ASSUME NEW S \in SUBSET Entry, IsFiniteSet(S)
  PROVE  /\ Sorted(S) \in Seq(Entry)
         /\ InOrder(Sorted(S))
         /\ Elements(Sorted(S)) = S
<1> DEFINE n == Cardinality(S)
           rank == [e \in S |-> Cardinality(UpTo(S, e))]
<1>1. n \in Nat
  BY FS_CardinalityType
<1>2. \A e \in S : IsFiniteSet(UpTo(S, e)) /\ Cardinality(UpTo(S, e)) \in 1..n
  <2> SUFFICES ASSUME NEW e \in S
               PROVE  IsFiniteSet(UpTo(S, e)) /\ Cardinality(UpTo(S, e)) \in 1..n
    OBVIOUS
  <2>1. UpTo(S, e) \in SUBSET S /\ e \in UpTo(S, e)
    BY PrecedesIsLinear DEF UpTo
  <2>2. IsFiniteSet(UpTo(S, e)) /\ Cardinality(UpTo(S, e)) <= n
    BY <2>1, FS_Subset
  <2>3. Cardinality(UpTo(S, e)) \in Nat /\ Cardinality(UpTo(S, e)) # 0
    BY <2>1, <2>2, FS_CardinalityType, FS_EmptySet
  <2> QED
    BY <1>1, <2>2, <2>3
<1>3. \A d, e \in S : Precedes(d, e) /\ d # e => rank[d] < rank[e]
  <2> SUFFICES ASSUME NEW d \in S, NEW e \in S, Precedes(d, e), d # e
               PROVE  Cardinality(UpTo(S, d)) < Cardinality(UpTo(S, e))
    OBVIOUS
  <2>1. UpTo(S, d) \in SUBSET UpTo(S, e) /\ e \in UpTo(S, e) /\ e \notin UpTo(S, d)
    BY PrecedesIsLinear DEF UpTo
  <2>2. /\ Cardinality(UpTo(S, d)) <= Cardinality(UpTo(S, e))
        /\ Cardinality(UpTo(S, d)) # Cardinality(UpTo(S, e))
    BY <1>2, <2>1, FS_Subset
  <2> QED
    BY <1>1, <1>2, <2>2
<1>4. \A e \in S : rank[e] \in 1..n
  BY <1>2
<1>5. \A d, e \in S : rank[d] = rank[e] => d = e
  <2> SUFFICES ASSUME NEW d \in S, NEW e \in S, rank[d] = rank[e], d # e
               PROVE  FALSE
    OBVIOUS
  <2>1. Precedes(d, e) \/ Precedes(e, d)
    BY PrecedesIsLinear
  <2>2. rank[d] \in Int /\ rank[e] \in Int
    BY <1>1, <1>4
  <2> QED
    BY <1>3, <2>1, <2>2
<1>6. rank \in Injection(S, 1..n)
  <2>1. rank \in [S -> 1..n]
    BY <1>4
  <2> HIDE DEF rank
  <2> QED
    BY <1>5, <2>1 DEF Injection, IsInjective
<1>7. IsFiniteSet(1..n) /\ Cardinality(1..n) = n
  BY <1>1, FS_Interval
<1>8. rank \in Surjection(S, 1..n)
  BY <1>6, <1>7, FS_Injection
<1>9. \A k \in 1..n : \E e \in S : Cardinality(UpTo(S, e)) = k
  BY <1>8 DEF Surjection
<1>10. Sorted(S) = [k \in 1..n |-> CHOOSE e \in S : Cardinality(UpTo(S, e)) = k]
  BY DEF Sorted, UpTo
<1>11. \A k \in 1..n : Sorted(S)[k] \in S /\ Cardinality(UpTo(S, Sorted(S)[k])) = k
  <2> TAKE k \in 1..n
  <2>1. PICK e \in S : Cardinality(UpTo(S, e)) = k
    BY <1>9
  <2>2. Sorted(S)[k] = CHOOSE e_1 \in S : Cardinality(UpTo(S, e_1)) = k
    BY <1>10
  <2> QED
    BY <2>1, <2>2
<1>12. DOMAIN Sorted(S) = 1..n
  BY <1>10
<1>13. Sorted(S) \in Seq(Entry)
  <2>1. \A k \in 1..n : Sorted(S)[k] \in Entry
    BY <1>11
  <2>2. Sorted(S) \in [1..n -> Entry]
    BY <1>10, <1>12, <2>1
  <2> QED
    BY <1>1, <2>2
<1>14. InOrder(Sorted(S))
  <2> SUFFICES ASSUME NEW i \in 1..n, NEW j \in 1..n, i < j
               PROVE  Before(Sorted(S)[i], Sorted(S)[j])
    BY <1>12 DEF InOrder
  <2> DEFINE d == Sorted(S)[i]
             e == Sorted(S)[j]
  <2>1. d \in S /\ e \in S /\ rank[d] = i /\ rank[e] = j
    BY <1>11
  <2>2. ~(Precedes(e, d) /\ e # d)
    <3>1. i \in Int /\ j \in Int /\ ~(j < i) /\ i # j
      BY <1>1
    <3> HIDE DEF d, e, rank
    <3> QED
      BY <1>3, <2>1, <3>1
  <2>3. Precedes(d, e)
    <3> HIDE DEF d, e, rank
    <3> QED
      BY <2>1, <2>2, PrecedesIsLinear
  <2>4. d \in Entry /\ e \in Entry
    BY <2>1
  <2> HIDE DEF d, e
  <2>5. Before(d, e)
    BY <2>3, <2>4, PrecedesIsLinear
  <2> QED
    BY <2>5 DEF d, e
<1>15. Elements(Sorted(S)) = S
  <2>1. \A k \in 1..n : Sorted(S)[k] \in S
    BY <1>11
  <2>2. ASSUME NEW e \in S PROVE \E k \in 1..n : Sorted(S)[k] = e
    <3>1. rank[e] \in 1..n /\ Sorted(S)[rank[e]] \in S
      BY <1>4, <2>1
    <3>2. rank[Sorted(S)[rank[e]]] = rank[e]
      BY <1>4, <1>11
    <3> HIDE DEF rank
    <3> QED
      BY <1>5, <3>1, <3>2
  <2> HIDE DEF n
  <2> QED
    BY <1>12, <2>1, <2>2 DEF Elements
<1> QED
  BY <1>13, <1>14, <1>15

-----------------------------------------------------------------------------
(* The scan of the comments.                                               *)

(* A set of numbers that is not empty has a least element.                 *)
LEMMA LeastElement ==
  ASSUME NEW T \in SUBSET Nat, T # {}
  PROVE  \E x \in T : \A y \in T : ~(y < x)
<1>1. \E x \in T : \A y \in T : ~(<<y, x>> \in OpToRel(<, Nat))
  BY NatLessThanWellFounded, WFMin
<1> QED
  BY <1>1 DEF OpToRel

IsText(lines) == DOMAIN lines = 1..Len(lines) /\ Len(lines) \in Nat

(* st is a scan of the first m lines.                                      *)
ScansUpTo(st, m, lines, lists) ==
  st = [n \in 0..m |-> IF n = 0 THEN NothingRead ELSE AcceptStep(st[n - 1], lines[n], lists)]

(* There is a scan of all lines.                                           *)
LEMMA ScanExists ==
  ASSUME NEW lines, IsText(lines), NEW lists
  PROVE  \E st : ScansUpTo(st, Len(lines), lines, lists)
<1> DEFINE T == {m \in 0..Len(lines) : ~\E st : ScansUpTo(st, m, lines, lists)}
<1>1. SUFFICES ASSUME T # {} PROVE FALSE
  BY DEF IsText
<1>2. PICK m \in T : \A k \in T : ~(k < m)
  <2>1. T \in SUBSET Nat
    BY DEF IsText
  <2> HIDE DEF T
  <2> QED
    BY <1>1, <2>1, LeastElement
<1>3. m \in Nat /\ m <= Len(lines) /\ Len(lines) \in Nat
  BY DEF IsText
<1>4. CASE m = 0
  <2> DEFINE st == [n \in 0..0 |-> NothingRead]
  <2>1. ScansUpTo(st, 0, lines, lists)
    BY DEF ScansUpTo
  <2> QED
    BY <1>2, <1>4, <2>1
<1>5. CASE m # 0
  <2>1. m - 1 \in 0..Len(lines) /\ m - 1 < m
    BY <1>3, <1>5
  <2>2. PICK st : ScansUpTo(st, m - 1, lines, lists)
    BY <1>2, <2>1
  <2> DEFINE next == [n \in 0..m |-> IF n < m THEN st[n]
                                    ELSE AcceptStep(st[m - 1], lines[m], lists)]
             step(f, n) == AcceptStep(f[n - 1], lines[n], lists)
  <2>3. \A n \in 0..(m - 1) : st[n] = IF n = 0 THEN NothingRead ELSE step(st, n)
    BY <2>2 DEF ScansUpTo
  <2>4. \A n \in 0..(m - 1) : next[n] = st[n]
    <3>1. \A n \in 0..(m - 1) : n \in 0..m /\ n < m
      <4>1. m \in Nat
        BY <1>3
      <4> QED
        BY ONLY <4>1
    <3> QED
      BY <3>1
  <2>5. \A n \in 1..m : step(next, n) = step(st, n)
    <3> TAKE n \in 1..m
    <3>1. n - 1 \in 0..(m - 1)
      BY <1>3
    <3> QED
      BY <2>4, <3>1
  <2>6. next[m] = step(st, m)
    BY <1>3
  <2>7. \A n \in 0..m : next[n] = IF n = 0 THEN NothingRead ELSE step(next, n)
    <3> TAKE n \in 0..m
    <3>1. CASE n = m
      BY <1>3, <1>5, <2>5, <2>6, <3>1
    <3>2. CASE n # m
      <4>1. n \in 0..(m - 1) /\ (n # 0 => n \in 1..m)
        BY <1>3, <3>2
      <4> HIDE DEF next, step
      <4> QED
        BY <2>3, <2>4, <2>5, <4>1
    <3> QED
      BY <3>1, <3>2
  <2>8. next = [n \in 0..m |-> next[n]]
    OBVIOUS
  <2> HIDE DEF next
  <2>9. next = [n \in 0..m |-> IF n = 0 THEN NothingRead ELSE AcceptStep(next[n - 1], lines[n], lists)]
    BY <2>7, <2>8
  <2> QED
    BY <1>2, <2>9 DEF ScansUpTo
<1> QED
  BY <1>4, <1>5

(* What the scan knows after a line is AcceptStep of what it knew before.  *)
LEMMA ScanSteps ==
  ASSUME NEW lines, IsText(lines), NEW lists
  PROVE  /\ Accepting(lines, lists)[0] = NothingRead
         /\ \A n \in 1..Len(lines) :
              Accepting(lines, lists)[n] = AcceptStep(Accepting(lines, lists)[n - 1], lines[n], lists)
<1> DEFINE st == Accepting(lines, lists)
<1>1. st = CHOOSE f : ScansUpTo(f, Len(lines), lines, lists)
  BY DEF Accepting, ScansUpTo
<1>2. ScansUpTo(st, Len(lines), lines, lists)
  BY <1>1, ScanExists
<1> HIDE DEF st
<1>3. \A n \in 0..Len(lines) :
        st[n] = IF n = 0 THEN NothingRead ELSE AcceptStep(st[n - 1], lines[n], lists)
  BY <1>2 DEF ScansUpTo
<1>4. Len(lines) \in Nat
  BY DEF IsText
<1>5. 0 \in 0..Len(lines) /\ \A n \in 1..Len(lines) : n \in 0..Len(lines) /\ n # 0
  BY <1>4
<1> QED
  BY <1>3, <1>5 DEF st

(* A line that takes what is pending, and for what.                        *)
IsTaker(line, lists) == IF lists THEN IsListLine(line) ELSE IsRuleLine(line)
TakenFor(line) == IF line.ref # NoAnchor THEN line.ref ELSE line.list

(* Nothing on the lines after i, up to n, stops a directive at i.          *)
Quiet(lines, i, n, lists) ==
  \A k \in (i + 1)..n : ~IsContent(lines[k]) /\ ~IsTaker(lines[k], lists)

(* The acceptance of c for the anchor is that of a directive right above   *)
(* the anchor, or, for the file, of one with no rule before or right below.*)
Reaches(lines, anchor, c, lists) ==
  \E i \in DOMAIN lines :
    /\ c \in lines[i].names
    /\ \/ \E j \in DOMAIN lines :
            i < j /\ Quiet(lines, i, j - 1, lists)
              /\ IsTaker(lines[j], lists) /\ anchor = TakenFor(lines[j])
       \/ /\ anchor = WholeFile
          /\ \A j \in DOMAIN lines :
               i < j /\ Quiet(lines, i, j - 1, lists) => ~IsTaker(lines[j], lists)
          /\ \A k \in 1..(i - 1) : ~IsTaker(lines[k], lists)

(* What the scan knows after n lines.                                      *)
Knows(st, n, lines, lists) ==
  /\ DOMAIN st = {"attached", "pending", "seen"}
  /\ st.seen <=> \E k \in 1..n : IsTaker(lines[k], lists)
  /\ \A c \in st.pending : \E i \in 1..n : c \in lines[i].names /\ Quiet(lines, i, n, lists)
  /\ \A p \in st.attached : p = <<p[1], p[2]>> /\ Reaches(lines, p[1], p[2], lists)

(* What the four kinds of lines do to what the scan knows.                 *)
StepsTo(st, line, lists, next) ==
  /\ DOMAIN next = {"attached", "pending", "seen"}
  /\ IsDirective(line) =>
       /\ next.attached = st.attached /\ next.seen = st.seen
       /\ next.pending \subseteq st.pending \cup line.names
       /\ ~IsTaker(line, lists) /\ ~IsContent(line)
  /\ IsTaker(line, lists) =>
       /\ next.attached = st.attached \cup ({TakenFor(line)} \X st.pending)
       /\ next.seen = TRUE /\ next.pending = {}
  /\ ~IsTaker(line, lists) /\ IsContent(line) =>
       /\ next.attached = IF st.seen THEN st.attached
                          ELSE st.attached \cup ({WholeFile} \X st.pending)
       /\ next.seen = st.seen /\ next.pending = {}
  /\ ~IsTaker(line, lists) /\ ~IsContent(line) /\ ~IsDirective(line) => next = st

LEMMA StepOnLine ==
  ASSUME NEW st, DOMAIN st = {"attached", "pending", "seen"},
         NEW line, NEW lists \in BOOLEAN, NEW next, next = AcceptStep(st, line, lists)
  PROVE  StepsTo(st, line, lists, next)
<1>1. CASE IsDirective(line)
  <2>1. next = [st EXCEPT !.pending = @ \cup (line.names \cap KnownNames)]
    BY <1>1 DEF AcceptStep, Awaiting
  <2> QED
    BY <1>1, <2>1 DEF IsTaker, IsListLine, IsRuleLine, IsContent, StepsTo
<1>2. CASE IsTaker(line, lists)
  <2>1. ~IsDirective(line) /\ next = AtAnchor(st, TakenFor(line))
    BY <1>2 DEF AcceptStep, IsTaker, IsListLine, IsRuleLine, TakenFor
  <2> QED
    BY <1>2, <2>1 DEF AtAnchor, Attach, StepsTo
<1>3. CASE ~IsDirective(line) /\ ~IsTaker(line, lists) /\ IsContent(line)
  <2>1. next = AtContent(st)
    BY <1>3 DEF AcceptStep, IsTaker, IsListLine, IsRuleLine
  <2> QED
    BY <1>3, <2>1 DEF AtContent, Attach, StepsTo
<1>4. CASE ~IsDirective(line) /\ ~IsTaker(line, lists) /\ ~IsContent(line)
  <2>1. next = st
    BY <1>4 DEF AcceptStep, IsTaker, IsListLine, IsRuleLine
  <2> QED
    BY <1>4, <2>1 DEF StepsTo
<1>5. IsContent(line) => ~IsDirective(line)
  BY DEF IsContent
<1> QED
  BY <1>1, <1>2, <1>3, <1>4, <1>5

(* A directive waiting where no rule has been seen, at a line that stops   *)
(* it without taking it, is the file's.                                    *)
LEMMA WaitingIsFileWide ==
  ASSUME NEW lines, IsText(lines), NEW lists \in BOOLEAN,
         NEW n \in Nat, n <= Len(lines), NEW i \in 1..n, NEW c \in lines[i].names,
         Quiet(lines, i, n, lists),
         \A k \in 1..n : ~IsTaker(lines[k], lists),
         \/ n = Len(lines)
         \/ IsContent(lines[n + 1]) /\ ~IsTaker(lines[n + 1], lists)
  PROVE  Reaches(lines, WholeFile, c, lists)
<1>0. DOMAIN lines = 1..Len(lines) /\ Len(lines) \in Nat
  BY DEF IsText
<1>1. DOMAIN lines = 1..Len(lines) /\ Len(lines) \in Nat /\ i \in DOMAIN lines
  <2>1. i \in 1..Len(lines)
    BY ONLY <1>0, n \in Nat, n <= Len(lines), i \in 1..n
  <2> QED
    BY <1>0, <2>1
<1>2. \A k \in 1..(i - 1) : ~IsTaker(lines[k], lists)
  <2>1. \A k \in 1..(i - 1) : k \in 1..n
    BY ONLY <1>1
  <2> QED
    BY <2>1
<1>3. ASSUME NEW j \in DOMAIN lines, i < j, Quiet(lines, i, j - 1, lists),
             IsTaker(lines[j], lists)
      PROVE  FALSE
  <2> DEFINE N == Len(lines)
  <2>0. N \in Nat /\ DOMAIN lines = 1..N
    BY <1>1
  <2> HIDE DEF N
  <2>1. j \in Nat /\ 1 <= j /\ j <= N /\ i \in Nat
    BY ONLY <2>0, j \in DOMAIN lines, i \in 1..n, n \in Nat
  <2>2. ~(j <= n)
    BY <1>3, <2>1
  <2>3. n # Len(lines)
    <3>1. n # N
      BY ONLY <2>0, <2>1, <2>2, n \in Nat
    <3> QED
      BY <3>1 DEF N
  <2>4. j # n + 1
    BY <1>3, <2>3
  <2>5. n + 1 \in (i + 1)..(j - 1)
    BY <2>1, <2>2, <2>4
  <2> QED
    BY <1>3, <2>3, <2>5 DEF Quiet
<1> QED
  BY <1>1, <1>2, <1>3 DEF Reaches

(* After each line the scan knows what it should.                          *)
LEMMA KnowsMore ==
  ASSUME NEW lines, IsText(lines), NEW lists \in BOOLEAN,
         NEW n \in Nat, n < Len(lines), NEW st, Knows(st, n, lines, lists)
  PROVE  Knows(AcceptStep(st, lines[n + 1], lists), n + 1, lines, lists)
<1> DEFINE line == lines[n + 1]
           next == AcceptStep(st, line, lists)
<1>1. /\ DOMAIN lines = 1..Len(lines) /\ Len(lines) \in Nat
      /\ n + 1 \in DOMAIN lines
  BY DEF IsText
<1>2. /\ DOMAIN st = {"attached", "pending", "seen"}
      /\ st.seen <=> \E k \in 1..n : IsTaker(lines[k], lists)
      /\ \A c \in st.pending : \E i \in 1..n : c \in lines[i].names /\ Quiet(lines, i, n, lists)
      /\ \A p \in st.attached : p = <<p[1], p[2]>> /\ Reaches(lines, p[1], p[2], lists)
  BY DEF Knows
<1>0. StepsTo(st, line, lists, next)
  BY <1>2, StepOnLine
<1> HIDE DEF next
<1>3. /\ DOMAIN next = {"attached", "pending", "seen"}
      /\ IsDirective(line) =>
           /\ next.attached = st.attached /\ next.seen = st.seen
           /\ next.pending \subseteq st.pending \cup line.names
           /\ ~IsTaker(line, lists) /\ ~IsContent(line)
      /\ IsTaker(line, lists) =>
           /\ next.attached = st.attached \cup ({TakenFor(line)} \X st.pending)
           /\ next.seen = TRUE /\ next.pending = {}
      /\ ~IsTaker(line, lists) /\ IsContent(line) =>
           /\ next.attached = IF st.seen THEN st.attached
                              ELSE st.attached \cup ({WholeFile} \X st.pending)
           /\ next.seen = st.seen /\ next.pending = {}
      /\ ~IsTaker(line, lists) /\ ~IsContent(line) /\ ~IsDirective(line) => next = st
  BY <1>0 DEF StepsTo
<1>4. (\E k \in 1..(n + 1) : IsTaker(lines[k], lists))
        <=> (\E k \in 1..n : IsTaker(lines[k], lists)) \/ IsTaker(line, lists)
  <2>1. \A k : k \in 1..(n + 1) <=> k \in 1..n \/ k = n + 1
    BY ONLY n \in Nat
  <2> QED
    BY <2>1
<1>5. ASSUME ~IsTaker(line, lists), ~IsContent(line), NEW i \in 1..n, Quiet(lines, i, n, lists)
      PROVE  i \in 1..(n + 1) /\ Quiet(lines, i, n + 1, lists)
  <2>1. \A k \in (i + 1)..(n + 1) : k \in (i + 1)..n \/ k = n + 1
    BY ONLY n \in Nat, i \in 1..n
  <2> QED
    BY <1>5, <2>1 DEF Quiet
<1>6. ASSUME NEW c \in next.pending
      PROVE  \E i \in 1..(n + 1) : c \in lines[i].names /\ Quiet(lines, i, n + 1, lists)
  <2>1. ~IsTaker(line, lists) /\ ~IsContent(line)
    BY <1>3, <1>6
  <2>2. c \in st.pending \/ c \in line.names
    BY <1>3, <1>6, <2>1
  <2>3. CASE c \in st.pending
    <3>1. PICK i \in 1..n : c \in lines[i].names /\ Quiet(lines, i, n, lists)
      BY <1>2, <2>3
    <3> QED
      BY <1>5, <2>1, <3>1
  <2>4. CASE c \in line.names
    <3>1. Quiet(lines, n + 1, n + 1, lists) /\ n + 1 \in 1..(n + 1)
      BY DEF Quiet
    <3> QED
      BY <2>4, <3>1
  <2> QED
    BY <2>2, <2>3, <2>4
<1>7. ASSUME NEW p \in next.attached
      PROVE  p = <<p[1], p[2]>> /\ Reaches(lines, p[1], p[2], lists)
  <2>1. CASE p \in st.attached
    BY <1>2, <2>1
  <2>2. CASE p \notin st.attached /\ IsTaker(line, lists)
    <3>1. p \in {TakenFor(line)} \X st.pending
      BY <1>3, <1>7, <2>2
    <3>2. p = <<p[1], p[2]>> /\ p[1] = TakenFor(line) /\ p[2] \in st.pending
      BY <3>1
    <3>3. PICK i \in 1..n : p[2] \in lines[i].names /\ Quiet(lines, i, n, lists)
      BY <1>2, <3>2
    <3>4. i \in DOMAIN lines /\ i < n + 1 /\ (n + 1) - 1 = n
      BY <1>1
    <3>5. Reaches(lines, TakenFor(line), p[2], lists)
      BY <1>1, <2>2, <3>3, <3>4 DEF Reaches
    <3> QED
      BY <3>2, <3>5
  <2>3. CASE p \notin st.attached /\ ~IsTaker(line, lists)
    <3>1. IsContent(line) /\ ~st.seen /\ p \in {WholeFile} \X st.pending
      BY <1>3, <1>7, <2>3
    <3>2. p = <<p[1], p[2]>> /\ p[1] = WholeFile /\ p[2] \in st.pending
      BY <3>1
    <3>3. PICK i \in 1..n : p[2] \in lines[i].names /\ Quiet(lines, i, n, lists)
      BY <1>2, <3>2
    <3>4. \A k \in 1..n : ~IsTaker(lines[k], lists)
      BY <1>2, <3>1
    <3>5. n <= Len(lines)
      BY <1>1
    <3>6. Reaches(lines, WholeFile, p[2], lists)
      BY <2>3, <3>1, <3>3, <3>4, <3>5, WaitingIsFileWide
    <3> QED
      BY <3>2, <3>6
  <2> QED
    BY <2>1, <2>2, <2>3
<1>8. next.seen <=> \E k \in 1..(n + 1) : IsTaker(lines[k], lists)
  BY <1>2, <1>3, <1>4
<1>9. Knows(next, n + 1, lines, lists)
  BY <1>3, <1>6, <1>7, <1>8 DEF Knows
<1> QED
  BY <1>9 DEF next

(* All that a scan accepts is the acceptance of a directive that reaches   *)
(* it: no directive is carried past the rule, the list or the content that *)
(* follows it (_scan_acceptances), whatever the file.                      *)
THEOREM AcceptancesAreReached ==
  ASSUME NEW lines, IsText(lines), NEW lists \in BOOLEAN, NEW p \in ScanAccepts(lines, lists)
  PROVE  p = <<p[1], p[2]>> /\ Reaches(lines, p[1], p[2], lists)
<1> DEFINE st == Accepting(lines, lists)
           N == Len(lines)
           T == {n \in 0..N : ~Knows(st[n], n, lines, lists)}
<1>1. N \in Nat
  BY DEF IsText
<1>2. /\ st[0] = NothingRead
      /\ \A n \in 1..N : st[n] = AcceptStep(st[n - 1], lines[n], lists)
  BY ScanSteps
<1> HIDE DEF st
<1>3. Knows(st[0], 0, lines, lists)
  BY <1>2 DEF Knows, NothingRead
<1>4. T = {}
  <2> SUFFICES ASSUME T # {} PROVE FALSE
    OBVIOUS
  <2>1. T \in SUBSET Nat
    BY <1>1
  <2>2. PICK n \in T : \A m \in T : ~(m < n)
    <3> HIDE DEF T
    <3> QED
      BY <2>1, LeastElement
  <2>3. n \in 0..N /\ ~Knows(st[n], n, lines, lists)
    OBVIOUS
  <2>4. n # 0
    BY <1>3, <2>3
  <2>5. /\ n - 1 \in Nat /\ n - 1 < N /\ n - 1 < n /\ (n - 1) + 1 = n
        /\ n - 1 \in 0..N /\ n \in 1..N
    BY <1>1, <2>3, <2>4
  <2>6. Knows(st[n - 1], n - 1, lines, lists)
    BY <2>2, <2>5
  <2> DEFINE m == n - 1
  <2>7. m \in Nat /\ m < Len(lines) /\ m + 1 = n /\ Knows(st[m], m, lines, lists)
    BY <2>5, <2>6
  <2> HIDE DEF m
  <2>8. Knows(AcceptStep(st[m], lines[m + 1], lists), m + 1, lines, lists)
    BY <2>7, KnowsMore
  <2>9. st[n] = AcceptStep(st[m], lines[n], lists)
    BY <1>2, <2>5 DEF m
  <2> QED
    BY <2>3, <2>7, <2>8, <2>9
<1>5. Knows(st[N], N, lines, lists)
  <2>1. N \in 0..N
    BY <1>1
  <2> QED
    BY <1>4, <2>1
<1>6. p \in AtEnd(st[N])
  BY DEF ScanAccepts, st
<1>7. CASE p \in st[N].attached
  BY <1>5, <1>7 DEF Knows
<1>8. CASE p \notin st[N].attached
  <2>1. ~st[N].seen /\ p \in {WholeFile} \X st[N].pending
    BY <1>6, <1>8 DEF AtEnd, Attach
  <2>2. p = <<p[1], p[2]>> /\ p[1] = WholeFile /\ p[2] \in st[N].pending
    BY <2>1
  <2>3. PICK i \in 1..N : p[2] \in lines[i].names /\ Quiet(lines, i, N, lists)
    BY <1>5, <2>2 DEF Knows
  <2>4. \A k \in 1..N : ~IsTaker(lines[k], lists)
    BY <1>5, <2>1 DEF Knows
  <2>5. N <= Len(lines)
    BY <1>1
  <2>6. Reaches(lines, WholeFile, p[2], lists)
    BY <1>1, <2>3, <2>4, <2>5, WaitingIsFileWide
  <2> QED
    BY <2>2, <2>6
<1> QED
  BY <1>7, <1>8

-----------------------------------------------------------------------------
(* The command as a whole.  Its invariant says, for each place in the      *)
(* command, what the findings made so far account for; it is inductive.    *)

Unfetched == {"extract", "overlap", "shadow", "fetch"}
Judged == {"exit", "done"}

(* File z has been extracted, has been swept.                              *)
IsPast(z) == pc = "extract" => z < at
IsSwept(z) == pc # "extract" /\ (pc = "overlap" => z < at)

CommandTypeOK ==
  /\ files \in Files
  /\ pc \in Unfetched \cup {"cdn", "drift", "accept"} \cup Judged
  /\ at \in ZoneOf
  /\ sweeping \in BOOLEAN /\ (sweeping => pc = "overlap" /\ "ip-overlap" \in checks)
  /\ failed \subseteq ZoneOf
  /\ code \in [granular : BOOLEAN, value : -1..2]

(* What was extracted stands in the files, and of a file no extension      *)
(* crashed on it is all there is.                                          *)
InfosInv ==
  /\ \A i \in infos : i.zone \in ZoneOf /\ \E crashed : i \in AuditZone(i.zone, crashed)
  /\ \A i \in infos : IsPast(i.zone)
  /\ \A z \in ZoneOf : IsPast(z) /\ z \notin failed =>
       /\ AuditZone(z, {}) \subseteq infos
       /\ \A i \in infos : i.zone = z => i \in AuditZone(z, {})

(* A crash is remembered, and what may be waived is a warning of a file.   *)
FoundInv ==
  /\ \A z \in failed : IsPast(z) /\ CrashFinding(z) \in found
  /\ \A f \in found :
       (f.suppressible => f.severity = "warning") /\ f.zone \in ZoneOf \cup {NoFile}
  /\ pc = "extract" /\ failed = {} => found = {}

(* The sweep of file `at` is one of its entries.                           *)
SweepsFile ==
  /\ SweepInv
  /\ IF sweeping THEN Elements(entries) = EntriesOf(at) ELSE Swept

(* The findings tell of the overlap of d and e. *)
IsReported(z, d, e, findings) ==
  \E f \in findings : /\ f.check = "ip-overlap" /\ f.severity = "warning"
                      /\ f.zone = z /\ f.nets = {d.net, e.net}

OverlapInv ==
  "ip-overlap" \in checks =>
    \A z \in ZoneOf : IsSwept(z) =>
      \A d, e \in EntriesOf(z) :
        d.rule # e.rule /\ Overlap(d.net, e.net) => IsReported(z, d, e, found)

CdnInv ==
  /\ pc \in Unfetched => cdn = [ranges |-> {}, stale |-> FALSE]
  /\ "cdn-ranges" \in checks /\ pc \notin Unfetched \cup {"cdn"} =>
       CdnFindings \cup StaleFindings \subseteq found

DriftInv ==
  "zone-drift" \in checks /\ pc \in {"accept"} \cup Judged => DriftFindings \subseteq found

(* What is kept, and what it makes of the exit code.                       *)
VerdictInv ==
  /\ pc \notin Judged => kept = {}
  /\ pc \in Judged =>
       /\ kept = {f \in found : ~IsAccepted(f, text)}
       /\ text \in Texts \/ found = {}
       /\ pc = "done" /\ Has("error") => code.value = 1
       /\ pc = "done" /\ Has("warning") /\ code.granular => code.value # 0

AuditInv ==
  /\ CommandTypeOK /\ InfosInv /\ FoundInv /\ SweepsFile
  /\ OverlapInv /\ CdnInv /\ DriftInv /\ VerdictInv
  /\ ShadowedNeverMatch

(* What is extracted from a file depends on nothing but the files.         *)
LEMMA ZoneStays ==
  ASSUME files' = files PROVE \A z, c : AuditZone(z, c)' = AuditZone(z, c)
BY DEF AuditZone, ExtractedInfos

(* The entries of a file depend on what was extracted only.                *)
LEMMA EntriesStay ==
  ASSUME infos' = infos PROVE \A z : EntriesOf(z)' = EntriesOf(z)
BY DEF EntriesOf

(* The findings about CDN ranges change with the ranges only.              *)
LEMMA CdnStay ==
  ASSUME infos' = infos, cdn' = cdn PROVE CdnFindings' = CdnFindings /\ StaleFindings' = StaleFindings
BY DEF CdnFindings, StaleFindings, CdnFinding, Match, Meeting

(* Those about files that disagree do not change later.                    *)
LEMMA DriftStay ==
  ASSUME infos' = infos PROVE DriftFindings' = DriftFindings
BY DEF DriftFindings, Drifts, FirstUsing, ZonesUsing, ActionsIn, Uses

(* What a rule matches: its own ranges, and those of the lists it names,   *)
(* in any namespace.                                                       *)
LEMMA ResolvedMeans ==
  ASSUME NEW file, NEW rule, NEW n
  PROVE  n \in Resolved(file, rule) <=>
           n \in rule.nets \/ \E l \in file.lists : l.name \in rule.lists /\ n \in l.nets
BY DEF Resolved, ListsNamed

(* Where what was extracted from a file comes from.                        *)
FromRule(i, file, rule) ==
  /\ IsRead(file, rule) /\ i.ref = RuleRef(rule) /\ i.phase = rule.phase
  /\ i.action = rule.action /\ i.nets = Resolved(file, rule) /\ i.lists = rule.lists

FromList(i, l) ==
  i.ref = ListRef(l.ns, l.name) /\ i.phase = "lists" /\ i.action = "" /\ i.nets = l.nets

(* All that is extracted comes from an enabled rule of the file, or from a *)
(* list no such rule names.                                                *)
LEMMA InfoOrigin ==
  ASSUME NEW z, NEW crashed, NEW i \in AuditZone(z, crashed)
  PROVE  /\ i.zone = z /\ i.nets # {}
         /\ \/ \E r \in Extracted(files[z], crashed) : FromRule(i, files[z], r)
            \/ \E l \in files[z].lists \ Referenced(files[z], Extracted(files[z], crashed)) :
                 FromList(i, l)
<1> DEFINE file == files[z]
           rules == Extracted(file, crashed)
           ofRule(rule) == [zone |-> z, phase |-> rule.phase, ref |-> RuleRef(rule),
                            action |-> rule.action, nets |-> Resolved(file, rule),
                            lists |-> rule.lists]
           ofList(l) == [zone |-> z, phase |-> "lists", ref |-> ListRef(l.ns, l.name),
                         action |-> "", nets |-> l.nets, lists |-> {}]
<1>1. i.nets # {} /\ \/ \E r \in rules : i = ofRule(r)
                     \/ \E l \in file.lists \ Referenced(file, rules) : i = ofList(l)
  BY DEF AuditZone, ExtractedInfos
<1>2. CASE \E r \in rules : i = ofRule(r)
  <2>1. PICK r \in rules : i = ofRule(r)
    BY <1>2
  <2>2. i.zone = z /\ FromRule(i, file, r)
    <3>1. IsRead(file, r)
      BY DEF Extracted
    <3> HIDE DEF file, rules
    <3> QED
      BY <2>1, <3>1 DEF FromRule
  <2> QED
    BY <1>1, <2>2
<1>3. CASE \E l \in file.lists \ Referenced(file, rules) : i = ofList(l)
  <2>1. PICK l \in file.lists \ Referenced(file, rules) : i = ofList(l)
    BY <1>3
  <2>2. i.zone = z /\ FromList(i, l)
    BY <2>1 DEF FromList
  <2> QED
    BY <1>1, <2>2
<1> QED
  BY <1>1, <1>2, <1>3

(* A rule that matches something is extracted.                             *)
LEMMA RuleIsExtracted ==
  ASSUME NEW z, NEW crashed, NEW r \in Extracted(files[z], crashed),
         NEW n \in Resolved(files[z], r)
  PROVE  \E i \in AuditZone(z, crashed) : i.zone = z /\ FromRule(i, files[z], r)
<1> DEFINE i == [zone |-> z, phase |-> r.phase, ref |-> RuleRef(r), action |-> r.action,
                 nets |-> Resolved(files[z], r), lists |-> r.lists]
<1>1. i \in AuditZone(z, crashed)
  BY DEF AuditZone, ExtractedInfos
<1>2. i.zone = z /\ FromRule(i, files[z], r)
  BY DEF FromRule, Extracted
<1> QED
  BY <1>1, <1>2

(* So is a list that holds something and that no rule names.               *)
LEMMA ListIsExtracted ==
  ASSUME NEW z, NEW crashed,
         NEW l \in files[z].lists \ Referenced(files[z], Extracted(files[z], crashed)),
         NEW n \in l.nets
  PROVE  \E i \in AuditZone(z, crashed) : i.zone = z /\ FromList(i, l)
<1> DEFINE i == [zone |-> z, phase |-> "lists", ref |-> ListRef(l.ns, l.name),
                 action |-> "", nets |-> l.nets, lists |-> {}]
<1>1. i \in AuditZone(z, crashed)
  BY DEF AuditZone, ExtractedInfos
<1>2. i.zone = z /\ FromList(i, l)
  BY DEF FromList
<1> QED
  BY <1>1, <1>2

(* What it means for a list to be named by one of the rules.               *)
LEMMA ReferencedMeans ==
  ASSUME NEW file, NEW rules, NEW l
  PROVE  l \in Referenced(file, rules) <=>
           l \in file.lists /\ \E r \in rules : l.name \in r.lists \cup r.negated
BY DEF Referenced, ListsNamed

(* What FilesAssumption says of the file at hand.                          *)
LEMMA FileParts ==
  ASSUME files \in Files, NEW z \in ZoneOf
  PROVE  /\ ZoneOf = 1..Len(files) /\ Len(files) \in Nat \ {0} /\ z \in Nat
         /\ \A r \in files[z].rules :
              r.nets \subseteq Nets /\ r.phase # "lists" /\ <<RuleRef(r), r.phase>> \in Rules
         /\ \A l \in files[z].lists :
              l.nets \subseteq Nets /\ <<ListRef(l.ns, l.name), "lists">> \in Rules
<1>1. /\ DOMAIN files = 1..Len(files) /\ Len(files) \in Nat \ {0}
      /\ \A y \in DOMAIN files :
           /\ \A r \in files[y].rules :
                /\ r.nets \subseteq Nets /\ r.phase # "lists"
                /\ <<RuleRef(r), r.phase>> \in Rules
           /\ \A l \in files[y].lists :
                l.nets \subseteq Nets /\ <<ListRef(l.ns, l.name), "lists">> \in Rules
  BY ONLY FilesAssumption, files \in Files
<1>2. ZoneOf = 1..Len(files) /\ Len(files) \in Nat \ {0} /\ z \in Nat
  BY <1>1 DEF ZoneOf
<1> QED
  BY ONLY <1>1, <1>2, z \in ZoneOf DEF ZoneOf

(* A rule matches networks.                                                *)
LEMMA ResolvedNets ==
  ASSUME files \in Files, NEW z \in ZoneOf, NEW r \in files[z].rules
  PROVE  Resolved(files[z], r) \subseteq Nets
BY FileParts, ResolvedMeans

(* What is extracted is never empty and makes good entries.                *)
LEMMA InfoTyped ==
  ASSUME files \in Files, NEW z \in ZoneOf, NEW crashed, NEW i \in AuditZone(z, crashed)
  PROVE  i.zone = z /\ i.nets \subseteq Nets /\ i.nets # {} /\ <<i.ref, i.phase>> \in Rules
<1>1. CASE \E r \in Extracted(files[z], crashed) : FromRule(i, files[z], r)
  BY <1>1, InfoOrigin, FileParts, ResolvedNets DEF FromRule, Extracted
<1>2. CASE \E l \in files[z].lists \ Referenced(files[z], Extracted(files[z], crashed)) :
             FromList(i, l)
  <2>1. PICK l \in files[z].lists : FromList(i, l)
    BY <1>2
  <2>2. l.nets \subseteq Nets /\ <<ListRef(l.ns, l.name), "lists">> \in Rules
    BY FileParts
  <2> QED
    <3>1. i.ref = ListRef(l.ns, l.name) /\ i.phase = "lists" /\ i.nets = l.nets
      BY <2>1 DEF FromList
    <3>2. i.zone = z /\ i.nets # {}
      BY InfoOrigin
    <3> QED
      BY ONLY <2>2, <3>1, <3>2
<1> QED
  BY <1>1, <1>2, InfoOrigin

(* The entries of a file are the ranges extracted from it.                 *)
LEMMA EntriesMean ==
  ASSUME NEW z, NEW e
  PROVE  e \in EntriesOf(z) <=>
           \E i \in infos : \E n \in i.nets :
             i.zone = z /\ e = [net |-> n, rule |-> <<i.ref, i.phase>>]
BY DEF EntriesOf

(* They are finitely many, so they can be sorted.                          *)
LEMMA EntriesTyped ==
  ASSUME files \in Files, InfosInv, NEW z
  PROVE  EntriesOf(z) \in SUBSET Entry /\ IsFiniteSet(EntriesOf(z))
<1>1. ASSUME NEW e \in EntriesOf(z) PROVE e \in Entry
  <2>1. PICK i \in infos : \E n \in i.nets : e = [net |-> n, rule |-> <<i.ref, i.phase>>]
    BY EntriesMean
  <2>2. i.zone \in ZoneOf /\ \E crashed : i \in AuditZone(i.zone, crashed)
    BY DEF InfosInv
  <2>3. i.nets \subseteq Nets /\ <<i.ref, i.phase>> \in Rules
    BY <2>2, InfoTyped
  <2> QED
    BY <2>1, <2>3 DEF Entry
<1>2. IsFiniteSet(Entry)
  <2> DEFINE f == [p \in Nets \X Rules |-> [net |-> p[1], rule |-> p[2]]]
  <2>1. IsFiniteSet(Nets \X Rules)
    BY FilesAssumption, FS_Product
  <2>2. f \in [Nets \X Rules -> Entry]
    BY DEF Entry
  <2>3. \A e \in Entry : \E p \in Nets \X Rules : f[p] = e
    <3> TAKE e \in Entry
    <3>1. e.net \in Nets /\ e.rule \in Rules /\ e = [net |-> e.net, rule |-> e.rule]
      BY DEF Entry
    <3>2. f[<<e.net, e.rule>>] = [net |-> e.net, rule |-> e.rule]
      BY <3>1
    <3> QED
      BY <3>1, <3>2
  <2>4. f \in Surjection(Nets \X Rules, Entry)
    <3> HIDE DEF f
    <3> QED
      BY <2>2, <2>3 DEF Surjection
  <2> QED
    BY <2>1, <2>4, FS_Surjection
<1> QED
  BY <1>1, <1>2, FS_Subset

(* What steps after the extraction leave as it is. *)
Calm ==
  /\ pc # "extract" /\ pc' # "extract"
  /\ UNCHANGED <<files, checks, infos, failed>>
  /\ found \subseteq found'

(* What a step that extracts nothing does not disturb: the extraction.     *)
LEMMA InfosStay == InfosInv /\ Calm => InfosInv'
<1> SUFFICES ASSUME InfosInv, Calm PROVE InfosInv'
  OBVIOUS
<1>1. /\ files' = files /\ infos' = infos /\ failed' = failed /\ ZoneOf' = ZoneOf
      /\ \A z : IsPast(z) /\ IsPast(z)'
  BY DEF Calm, IsPast, ZoneOf
<1>2. \A z, c : AuditZone(z, c)' = AuditZone(z, c)
  BY <1>1, ZoneStays
<1> QED
  BY <1>1, <1>2 DEF InfosInv

(* The findings, if those it adds are warnings of a file or errors to      *)
(* stay.                                                                   *)
LEMMA FoundStays ==
  ASSUME FoundInv, Calm,
         \A f \in found' \ found :
           (f.suppressible => f.severity = "warning") /\ f.zone \in ZoneOf \cup {NoFile}
  PROVE  FoundInv'
<1>1. /\ failed' = failed /\ ZoneOf' = ZoneOf /\ found \subseteq found'
      /\ \A z : IsPast(z)' /\ CrashFinding(z)' = CrashFinding(z)
  BY DEF Calm, IsPast, ZoneOf, CrashFinding
<1> QED
  BY <1>1 DEF FoundInv, Calm

(* The sweep, if the step is none of the sweep's.                          *)
LEMMA SweepStays ==
  SweepsFile /\ infos' = infos /\ UNCHANGED <<sweepVars, sweeping, at>> => SweepsFile'
<1> SUFFICES ASSUME SweepsFile, infos' = infos, UNCHANGED <<sweepVars, sweeping, at>>
             PROVE  SweepsFile'
  OBVIOUS
<1>1. SweepInv'
  BY SweepRests DEF SweepsFile
<1>2. EntriesOf(at)' = EntriesOf(at) /\ Elements(entries)' = Elements(entries) /\ Swept' = Swept
  BY EntriesStay DEF sweepVars, Elements, Swept
<1> QED
  BY <1>1, <1>2 DEF SweepsFile

(* The overlaps reported, if no file is swept by it.                       *)
LEMMA OverlapStays ==
  OverlapInv /\ Calm /\ (\A z \in ZoneOf : IsSwept(z)' => IsSwept(z)) => OverlapInv'
<1> SUFFICES ASSUME OverlapInv, Calm, \A z \in ZoneOf : IsSwept(z)' => IsSwept(z)
             PROVE  OverlapInv'
  OBVIOUS
<1>1. /\ checks' = checks /\ ZoneOf' = ZoneOf /\ \A z : EntriesOf(z)' = EntriesOf(z)
      /\ \A z, d, e : IsReported(z, d, e, found) => IsReported(z, d, e, found')
  BY EntriesStay DEF Calm, ZoneOf, IsReported
<1> QED
  BY <1>1 DEF OverlapInv

(* The rules reported as shadowed, if it reports none.                     *)
LEMMA ShadowStays ==
  ShadowedNeverMatch /\ files' = files
    /\ (\A f \in found' \ found : f.check # "ip-shadow") => ShadowedNeverMatch'
BY DEF ShadowedNeverMatch, PhaseRank, Addresses

(* The CDN ranges and what was found of them, if it neither fetches nor    *)
(* checks them.                                                            *)
LEMMA CdnStays ==
  CdnInv /\ Calm /\ cdn' = cdn /\ (pc \in Unfetched <=> pc' \in Unfetched)
    /\ (pc' \notin Unfetched \cup {"cdn"} /\ "cdn-ranges" \in checks => pc # "cdn")
      => CdnInv'
<1> SUFFICES ASSUME CdnInv, Calm, cdn' = cdn, pc \in Unfetched <=> pc' \in Unfetched,
                    pc' \notin Unfetched \cup {"cdn"} /\ "cdn-ranges" \in checks => pc # "cdn"
             PROVE  CdnInv'
  OBVIOUS
<1>1. /\ CdnFindings' = CdnFindings /\ StaleFindings' = StaleFindings
      /\ checks' = checks /\ found \subseteq found'
  BY CdnStay DEF Calm
<1> QED
  BY <1>1 DEF CdnInv, Unfetched

(* The files that disagree, if it does not compare them.                   *)
LEMMA DriftStays ==
  DriftInv /\ Calm /\ (pc' \in {"accept"} \cup Judged => pc \in {"accept"} \cup Judged) => DriftInv'
<1> SUFFICES ASSUME DriftInv, Calm, pc' \in {"accept"} \cup Judged => pc \in {"accept"} \cup Judged
             PROVE  DriftInv'
  OBVIOUS
<1>1. DriftFindings' = DriftFindings /\ checks' = checks /\ found \subseteq found'
  BY DriftStay DEF Calm
<1> QED
  BY <1>1 DEF DriftInv, Judged

(* A range that is used has a file that is the first to use it.            *)
LEMMA FirstUses ==
  ASSUME files \in Files, InfosInv, NEW net, ZonesUsing(net) # {}
  PROVE  FirstUsing(net) \in ZoneOf
<1>1. ZonesUsing(net) \subseteq ZoneOf
  BY DEF ZonesUsing, Uses, InfosInv
<1>2. \A z \in ZoneOf : z \in Nat
  BY FileParts
<1>3. PICK z \in ZonesUsing(net) : \A y \in ZonesUsing(net) : ~(y < z)
  <2>1. ZonesUsing(net) \in SUBSET Nat
    BY <1>1, <1>2
  <2> QED
    BY <2>1, LeastElement
<1>4. \A y \in ZonesUsing(net) : z <= y
  BY <1>1, <1>2, <1>3
<1> QED
  BY <1>1, <1>3, <1>4 DEF FirstUsing

(* The steps of the command, one by one. No overlap check was asked for.   *)
LEMMA SkipOverlapKeeps == AuditInv /\ SkipOverlap => AuditInv'
<1> SUFFICES ASSUME AuditInv, SkipOverlap PROVE AuditInv'
  OBVIOUS
<1>1. /\ pc = "overlap" /\ pc' = "shadow" /\ "ip-overlap" \notin checks
      /\ UNCHANGED <<files, checks, at, infos, failed, sweeping, cdn, found, text, kept,
                     code, sweepVars>>
  BY DEF SkipOverlap
<1>2. Calm
  BY <1>1 DEF Calm
<1>3. CommandTypeOK'
  <2>1. ~sweeping
    BY <1>1 DEF AuditInv, CommandTypeOK
  <2> QED
    BY <1>1, <2>1 DEF AuditInv, CommandTypeOK, ZoneOf, Unfetched
<1>4. InfosInv' /\ FoundInv'
  BY <1>1, <1>2, InfosStay, FoundStays DEF AuditInv
<1>5. SweepsFile'
  BY <1>1, SweepStays DEF AuditInv
<1>6. OverlapInv'
  BY <1>1 DEF OverlapInv
<1>7. CdnInv' /\ DriftInv'
  BY <1>1, <1>2, CdnStays, DriftStays DEF AuditInv, Unfetched, Judged
<1>8. VerdictInv'
  BY <1>1 DEF AuditInv, VerdictInv, Judged
<1>9. ShadowedNeverMatch'
  BY <1>1, ShadowStays DEF AuditInv
<1> QED
  BY <1>3, <1>4, <1>5, <1>6, <1>7, <1>8, <1>9 DEF AuditInv

(* The entries of the file are sorted, so the sweep may begin.             *)
LEMMA BeginSweepKeeps == AuditInv /\ BeginSweep => AuditInv'
<1> SUFFICES ASSUME AuditInv, BeginSweep PROVE AuditInv'
  OBVIOUS
<1>1. /\ pc = "overlap" /\ pc' = "overlap" /\ ~sweeping /\ sweeping' = TRUE
      /\ UNCHANGED <<files, checks, at, infos, failed, cdn, found, text, kept, code>>
      /\ entries' = Sorted(EntriesOf(at)) /\ pos' = 0 /\ stack' = <<>> /\ hits' = {}
  BY DEF BeginSweep
<1>2. Calm
  BY <1>1 DEF Calm
<1>3. CommandTypeOK'
  <2>1. "ip-overlap" \in checks
    BY DEF BeginSweep
  <2>2. CommandTypeOK /\ ZoneOf' = ZoneOf
    BY <1>1 DEF AuditInv, ZoneOf
  <2> QED
    BY ONLY <1>1, <2>1, <2>2 DEF CommandTypeOK
<1>4. InfosInv' /\ FoundInv'
  BY <1>1, <1>2, InfosStay, FoundStays DEF AuditInv
<1>5. SweepsFile'
  <2>1. EntriesOf(at) \in SUBSET Entry /\ IsFiniteSet(EntriesOf(at))
    BY EntriesTyped DEF AuditInv, CommandTypeOK
  <2>2. entries' \in Seq(Entry) /\ InOrder(entries') /\ Elements(entries') = EntriesOf(at)
    BY <1>1, <2>1, SortedIsInOrder
  <2>3. Begin
    BY <1>1, <2>2 DEF Begin, AuditInv, SweepsFile
  <2>4. SweepInv'
    BY <2>3, BeginInv DEF AuditInv, SweepsFile
  <2>5. EntriesOf(at)' = EntriesOf(at)
    BY <1>1, EntriesStay
  <2>6. Elements(entries)' = Elements(entries')
    BY DEF Elements
  <2> QED
    BY <1>1, <2>2, <2>4, <2>5, <2>6 DEF SweepsFile
<1>6. OverlapInv'
  BY <1>1, <1>2, OverlapStays DEF AuditInv, IsSwept
<1>7. CdnInv' /\ DriftInv'
  BY <1>1, <1>2, CdnStays, DriftStays DEF AuditInv, Unfetched, Judged
<1>8. VerdictInv'
  BY <1>1 DEF AuditInv, VerdictInv, Judged
<1>9. ShadowedNeverMatch'
  BY <1>1, ShadowStays DEF AuditInv
<1> QED
  BY <1>3, <1>4, <1>5, <1>6, <1>7, <1>8, <1>9 DEF AuditInv

(* A step of the sweep.                                                    *)
LEMMA SweepKeeps == AuditInv /\ Sweep => AuditInv'
<1> SUFFICES ASSUME AuditInv, Sweep PROVE AuditInv'
  OBVIOUS
<1>1. /\ pc = "overlap" /\ pc' = "overlap" /\ sweeping /\ sweeping'
      /\ UNCHANGED <<files, checks, at, infos, failed, sweeping, cdn, found, text, kept, code>>
      /\ Pop \/ Visit
  BY DEF Sweep, auditVars
<1>2. Calm
  BY <1>1 DEF Calm
<1>3. CommandTypeOK'
  BY <1>1 DEF AuditInv, CommandTypeOK, ZoneOf
<1>4. InfosInv' /\ FoundInv'
  BY <1>1, <1>2, InfosStay, FoundStays DEF AuditInv
<1>5. SweepsFile'
  <2>1. SweepInv'
    BY <1>1, PopInv, VisitInv DEF AuditInv, SweepsFile
  <2>2. Elements(entries)' = Elements(entries) /\ EntriesOf(at)' = EntriesOf(at)
    BY <1>1, EntriesStay DEF Elements, Pop, Visit
  <2> QED
    BY <1>1, <2>1, <2>2 DEF AuditInv, SweepsFile
<1>6. OverlapInv'
  BY <1>1, <1>2, OverlapStays DEF AuditInv, IsSwept
<1>7. CdnInv' /\ DriftInv'
  BY <1>1, <1>2, CdnStays, DriftStays DEF AuditInv, Unfetched, Judged
<1>8. VerdictInv'
  BY <1>1 DEF AuditInv, VerdictInv, Judged
<1>9. ShadowedNeverMatch'
  BY <1>1, ShadowStays DEF AuditInv
<1> QED
  BY <1>3, <1>4, <1>5, <1>6, <1>7, <1>8, <1>9 DEF AuditInv

(* The hits of the sweep are all the overlaps of the file, either way      *)
(* around.                                                                 *)
LEMMA EndSweepKeeps == AuditInv /\ EndSweep => AuditInv'
<1> SUFFICES ASSUME AuditInv, EndSweep PROVE AuditInv'
  OBVIOUS
<1>1. /\ pc = "overlap" /\ sweeping /\ Swept /\ ~sweeping'
      /\ found' = found \cup {OverlapFinding(h) : h \in hits}
      /\ \/ at < Len(files) /\ at' = at + 1 /\ pc' = "overlap"
         \/ ~(at < Len(files)) /\ at' = 1 /\ pc' = "shadow"
      /\ UNCHANGED <<files, checks, infos, failed, cdn, text, kept, code, sweepVars>>
  BY DEF EndSweep
<1>2. Calm
  BY <1>1 DEF Calm
<1>3. /\ ZoneOf = 1..Len(files) /\ Len(files) \in Nat \ {0} /\ at \in ZoneOf /\ ZoneOf' = ZoneOf
      /\ at \in Nat
  BY <1>1, FileParts DEF AuditInv, CommandTypeOK, ZoneOf
<1>4. CommandTypeOK'
  <2>1. at' \in ZoneOf'
    BY <1>1, <1>3
  <2> QED
    <3>1. pc' \in Unfetched /\ sweeping' = FALSE /\ files' = files /\ failed' = failed /\ code' = code
      BY <1>1 DEF Unfetched
    <3>2. files \in Files /\ failed \subseteq ZoneOf /\ code \in [granular : BOOLEAN, value : -1..2]
      BY DEF AuditInv, CommandTypeOK
    <3> QED
      BY ONLY <1>3, <2>1, <3>1, <3>2 DEF CommandTypeOK, Unfetched
<1>5. \A f \in found' \ found :
        /\ f.severity = "warning" /\ f.zone = at /\ f.check = "ip-overlap"
  BY <1>1 DEF OverlapFinding, Finding
<1>6. InfosInv' /\ FoundInv'
  BY <1>2, <1>3, <1>5, InfosStay, FoundStays DEF AuditInv
<1>7. SweepsFile'
  <2>1. SweepInv' /\ Swept'
    BY <1>1, SweepRests DEF AuditInv, SweepsFile, sweepVars, Swept
  <2> QED
    BY <1>1, <2>1 DEF SweepsFile
<1>8. OverlapInv'
  <2>0. /\ checks' = checks /\ ZoneOf' = ZoneOf /\ \A z : EntriesOf(z)' = EntriesOf(z)
    BY <1>1, <1>3, EntriesStay
  <2> SUFFICES ASSUME "ip-overlap" \in checks, NEW z \in ZoneOf, IsSwept(z)',
                      NEW d \in EntriesOf(z), NEW e \in EntriesOf(z),
                      d.rule # e.rule, Overlap(d.net, e.net)
               PROVE  IsReported(z, d, e, found')
    BY <2>0 DEF OverlapInv
  <2>1. CASE z # at
    <3>1. IsSwept(z)
      BY <1>1, <1>3, <2>1, FileParts DEF IsSwept
    <3> QED
      <4>1. IsReported(z, d, e, found)
        BY <3>1 DEF AuditInv, OverlapInv
      <4> QED
        BY <1>1, <4>1 DEF IsReported
  <2>2. CASE z = at
    <3> DEFINE N == Len(entries)
    <3>1. /\ Elements(entries) = EntriesOf(at) /\ SweepInv
          /\ hits = OverlapsUpTo(N) /\ entries \in Seq(Entry)
      BY <1>1 DEF AuditInv, SweepsFile, SweepInv, SweepTypeOK, HitsSoFar, Swept
    <3>2. DOMAIN entries = 1..N /\ N \in Nat
      BY <3>1
    <3>3. PICK i \in 1..N, j \in 1..N : entries[i] = d /\ entries[j] = e
      BY <2>2, <3>1, <3>2 DEF Elements
    <3>4. i # j
      BY <3>3
    <3>5. Overlap(e.net, d.net)
      BY DEF Overlap
    <3>6. <<i, j>> \in hits \/ <<j, i>> \in hits
      <4>1. i < j \/ j < i
        BY <3>2, <3>4
      <4>2. \A h \in {<<i, j>>, <<j, i>>} : h[2] < h[1] => h \in OverlapsUpTo(N)
        BY <3>3, <3>5 DEF OverlapsUpTo
      <4> QED
        BY <3>1, <4>1, <4>2
    <3>7. PICK h \in hits : h = <<i, j>> \/ h = <<j, i>>
      BY <3>6
    <3>8. OverlapFinding(h) \in found'
      BY <1>1
    <3>9. /\ OverlapFinding(h).check = "ip-overlap" /\ OverlapFinding(h).severity = "warning"
          /\ OverlapFinding(h).zone = at
          /\ OverlapFinding(h).nets = {entries[h[1]].net, entries[h[2]].net}
      BY DEF OverlapFinding, Finding
    <3>10. {entries[h[1]].net, entries[h[2]].net} = {d.net, e.net}
      BY <3>3, <3>7
    <3> QED
      BY <2>2, <3>8, <3>9, <3>10 DEF IsReported
  <2> QED
    BY <2>1, <2>2
<1>9. CdnInv' /\ DriftInv'
  BY <1>1, <1>2, CdnStays, DriftStays DEF AuditInv, Unfetched, Judged
<1>10. VerdictInv'
  BY <1>1 DEF AuditInv, VerdictInv, Judged
<1>11. ShadowedNeverMatch'
  BY <1>1, <1>5, ShadowStays DEF AuditInv
<1> QED
  BY <1>4, <1>6, <1>7, <1>8, <1>9, <1>10, <1>11 DEF AuditInv

(* What ip-shadow reports is covered in the files: the earlier rule blocks *)
(* each range, with ranges of its own or of its lists.                     *)
LEMMA ShadowedIsCovered ==
  ASSUME files \in Files, InfosInv, NEW f \in ShadowFindings
  PROVE  /\ f.severity = "warning" /\ f.zone \in ZoneOf
         /\ \E r \in files[f.zone].rules :
              /\ r.on /\ r.action \in Blocking
              /\ PhaseRank(r.phase) < PhaseRank(f.phase)
              /\ Addresses(f.nets) \subseteq
                   Addresses(r.nets \cup UNION {l.nets : l \in {m \in files[f.zone].lists :
                                                                   m.name \in r.lists}})
<1>1. PICK info \in infos :
        /\ Shadowers(info) # {}
        /\ f.severity = "warning" /\ f.zone = info.zone /\ f.phase = info.phase
        /\ f.nets = info.nets
  BY DEF ShadowFindings, Finding
<1>2. PICK c \in infos : \A net \in info.nets : Covers(c, info, net)
  BY <1>1 DEF Shadowers
<1>3. info.zone \in ZoneOf /\ info.nets \subseteq Nets /\ info.nets # {}
  <2>1. info.zone \in ZoneOf /\ \E crashed : info \in AuditZone(info.zone, crashed)
    BY DEF InfosInv
  <2> QED
    BY <2>1, InfoTyped
<1>4. /\ c.zone = info.zone /\ c.action \in Blocking /\ PhaseRank(c.phase) < PhaseRank(info.phase)
      /\ \A net \in info.nets : \E n \in c.nets : Within(net, n)
  BY <1>2, <1>3 DEF Covers, IsBlocking
<1> DEFINE z == info.zone
<1>5. PICK crashed : c \in AuditZone(z, crashed)
  BY <1>4 DEF InfosInv
<1>6. c.nets \subseteq Nets
  BY <1>3, <1>5, InfoTyped
<1>7. c.action # ""
  BY <1>4, FilesAssumption
<1>8. PICK r \in Extracted(files[z], crashed) : FromRule(c, files[z], r)
  <2>1. \A l : ~FromList(c, l)
    BY <1>7 DEF FromList
  <2> QED
    BY <1>5, <2>1, InfoOrigin
<1>9. /\ r \in files[z].rules /\ r.on /\ r.action = c.action /\ r.phase = c.phase
      /\ c.nets = Resolved(files[z], r)
  BY <1>8 DEF Extracted, FromRule, IsRead
<1> DEFINE all == r.nets \cup UNION {l.nets : l \in {m \in files[z].lists : m.name \in r.lists}}
<1>10. c.nets \subseteq all
  BY <1>9, ResolvedMeans
<1>11. Addresses(info.nets) \subseteq Addresses(all)
  <2> SUFFICES ASSUME NEW x \in Addresses(info.nets) PROVE x \in Addresses(all)
    OBVIOUS
  <2>1. PICK net \in info.nets : x \in net.lo..net.hi
    BY DEF Addresses
  <2>2. PICK n \in c.nets : Within(net, n)
    BY <1>4
  <2>3. net \in Nets /\ n \in Nets /\ n \in all
    BY <1>3, <1>6, <1>10
  <2>4. net.lo \in Nat /\ net.hi \in Nat /\ n.lo \in Nat /\ n.hi \in Nat
    BY <2>3
  <2>5. x \in n.lo..n.hi
    BY ONLY <2>1, <2>2, <2>4 DEF Within
  <2> HIDE DEF all
  <2> QED
    BY <2>3, <2>5 DEF Addresses
<1> HIDE DEF all
<1>12. /\ r \in files[f.zone].rules /\ r.on /\ r.action \in Blocking
       /\ PhaseRank(r.phase) < PhaseRank(f.phase)
       /\ Addresses(f.nets) \subseteq Addresses(all)
  BY <1>1, <1>4, <1>9, <1>11
<1> QED
  BY <1>1, <1>3, <1>12 DEF all

(* The shadow check.                                                       *)
LEMMA ShadowKeeps == AuditInv /\ Shadow => AuditInv'
<1> SUFFICES ASSUME AuditInv, Shadow PROVE AuditInv'
  OBVIOUS
<1>1. /\ pc = "shadow" /\ pc' = IF "cdn-ranges" \in checks THEN "fetch" ELSE "drift"
      /\ found' = found \cup (IF "ip-shadow" \in checks THEN ShadowFindings ELSE {})
      /\ UNCHANGED <<files, checks, at, infos, failed, sweeping, cdn, text, kept, code,
                     sweepVars>>
  BY DEF Shadow
<1>2. Calm /\ ZoneOf' = ZoneOf
  BY <1>1 DEF Calm, ZoneOf
<1>3. CommandTypeOK'
  <2>1. pc' \in Unfetched \cup {"drift"} /\ sweeping' = FALSE
    BY <1>1 DEF AuditInv, CommandTypeOK, Unfetched
  <2>2. /\ files \in Files /\ at \in ZoneOf /\ failed \subseteq ZoneOf
        /\ code \in [granular : BOOLEAN, value : -1..2]
    BY DEF AuditInv, CommandTypeOK
  <2> QED
    BY ONLY <1>1, <1>2, <2>1, <2>2 DEF CommandTypeOK
<1>4. \A f \in found' \ found : f \in ShadowFindings
  BY <1>1
<1>5. files \in Files /\ InfosInv
  BY DEF AuditInv, CommandTypeOK
<1>6. InfosInv' /\ FoundInv'
  BY <1>2, <1>4, <1>5, InfosStay, FoundStays, ShadowedIsCovered DEF AuditInv
<1>7. SweepsFile'
  BY <1>1, SweepStays DEF AuditInv
<1>8. OverlapInv'
  BY <1>1, <1>2, OverlapStays DEF AuditInv, IsSwept
<1>9. CdnInv'
  <2>1. CASE "cdn-ranges" \in checks
    BY <1>1, <1>2, <2>1, CdnStays DEF AuditInv, Unfetched
  <2>2. CASE "cdn-ranges" \notin checks
    BY <1>1, <2>2 DEF CdnInv, Unfetched
  <2> QED
    BY <2>1, <2>2
<1>10. DriftInv'
  BY <1>1 DEF DriftInv, Judged
<1>11. VerdictInv'
  BY <1>1 DEF AuditInv, VerdictInv, Judged
<1>12. ShadowedNeverMatch'
  <2> SUFFICES ASSUME NEW f \in found', f.check = "ip-shadow"
               PROVE  \E r \in files[f.zone].rules :
                        /\ r.on /\ r.action \in Blocking
                        /\ PhaseRank(r.phase) < PhaseRank(f.phase)
                        /\ Addresses(f.nets) \subseteq
                             Addresses(r.nets \cup UNION {l.nets : l \in
                                {m \in files[f.zone].lists : m.name \in r.lists}})
    BY <1>1 DEF ShadowedNeverMatch
  <2>1. CASE f \in found
    BY <2>1 DEF AuditInv, ShadowedNeverMatch
  <2>2. CASE f \in ShadowFindings
    BY <1>5, <2>2, ShadowedIsCovered
  <2> QED
    BY <1>4, <2>1, <2>2
<1> QED
  BY <1>3, <1>6, <1>7, <1>8, <1>9, <1>10, <1>11, <1>12 DEF AuditInv

(* The CDN ranges are fetched.                                             *)
LEMMA FetchKeeps == AuditInv /\ FetchCdnRanges => AuditInv'
<1> SUFFICES ASSUME AuditInv, FetchCdnRanges PROVE AuditInv'
  OBVIOUS
<1>1. /\ pc = "fetch" /\ pc' = "cdn"
      /\ UNCHANGED <<files, checks, at, infos, failed, sweeping, found, text, kept, code,
                     sweepVars>>
  BY DEF FetchCdnRanges
<1>2. Calm /\ ZoneOf' = ZoneOf
  BY <1>1 DEF Calm, ZoneOf
<1>3. CommandTypeOK'
  <2>1. ~sweeping /\ CommandTypeOK
    BY <1>1 DEF AuditInv, CommandTypeOK
  <2> QED
    BY ONLY <1>1, <1>2, <2>1 DEF CommandTypeOK
<1>4. InfosInv' /\ FoundInv'
  BY <1>1, <1>2, InfosStay, FoundStays DEF AuditInv
<1>5. SweepsFile'
  BY <1>1, SweepStays DEF AuditInv
<1>6. OverlapInv'
  BY <1>1, <1>2, OverlapStays DEF AuditInv, IsSwept
<1>7. CdnInv'
  BY <1>1 DEF CdnInv, Unfetched
<1>8. DriftInv' /\ VerdictInv'
  BY <1>1 DEF AuditInv, DriftInv, VerdictInv, Judged
<1>9. ShadowedNeverMatch'
  BY <1>1, ShadowStays DEF AuditInv
<1> QED
  BY <1>3, <1>4, <1>5, <1>6, <1>7, <1>8, <1>9 DEF AuditInv

(* They are compared with what was extracted.                              *)
LEMMA CheckCdnKeeps == AuditInv /\ CheckCdn => AuditInv'
<1> SUFFICES ASSUME AuditInv, CheckCdn PROVE AuditInv'
  OBVIOUS
<1>1. /\ pc = "cdn" /\ pc' = "drift" /\ found' = found \cup CdnFindings \cup StaleFindings
      /\ UNCHANGED <<files, checks, at, infos, failed, sweeping, cdn, text, kept, code,
                     sweepVars>>
  BY DEF CheckCdn
<1>2. Calm /\ ZoneOf' = ZoneOf
  BY <1>1 DEF Calm, ZoneOf
<1>3. CommandTypeOK'
  <2>1. ~sweeping /\ CommandTypeOK
    BY <1>1 DEF AuditInv, CommandTypeOK
  <2> QED
    BY ONLY <1>1, <1>2, <2>1 DEF CommandTypeOK
<1>4. \A f \in found' \ found :
        /\ f.suppressible => f.severity = "warning"
        /\ f.zone \in ZoneOf \cup {NoFile} /\ f.check = "cdn-ranges"
  <2>1. ASSUME NEW f \in CdnFindings
        PROVE  /\ f.suppressible => f.severity = "warning"
               /\ f.zone \in ZoneOf /\ f.check = "cdn-ranges"
    <3>1. PICK info \in infos : \E net \in info.nets : f = CdnFinding(info, net)
      BY DEF CdnFindings
    <3>2. info.zone \in ZoneOf
      BY DEF AuditInv, InfosInv
    <3>3. PICK net \in info.nets : f = CdnFinding(info, net)
      BY <3>1
    <3>4. \/ CdnFinding(info, net).severity = "warning"
          \/ ~CdnFinding(info, net).suppressible
      BY DEF CdnFinding, Finding
    <3>5. CdnFinding(info, net).zone = info.zone /\ CdnFinding(info, net).check = "cdn-ranges"
      BY DEF CdnFinding, Finding
    <3> QED
      BY ONLY <3>2, <3>3, <3>4, <3>5
  <2>2. ASSUME NEW f \in StaleFindings
        PROVE  f.severity = "warning" /\ f.zone = NoFile /\ f.check = "cdn-ranges"
    <3>1. f = StaleFinding
      BY <2>2 DEF StaleFindings
    <3>2. /\ StaleFinding.severity = "warning" /\ StaleFinding.zone = NoFile
          /\ StaleFinding.check = "cdn-ranges"
      BY DEF StaleFinding, Finding
    <3> QED
      BY ONLY <3>1, <3>2
  <2> QED
    BY <1>1, <2>1, <2>2
<1>5. InfosInv' /\ FoundInv'
  BY <1>2, <1>4, InfosStay, FoundStays DEF AuditInv
<1>6. SweepsFile'
  BY <1>1, SweepStays DEF AuditInv
<1>7. OverlapInv'
  BY <1>1, <1>2, OverlapStays DEF AuditInv, IsSwept
<1>8. CdnInv'
  <2>1. CdnFindings' = CdnFindings /\ StaleFindings' = StaleFindings
    BY <1>1, CdnStay
  <2> QED
    BY <1>1, <2>1 DEF CdnInv, Unfetched
<1>9. DriftInv' /\ VerdictInv'
  BY <1>1 DEF AuditInv, DriftInv, VerdictInv, Judged
<1>10. ShadowedNeverMatch'
  BY <1>1, <1>4, ShadowStays DEF AuditInv
<1> QED
  BY <1>3, <1>5, <1>6, <1>7, <1>8, <1>9, <1>10 DEF AuditInv

(* The files are compared with each other.                                 *)
LEMMA CheckDriftKeeps == AuditInv /\ CheckDrift => AuditInv'
<1> SUFFICES ASSUME AuditInv, CheckDrift PROVE AuditInv'
  OBVIOUS
<1>1. /\ pc = "drift" /\ pc' = "accept"
      /\ found' = found \cup (IF "zone-drift" \in checks THEN DriftFindings ELSE {})
      /\ UNCHANGED <<files, checks, at, infos, failed, sweeping, cdn, text, kept, code,
                     sweepVars>>
  BY DEF CheckDrift
<1>2. Calm /\ ZoneOf' = ZoneOf
  BY <1>1 DEF Calm, ZoneOf
<1>3. CommandTypeOK'
  <2>1. ~sweeping /\ CommandTypeOK
    BY <1>1 DEF AuditInv, CommandTypeOK
  <2> QED
    BY ONLY <1>1, <1>2, <2>1 DEF CommandTypeOK
<1>4. \A f \in found' \ found :
        f.severity = "warning" /\ f.zone \in ZoneOf /\ f.check = "zone-drift"
  <2> SUFFICES ASSUME NEW f \in DriftFindings
               PROVE  f.severity = "warning" /\ f.zone \in ZoneOf /\ f.check = "zone-drift"
    BY <1>1
  <2> DEFINE F(net) == Finding("zone-drift", "warning", FirstUsing(net), "", <<>>, {net}, TRUE)
  <2>0. PICK net \in Nets : Drifts(net) /\ f = F(net)
    BY DEF DriftFindings
  <2>1. Drifts(net) /\ f.severity = "warning" /\ f.zone = FirstUsing(net) /\ f.check = "zone-drift"
    BY <2>0 DEF Finding
  <2>2. ZonesUsing(net) # {}
    BY <2>1 DEF Drifts
  <2> QED
    BY <2>1, <2>2, FirstUses DEF AuditInv, CommandTypeOK
<1>5. InfosInv' /\ FoundInv'
  BY <1>2, <1>4, InfosStay, FoundStays DEF AuditInv
<1>6. SweepsFile'
  BY <1>1, SweepStays DEF AuditInv
<1>7. OverlapInv'
  BY <1>1, <1>2, OverlapStays DEF AuditInv, IsSwept
<1>8. CdnInv'
  BY <1>1, <1>2, CdnStays DEF AuditInv, Unfetched
<1>9. DriftInv'
  <2>1. DriftFindings' = DriftFindings
    BY <1>1, DriftStay
  <2> QED
    BY <1>1, <2>1 DEF DriftInv
<1>10. VerdictInv'
  BY <1>1 DEF AuditInv, VerdictInv, Judged
<1>11. ShadowedNeverMatch'
  BY <1>1, <1>4, ShadowStays DEF AuditInv
<1> QED
  BY <1>3, <1>5, <1>6, <1>7, <1>8, <1>9, <1>10, <1>11 DEF AuditInv

(* Whether the comments waive a finding depends on what was extracted      *)
(* only.                                                                   *)
LEMMA AcceptedStays ==
  ASSUME infos' = infos PROVE \A f, texts : IsAccepted(f, texts)' <=> IsAccepted(f, texts)
BY DEF IsAccepted, AcceptedIn, AnchorsOf, RuleLists

(* The comments waive findings.                                            *)
LEMMA AcceptKeeps == AuditInv /\ Accept => AuditInv'
<1> SUFFICES ASSUME AuditInv, Accept PROVE AuditInv'
  OBVIOUS
<1>1. /\ pc = "accept" /\ pc' = "exit" /\ text' \in Texts
      /\ kept' = {f \in found : ~IsAccepted(f, text')}
      /\ UNCHANGED <<files, checks, at, infos, failed, sweeping, cdn, found, code, sweepVars>>
  BY DEF Accept
<1>2. Calm /\ ZoneOf' = ZoneOf
  BY <1>1 DEF Calm, ZoneOf
<1>3. CommandTypeOK'
  <2>1. ~sweeping /\ CommandTypeOK
    BY <1>1 DEF AuditInv, CommandTypeOK
  <2> QED
    BY ONLY <1>1, <1>2, <2>1 DEF CommandTypeOK, Judged
<1>4. InfosInv' /\ FoundInv'
  BY <1>1, <1>2, InfosStay, FoundStays DEF AuditInv
<1>5. SweepsFile'
  BY <1>1, SweepStays DEF AuditInv
<1>6. OverlapInv'
  BY <1>1, <1>2, OverlapStays DEF AuditInv, IsSwept
<1>7. CdnInv' /\ DriftInv'
  BY <1>1, <1>2, CdnStays, DriftStays DEF AuditInv, Unfetched, Judged
<1>8. VerdictInv'
  <2>1. \A f : IsAccepted(f, text)' <=> IsAccepted(f, text')
    BY <1>1, AcceptedStays
  <2> QED
    BY <1>1, <2>1 DEF VerdictInv, Judged
<1>9. ShadowedNeverMatch'
  BY <1>1, ShadowStays DEF AuditInv
<1> QED
  BY <1>3, <1>4, <1>5, <1>6, <1>7, <1>8, <1>9 DEF AuditInv

(* The exit code is taken from what is left.                               *)
LEMMA ExitKeeps == AuditInv /\ Exit => AuditInv'
<1> SUFFICES ASSUME AuditInv, Exit PROVE AuditInv'
  OBVIOUS
<1>1. PICK written \in BOOLEAN :
        code' = [code EXCEPT !.value = ExitCode(written, code.granular)]
  BY DEF Exit
<1>2. /\ pc = "exit" /\ pc' = "done"
      /\ UNCHANGED <<files, checks, at, infos, failed, sweeping, cdn, found, text, kept,
                     sweepVars>>
  BY DEF Exit
<1>3. Calm /\ ZoneOf' = ZoneOf
  BY <1>2 DEF Calm, ZoneOf
<1>4. /\ ExitCode(written, code.granular) \in {0, 1, 2}
      /\ Has("error") => ExitCode(written, code.granular) = 1
      /\ Has("warning") /\ code.granular => ExitCode(written, code.granular) # 0
  BY DEF ExitCode
<1>5. /\ code' \in [granular : BOOLEAN, value : -1..2] /\ code'.granular = code.granular
      /\ code'.value = ExitCode(written, code.granular)
  <2>1. code \in [granular : BOOLEAN, value : -1..2]
    BY DEF AuditInv, CommandTypeOK
  <2> QED
    BY ONLY <1>1, <1>4, <2>1
<1>6. CommandTypeOK'
  <2>1. ~sweeping /\ CommandTypeOK
    BY <1>2 DEF AuditInv, CommandTypeOK
  <2> QED
    BY ONLY <1>2, <1>3, <1>5, <2>1 DEF CommandTypeOK, Judged
<1>7. InfosInv' /\ FoundInv'
  BY <1>2, <1>3, InfosStay, FoundStays DEF AuditInv
<1>8. SweepsFile'
  BY <1>2, SweepStays DEF AuditInv
<1>9. OverlapInv'
  BY <1>2, <1>3, OverlapStays DEF AuditInv, IsSwept
<1>10. CdnInv' /\ DriftInv'
  BY <1>2, <1>3, CdnStays, DriftStays DEF AuditInv, Unfetched, Judged
<1>11. VerdictInv'
  <2>1. \A f : IsAccepted(f, text)' <=> IsAccepted(f, text)
    BY <1>2, AcceptedStays
  <2>2. \A s : Has(s)' <=> Has(s)
    BY <1>2 DEF Has
  <2>3. kept = {f \in found : ~IsAccepted(f, text)} /\ (text \in Texts \/ found = {})
    BY <1>2 DEF AuditInv, VerdictInv, Judged
  <2> QED
    BY <1>2, <1>4, <1>5, <2>1, <2>2, <2>3 DEF VerdictInv, Judged
<1>12. ShadowedNeverMatch'
  BY <1>2, ShadowStays DEF AuditInv
<1> QED
  BY <1>6, <1>7, <1>8, <1>9, <1>10, <1>11, <1>12 DEF AuditInv

(* A file is extracted, and all of it or a crash is remembered; after the  *)
(* last file an audit that extracted nothing has nothing to find.          *)
LEMMA ExtractKeeps == AuditInv /\ Extract => AuditInv'
<1> SUFFICES ASSUME AuditInv, Extract PROVE AuditInv'
  OBVIOUS
<1>1. PICK crashed \in {c \in SUBSET {Section(rule) : rule \in files[at].rules} :
                          Cardinality(c) <= MaxCrashes} :
        /\ infos' = infos \cup AuditZone(at, crashed)
        /\ failed' = IF crashed = {} THEN failed ELSE failed \cup {at}
        /\ found' = IF crashed = {} THEN found ELSE found \cup {CrashFinding(at)}
  BY DEF Extract
<1>2. /\ pc = "extract"
      /\ UNCHANGED <<files, checks, sweeping, cdn, text, kept, sweepVars>>
      /\ \/ at < Len(files) /\ at' = at + 1 /\ pc' = "extract" /\ code' = code
         \/ /\ ~(at < Len(files)) /\ at' = 1
            /\ \/ infos' # {} /\ pc' = "overlap" /\ code' = code
               \/ infos' = {} /\ failed' # {} /\ pc' = "accept" /\ code' = code
               \/ /\ infos' = {} /\ failed' = {} /\ pc' = "done"
                  /\ code' = [code EXCEPT !.value = 0]
  BY DEF Extract
<1>3. /\ ZoneOf = 1..Len(files) /\ Len(files) \in Nat \ {0} /\ at \in ZoneOf /\ at \in Nat
      /\ ZoneOf' = ZoneOf
  BY <1>2, FileParts DEF AuditInv, CommandTypeOK, ZoneOf
<1>4. CommandTypeOK'
  <2>1. at' \in ZoneOf
    BY ONLY <1>2, <1>3
  <2>2. code' \in [granular : BOOLEAN, value : -1..2]
    <3>1. code \in [granular : BOOLEAN, value : -1..2] /\ 0 \in -1..2
      BY DEF AuditInv, CommandTypeOK
    <3> QED
      BY ONLY <1>2, <3>1
  <2>3. files' \in Files /\ failed' \subseteq ZoneOf /\ sweeping' = FALSE
    BY <1>1, <1>2, <1>3 DEF AuditInv, CommandTypeOK
  <2>4. pc' \in {"extract", "overlap", "accept", "done"}
    BY ONLY <1>2
  <2> QED
    BY ONLY <1>3, <2>1, <2>2, <2>3, <2>4 DEF CommandTypeOK, Unfetched, Judged
<1>5. \A z \in ZoneOf : IsPast(z)' <=> IsPast(z) \/ z = at
  <2> TAKE z \in ZoneOf
  <2>1. z \in Int /\ z <= Len(files)
    BY <1>3
  <2>2. IsPast(z) <=> z < at
    BY <1>2 DEF IsPast
  <2>3. IsPast(z)' <=> (pc' = "extract" => z < at')
    BY DEF IsPast
  <2> QED
    BY ONLY <1>2, <1>3, <2>1, <2>2, <2>3
<1>6. ~IsPast(at)
  BY <1>2, <1>3 DEF IsPast
<1>7. InfosInv'
  <2>1. \A z, c : AuditZone(z, c)' = AuditZone(z, c)
    BY <1>2, ZoneStays
  <2>2. \A i \in AuditZone(at, crashed) : i.zone = at
    BY InfoOrigin
  <2>3. ASSUME NEW i \in infos'
        PROVE  /\ i.zone \in ZoneOf /\ (\E c : i \in AuditZone(i.zone, c))
               /\ IsPast(i.zone)'
    <3>1. CASE i \in infos
      BY <1>5, <3>1 DEF AuditInv, InfosInv
    <3>2. CASE i \in AuditZone(at, crashed)
      BY <1>3, <1>5, <2>2, <3>2
    <3> QED
      BY <1>1, <3>1, <3>2
  <2>4. ASSUME NEW z \in ZoneOf, IsPast(z)', z \notin failed'
        PROVE  /\ AuditZone(z, {}) \subseteq infos'
               /\ \A i \in infos' : i.zone = z => i \in AuditZone(z, {})
    <3>1. CASE z = at
      <4>1. crashed = {} /\ infos' = infos \cup AuditZone(at, {})
        BY <1>1, <2>4, <3>1
      <4>2. \A i \in infos : i.zone # at
        BY <1>6 DEF AuditInv, InfosInv
      <4> QED
        BY <3>1, <4>1, <4>2
    <3>2. CASE z # at
      <4>1. IsPast(z) /\ z \notin failed
        BY <1>1, <1>5, <2>4, <3>2
      <4>2. /\ AuditZone(z, {}) \subseteq infos
            /\ \A i \in infos : i.zone = z => i \in AuditZone(z, {})
        BY <4>1 DEF AuditInv, InfosInv
      <4> QED
        BY <1>1, <2>2, <3>2, <4>2
    <3> QED
      BY <3>1, <3>2
  <2> QED
    BY <1>3, <2>1, <2>3, <2>4 DEF InfosInv
<1>8. FoundInv'
  <2>1. \A z : CrashFinding(z)' = CrashFinding(z)
    BY DEF CrashFinding
  <2>2. ~CrashFinding(at).suppressible /\ CrashFinding(at).zone = at
    BY DEF CrashFinding, Finding
  <2>3. FoundInv /\ failed \subseteq ZoneOf
    BY DEF AuditInv, CommandTypeOK
  <2>4. \A z \in failed' : IsPast(z)' /\ CrashFinding(z) \in found'
    BY <1>1, <1>3, <1>5, <2>3 DEF FoundInv
  <2>5. \A f \in found' :
          (f.suppressible => f.severity = "warning") /\ f.zone \in ZoneOf \cup {NoFile}
    BY <1>1, <1>3, <2>2, <2>3 DEF FoundInv
  <2>6. failed' = {} => found' = {}
    BY <1>1, <1>2, <2>3 DEF FoundInv
  <2> QED
    BY <1>3, <2>1, <2>4, <2>5, <2>6 DEF FoundInv
<1>9. SweepsFile'
  <2>1. ~sweeping
    BY <1>2 DEF AuditInv, CommandTypeOK
  <2>2. SweepInv' /\ Swept'
    BY <1>2, <2>1, SweepRests DEF AuditInv, SweepsFile, sweepVars, Swept
  <2> QED
    BY <1>2, <2>1, <2>2 DEF SweepsFile
<1>10. infos' = {} => \A z : EntriesOf(z)' = {}
  BY DEF EntriesOf
<1>11. OverlapInv'
  <2>1. \A z \in ZoneOf : IsSwept(z)' => infos' = {}
    <3> SUFFICES ASSUME NEW z \in ZoneOf, IsSwept(z)' PROVE infos' = {}
      OBVIOUS
    <3>1. ~(z < 1)
      BY <1>3
    <3>2. pc' # "extract" /\ (pc' = "overlap" => z < at')
      BY DEF IsSwept
    <3> QED
      BY ONLY <1>2, <3>1, <3>2
  <2> QED
    BY <1>3, <1>10, <2>1 DEF OverlapInv
<1>12. CdnInv'
  <2>1. cdn' = [ranges |-> {}, stale |-> FALSE]
    BY <1>2 DEF AuditInv, CdnInv, Unfetched
  <2>2. infos' = {} => CdnFindings' = {}
    BY DEF CdnFindings
  <2>3. StaleFindings' = {}
    BY <2>1 DEF StaleFindings
  <2>4. pc' \in Unfetched \/ infos' = {}
    BY <1>2 DEF Unfetched
  <2> QED
    BY <2>1, <2>2, <2>3, <2>4 DEF CdnInv
<1>13. DriftInv'
  <2>1. infos' = {} => DriftFindings' = {}
    BY DEF DriftFindings, Drifts, ZonesUsing, Uses
  <2> QED
    BY <1>2, <2>1 DEF DriftInv, Judged
<1>14. VerdictInv'
  <2>1. kept' = {}
    BY <1>2 DEF AuditInv, VerdictInv, Judged
  <2>2. CASE pc' # "done"
    BY <1>2, <2>1, <2>2 DEF VerdictInv, Judged
  <2>3. CASE pc' = "done"
    <3>1. failed' = {}
      BY <1>2, <2>3
    <3>2. found' = {}
      BY <1>1, <1>2, <3>1 DEF AuditInv, FoundInv
    <3>3. ~Has("error")' /\ ~Has("warning")'
      BY <2>1 DEF Has
    <3> QED
      BY <2>1, <2>3, <3>2, <3>3 DEF VerdictInv, Judged
  <2> QED
    BY <2>2, <2>3
<1>15. ShadowedNeverMatch'
  <2>1. CrashFinding(at).check # "ip-shadow"
    BY DEF CrashFinding, Finding
  <2> QED
    BY <1>1, <1>2, <2>1, ShadowStays DEF AuditInv
<1> QED
  BY <1>4, <1>7, <1>8, <1>9, <1>11, <1>12, <1>13, <1>14, <1>15 DEF AuditInv

(* The command begins with nothing extracted and nothing found.            *)
LEMMA InitHolds == Init => AuditInv
<1> SUFFICES ASSUME Init PROVE AuditInv
  OBVIOUS
<1>1. /\ SweepInit /\ files \in Files /\ pc = "extract" /\ at = 1 /\ sweeping = FALSE
      /\ infos = {} /\ failed = {} /\ found = {} /\ kept = {}
      /\ cdn = [ranges |-> {}, stale |-> FALSE]
      /\ code \in [granular : BOOLEAN, value : {Undecided}]
  BY DEF Init
<1>3. ZoneOf = 1..Len(files) /\ Len(files) \in Nat \ {0}
  <2>1. DOMAIN files = 1..Len(files) /\ Len(files) \in Nat \ {0}
    BY ONLY FilesAssumption, <1>1
  <2> QED
    BY <2>1 DEF ZoneOf
<1>4. CommandTypeOK
  <2>1. code \in [granular : BOOLEAN, value : -1..2]
    BY <1>1 DEF Undecided
  <2>2. at \in ZoneOf
    BY ONLY <1>1, <1>3
  <2> QED
    BY ONLY <1>1, <2>1, <2>2 DEF CommandTypeOK, Unfetched
<1>5. InfosInv
  <2>1. \A z \in ZoneOf : ~IsPast(z)
    BY ONLY <1>1, <1>3 DEF IsPast
  <2> QED
    BY <1>1, <2>1 DEF InfosInv
<1>6. FoundInv /\ ShadowedNeverMatch
  BY <1>1 DEF FoundInv, ShadowedNeverMatch
<1>7. SweepsFile
  <2>1. SweepInv /\ Swept
    BY <1>1, SweepInitInv DEF SweepInit, Swept
  <2> QED
    BY <1>1, <2>1 DEF SweepsFile
<1>8. OverlapInv /\ CdnInv /\ DriftInv /\ VerdictInv
  BY <1>1 DEF OverlapInv, IsSwept, CdnInv, DriftInv, VerdictInv, Unfetched, Judged
<1> QED
  BY <1>4, <1>5, <1>6, <1>7, <1>8 DEF AuditInv

(* Nothing happens.                                                        *)
LEMMA RestKeeps == AuditInv /\ UNCHANGED vars => AuditInv'
<1> SUFFICES ASSUME AuditInv, UNCHANGED vars PROVE AuditInv'
  OBVIOUS
<1>1. UNCHANGED <<files, checks, pc, at, infos, failed, sweeping, cdn, found, text, kept, code,
                  sweepVars>>
  BY DEF vars, auditVars
<1>2. CommandTypeOK'
  BY <1>1 DEF AuditInv, CommandTypeOK, ZoneOf
<1>3. /\ ZoneOf' = ZoneOf /\ \A z : IsPast(z)' <=> IsPast(z)
      /\ \A z : IsSwept(z)' <=> IsSwept(z)
  BY <1>1 DEF ZoneOf, IsPast, IsSwept
<1>4. InfosInv'
  <2>1. \A z, c : AuditZone(z, c)' = AuditZone(z, c)
    BY <1>1, ZoneStays
  <2> QED
    BY <1>1, <1>3, <2>1 DEF AuditInv, InfosInv
<1>5. FoundInv'
  <2>1. \A z : CrashFinding(z)' = CrashFinding(z)
    BY DEF CrashFinding
  <2> QED
    BY <1>1, <1>3, <2>1 DEF AuditInv, FoundInv
<1>6. SweepsFile'
  BY <1>1, SweepStays DEF AuditInv
<1>7. OverlapInv'
  <2>1. \A z : EntriesOf(z)' = EntriesOf(z)
    BY <1>1, EntriesStay
  <2> QED
    BY <1>1, <1>3, <2>1 DEF AuditInv, OverlapInv
<1>8. CdnInv' /\ DriftInv'
  <2>1. /\ CdnFindings' = CdnFindings /\ StaleFindings' = StaleFindings
        /\ DriftFindings' = DriftFindings
    BY <1>1, CdnStay, DriftStay
  <2> QED
    BY <1>1, <2>1 DEF AuditInv, CdnInv, DriftInv
<1>9. VerdictInv'
  <2>1. \A f : IsAccepted(f, text)' <=> IsAccepted(f, text)
    BY <1>1, AcceptedStays
  <2>2. \A s : Has(s)' <=> Has(s)
    BY <1>1 DEF Has
  <2> QED
    BY <1>1, <2>1, <2>2 DEF AuditInv, VerdictInv
<1>10. ShadowedNeverMatch'
  BY <1>1, ShadowStays DEF AuditInv
<1> QED
  BY <1>2, <1>4, <1>5, <1>6, <1>7, <1>8, <1>9, <1>10 DEF AuditInv

(* AuditInv holds in every state of every audit: what cmd_audit has found  *)
(* when it is at a place accounts for all the files it has been through.   *)
THEOREM AuditInvariant == Spec => []AuditInv
BY InitHolds, RestKeeps, ExtractKeeps, SkipOverlapKeeps, BeginSweepKeeps, SweepKeeps,
   EndSweepKeeps, ShadowKeeps, FetchKeeps, CheckCdnKeeps, CheckDriftKeeps, AcceptKeeps,
   ExitKeeps, PTL DEF Spec, Next

(* The command uses the sweep as it is meant: check_ip_overlap sweeps the  *)
(* entries of one file after the other, each time sorted, and nothing else *)
(* touches them.                                                           *)
THEOREM CommandSweeps == Spec => KeepsSweep
<1>1. Init => SweepInit
  BY DEF Init
<1>2. AuditInv /\ [Next]_vars => [SweepNext]_sweepVars
  <2> SUFFICES ASSUME AuditInv, [Next]_vars PROVE [SweepNext]_sweepVars
    OBVIOUS
  <2>1. CASE BeginSweep
    <3>1. EntriesOf(at) \in SUBSET Entry /\ IsFiniteSet(EntriesOf(at))
      BY EntriesTyped DEF AuditInv, CommandTypeOK
    <3>2. entries' \in Seq(Entry) /\ InOrder(entries')
      BY <2>1, <3>1, SortedIsInOrder DEF BeginSweep
    <3>3. Begin
      BY <2>1, <3>2 DEF Begin, BeginSweep, AuditInv, SweepsFile
    <3> QED
      BY <3>3 DEF SweepNext
  <2>2. CASE Sweep
    BY <2>2 DEF Sweep, SweepNext
  <2>3. CASE Next /\ ~BeginSweep /\ ~Sweep
    <3>1. UNCHANGED sweepVars
      BY <2>3 DEF Next, Extract, SkipOverlap, EndSweep, Shadow, FetchCdnRanges, CheckCdn,
                  CheckDrift, Accept, Exit
    <3> QED
      BY <3>1
  <2>4. CASE UNCHANGED vars
    BY <2>4 DEF vars
  <2> QED
    BY <2>1, <2>2, <2>3, <2>4
<1> QED
  BY <1>1, <1>2, AuditInvariant, PTL DEF Spec, KeepsSweep, SweepSpec

(* So in every audit the sweep of a file ends with every overlap of it,    *)
(* whatever its rules and lists (check_ip_overlap).                        *)
THEOREM CommandFindsAll == Spec => []SweepFindsAll
<1>1. AuditInv => SweepFindsAll
  BY DEF AuditInv, SweepsFile, SweepInv, HitsSoFar, SweepFindsAll, Swept
<1> QED
  BY <1>1, AuditInvariant, PTL

(* An audit in which an extension crashed on a file exits with 1, whatever *)
(* was asked for, found or accepted (cmd_audit).                           *)
THEOREM CrashIsRed == Spec => []NeverGreenAfterCrash
<1>1. AuditInv => NeverGreenAfterCrash
  <2> SUFFICES ASSUME AuditInv, pc = "done", failed # {} PROVE code.value = 1
    BY DEF NeverGreenAfterCrash
  <2>1. PICK z \in failed : CrashFinding(z) \in found
    BY DEF AuditInv, FoundInv
  <2>2. ~CrashFinding(z).suppressible /\ CrashFinding(z).severity = "error"
    BY DEF CrashFinding, Finding
  <2>3. kept = {f \in found : ~IsAccepted(f, text)}
    BY DEF AuditInv, VerdictInv, Judged
  <2>4. CrashFinding(z) \in kept
    BY <2>1, <2>2, <2>3 DEF IsAccepted
  <2>5. Has("error")
    BY <2>2, <2>4 DEF Has
  <2> QED
    BY <2>5 DEF AuditInv, VerdictInv, Judged
<1> QED
  BY <1>1, AuditInvariant, PTL

(* A rule ip-shadow reports never matches: one earlier blocking rule takes *)
(* all the addresses it has (check_ip_shadow).                             *)
THEOREM ShadowedIsDead == Spec => []ShadowedNeverMatch
<1>1. AuditInv => ShadowedNeverMatch
  BY DEF AuditInv
<1> QED
  BY <1>1, AuditInvariant, PTL

(* What stands under a file no extension crashed on.                       *)
LEMMA WholeFileExtracted ==
  ASSUME AuditInv, NEW z \in ZoneOf, ExtractedAll(z)
  PROVE  /\ \A i : i \in infos /\ i.zone = z <=> i \in AuditZone(z, {})
         /\ \A r : r \in Extracted(files[z], {}) <=> r \in files[z].rules /\ IsRead(files[z], r)
<1>1. IsPast(z) /\ z \notin failed
  BY DEF ExtractedAll, IsPast
<1>2. \A i \in AuditZone(z, {}) : i.zone = z
  BY InfoOrigin
<1>3. /\ AuditZone(z, {}) \subseteq infos
      /\ \A i \in infos : i.zone = z => i \in AuditZone(z, {})
  BY <1>1 DEF AuditInv, InfosInv
<1> QED
  BY <1>2, <1>3 DEF Extracted

(* A rule's ref is no list's.                                              *)
LEMMA RefsDiffer ==
  /\ \A rule, ns, name : RuleRef(rule) # ListRef(ns, name)
  /\ \A n, m, a, b : ListRef(n, a) = ListRef(m, b) => a = b
<1>1. ASSUME NEW rule, NEW ns, NEW name PROVE RuleRef(rule) # ListRef(ns, name)
  <2>1. Len(ListRef(ns, name)) = 3
    BY DEF ListRef
  <2>2. Len(RuleRef(rule)) \in {1, 2}
    BY DEF RuleRef
  <2> QED
    BY <2>1, <2>2
<1>2. ASSUME NEW n, NEW m, NEW a, NEW b, ListRef(n, a) = ListRef(m, b) PROVE a = b
  <2>1. ListRef(n, a)[3] = a /\ ListRef(m, b)[3] = b
    BY DEF ListRef
  <2> QED
    BY <1>2, <2>1
<1> QED
  BY <1>1, <1>2

(* Extraction loses no address an enabled rule matches, invents no rule,   *)
(* and a list stands on its own exactly when no enabled rule names it      *)
(* (audit_zone_rules).                                                     *)
THEOREM NoAddressIsLost == Spec => []EveryAddressIsAudited
<1>1. ASSUME AuditInv, NEW z \in ZoneOf, ExtractedAll(z)
      PROVE  LET file == files[z]
                 visible == {r \in file.rules : r.on /\ (r.ruleset = "" \/ ~file.several)}
                 ofZone == {i \in infos : i.zone = z}
             IN  /\ \A r \in visible, n \in Nets :
                      (n \in r.nets \/ \E l \in file.lists : l.name \in r.lists /\ n \in l.nets)
                        => \E i \in ofZone :
                             i.ref = RuleRef(r) /\ i.phase = r.phase /\ n \in i.nets
                 /\ \A l \in file.lists : \A n \in l.nets :
                      (\E i \in ofZone : i.ref = ListRef(l.ns, l.name) /\ n \in i.nets)
                        <=> \A r \in visible : l.name \notin r.lists \cup r.negated
                 /\ \A i \in ofZone :
                      i.phase # "lists" => \E r \in visible : RuleRef(r) = i.ref
  <2> DEFINE file == files[z]
             visible == {r \in file.rules : r.on /\ (r.ruleset = "" \/ ~file.several)}
             ofZone == {i \in infos : i.zone = z}
             rules == Extracted(file, {})
  <2>1. /\ \A i : i \in ofZone <=> i \in AuditZone(z, {})
        /\ \A r : r \in rules <=> r \in visible
    BY <1>1, WholeFileExtracted DEF IsRead
  <2>2. ASSUME NEW r \in visible, NEW n \in Nets,
               n \in r.nets \/ \E l \in file.lists : l.name \in r.lists /\ n \in l.nets
        PROVE  \E i \in ofZone : i.ref = RuleRef(r) /\ i.phase = r.phase /\ n \in i.nets
    <3>1. n \in Resolved(file, r) /\ r \in rules
      BY <2>1, <2>2, ResolvedMeans
    <3>2. PICK i \in AuditZone(z, {}) : FromRule(i, file, r)
      BY <3>1, RuleIsExtracted
    <3> QED
      BY <2>1, <3>1, <3>2 DEF FromRule
  <2>3. ASSUME NEW l \in file.lists, NEW n \in l.nets
        PROVE  (\E i \in ofZone : i.ref = ListRef(l.ns, l.name) /\ n \in i.nets)
                 <=> \A r \in visible : l.name \notin r.lists \cup r.negated
    <3>1. ASSUME NEW i \in ofZone, i.ref = ListRef(l.ns, l.name)
          PROVE  \A r \in visible : l.name \notin r.lists \cup r.negated
      <4>1. i \in AuditZone(z, {})
        BY <2>1
      <4>2. \A r : ~FromRule(i, file, r)
        BY <3>1, RefsDiffer DEF FromRule
      <4>3. PICK m \in file.lists \ Referenced(file, rules) : FromList(i, m)
        BY <4>1, <4>2, InfoOrigin
      <4>4. m.name = l.name
        BY <3>1, <4>3, RefsDiffer DEF FromList
      <4>5. \A r \in rules : m.name \notin r.lists \cup r.negated
        BY <4>3, ReferencedMeans
      <4> QED
        BY <2>1, <4>4, <4>5
    <3>2. ASSUME \A r \in visible : l.name \notin r.lists \cup r.negated
          PROVE  \E i \in ofZone : i.ref = ListRef(l.ns, l.name) /\ n \in i.nets
      <4>1. l \in file.lists \ Referenced(file, rules)
        BY <2>1, <3>2, ReferencedMeans
      <4>2. PICK i \in AuditZone(z, {}) : FromList(i, l)
        BY <4>1, ListIsExtracted
      <4> QED
        BY <2>1, <4>2 DEF FromList
    <3> QED
      BY <3>1, <3>2
  <2>4. ASSUME NEW i \in ofZone, i.phase # "lists"
        PROVE  \E r \in visible : RuleRef(r) = i.ref
    <3>1. \A l : ~FromList(i, l)
      BY <2>4 DEF FromList
    <3>2. PICK r \in rules : FromRule(i, file, r)
      BY <2>1, <3>1, InfoOrigin
    <3> QED
      BY <2>1, <3>2 DEF FromRule
  <2> QED
    BY <2>2, <2>3, <2>4
<1>2. AuditInv => EveryAddressIsAudited
  BY <1>1 DEF EveryAddressIsAudited
<1> QED
  BY <1>2, AuditInvariant, PTL

(* A directive the scan lets reach an anchor of a finding is one the       *)
(* documentation says reaches it.                                          *)
LEMMA ReachesIsDocumented ==
  ASSUME NEW lines, NEW check, NEW anchors, NEW anchor \in anchors \cup {WholeFile},
         \A i \in DOMAIN lines : WholeFile \notin {lines[i].ref, lines[i].list}
  PROVE  /\ Reaches(lines, anchor, check, FALSE)
              => ReachedIn(lines, check, anchors, IsRuleLine)
         /\ Reaches(lines, anchor, check, TRUE)
              => ReachedIn(lines, check, anchors, IsListLine)
<1>1. ASSUME NEW i \in DOMAIN lines, NEW j \in DOMAIN lines, NEW lists \in BOOLEAN,
             IsTaker(lines[j], lists), anchor = TakenFor(lines[j])
      PROVE  NamesAt(lines[j], anchors)
  <2>1. TakenFor(lines[j]) # WholeFile
    BY DEF TakenFor
  <2> QED
    BY <1>1, <2>1 DEF TakenFor, NamesAt
<1>2. Reaches(lines, anchor, check, FALSE) => ReachedIn(lines, check, anchors, IsRuleLine)
  <2> SUFFICES ASSUME Reaches(lines, anchor, check, FALSE)
               PROVE  ReachedIn(lines, check, anchors, IsRuleLine)
    OBVIOUS
  <2>1. \A line : IsTaker(line, FALSE) <=> IsRuleLine(line)
    BY DEF IsTaker
  <2> QED
    BY <1>1, <2>1 DEF Reaches, ReachedIn, Quiet, StandsAbove, BeforeEveryRule
<1>3. Reaches(lines, anchor, check, TRUE) => ReachedIn(lines, check, anchors, IsListLine)
  <2> SUFFICES ASSUME Reaches(lines, anchor, check, TRUE)
               PROVE  ReachedIn(lines, check, anchors, IsListLine)
    OBVIOUS
  <2>1. \A line : IsTaker(line, TRUE) <=> IsListLine(line)
    BY DEF IsTaker
  <2> QED
    BY <1>1, <2>1 DEF Reaches, ReachedIn, Quiet, StandsAbove, BeforeEveryRule
<1> QED
  BY <1>2, <1>3

(* Whatever the comments, a finding they waive is a warning and has, in    *)
(* its own file, a directive for its check that reaches it                 *)
(* (apply_audit_acceptances): this is AcceptancesAreReached at the anchors *)
(* of the finding.                                                         *)
THEOREM WaivedAreReached == Spec => []WaivedByItsOwnDirective
<1>1. ASSUME AuditInv, pc \in Judged, NEW f \in found \ kept
      PROVE  /\ f.severity = "warning" /\ f.zone \in ZoneOf
             /\ \/ ReachedIn(text[f.zone].main, f.check, AnchorsOf(f), IsRuleLine)
                \/ \E i \in DOMAIN text[f.zone].includes :
                     ReachedIn(text[f.zone].includes[i], f.check, AnchorsOf(f), IsListLine)
  <2>1. IsAccepted(f, text) /\ text \in Texts
    BY <1>1 DEF AuditInv, VerdictInv
  <2>2. f.severity = "warning" /\ f.zone \in ZoneOf
    BY <1>1, <2>1 DEF AuditInv, FoundInv, IsAccepted
  <2> DEFINE file == text[f.zone]
             all == {file.main} \cup Elements(file.includes)
  <2>3. /\ f.zone \in DOMAIN text
        /\ \A lines \in all :
             /\ IsText(lines)
             /\ \A i \in DOMAIN lines : WholeFile \notin {lines[i].ref, lines[i].list}
    <3>1. DOMAIN text = DOMAIN files
      <4>1. files \in Files
        BY <1>1 DEF AuditInv, CommandTypeOK
      <4> QED
        BY ONLY <2>1, <4>1, FilesAssumption
    <3>2. f.zone \in DOMAIN text
      BY <2>2, <3>1 DEF ZoneOf
    <3>3. \A lines \in {text[f.zone].main} \cup Elements(text[f.zone].includes) :
            /\ DOMAIN lines = 1..Len(lines) /\ Len(lines) \in Nat
            /\ \A i \in DOMAIN lines : WholeFile \notin {lines[i].ref, lines[i].list}
      BY ONLY <2>1, <3>2, FilesAssumption
    <3> QED
      BY <3>2, <3>3 DEF IsText
  <2>4. PICK anchor \in AnchorsOf(f) \cup {WholeFile} :
          <<anchor, f.check>> \in ParseAcceptances(file)
    BY <2>1 DEF IsAccepted, AcceptedIn
  <2>5. CASE <<anchor, f.check>> \in ScanAccepts(file.main, FALSE)
    <3>1. Reaches(file.main, anchor, f.check, FALSE)
      <4>1. IsText(file.main)
        BY <2>3
      <4> DEFINE p == <<anchor, f.check>>
      <4>2. p \in ScanAccepts(file.main, FALSE) /\ p[1] = anchor /\ p[2] = f.check
        BY <2>5
      <4> HIDE DEF p, file
      <4> QED
        BY <4>1, <4>2, AcceptancesAreReached
    <3>2. ReachedIn(file.main, f.check, AnchorsOf(f), IsRuleLine)
      BY <2>3, <3>1, ReachesIsDocumented
    <3> QED
      BY <2>2, <3>2
  <2>6. CASE \E i \in DOMAIN file.includes :
               <<anchor, f.check>> \in ScanAccepts(file.includes[i], TRUE)
    <3>1. PICK i \in DOMAIN file.includes :
            <<anchor, f.check>> \in ScanAccepts(file.includes[i], TRUE)
      BY <2>6
    <3> DEFINE lines == file.includes[i]
    <3>2. lines \in all
      BY DEF Elements
    <3>3. Reaches(lines, anchor, f.check, TRUE)
      <4>1. IsText(lines)
        BY <2>3, <3>2
      <4> DEFINE p == <<anchor, f.check>>
      <4>2. p \in ScanAccepts(lines, TRUE) /\ p[1] = anchor /\ p[2] = f.check
        BY <3>1
      <4> HIDE DEF p, lines
      <4> QED
        BY <4>1, <4>2, AcceptancesAreReached
    <3>4. ReachedIn(lines, f.check, AnchorsOf(f), IsListLine)
      BY <2>3, <3>2, <3>3, ReachesIsDocumented
    <3> QED
      BY <2>2, <3>4
  <2>7. \/ <<anchor, f.check>> \in ScanAccepts(file.main, FALSE)
        \/ \E i \in DOMAIN file.includes :
             <<anchor, f.check>> \in ScanAccepts(file.includes[i], TRUE)
    BY <2>4 DEF ParseAcceptances
  <2> QED
    BY <2>5, <2>6, <2>7
<1>2. AuditInv => WaivedByItsOwnDirective
  BY <1>1 DEF WaivedByItsOwnDirective, Judged
<1> QED
  BY <1>2, AuditInvariant, PTL

(* Where a rule's range is used, and what is done with it there.           *)
LEMMA TreatmentIsActions ==
  ASSUME AuditInv, NEW z \in ZoneOf, ExtractedAll(z), NEW n
  PROVE  Treatment(z, n) = ActionsIn(n, z)
<1> DEFINE file == files[z]
<1>0. \A r : r \in Extracted(file, {}) <=> r \in file.rules /\ IsRead(file, r)
  BY WholeFileExtracted
<1>1. ASSUME NEW a \in Treatment(z, n) PROVE a \in ActionsIn(n, z)
  <2>1. PICK r \in file.rules :
          /\ r.action = a /\ IsRead(file, r)
          /\ n \in r.nets \/ \E l \in file.lists : l.name \in r.lists /\ n \in l.nets
    BY DEF Treatment, IsRead
  <2>2. n \in Resolved(file, r) /\ r \in Extracted(file, {}) /\ r.phase # "lists"
    BY <1>0, <2>1, ResolvedMeans, FileParts DEF AuditInv, CommandTypeOK
  <2>3. PICK i \in AuditZone(z, {}) : FromRule(i, file, r)
    BY <2>2, RuleIsExtracted
  <2>4. i \in infos /\ i.zone = z
    BY <2>3, WholeFileExtracted
  <2>5. i \in Uses(n) /\ i.action = a
    BY <2>1, <2>2, <2>3, <2>4 DEF Uses, FromRule
  <2> QED
    BY <2>4, <2>5 DEF ActionsIn
<1>2. ASSUME NEW a \in ActionsIn(n, z) PROVE a \in Treatment(z, n)
  <2>1. PICK i \in infos : i.zone = z /\ i.phase # "lists" /\ n \in i.nets /\ i.action = a
    BY DEF ActionsIn, Uses
  <2>2. i \in AuditZone(z, {})
    BY <2>1, WholeFileExtracted
  <2>3. \A l : ~FromList(i, l)
    BY <2>1 DEF FromList
  <2>4. PICK r \in Extracted(file, {}) : FromRule(i, file, r)
    BY <2>2, <2>3, InfoOrigin
  <2>5. /\ r \in file.rules /\ IsRead(file, r) /\ r.action = a
        /\ n \in Resolved(file, r)
    BY <1>0, <2>1, <2>4 DEF FromRule
  <2>6. n \in r.nets \/ \E l \in file.lists : l.name \in r.lists /\ n \in l.nets
    BY <2>5, ResolvedMeans
  <2> QED
    BY <2>5, <2>6 DEF Treatment, IsRead
<1> QED
  BY <1>1, <1>2

(* A green audit of everything, with --exit-code, has been through every   *)
(* overlap, every CDN range met and every disagreement of two files, and   *)
(* each was waived (cmd_audit): if not waived it would be a warning or an  *)
(* error that was kept, so the exit code would not be 0.                   *)
THEOREM GreenIsAccounted == Spec => []GreenMeansAccounted
<1>1. ASSUME AuditInv, pc = "done", code.value = 0, code.granular, checks = AllChecks
      PROVE  /\ \A z \in ZoneOf : \A r, s \in {q \in files[z].rules : q.on /\ q.ruleset = ""} :
                  \A m \in r.nets, n \in s.nets :
                    <<r.ref, r.phase>> # <<s.ref, s.phase>> /\ Overlap(m, n) =>
                      \E f \in found \ kept :
                        f.check = "ip-overlap" /\ f.zone = z /\ f.nets = {m, n}
             /\ \A info \in infos : \A n \in info.nets :
                  (\E r \in cdn.ranges : Overlap(r.net, n)) =>
                    \E f \in found \ kept :
                      /\ f.check = "cdn-ranges" /\ f.zone = info.zone
                      /\ f.ref = info.ref /\ n \in f.nets
             /\ \A y, z \in ZoneOf, n \in Nets :
                  {} \notin {Treatment(y, n), Treatment(z, n)} /\ Treatment(y, n) # Treatment(z, n)
                    => \E f \in found \ kept : f.check = "zone-drift" /\ f.nets = {n}
             /\ cdn.stale => cdn.ranges = {}
  <2>1. /\ kept = {f \in found : ~IsAccepted(f, text)}
        /\ ~Has("error") /\ ~Has("warning")
        /\ AllChecks = {"ip-overlap", "ip-shadow", "cdn-ranges", "zone-drift"}
    BY <1>1 DEF AuditInv, VerdictInv, Judged, AllChecks
  <2>2. \A f \in found : f.severity \in {"warning", "error"} => f \in found \ kept
    BY <2>1 DEF Has
  <2>3. \A z \in ZoneOf : ExtractedAll(z) /\ IsSwept(z)
    <3>1. failed = {}
      <4>1. ASSUME NEW z \in failed PROVE FALSE
        <5>1. CrashFinding(z) \in found
          BY <1>1, <4>1 DEF AuditInv, FoundInv
        <5>2. CrashFinding(z).severity = "error" /\ ~CrashFinding(z).suppressible
          BY DEF CrashFinding, Finding
        <5>3. CrashFinding(z) \in kept
          BY <2>1, <5>1, <5>2 DEF IsAccepted
        <5> QED
          BY <2>2, <5>1, <5>2, <5>3
      <4> QED
        BY <4>1
    <3> QED
      BY <1>1, <3>1 DEF ExtractedAll, IsSwept
  <2>4. ASSUME NEW z \in ZoneOf, NEW r \in files[z].rules, r.on, r.ruleset = "", NEW m \in r.nets
        PROVE  [net |-> m, rule |-> <<<<r.ref>>, r.phase>>] \in EntriesOf(z)
    <3>1. r \in Extracted(files[z], {}) /\ m \in Resolved(files[z], r) /\ RuleRef(r) = <<r.ref>>
      BY <2>4, ResolvedMeans DEF Extracted, IsRead, RuleRef
    <3>2. PICK i \in AuditZone(z, {}) : FromRule(i, files[z], r)
      BY <3>1, RuleIsExtracted
    <3>3. i \in infos /\ i.zone = z
      BY <1>1, <2>3, <3>2, WholeFileExtracted
    <3>4. m \in i.nets /\ i.ref = <<r.ref>> /\ i.phase = r.phase
      BY <3>1, <3>2 DEF FromRule
    <3> QED
      BY <3>3, <3>4, EntriesMean
  <2>5. \A z \in ZoneOf : \A r, s \in {q \in files[z].rules : q.on /\ q.ruleset = ""} :
          \A m \in r.nets, n \in s.nets :
            <<r.ref, r.phase>> # <<s.ref, s.phase>> /\ Overlap(m, n) =>
              \E f \in found \ kept : f.check = "ip-overlap" /\ f.zone = z /\ f.nets = {m, n}
    <3> TAKE z \in ZoneOf
    <3> TAKE r, s \in {q \in files[z].rules : q.on /\ q.ruleset = ""}
    <3> TAKE m \in r.nets, n \in s.nets
    <3> HAVE <<r.ref, r.phase>> # <<s.ref, s.phase>> /\ Overlap(m, n)
    <3> DEFINE d == [net |-> m, rule |-> <<<<r.ref>>, r.phase>>]
               e == [net |-> n, rule |-> <<<<s.ref>>, s.phase>>]
    <3>1. d \in EntriesOf(z) /\ e \in EntriesOf(z)
      BY <2>4
    <3>2. d.net = m /\ e.net = n /\ d.rule # e.rule
      OBVIOUS
    <3> HIDE DEF d, e
    <3>3. IsReported(z, d, e, found)
      BY <1>1, <2>1, <2>3, <3>1, <3>2 DEF AuditInv, OverlapInv
    <3> QED
      BY <2>2, <3>2, <3>3 DEF IsReported
  <2>6. ASSUME NEW info \in infos, NEW n \in info.nets, \E r \in cdn.ranges : Overlap(r.net, n)
        PROVE  \E f \in found \ kept :
                 f.check = "cdn-ranges" /\ f.zone = info.zone /\ f.ref = info.ref /\ n \in f.nets
    <3> DEFINE f == CdnFinding(info, n)
    <3>1. Meeting(n) # {}
      BY <2>6 DEF Meeting
    <3>2. f \in found
      <4>1. f \in CdnFindings
        BY <3>1 DEF CdnFindings
      <4> QED
        BY <1>1, <2>1, <4>1 DEF AuditInv, CdnInv, Unfetched
    <3>3. /\ f.severity \in {"warning", "error"} /\ f.check = "cdn-ranges" /\ f.zone = info.zone
          /\ f.ref = info.ref /\ n \in f.nets
      BY DEF CdnFinding, Finding
    <3> HIDE DEF f
    <3> QED
      BY <2>2, <3>2, <3>3
  <2>7. ASSUME NEW y \in ZoneOf, NEW z \in ZoneOf, NEW n \in Nets,
               {} \notin {Treatment(y, n), Treatment(z, n)}, Treatment(y, n) # Treatment(z, n)
        PROVE  \E f \in found \ kept : f.check = "zone-drift" /\ f.nets = {n}
    <3> DEFINE f == Finding("zone-drift", "warning", FirstUsing(n), "", <<>>, {n}, TRUE)
    <3>1. Treatment(y, n) = ActionsIn(n, y) /\ Treatment(z, n) = ActionsIn(n, z)
      BY <1>1, <2>3, TreatmentIsActions
    <3>2. y \in ZonesUsing(n) /\ z \in ZonesUsing(n)
      BY <2>7, <3>1 DEF ActionsIn, ZonesUsing
    <3>3. Drifts(n)
      BY <2>7, <3>1, <3>2 DEF Drifts
    <3>4. f \in found
      <4>1. f \in DriftFindings
        BY <3>3 DEF DriftFindings
      <4> QED
        BY <1>1, <2>1, <4>1 DEF AuditInv, DriftInv, Judged
    <3>5. f.severity = "warning" /\ f.check = "zone-drift" /\ f.nets = {n}
      BY DEF Finding
    <3> HIDE DEF f
    <3> QED
      BY <2>2, <3>4, <3>5
  <2>8. cdn.stale => cdn.ranges = {}
    <3> SUFFICES ASSUME cdn.stale, cdn.ranges # {} PROVE FALSE
      OBVIOUS
    <3>1. StaleFinding \in found
      <4>1. StaleFinding \in StaleFindings
        BY DEF StaleFindings
      <4> QED
        BY <1>1, <2>1, <4>1 DEF AuditInv, CdnInv, Unfetched
    <3>2. StaleFinding.zone = NoFile /\ StaleFinding.severity = "warning"
      BY DEF StaleFinding, Finding
    <3>3. StaleFinding \in kept
      BY <2>1, <3>1, <3>2 DEF IsAccepted
    <3> QED
      BY <2>2, <3>1, <3>2, <3>3
  <2>9. \A info \in infos : \A n \in info.nets :
           (\E r \in cdn.ranges : Overlap(r.net, n)) =>
             \E f \in found \ kept :
               f.check = "cdn-ranges" /\ f.zone = info.zone /\ f.ref = info.ref /\ n \in f.nets
    BY <2>6
  <2>10. \A y, z \in ZoneOf, n \in Nets :
           {} \notin {Treatment(y, n), Treatment(z, n)} /\ Treatment(y, n) # Treatment(z, n)
             => \E f \in found \ kept : f.check = "zone-drift" /\ f.nets = {n}
    BY <2>7
  <2> QED
    BY <2>5, <2>8, <2>9, <2>10
<1>2. AuditInv => GreenMeansAccounted
  BY <1>1 DEF GreenMeansAccounted
<1> QED
  BY <1>2, AuditInvariant, PTL
=============================================================================
