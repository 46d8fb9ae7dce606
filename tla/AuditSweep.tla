---------------------------- MODULE AuditSweep ----------------------------
(***************************************************************************)
(* The overlap check of `audit`: a sweep over the address ranges of one    *)
(* zone's rules.  The ranges are sorted by their first address, broadest   *)
(* first, and a stack holds those the sweep still stands in.  A range that *)
(* begins is compared with the whole stack, and only with it; so the check *)
(* finds every overlap only if whatever left the stack, or was never left  *)
(* on it, cannot meet a later range.                                       *)
(*                                                                         *)
(* The sweep runs once for each address family of each zone.  `hits` holds *)
(* the findings as pairs of places in `entries`, the narrower range first. *)
(***************************************************************************)
EXTENDS Integers, Sequences

CONSTANTS
  Nets,    \* the networks: records with a first address lo and a last hi
  Rules    \* the rules they stand in: a (ref, phase) pair each

(* Two CIDR networks never overlap in part: one holds the other, or they   *)
(* have no address in common.                                              *)
ASSUME NetsAssumption ==
  /\ Nets \subseteq [lo : Nat, hi : Nat]
  /\ \A n \in Nets : n.lo <= n.hi
  /\ \A m, n \in Nets : \/ m.hi < n.lo \/ n.hi < m.lo
                        \/ m.lo <= n.lo /\ n.hi <= m.hi
                        \/ n.lo <= m.lo /\ m.hi <= n.hi

VARIABLES
  entries,   \* the sorted entries
  pos,       \* how many have been visited
  stack,     \* places of the entries the sweep stands in
  hits       \* <<narrower, broader>>, places in entries

sweepVars == <<entries, pos, stack, hits>>

Entry == [net : Nets, rule : Rules]

(* The sort key: first address, then prefix length.                        *)
Before(d, e) ==
  \/ d.net.lo < e.net.lo
  \/ d.net.lo = e.net.lo /\ d.net.hi >= e.net.hi

InOrder(s) == \A i, j \in DOMAIN s : i < j => Before(s[i], s[j])

Swept == pos = Len(entries)

SweepInit == entries = <<>> /\ pos = 0 /\ stack = <<>> /\ hits = {}

Begin ==
  /\ Swept
  /\ entries' \in Seq(Entry) /\ InOrder(entries')
  /\ pos' = 0 /\ stack' = <<>> /\ hits' = {}

(* The top of the stack ends before the next range begins.                 *)
TopExpired ==
  /\ stack # <<>>
  /\ entries[stack[Len(stack)]].net.hi < entries[pos + 1].net.lo

Pop ==
  /\ ~Swept
  /\ TopExpired
  /\ stack' = SubSeq(stack, 1, Len(stack) - 1)
  /\ UNCHANGED <<entries, pos, hits>>

(* A faulty variant: only the top of the stack is compared. *)
VisitTopOnly ==
  /\ ~Swept
  /\ ~TopExpired
  /\ hits' = hits \cup {<<pos + 1, stack[k]>> : k \in
               {m \in DOMAIN stack :
                  m = Len(stack) /\ entries[stack[m]].rule # entries[pos + 1].rule}}
  /\ stack' = Append(stack, pos + 1)
  /\ pos' = pos + 1
  /\ UNCHANGED entries

(* Every range on the stack that is another rule's is an overlap.          *)
Visit ==
  /\ ~Swept
  /\ ~TopExpired
  /\ hits' = hits \cup {<<pos + 1, stack[k]>> : k \in
               {m \in DOMAIN stack : entries[stack[m]].rule # entries[pos + 1].rule}}
  /\ stack' = Append(stack, pos + 1)
  /\ pos' = pos + 1
  /\ UNCHANGED entries

SweepNext == Begin \/ Pop \/ Visit

SweepSpec == SweepInit /\ [][SweepNext]_sweepVars
-----------------------------------------------------------------------------
Overlap(m, n) == m.lo <= n.hi /\ n.lo <= m.hi
Within(m, n) == n.lo <= m.lo /\ m.hi <= n.hi

(* What the check promises, by comparing every pair.                       *)
OverlapsUpTo(n) ==
  {h \in (1..n) \X (1..n) :
     /\ h[2] < h[1]
     /\ Overlap(entries[h[1]].net, entries[h[2]].net)
     /\ entries[h[1]].rule # entries[h[2]].rule}

(* When the sweep is over it has reported every pair of overlapping ranges *)
(* of different rules, and no other (check_ip_overlap's replacement of the *)
(* pairwise comparison).                                                   *)
SweepFindsAll == Swept => hits = OverlapsUpTo(Len(entries))

(* Of a reported pair the first lies within the second, as the message     *)
(* says: "narrower overlaps broader".                                      *)
NarrowerFirst == \A h \in hits : Within(entries[h[1]].net, entries[h[2]].net)

(* The inductive invariant.  The stack holds ever narrower ranges, later   *)
(* in the input, and an entry that is not on it ended before the next one  *)
(* begins.                                                                 *)
SweepTypeOK ==
  /\ entries \in Seq(Entry) /\ InOrder(entries)
  /\ pos \in 0..Len(entries)
  /\ stack \in Seq(1..pos)

StackNested ==
  \A k, m \in DOMAIN stack : k < m =>
    /\ stack[k] < stack[m]
    /\ Within(entries[stack[m]].net, entries[stack[k]].net)

OffStackEnded ==
  \A j \in 1..pos :
    \/ \E k \in DOMAIN stack : stack[k] = j
    \/ Swept
    \/ entries[j].net.hi < entries[pos + 1].net.lo

HitsSoFar == hits = OverlapsUpTo(pos)

SweepInv == SweepTypeOK /\ StackNested /\ OffStackEnded /\ HitsSoFar
=============================================================================
