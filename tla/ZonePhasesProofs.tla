-------------------------- MODULE ZonePhasesProofs --------------------------
(***************************************************************************)
(* Theorems about plan and sync of a zone's rule lists: for any number of  *)
(* phases, any lists of rules, any thresholds, failed fetches and writes,  *)
(* outside edits and repeated runs.                                        *)
(*                                                                         *)
(* The argument: a plan is always the plan of the lists that were fetched; *)
(* writes only start once unplanned_changes found nothing and the          *)
(* thresholds held; and unless somebody edits the provider, a list that    *)
(* was fetched is as it was fetched or as its payload says.  What a        *)
(* payload does to the list it was made for is in the lemmas of the first  *)
(* part: what the diff of RuleDiff computes for every list of rules.  The  *)
(* entries a filter keeps stand in their order, the last of duplicated     *)
(* refs is looked up, the payload is the file's list, and a list stored    *)
(* from its payload differs from the file in nothing.  A plan without a    *)
(* filter shows all its payload does to rules with a ref: with that, the   *)
(* last part is about plan and sync with --checksum, which look at a file  *)
(* and at live rules (PlanChecksum) and at no state of ZonePhases.         *)
(***************************************************************************)
EXTENDS ZonePhases, PlanChecksum, FiniteSetTheorems, SequenceTheorems, TLAPS

-----------------------------------------------------------------------------
(* Positions in order.                                                     *)

(* InOrder lists every position of a finite set once, the smaller first.   *)
LEMMA InOrderListsAll ==
  ASSUME NEW P \in SUBSET Nat, IsFiniteSet(P)
  PROVE  /\ Cardinality(P) \in Nat
         /\ DOMAIN InOrder[P] = 1..Cardinality(P)
         /\ \A k \in 1..Cardinality(P) : InOrder[P][k] \in P
         /\ \A k, l \in 1..Cardinality(P) : k < l => InOrder[P][k] < InOrder[P][l]
         /\ \A i \in P : \E k \in 1..Cardinality(P) : InOrder[P][k] = i
<1> DEFINE n == Cardinality(P)
           UpTo(i) == {j \in P : j <= i}
           rank == [i \in P |-> Cardinality(UpTo(i))]
<1>1. n \in Nat
  BY FS_CardinalityType
<1>2. \A i \in P : IsFiniteSet(UpTo(i)) /\ Cardinality(UpTo(i)) \in 1..n
  <2> SUFFICES ASSUME NEW i \in P
               PROVE  IsFiniteSet(UpTo(i)) /\ Cardinality(UpTo(i)) \in 1..n
    OBVIOUS
  <2>1. UpTo(i) \in SUBSET P /\ i \in UpTo(i)
    BY i \in Nat
  <2>2. IsFiniteSet(UpTo(i)) /\ Cardinality(UpTo(i)) <= n
    BY <2>1, FS_Subset
  <2>3. Cardinality(UpTo(i)) \in Nat /\ Cardinality(UpTo(i)) # 0
    BY <2>1, <2>2, FS_CardinalityType, FS_EmptySet
  <2> QED
    BY <1>1, <2>2, <2>3
<1>3. \A i, j \in P : i < j => rank[i] < rank[j]
  <2> SUFFICES ASSUME NEW i \in P, NEW j \in P, i < j
               PROVE  Cardinality(UpTo(i)) < Cardinality(UpTo(j))
    OBVIOUS
  <2>0. i \in Int /\ j \in Int /\ \A k \in P : k \in Int
    OBVIOUS
  <2>1. UpTo(i) \in SUBSET UpTo(j) /\ j \in UpTo(j) /\ j \notin UpTo(i)
    <3>1. \A k \in UpTo(i) : k \in P /\ k <= j
      BY <2>0
    <3>2. j <= j /\ ~(j <= i)
      BY <2>0
    <3> QED
      BY <3>1, <3>2
  <2>2. /\ Cardinality(UpTo(i)) <= Cardinality(UpTo(j))
        /\ Cardinality(UpTo(i)) # Cardinality(UpTo(j))
    BY <1>2, <2>1, FS_Subset
  <2> QED
    BY <1>1, <1>2, <2>2
<1>4. \A i, j \in P : rank[i] = rank[j] => i = j
  <2> SUFFICES ASSUME NEW i \in P, NEW j \in P, rank[i] = rank[j], i # j
               PROVE  FALSE
    OBVIOUS
  <2>0. i \in Nat /\ j \in Nat /\ i # j
    OBVIOUS
  <2>1. i < j \/ j < i
    BY <2>0
  <2>2. rank[i] \in Int /\ rank[j] \in Int
    BY <1>1, <1>2
  <2> QED
    BY <1>3, <2>1, <2>2
<1>5. rank \in Injection(P, 1..n)
  <2>1. rank \in [P -> 1..n]
    BY <1>2
  <2> HIDE DEF rank
  <2> QED
    BY <1>4, <2>1 DEF Injection, IsInjective
<1>6. IsFiniteSet(1..n) /\ Cardinality(1..n) = n
  BY <1>1, FS_Interval
<1>7. rank \in Surjection(P, 1..n)
  BY <1>5, <1>6, FS_Injection
<1>8. \A k \in 1..n : \E i \in P : Cardinality(UpTo(i)) = k
  BY <1>7 DEF Surjection
<1>9. InOrder[P] = [k \in 1..n |-> CHOOSE i \in P : Cardinality(UpTo(i)) = k]
  BY DEF InOrder
<1>10. \A k \in 1..n : InOrder[P][k] \in P /\ Cardinality(UpTo(InOrder[P][k])) = k
  <2> TAKE k \in 1..n
  <2>1. PICK i \in P : Cardinality(UpTo(i)) = k
    BY <1>8
  <2>2. InOrder[P][k] = CHOOSE i_1 \in P : Cardinality(UpTo(i_1)) = k
    BY <1>9
  <2> HIDE DEF UpTo
  <2> QED
    BY <2>1, <2>2
<1>11. \A k, l \in 1..n : k < l => InOrder[P][k] < InOrder[P][l]
  <2> SUFFICES ASSUME NEW k \in 1..n, NEW l \in 1..n, k < l,
                      ~(InOrder[P][k] < InOrder[P][l])
               PROVE  FALSE
    OBVIOUS
  <2>1. /\ InOrder[P][k] \in P /\ rank[InOrder[P][k]] = k
        /\ InOrder[P][l] \in P /\ rank[InOrder[P][l]] = l
    BY <1>10
  <2> HIDE DEF rank, n
  <2>2. InOrder[P][k] = InOrder[P][l] \/ InOrder[P][l] < InOrder[P][k]
    BY <2>1
  <2>3. CASE InOrder[P][k] = InOrder[P][l]
    BY <1>1, <2>1, <2>3
  <2>4. CASE InOrder[P][l] < InOrder[P][k]
    <3>1. rank[InOrder[P][l]] < rank[InOrder[P][k]]
      BY <1>3, <2>1, <2>4
    <3>2. l < k
      BY <2>1, <3>1
    <3> QED
      BY <1>1, <3>2
  <2> QED
    BY <2>2, <2>3, <2>4
<1>12. \A i \in P : \E k \in 1..n : InOrder[P][k] = i
  <2> TAKE i \in P
  <2>1. rank[i] \in 1..n
    BY <1>2
  <2>2. InOrder[P][rank[i]] \in P /\ rank[InOrder[P][rank[i]]] = rank[i]
    BY <1>10, <2>1
  <2>3. InOrder[P][rank[i]] = i
    BY <1>4, <2>2
  <2> QED
    BY <2>1, <2>3
<1> QED
  BY <1>1, <1>9, <1>10, <1>11, <1>12

(* Entries keeps the entries at these positions and no others, in order.   *)
LEMMA EntriesAt ==
  ASSUME NEW S, NEW seq \in Seq(S), NEW P \in SUBSET DOMAIN seq
  PROVE  /\ Entries(seq, P) \in Seq(S)
         /\ \A k \in DOMAIN Entries(seq, P) :
              InOrder[P][k] \in P /\ Entries(seq, P)[k] = seq[InOrder[P][k]]
         /\ \A k, l \in DOMAIN Entries(seq, P) : k < l => InOrder[P][k] < InOrder[P][l]
         /\ \A i \in P : \E k \in DOMAIN Entries(seq, P) : InOrder[P][k] = i
<1> DEFINE n == Cardinality(P)
<1>1. DOMAIN seq = 1..Len(seq) /\ Len(seq) \in Nat
  OBVIOUS
<1>2. IsFiniteSet(P) /\ P \in SUBSET Nat
  <2>1. IsFiniteSet(DOMAIN seq)
    BY <1>1, FS_Interval
  <2> QED
    BY <1>1, <2>1, FS_Subset
<1>3. /\ n \in Nat
      /\ DOMAIN InOrder[P] = 1..n
      /\ \A k \in 1..n : InOrder[P][k] \in P
      /\ \A k, l \in 1..n : k < l => InOrder[P][k] < InOrder[P][l]
      /\ \A i \in P : \E k \in 1..n : InOrder[P][k] = i
  BY <1>2, InOrderListsAll
<1>4. Entries(seq, P) = [k \in 1..n |-> seq[InOrder[P][k]]]
  BY <1>3 DEF Entries
<1>5. \A k \in 1..n : seq[InOrder[P][k]] \in S
  BY <1>3
<1>6. Entries(seq, P) \in Seq(S)
  BY <1>3, <1>4, <1>5, SeqDef
<1>7. DOMAIN Entries(seq, P) = 1..n
  BY <1>4
<1>8. \A k \in 1..n : Entries(seq, P)[k] = seq[InOrder[P][k]]
  BY <1>4
<1> HIDE DEF n
<1> QED
  BY <1>3, <1>6, <1>7, <1>8

-----------------------------------------------------------------------------
(* Rules by ref.                                                           *)

(* The latest of some positions is one of them, and none is later.         *)
LEMMA LatestIsLast ==
  ASSUME NEW P \in SUBSET Nat, IsFiniteSet(P), P # {}
  PROVE  Latest[P] \in P /\ \A j \in P : j <= Latest[P]
<1> DEFINE n == Cardinality(P)
           last == InOrder[P][n]
<1>1. /\ n \in Nat
      /\ \A k \in 1..n : InOrder[P][k] \in P
      /\ \A k, l \in 1..n : k < l => InOrder[P][k] < InOrder[P][l]
      /\ \A i \in P : \E k \in 1..n : InOrder[P][k] = i
  BY InOrderListsAll
<1>2. n \in 1..n
  <2>1. n # 0
    BY FS_EmptySet
  <2> QED
    BY <1>1, <2>1
<1>3. last \in P
  BY <1>1, <1>2
<1>4. \A j \in P : j <= last
  <2> TAKE j \in P
  <2>1. PICK k \in 1..n : InOrder[P][k] = j
    BY <1>1
  <2>2. j \in Int /\ last \in Int
    <3> HIDE DEF last
    <3>1. P \subseteq Int
      OBVIOUS
    <3> QED
      BY <1>3, <3>1
  <2>3. CASE k = n
    BY <2>1, <2>2, <2>3
  <2>4. CASE k < n
    BY <1>1, <1>2, <2>1, <2>2, <2>4
  <2> HIDE DEF n
  <2> QED
    BY <1>1, <2>3, <2>4
<1>5. Latest[P] = CHOOSE i \in P : \A j \in P : j <= i
  BY DEF Latest
<1> HIDE DEF last
<1> QED
  BY <1>3, <1>4, <1>5

(* RulesByRef looks a ref up in the last entry that has it.                *)
LEMMA LastEntryWins ==
  ASSUME NEW S, NEW rules \in Seq(S), NEW ref \in RefsOf(rules)
  PROVE  \E i \in DOMAIN rules :
           /\ rules[i].ref = ref /\ RulesByRef(rules)[ref] = rules[i]
           /\ \A j \in DOMAIN rules : rules[j].ref = ref => j <= i
<1> DEFINE P == {i \in DOMAIN rules : rules[i].ref = ref}
<1>1. DOMAIN rules = 1..Len(rules) /\ Len(rules) \in Nat
  OBVIOUS
<1>2. IsFiniteSet(P) /\ P \in SUBSET Nat
  <2>1. IsFiniteSet(DOMAIN rules) /\ P \in SUBSET DOMAIN rules
    BY <1>1, FS_Interval
  <2>2. DOMAIN rules \in SUBSET Nat
    BY <1>1
  <2> QED
    BY <2>1, <2>2, FS_Subset
<1>3. P # {}
  BY DEF RefsOf
<1>4. RulesByRef(rules)[ref] = rules[Latest[P]]
  BY DEF RulesByRef
<1>5. Latest[P] \in P /\ \A j \in P : j <= Latest[P]
  BY <1>2, <1>3, LatestIsLast
<1> QED
  BY <1>4, <1>5

LEMMA ByRefDomain ==
  ASSUME NEW rules
  PROVE  DOMAIN RulesByRef(rules) = RefsOf(rules)
BY DEF RulesByRef

(* With no ref twice there is nothing to choose.                           *)
LEMMA UniqueEntry ==
  ASSUME NEW S, NEW rules \in Seq(S), ValidRules(rules),
         NEW i \in DOMAIN rules, rules[i].ref # NoRef
  PROVE  rules[i].ref \in RefsOf(rules) /\ RulesByRef(rules)[rules[i].ref] = rules[i]
<1>1. rules[i].ref \in RefsOf(rules)
  BY DEF RefsOf
<1>2. PICK j \in DOMAIN rules :
        rules[j].ref = rules[i].ref /\ RulesByRef(rules)[rules[i].ref] = rules[j]
  BY <1>1, LastEntryWins
<1>3. i = j
  BY <1>2 DEF ValidRules
<1> QED
  BY <1>1, <1>2, <1>3

-----------------------------------------------------------------------------
(* The order of refs.                                                      *)

(* In a sequence of refs, a stands somewhere before b.                     *)
Follows(refs, a, b) ==
  \E i, j \in DOMAIN refs : i < j /\ refs[i] = a /\ refs[j] = b

(* In a list of rules, the rule a stands somewhere before the rule b.      *)
Precedes(rules, a, b) ==
  \E i, j \in DOMAIN rules : i < j /\ rules[i].ref = a /\ rules[j].ref = b

(* Keeping every entry that is a or b keeps their order.                   *)
LEMMA EntriesKeepOrder ==
  ASSUME NEW S, NEW seq \in Seq(S), NEW P \in SUBSET DOMAIN seq, NEW a, NEW b,
         \A i \in DOMAIN seq : seq[i] = a \/ seq[i] = b => i \in P
  PROVE  Follows(Entries(seq, P), a, b) <=> Follows(seq, a, b)
<1> DEFINE E == Entries(seq, P)
           at(k) == InOrder[P][k]
<1>1. /\ E \in Seq(S)
      /\ \A k \in DOMAIN E : at(k) \in P /\ E[k] = seq[at(k)]
      /\ \A k, l \in DOMAIN E : k < l => at(k) < at(l)
      /\ \A i \in P : \E k \in DOMAIN E : at(k) = i
  BY EntriesAt
<1>2. DOMAIN E \in SUBSET Int
  BY <1>1
<1>3. DOMAIN seq \in SUBSET Int
  OBVIOUS
<1> HIDE DEF E, at
<1>4. ASSUME Follows(E, a, b) PROVE Follows(seq, a, b)
  <2>1. PICK k \in DOMAIN E, l \in DOMAIN E : k < l /\ E[k] = a /\ E[l] = b
    BY <1>4 DEF Follows
  <2>2. at(k) \in DOMAIN seq /\ at(l) \in DOMAIN seq /\ at(k) < at(l)
    BY <1>1, <2>1
  <2> QED
    BY <1>1, <2>1, <2>2 DEF Follows
<1>5. ASSUME Follows(seq, a, b) PROVE Follows(E, a, b)
  <2>1. PICK i \in DOMAIN seq, j \in DOMAIN seq : i < j /\ seq[i] = a /\ seq[j] = b
    BY <1>5 DEF Follows
  <2>2. PICK k \in DOMAIN E : at(k) = i
    BY <1>1, <2>1
  <2>3. PICK l \in DOMAIN E : at(l) = j
    BY <1>1, <2>1
  <2>4. k \in Int /\ l \in Int /\ i \in Int /\ j \in Int
    BY <1>2, <1>3
  <2>5. k # l /\ ~(l < k)
    BY <1>1, <2>1, <2>2, <2>3, <2>4
  <2>6. k < l
    BY <2>4, <2>5
  <2>7. E[k] = a /\ E[l] = b
    BY <1>1, <2>1, <2>2, <2>3
  <2> QED
    BY <2>6, <2>7 DEF Follows
<1> QED
  BY <1>4, <1>5 DEF E

(* RefOrder holds the refs of a list and nothing else, in the list's order. *)
LEMMA RefOrderIsOrder ==
  ASSUME NEW rules, NEW n \in Nat, DOMAIN rules = 1..n
  PROVE  /\ \E S : RefOrder(rules) \in Seq(S)
         /\ \A ref : ref \in RefsOf(rules) <=>
                       \E i \in DOMAIN RefOrder(rules) : RefOrder(rules)[i] = ref
         /\ \A a, b : a # NoRef /\ b # NoRef =>
              (Follows(RefOrder(rules), a, b) <=> Precedes(rules, a, b))
<1> DEFINE refs == [i \in DOMAIN rules |-> rules[i].ref]
           P == {i \in DOMAIN rules : rules[i].ref # NoRef}
           S == {rules[i].ref : i \in DOMAIN rules}
<1>1. refs \in Seq(S) /\ DOMAIN refs = DOMAIN rules
  <2>1. refs \in [1..n -> S]
    OBVIOUS
  <2> QED
    BY <2>1, SeqDef
<1>2. P \in SUBSET DOMAIN refs
  OBVIOUS
<1>3. RefOrder(rules) = Entries(refs, P)
  BY DEF RefOrder
<1>4. \A i \in DOMAIN rules : refs[i] = rules[i].ref
  OBVIOUS
<1>5. \A i : i \in P <=> i \in DOMAIN rules /\ rules[i].ref # NoRef
  OBVIOUS
<1> HIDE DEF refs, P, S
<1>6. /\ Entries(refs, P) \in Seq(S)
      /\ \A k \in DOMAIN Entries(refs, P) :
           InOrder[P][k] \in P /\ Entries(refs, P)[k] = refs[InOrder[P][k]]
      /\ \A k, l \in DOMAIN Entries(refs, P) : k < l => InOrder[P][k] < InOrder[P][l]
      /\ \A i \in P : \E k \in DOMAIN Entries(refs, P) : InOrder[P][k] = i
  BY <1>1, <1>2, EntriesAt
<1>7. ASSUME NEW ref
      PROVE  ref \in RefsOf(rules) <=> \E k \in DOMAIN Entries(refs, P) : Entries(refs, P)[k] = ref
  <2>1. ref \in RefsOf(rules) <=> \E i \in P : refs[i] = ref
    BY <1>4, <1>5 DEF RefsOf
  <2> QED
    BY <1>6, <2>1
<1>8. ASSUME NEW a, NEW b, a # NoRef, b # NoRef
      PROVE  Follows(Entries(refs, P), a, b) <=> Precedes(rules, a, b)
  <2>1. \A i \in DOMAIN refs : refs[i] = a \/ refs[i] = b => i \in P
    BY <1>1, <1>4, <1>5, <1>8
  <2>2. Follows(Entries(refs, P), a, b) <=> Follows(refs, a, b)
    BY <1>1, <1>2, <2>1, EntriesKeepOrder
  <2>3. Follows(refs, a, b) <=> Precedes(rules, a, b)
    BY <1>1, <1>4 DEF Follows, Precedes
  <2> QED
    BY <2>2, <2>3
<1> QED
  BY <1>3, <1>6, <1>7, <1>8

(* Refs both sides share come in one order if the shared order does not    *)
(* differ.                                                                 *)
LEMMA SharedOrderIsOrder ==
  ASSUME NEW S, NEW T, NEW desired \in Seq(S), NEW current \in Seq(T),
         ~SharedOrderDiffers(desired, current), NEW a, NEW b,
         \E i \in DOMAIN desired : desired[i] = a, \E i \in DOMAIN desired : desired[i] = b,
         \E i \in DOMAIN current : current[i] = a, \E i \in DOMAIN current : current[i] = b
  PROVE  Follows(desired, a, b) <=> Follows(current, a, b)
<1> DEFINE P == {i \in DOMAIN desired : \E j \in DOMAIN current : current[j] = desired[i]}
           Q == {i \in DOMAIN current : \E j \in DOMAIN desired : desired[j] = current[i]}
<1>1. Entries(desired, P) = Entries(current, Q)
  BY DEF SharedOrderDiffers, Shared
<1>2. P \in SUBSET DOMAIN desired /\ Q \in SUBSET DOMAIN current
  OBVIOUS
<1>3. /\ \A i \in DOMAIN desired : desired[i] = a \/ desired[i] = b => i \in P
      /\ \A i \in DOMAIN current : current[i] = a \/ current[i] = b => i \in Q
  OBVIOUS
<1> HIDE DEF P, Q
<1>4. Follows(Entries(desired, P), a, b) <=> Follows(desired, a, b)
  BY <1>2, <1>3, EntriesKeepOrder
<1>5. Follows(Entries(current, Q), a, b) <=> Follows(current, a, b)
  BY <1>2, <1>3, EntriesKeepOrder
<1> QED
  BY <1>1, <1>4, <1>5
-----------------------------------------------------------------------------
(* The payload.                                                            *)

(* The positions of the file's rules a payload has an entry for.           *)
SentAt(desired, current) ==
  {i \in DOMAIN desired : IsIgnored(desired[i]) => desired[i].ref \in RefsOf(current)}

LEMMA SentOverKeepsRef ==
  ASSUME NEW rule \in FileRule, NEW current \in Seq(LiveRule),
         IsIgnored(rule) => rule.ref \in RefsOf(current)
  PROVE  /\ SentOver(rule, current) \in SentRule
         /\ SentOver(rule, current).ref = rule.ref
         /\ ~IsIgnored(rule) => SentOver(rule, current).body = rule.body
         /\ IsIgnored(rule) =>
              SentOver(rule, current).body = RulesByRef(current)[rule.ref].body
<1>1. CASE ~IsIgnored(rule)
  BY <1>1 DEF SentOver, SentForm, FileRule, SentRule
<1>2. CASE IsIgnored(rule)
  <2>1. PICK i \in DOMAIN current :
          current[i].ref = rule.ref /\ RulesByRef(current)[rule.ref] = current[i]
    BY <1>2, LastEntryWins
  <2>0. current[i] \in LiveRule
    OBVIOUS
  <2>2. current[i].body \in Bodies /\ rule.ref \in Refs
    BY <2>0 DEF LiveRule, FileRule
  <2>3. SentOver(rule, current) = SentForm(current[i])
    BY <1>2, <2>1 DEF SentOver
  <2>4. SentForm(current[i]) = [ref |-> rule.ref, body |-> current[i].body, form |-> "file"]
    BY <2>1 DEF SentForm
  <2> QED
    BY <1>2, <2>1, <2>2, <2>3, <2>4 DEF SentRule
<1> QED
  BY <1>1, <1>2

(* The payload is the file's list, in the file's order, without the        *)
(* ignored rules that are not live.                                        *)
LEMMA PayloadIsTheFile ==
  ASSUME NEW desired \in Seq(FileRule), NEW current \in Seq(LiveRule)
  PROVE  /\ PayloadKeepingIgnored(desired, current) \in Seq(SentRule)
         /\ \A k \in DOMAIN PayloadKeepingIgnored(desired, current) :
              /\ InOrder[SentAt(desired, current)][k] \in SentAt(desired, current)
              /\ PayloadKeepingIgnored(desired, current)[k] =
                   SentOver(desired[InOrder[SentAt(desired, current)][k]], current)
         /\ \A k, l \in DOMAIN PayloadKeepingIgnored(desired, current) :
              k < l => InOrder[SentAt(desired, current)][k] < InOrder[SentAt(desired, current)][l]
         /\ \A i \in SentAt(desired, current) :
              \E k \in DOMAIN PayloadKeepingIgnored(desired, current) :
                InOrder[SentAt(desired, current)][k] = i
<1> DEFINE P == SentAt(desired, current)
           S == {SentOver(desired[i], current) : i \in DOMAIN desired}
           sent == [i \in DOMAIN desired |-> SentOver(desired[i], current)]
           pay == PayloadKeepingIgnored(desired, current)
<1>1. sent \in Seq(S) /\ DOMAIN sent = DOMAIN desired
  <2>1. DOMAIN desired = 1..Len(desired) /\ Len(desired) \in Nat
    OBVIOUS
  <2>2. sent \in [1..Len(desired) -> S]
    BY <2>1
  <2> QED
    BY <2>1, <2>2, SeqDef
<1>2. P \in SUBSET DOMAIN sent
  BY <1>1 DEF SentAt
<1>3. pay = Entries(sent, P)
  BY DEF PayloadKeepingIgnored, SentAt
<1>4. \A i \in DOMAIN desired : sent[i] = SentOver(desired[i], current)
  OBVIOUS
<1>5. \A i \in P : desired[i] \in FileRule /\ SentOver(desired[i], current) \in SentRule
  BY SentOverKeepsRef DEF SentAt
<1> HIDE DEF sent, S, P, pay
<1>6. /\ Entries(sent, P) \in Seq(S)
      /\ \A k \in DOMAIN Entries(sent, P) :
           InOrder[P][k] \in P /\ Entries(sent, P)[k] = sent[InOrder[P][k]]
      /\ \A k, l \in DOMAIN Entries(sent, P) : k < l => InOrder[P][k] < InOrder[P][l]
      /\ \A i \in P : \E k \in DOMAIN Entries(sent, P) : InOrder[P][k] = i
  BY <1>1, <1>2, EntriesAt
<1>7. \A k \in DOMAIN pay : pay[k] = SentOver(desired[InOrder[P][k]], current)
  BY <1>1, <1>2, <1>3, <1>4, <1>6
<1>8. \A k \in DOMAIN pay : pay[k] \in SentRule
  BY <1>3, <1>5, <1>6, <1>7
<1>9. pay \in Seq(SentRule)
  <2>1. pay \in Seq(S)
    BY <1>3, <1>6
  <2>2. pay \in [1..Len(pay) -> SentRule] /\ Len(pay) \in Nat
    BY <1>8, <2>1
  <2> QED
    BY <2>2, SeqDef
<1> QED
  BY <1>3, <1>6, <1>7, <1>9 DEF pay, P

(* Rule by rule: the payload has the file's body, or the live one of an    *)
(* ignored rule.                                                           *)
LEMMA PayloadRules ==
  ASSUME NEW desired \in Seq(FileRule), NEW current \in Seq(LiveRule),
         NEW k \in DOMAIN PayloadKeepingIgnored(desired, current)
  PROVE  LET pay == PayloadKeepingIgnored(desired, current)
             i == InOrder[SentAt(desired, current)][k]
         IN  /\ i \in SentAt(desired, current)
             /\ pay[k].ref = desired[i].ref
             /\ ~IsIgnored(desired[i]) => pay[k].body = desired[i].body
             /\ IsIgnored(desired[i]) =>
                  pay[k].body = RulesByRef(current)[desired[i].ref].body
<1> DEFINE i == InOrder[SentAt(desired, current)][k]
           pay == PayloadKeepingIgnored(desired, current)
<1>1. i \in SentAt(desired, current) /\ pay[k] = SentOver(desired[i], current)
  BY PayloadIsTheFile
<1>2. /\ i \in DOMAIN desired /\ desired[i] \in FileRule
      /\ IsIgnored(desired[i]) => desired[i].ref \in RefsOf(current)
  BY <1>1 DEF SentAt
<1> HIDE DEF i, pay
<1>3. /\ pay[k].ref = desired[i].ref
      /\ ~IsIgnored(desired[i]) => pay[k].body = desired[i].body
      /\ IsIgnored(desired[i]) =>
           pay[k].body = RulesByRef(current)[desired[i].ref].body
  BY <1>1, <1>2, SentOverKeepsRef
<1> QED
  BY <1>1, <1>3 DEF i, pay

(* The refs of a payload are the refs of the rules it has an entry for.    *)
LEMMA PayloadRefs ==
  ASSUME NEW desired \in Seq(FileRule), NEW current \in Seq(LiveRule), NEW ref
  PROVE  ref \in RefsOf(PayloadKeepingIgnored(desired, current)) <=>
           \E i \in SentAt(desired, current) : desired[i].ref = ref
<1> DEFINE pay == PayloadKeepingIgnored(desired, current)
           P == SentAt(desired, current)
<1>1. \A k \in DOMAIN pay :
        InOrder[P][k] \in P /\ pay[k].ref = desired[InOrder[P][k]].ref
  BY PayloadRules
<1>2. \A i \in P : \E k \in DOMAIN pay : InOrder[P][k] = i
  BY PayloadIsTheFile
<1>3. \A i \in P : desired[i].ref # NoRef
  <2>1. \A i \in P : desired[i] \in FileRule
    BY DEF SentAt
  <2> QED
    BY <2>1, NoRefAssumption DEF FileRule
<1> HIDE DEF pay, P
<1>4. ref \in RefsOf(pay) <=> \E i \in P : desired[i].ref = ref
  BY <1>1, <1>2, <1>3 DEF RefsOf
<1> QED
  BY <1>4 DEF pay, P

(* A payload has no ref twice if the file has none.                        *)
LEMMA PayloadIsValid ==
  ASSUME NEW desired \in Seq(FileRule), NEW current \in Seq(LiveRule), ValidRules(desired)
  PROVE  ValidRules(PayloadKeepingIgnored(desired, current))
<1> DEFINE pay == PayloadKeepingIgnored(desired, current)
           P == SentAt(desired, current)
           at(k) == InOrder[P][k]
<1>1. \A k \in DOMAIN pay : at(k) \in P /\ pay[k].ref = desired[at(k)].ref
  BY PayloadRules
<1>2. \A k, l \in DOMAIN pay : k < l => at(k) < at(l)
  BY PayloadIsTheFile
<1>3. P \in SUBSET DOMAIN desired
  BY DEF SentAt
<1>4. DOMAIN pay \in SUBSET Int
  <2>1. pay \in Seq(SentRule)
    BY PayloadIsTheFile
  <2> QED
    BY <2>1
<1>5. DOMAIN desired \in SUBSET Int
  OBVIOUS
<1> HIDE DEF pay, P, at
<1>6. ASSUME NEW k \in DOMAIN pay, NEW l \in DOMAIN pay, pay[k].ref = pay[l].ref
      PROVE  k = l
  <2>1. at(k) = at(l)
    BY <1>1, <1>3, <1>6 DEF ValidRules
  <2>2. at(k) \in Int /\ k \in Int /\ l \in Int
    BY <1>1, <1>3, <1>4, <1>5
  <2>3. ~(k < l) /\ ~(l < k)
    BY <1>2, <2>1, <2>2
  <2> QED
    BY <2>2, <2>3
<1> QED
  BY <1>6 DEF ValidRules, pay

(* What the provider stores says what the payload says.                    *)
LEMMA StoredSaysThePayload ==
  ASSUME NEW payload \in Seq(SentRule)
  PROVE  /\ Stored(payload) \in Seq(LiveRule)
         /\ DOMAIN Stored(payload) = DOMAIN payload
         /\ \A k \in DOMAIN payload : /\ Stored(payload)[k].ref = payload[k].ref
                                      /\ Stored(payload)[k].body = payload[k].body
         /\ RefsOf(Stored(payload)) = RefsOf(payload)
         /\ \A ref \in RefsOf(payload) :
              RulesByRef(Stored(payload))[ref].body = RulesByRef(payload)[ref].body
<1>1. DOMAIN Stored(payload) = DOMAIN payload
  BY DEF Stored
<1>2. \A k \in DOMAIN payload : /\ Stored(payload)[k].ref = payload[k].ref
                                /\ Stored(payload)[k].body = payload[k].body
                                /\ Stored(payload)[k] \in LiveRule
  <2> SUFFICES ASSUME NEW k \in DOMAIN payload
               PROVE  /\ Stored(payload)[k].ref = payload[k].ref
                      /\ Stored(payload)[k].body = payload[k].body
                      /\ Stored(payload)[k] \in LiveRule
    OBVIOUS
  <2>1. payload[k] \in SentRule
    OBVIOUS
  <2>2. Stored(payload)[k]
          = [ref |-> payload[k].ref, body |-> payload[k].body, form |-> "api"]
    BY DEF Stored
  <2> QED
    BY <2>1, <2>2 DEF SentRule, LiveRule
<1>3. Stored(payload) \in Seq(LiveRule)
  <2>1. DOMAIN payload = 1..Len(payload) /\ Len(payload) \in Nat
    OBVIOUS
  <2>2. Stored(payload) \in [1..Len(payload) -> LiveRule]
    BY <1>2, <2>1 DEF Stored
  <2> QED
    BY <2>1, <2>2, SeqDef
<1>4. RefsOf(Stored(payload)) = RefsOf(payload)
  BY <1>1, <1>2 DEF RefsOf
<1>5. ASSUME NEW ref \in RefsOf(payload)
      PROVE  RulesByRef(Stored(payload))[ref].body = RulesByRef(payload)[ref].body
  <2>1. PICK i \in DOMAIN payload :
          /\ payload[i].ref = ref /\ RulesByRef(payload)[ref] = payload[i]
          /\ \A j \in DOMAIN payload : payload[j].ref = ref => j <= i
    BY LastEntryWins
  <2>2. PICK j \in DOMAIN Stored(payload) :
          /\ Stored(payload)[j].ref = ref /\ RulesByRef(Stored(payload))[ref] = Stored(payload)[j]
          /\ \A l \in DOMAIN Stored(payload) : Stored(payload)[l].ref = ref => l <= j
    BY <1>3, <1>4, LastEntryWins
  <2>3. i <= j /\ j <= i /\ i \in Int /\ j \in Int
    BY <1>1, <1>2, <2>1, <2>2
  <2>4. i = j
    BY <2>3
  <2> QED
    BY <1>2, <2>1, <2>2, <2>4
<1> QED
  BY <1>1, <1>2, <1>3, <1>4, <1>5
-----------------------------------------------------------------------------
(* The diff.                                                               *)

(* What the diff compares on the file's side: its managed rules.           *)
LEMMA PreparedRules ==
  ASSUME NEW desired \in Seq(FileRule), NEW ref
  PROVE  /\ ref \in RefsOf(PrepareDesired(desired)) <=>
              \E i \in DOMAIN desired : ~IsIgnored(desired[i]) /\ desired[i].ref = ref
         /\ ref \in RefsOf(PrepareDesired(desired)) =>
              \E i \in DOMAIN desired :
                /\ ~IsIgnored(desired[i]) /\ desired[i].ref = ref
                /\ RulesByRef(PrepareDesired(desired))[ref] = SentForm(desired[i])
<1> DEFINE P == {i \in DOMAIN desired : ~IsIgnored(desired[i])}
           S == {SentForm(desired[i]) : i \in DOMAIN desired}
           sent == [i \in DOMAIN desired |-> SentForm(desired[i])]
           E == Entries(sent, P)
<1>1. sent \in Seq(S) /\ DOMAIN sent = DOMAIN desired
  <2>1. DOMAIN desired = 1..Len(desired) /\ Len(desired) \in Nat
    OBVIOUS
  <2>2. sent \in [1..Len(desired) -> S]
    BY <2>1
  <2> QED
    BY <2>1, <2>2, SeqDef
<1>2. P \in SUBSET DOMAIN sent
  BY <1>1
<1>3. PrepareDesired(desired) = E
  BY DEF PrepareDesired
<1>4. \A i \in DOMAIN desired : sent[i] = SentForm(desired[i])
  OBVIOUS
<1>5. \A i \in P : desired[i].ref # NoRef /\ SentForm(desired[i]).ref = desired[i].ref
  <2>1. \A i \in P : desired[i] \in FileRule
    OBVIOUS
  <2> QED
    BY <2>1, NoRefAssumption DEF FileRule, SentForm
<1>6. \A i : i \in P <=> i \in DOMAIN desired /\ ~IsIgnored(desired[i])
  OBVIOUS
<1> HIDE DEF sent, S, P
<1>7. /\ E \in Seq(S)
      /\ \A k \in DOMAIN E : InOrder[P][k] \in P /\ E[k] = sent[InOrder[P][k]]
      /\ \A k, l \in DOMAIN E : k < l => InOrder[P][k] < InOrder[P][l]
      /\ \A i \in P : \E k \in DOMAIN E : InOrder[P][k] = i
  BY <1>1, <1>2, EntriesAt
<1> HIDE DEF E
<1>8. \A k \in DOMAIN E : /\ InOrder[P][k] \in P /\ E[k] = SentForm(desired[InOrder[P][k]])
                          /\ E[k].ref = desired[InOrder[P][k]].ref
  BY <1>4, <1>5, <1>6, <1>7
<1>9. ref \in RefsOf(E) <=> \E i \in P : desired[i].ref = ref
  BY <1>5, <1>7, <1>8 DEF RefsOf
<1>10. ASSUME ref \in RefsOf(E)
       PROVE  \E i \in P : desired[i].ref = ref /\ RulesByRef(E)[ref] = SentForm(desired[i])
  <2>1. PICK k \in DOMAIN E : E[k].ref = ref /\ RulesByRef(E)[ref] = E[k]
    BY <1>7, <1>10, LastEntryWins
  <2> QED
    BY <1>8, <2>1
<1> QED
  BY <1>3, <1>6, <1>9, <1>10

(* On the live side: the rules the file does not tell it to ignore.        *)
Managed(current, ignored) ==
  Entries(current, {i \in DOMAIN current : current[i].ref \notin ignored})

(* They keep their refs, and are looked up among themselves.               *)
LEMMA ManagedRules ==
  ASSUME NEW current \in Seq(LiveRule), NEW ignored, NEW ref
  PROVE  /\ ref \in RefsOf(Managed(current, ignored)) <=>
              ref \in RefsOf(current) /\ ref \notin ignored
         /\ ref \in RefsOf(Managed(current, ignored)) =>
              \E i \in DOMAIN current :
                current[i].ref = ref /\ RulesByRef(Managed(current, ignored))[ref] = current[i]
<1> DEFINE P == {i \in DOMAIN current : current[i].ref \notin ignored}
           E == Entries(current, P)
<1>1. P \in SUBSET DOMAIN current
  OBVIOUS
<1>2. \A i : i \in P <=> i \in DOMAIN current /\ current[i].ref \notin ignored
  OBVIOUS
<1> HIDE DEF P
<1>3. /\ E \in Seq(LiveRule)
      /\ \A k \in DOMAIN E : InOrder[P][k] \in P /\ E[k] = current[InOrder[P][k]]
      /\ \A k, l \in DOMAIN E : k < l => InOrder[P][k] < InOrder[P][l]
      /\ \A i \in P : \E k \in DOMAIN E : InOrder[P][k] = i
  BY <1>1, EntriesAt
<1> HIDE DEF E
<1>4. ref \in RefsOf(E) <=> ref \in RefsOf(current) /\ ref \notin ignored
  <2>1. ref \in RefsOf(E) <=> ref # NoRef /\ \E i \in P : current[i].ref = ref
    BY <1>3 DEF RefsOf
  <2>2. ref \in RefsOf(current) <=> ref # NoRef /\ \E i \in DOMAIN current : current[i].ref = ref
    BY DEF RefsOf
  <2> QED
    BY <1>2, <2>1, <2>2
<1>5. ASSUME ref \in RefsOf(E)
      PROVE  \E i \in DOMAIN current : current[i].ref = ref /\ RulesByRef(E)[ref] = current[i]
  <2>1. PICK k \in DOMAIN E : E[k].ref = ref /\ RulesByRef(E)[ref] = E[k]
    BY <1>3, <1>5, LastEntryWins
  <2> QED
    BY <1>2, <1>3, <2>1
<1> QED
  BY <1>4, <1>5 DEF E, P, Managed

(* Planned again, a list stored from its payload has the payload's refs.   *)
LEMMA PayloadAgain ==
  ASSUME NEW desired \in Seq(FileRule), NEW current \in Seq(LiveRule), ValidRules(desired)
  PROVE  LET pay == PayloadKeepingIgnored(desired, current)
         IN  RefOrder(PayloadKeepingIgnored(desired, Stored(pay))) = RefOrder(Stored(pay))
<1> DEFINE pay == PayloadKeepingIgnored(desired, current)
           stored == Stored(pay)
           again == PayloadKeepingIgnored(desired, stored)
           P == SentAt(desired, current)
<1>1. pay \in Seq(SentRule)
  BY PayloadIsTheFile
<1>2. /\ stored \in Seq(LiveRule) /\ DOMAIN stored = DOMAIN pay
      /\ \A k \in DOMAIN pay : stored[k].ref = pay[k].ref
      /\ RefsOf(stored) = RefsOf(pay)
  BY <1>1, StoredSaysThePayload
<1>3. SentAt(desired, stored) = P
  <2>1. ASSUME NEW i \in DOMAIN desired PROVE i \in SentAt(desired, stored) <=> i \in P
    <3>1. i \in SentAt(desired, stored) <=>
            (IsIgnored(desired[i]) => \E j \in P : desired[j].ref = desired[i].ref)
      BY <1>2, PayloadRefs DEF SentAt
    <3>2. P \in SUBSET DOMAIN desired
      BY DEF SentAt
    <3>3. (\E j \in P : desired[j].ref = desired[i].ref) <=> i \in P
      BY <3>2 DEF ValidRules
    <3>4. ~IsIgnored(desired[i]) => i \in P
      BY DEF SentAt
    <3> QED
      BY <3>1, <3>3, <3>4
  <2> QED
    BY <2>1 DEF SentAt
<1>4. DOMAIN again = DOMAIN InOrder[P] /\ DOMAIN pay = DOMAIN InOrder[P]
  <2>1. DOMAIN again = DOMAIN InOrder[SentAt(desired, stored)]
    BY DEF PayloadKeepingIgnored, Entries, SentAt
  <2>2. DOMAIN pay = DOMAIN InOrder[P]
    BY DEF PayloadKeepingIgnored, Entries, SentAt
  <2> QED
    BY <1>3, <2>1, <2>2
<1>5. ASSUME NEW k \in DOMAIN pay PROVE again[k].ref = stored[k].ref
  <2>1. pay[k].ref = desired[InOrder[P][k]].ref
    BY PayloadRules
  <2>2. again[k].ref = desired[InOrder[SentAt(desired, stored)][k]].ref
    BY <1>2, <1>4, PayloadRules
  <2> QED
    BY <1>2, <1>3, <2>1, <2>2
<1> HIDE DEF again, stored, pay
<1>6. /\ [i \in DOMAIN again |-> again[i].ref] = [i \in DOMAIN stored |-> stored[i].ref]
      /\ {i \in DOMAIN again : again[i].ref # NoRef}
           = {i \in DOMAIN stored : stored[i].ref # NoRef}
  BY <1>2, <1>4, <1>5
<1>7. RefOrder(again) = RefOrder(stored)
  BY <1>6 DEF RefOrder
<1> QED
  BY <1>7 DEF again, stored, pay

(* A list stored from its payload differs from the file in nothing: a      *)
(* second plan finds nothing to do.                                        *)
LEMMA StoredNeedsNothing ==
  ASSUME NEW desired \in Seq(FileRule), NEW current \in Seq(LiveRule), ValidRules(desired)
  PROVE  DiffPhase(desired, Stored(PayloadKeepingIgnored(desired, current))).changes = {}
<1> DEFINE pay == PayloadKeepingIgnored(desired, current)
           stored == Stored(pay)
           again == PayloadKeepingIgnored(desired, stored)
           ignored == IgnoredRefs(desired)
           managed == Managed(stored, ignored)
           want == PrepareDesired(desired)
           P == SentAt(desired, current)
<1>1. DiffPhase(desired, stored).changes
        = DiffRules(want, managed, <<RefOrder(again), RefOrder(stored)>>)
  BY DEF DiffPhase, Managed
<1>2. ~SharedOrderDiffers(RefOrder(again), RefOrder(stored))
  BY PayloadAgain DEF SharedOrderDiffers
<1>3. pay \in Seq(SentRule) /\ stored \in Seq(LiveRule) /\ RefsOf(stored) = RefsOf(pay)
  BY PayloadIsTheFile, StoredSaysThePayload
<1>4. \A ref : ref \in ignored <=> \E i \in DOMAIN desired :
                                     IsIgnored(desired[i]) /\ desired[i].ref = ref
  BY DEF IgnoredRefs
<1>5. \A ref : ref \in RefsOf(want) <=>
        \E i \in DOMAIN desired : ~IsIgnored(desired[i]) /\ desired[i].ref = ref
  BY PreparedRules
<1>6. \A ref : ref \in RefsOf(managed) <=>
        ref \notin ignored /\ \E i \in P : desired[i].ref = ref
  BY <1>3, ManagedRules, PayloadRefs
<1>7. ASSUME NEW ref PROVE ref \in RefsOf(want) <=> ref \in RefsOf(managed)
  <2>1. ASSUME ref \in RefsOf(want) PROVE ref \in RefsOf(managed)
    <3>1. PICK i \in DOMAIN desired : ~IsIgnored(desired[i]) /\ desired[i].ref = ref
      BY <1>5, <2>1
    <3>2. i \in P
      BY <3>1 DEF SentAt
    <3>3. ref \notin ignored
      BY <1>4, <3>1 DEF ValidRules
    <3> QED
      BY <1>6, <3>1, <3>2, <3>3
  <2>2. ASSUME ref \in RefsOf(managed) PROVE ref \in RefsOf(want)
    <3>1. PICK i \in P : desired[i].ref = ref
      BY <1>6, <2>2
    <3>2. i \in DOMAIN desired /\ ~IsIgnored(desired[i])
      BY <1>4, <1>6, <2>2, <3>1 DEF SentAt
    <3> QED
      BY <1>5, <3>1, <3>2
  <2> QED
    BY <2>1, <2>2
<1>8. ASSUME NEW ref \in RefsOf(want)
      PROVE  NormalizeRule(RulesByRef(want)[ref]) = NormalizeRule(RulesByRef(managed)[ref])
  <2>1. PICK i \in DOMAIN desired :
          /\ ~IsIgnored(desired[i]) /\ desired[i].ref = ref
          /\ RulesByRef(want)[ref] = SentForm(desired[i])
    BY PreparedRules
  <2>2. ref \in RefsOf(managed)
    BY <1>7
  <2>3. PICK k \in DOMAIN stored : stored[k].ref = ref /\ RulesByRef(managed)[ref] = stored[k]
    BY <1>3, <2>2, ManagedRules
  <2>4. k \in DOMAIN pay /\ stored[k].ref = pay[k].ref /\ stored[k].body = pay[k].body
    BY <1>3, <2>3, StoredSaysThePayload
  <2>5. /\ InOrder[P][k] \in P /\ pay[k].ref = desired[InOrder[P][k]].ref
        /\ ~IsIgnored(desired[InOrder[P][k]]) => pay[k].body = desired[InOrder[P][k]].body
    BY <2>4, PayloadRules
  <2>6. InOrder[P][k] = i
    BY <2>1, <2>3, <2>4, <2>5 DEF SentAt, ValidRules
  <2>7. stored[k].ref = desired[i].ref /\ stored[k].body = desired[i].body
    BY <2>1, <2>3, <2>4, <2>5, <2>6
  <2>8. NormalizeRule(SentForm(desired[i])) = NormalizeRule(stored[k])
    BY <2>7 DEF NormalizeRule, SentForm
  <2> QED
    BY <2>1, <2>3, <2>8
<1> HIDE DEF want, managed, again, stored
<1>9. DOMAIN RulesByRef(want) = RefsOf(want) /\ DOMAIN RulesByRef(managed) = RefsOf(managed)
  BY ByRefDomain
<1>10. DOMAIN RulesByRef(want) = DOMAIN RulesByRef(managed)
  BY <1>7, <1>9
<1>11. \A ref \in DOMAIN RulesByRef(want) :
         NormalizeRule(RulesByRef(want)[ref]) = NormalizeRule(RulesByRef(managed)[ref])
  BY <1>8, <1>9
<1>12. DiffRules(want, managed, <<RefOrder(again), RefOrder(stored)>>) = {}
  BY <1>2, <1>10, <1>11 DEF DiffRules
<1> QED
  BY <1>1, <1>12 DEF stored

(* What unplanned_changes lets through does no more to a reader's view of  *)
(* the list than the planned changes say.                                  *)
LEMMA NothingUnplanned ==
  ASSUME NEW changes, NEW payload \in Seq(SentRule), NEW current \in Seq(LiveRule),
         UnplannedChanges(changes, payload, current) = {}
  PROVE  LET new == Stored(payload)
         IN  /\ \A ref \in RefsOf(current) \ RefsOf(new) : Change("REMOVE", ref) \in changes
             /\ \A ref \in RefsOf(new) \ RefsOf(current) : Change("ADD", ref) \in changes
             /\ \A ref \in RefsOf(current) \cap RefsOf(new) :
                  RulesByRef(current)[ref].body # RulesByRef(new)[ref].body
                    => Change("MODIFY", ref) \in changes
             /\ \A a, b \in RefsOf(current) \cap RefsOf(new) :
                  Precedes(new, a, b) /\ ~Precedes(current, a, b) => Reorder \in changes
<1> DEFINE new == Stored(payload)
<1>1. RefsOf(new) = RefsOf(payload) /\ new \in Seq(LiveRule)
  BY StoredSaysThePayload
<1>2. ASSUME NEW ref \in RefsOf(current) \ RefsOf(new) PROVE Change("REMOVE", ref) \in changes
  BY <1>1, <1>2, ByRefDomain DEF UnplannedChanges
<1>3. ASSUME NEW ref \in RefsOf(new) \ RefsOf(current) PROVE Change("ADD", ref) \in changes
  BY <1>1, <1>3, ByRefDomain DEF UnplannedChanges
<1>4. ASSUME NEW ref \in RefsOf(current) \cap RefsOf(new),
             RulesByRef(current)[ref].body # RulesByRef(new)[ref].body
      PROVE  Change("MODIFY", ref) \in changes
  <2>1. RulesByRef(new)[ref].body = RulesByRef(payload)[ref].body
    BY <1>1, StoredSaysThePayload
  <2>2. NormalizeRule(RulesByRef(payload)[ref]) # NormalizeRule(RulesByRef(current)[ref])
    <3>1. NormalizeRule(RulesByRef(payload)[ref]).body = RulesByRef(payload)[ref].body
      BY DEF NormalizeRule
    <3>2. NormalizeRule(RulesByRef(current)[ref]).body = RulesByRef(current)[ref].body
      BY DEF NormalizeRule
    <3> QED
      BY <1>4, <2>1, <3>1, <3>2
  <2> QED
    BY <1>1, <2>2, ByRefDomain DEF UnplannedChanges
<1>5. ASSUME NEW a \in RefsOf(current) \cap RefsOf(new),
             NEW b \in RefsOf(current) \cap RefsOf(new),
             Precedes(new, a, b), ~Precedes(current, a, b), Reorder \notin changes
      PROVE  FALSE
  <2>1. ~SharedOrderDiffers(RefOrder(payload), RefOrder(current))
    BY <1>5 DEF UnplannedChanges
  <2>2. DOMAIN payload = 1..Len(payload) /\ Len(payload) \in Nat
    OBVIOUS
  <2>3. /\ \E S : RefOrder(payload) \in Seq(S)
        /\ \A ref : ref \in RefsOf(payload) <=>
                      \E i \in DOMAIN RefOrder(payload) : RefOrder(payload)[i] = ref
        /\ \A c, d : c # NoRef /\ d # NoRef =>
             (Follows(RefOrder(payload), c, d) <=> Precedes(payload, c, d))
    BY <2>2, RefOrderIsOrder
  <2>4. DOMAIN current = 1..Len(current) /\ Len(current) \in Nat
    OBVIOUS
  <2>5. /\ \E S : RefOrder(current) \in Seq(S)
        /\ \A ref : ref \in RefsOf(current) <=>
                      \E i \in DOMAIN RefOrder(current) : RefOrder(current)[i] = ref
        /\ \A c, d : c # NoRef /\ d # NoRef =>
             (Follows(RefOrder(current), c, d) <=> Precedes(current, c, d))
    BY <2>4, RefOrderIsOrder
  <2>6. a # NoRef /\ b # NoRef
    BY DEF RefsOf
  <2>7. Precedes(new, a, b) <=> Precedes(payload, a, b)
    BY StoredSaysThePayload DEF Precedes
  <2>8. PICK S : RefOrder(payload) \in Seq(S)
    BY <2>3
  <2>9. PICK T : RefOrder(current) \in Seq(T)
    BY <2>5
  <2>10. /\ \E i \in DOMAIN RefOrder(payload) : RefOrder(payload)[i] = a
         /\ \E i \in DOMAIN RefOrder(payload) : RefOrder(payload)[i] = b
         /\ \E i \in DOMAIN RefOrder(current) : RefOrder(current)[i] = a
         /\ \E i \in DOMAIN RefOrder(current) : RefOrder(current)[i] = b
    BY <1>1, <2>3, <2>5
  <2>11. Follows(RefOrder(payload), a, b) <=> Follows(RefOrder(current), a, b)
    BY <2>1, <2>8, <2>9, <2>10, SharedOrderIsOrder
  <2> QED
    BY <1>5, <2>3, <2>5, <2>6, <2>7, <2>11
<1> QED
  BY <1>2, <1>3, <1>4, <1>5

(* An ignored rule is stored exactly if it was live, and says what it said. *)
LEMMA IgnoredStaysAsItWas ==
  ASSUME NEW desired \in Seq(FileRule), NEW current \in Seq(LiveRule), ValidRules(desired),
         NEW i \in DOMAIN desired, IsIgnored(desired[i])
  PROVE  LET new == Stored(PayloadKeepingIgnored(desired, current))
             ref == desired[i].ref
         IN  /\ ref \in RefsOf(current) <=> ref \in RefsOf(new)
             /\ ref \in RefsOf(current) =>
                  RulesByRef(current)[ref].body = RulesByRef(new)[ref].body
<1> DEFINE pay == PayloadKeepingIgnored(desired, current)
           new == Stored(pay)
           ref == desired[i].ref
           P == SentAt(desired, current)
<1>1. pay \in Seq(SentRule) /\ RefsOf(new) = RefsOf(pay)
  BY PayloadIsTheFile, StoredSaysThePayload
<1>2. P \in SUBSET DOMAIN desired /\ (i \in P <=> ref \in RefsOf(current))
  BY DEF SentAt
<1>3. ref \in RefsOf(pay) <=> \E j \in P : desired[j].ref = ref
  BY PayloadRefs
<1>4. ref \in RefsOf(pay) <=> ref \in RefsOf(current)
  BY <1>2, <1>3 DEF ValidRules
<1>5. ASSUME ref \in RefsOf(current)
      PROVE  RulesByRef(current)[ref].body = RulesByRef(new)[ref].body
  <2>0. ref \in RefsOf(pay)
    BY <1>4, <1>5
  <2>1. PICK k \in DOMAIN pay : pay[k].ref = ref /\ RulesByRef(pay)[ref] = pay[k]
    <3> HIDE DEF pay, ref
    <3> QED
      BY <1>1, <2>0, LastEntryWins
  <2>2. /\ InOrder[P][k] \in P /\ pay[k].ref = desired[InOrder[P][k]].ref
        /\ IsIgnored(desired[InOrder[P][k]]) =>
             pay[k].body = RulesByRef(current)[desired[InOrder[P][k]].ref].body
    BY PayloadRules
  <2>3. InOrder[P][k] = i
    BY <1>2, <2>1, <2>2 DEF ValidRules
  <2>4. RulesByRef(pay)[ref].body = RulesByRef(current)[ref].body
    BY <2>1, <2>2, <2>3
  <2>5. RulesByRef(new)[ref].body = RulesByRef(pay)[ref].body
    BY <1>1, <1>4, <1>5, StoredSaysThePayload
  <2> QED
    BY <2>4, <2>5
<1> QED
  BY <1>1, <1>4, <1>5

(* The diff removes only what is live.                                     *)
LEMMA RemovesWhatIsLive ==
  ASSUME NEW desired, NEW current \in Seq(LiveRule),
         NEW c \in DiffPhase(desired, current).changes, c.type = "REMOVE"
  PROVE  \E ref \in RefsOf(current) : c = Change("REMOVE", ref)
<1> DEFINE managed == Managed(current, IgnoredRefs(desired))
           order == <<RefOrder(PayloadKeepingIgnored(desired, current)), RefOrder(current)>>
<1>1. c \in DiffRules(PrepareDesired(desired), managed, order)
  BY DEF DiffPhase, Managed
<1>2. \A ref \in RefsOf(managed) : ref \in RefsOf(current)
  BY ManagedRules
<1> HIDE DEF managed, order
<1>3. c \in {Change("REMOVE", ref) : ref \in RefsOf(managed)}
  BY <1>1, ByRefDomain DEF DiffRules, Change, Reorder
<1> QED
  BY <1>2, <1>3

-----------------------------------------------------------------------------
(* What a plan shows of the list its payload stores.                       *)

(* Leaving the ignored rules out of a list looks the others up as before.  *)
LEMMA ManagedLooksUpTheSame ==
  ASSUME NEW current \in Seq(LiveRule), NEW ignored,
         NEW ref \in RefsOf(Managed(current, ignored))
  PROVE  RulesByRef(Managed(current, ignored))[ref] = RulesByRef(current)[ref]
<1> DEFINE P == {i \in DOMAIN current : current[i].ref \notin ignored}
           E == Entries(current, P)
<1>1. P \in SUBSET DOMAIN current /\ E = Managed(current, ignored)
  BY DEF Managed
<1>2. \A i : i \in P <=> i \in DOMAIN current /\ current[i].ref \notin ignored
  OBVIOUS
<1> HIDE DEF P
<1>3. /\ E \in Seq(LiveRule)
      /\ \A k \in DOMAIN E : InOrder[P][k] \in P /\ E[k] = current[InOrder[P][k]]
      /\ \A k, l \in DOMAIN E : k < l => InOrder[P][k] < InOrder[P][l]
      /\ \A i \in P : \E k \in DOMAIN E : InOrder[P][k] = i
  BY <1>1, EntriesAt
<1>4. ref \in RefsOf(E) /\ ref \in RefsOf(current) /\ ref \notin ignored
  BY <1>1, ManagedRules
<1> HIDE DEF E
<1>5. PICK k \in DOMAIN E :
        /\ E[k].ref = ref /\ RulesByRef(E)[ref] = E[k]
        /\ \A l \in DOMAIN E : E[l].ref = ref => l <= k
  BY <1>3, <1>4, LastEntryWins
<1>6. PICK i \in DOMAIN current :
        /\ current[i].ref = ref /\ RulesByRef(current)[ref] = current[i]
        /\ \A j \in DOMAIN current : current[j].ref = ref => j <= i
  BY <1>4, LastEntryWins
<1>7. PICK l \in DOMAIN E : InOrder[P][l] = i
  BY <1>2, <1>3, <1>4, <1>6
<1>8. l <= k /\ l \in Nat /\ k \in Nat
  <2>1. DOMAIN E = 1..Len(E) /\ Len(E) \in Nat
    BY <1>3
  <2> QED
    BY <1>3, <1>5, <1>6, <1>7, <2>1
<1>9. InOrder[P][k] <= i /\ InOrder[P][k] \in Nat /\ i \in Nat
  <2>1. DOMAIN current = 1..Len(current) /\ Len(current) \in Nat
    OBVIOUS
  <2>2. InOrder[P][k] \in DOMAIN current
    BY <1>2, <1>3
  <2> QED
    BY <1>3, <1>5, <1>6, <2>1, <2>2
<1>10. l = k
  BY <1>3, <1>7, <1>8, <1>9
<1> QED
  BY <1>1, <1>3, <1>5, <1>6, <1>7, <1>10

(* A rule stored from a payload is an ignored one as it was live, or one   *)
(* the diff compares, as the file has it; and nothing the diff compares is *)
(* missing.                                                                *)
LEMMA StoredRules ==
  ASSUME NEW desired \in Seq(FileRule), NEW current \in Seq(LiveRule), ValidRules(desired),
         NEW ref
  PROVE  LET new == Stored(PayloadKeepingIgnored(desired, current))
             want == PrepareDesired(desired)
         IN  /\ ref \in RefsOf(new) =>
                  \/ /\ ref \in RefsOf(current)
                     /\ RulesByRef(new)[ref].body = RulesByRef(current)[ref].body
                  \/ /\ ref \in RefsOf(want) /\ ref \notin IgnoredRefs(desired)
                     /\ RulesByRef(new)[ref].body = RulesByRef(want)[ref].body
             /\ ref \in RefsOf(want) => ref \in RefsOf(new)
             /\ ref \in RefsOf(current) /\ ref \in IgnoredRefs(desired) => ref \in RefsOf(new)
<1> DEFINE pay == PayloadKeepingIgnored(desired, current)
           new == Stored(pay)
           want == PrepareDesired(desired)
           P == SentAt(desired, current)
<1>1. /\ pay \in Seq(SentRule) /\ RefsOf(new) = RefsOf(pay)
      /\ ref \in RefsOf(pay) => RulesByRef(new)[ref].body = RulesByRef(pay)[ref].body
  BY PayloadIsTheFile, StoredSaysThePayload
<1>2. /\ P \in SUBSET DOMAIN desired
      /\ \A i \in DOMAIN desired : ~IsIgnored(desired[i]) => i \in P
  BY DEF SentAt
<1>3. ref \in RefsOf(pay) <=> \E i \in P : desired[i].ref = ref
  BY PayloadRefs
<1>4. ASSUME ref \in RefsOf(want) PROVE ref \in RefsOf(new)
  BY <1>1, <1>2, <1>3, <1>4, PreparedRules
<1>5. ASSUME ref \in RefsOf(current), ref \in IgnoredRefs(desired)
      PROVE  ref \in RefsOf(new)
  <2>1. PICK i \in DOMAIN desired : IsIgnored(desired[i]) /\ desired[i].ref = ref
    BY <1>5 DEF IgnoredRefs
  <2> QED
    BY <1>5, <2>1, IgnoredStaysAsItWas
<1>6. ASSUME ref \in RefsOf(new), NEW i \in P, desired[i].ref = ref, IsIgnored(desired[i])
      PROVE  /\ ref \in RefsOf(current)
             /\ RulesByRef(new)[ref].body = RulesByRef(current)[ref].body
  BY <1>2, <1>6, IgnoredStaysAsItWas
<1>7. ASSUME ref \in RefsOf(new), NEW i \in P, desired[i].ref = ref, ~IsIgnored(desired[i])
      PROVE  /\ ref \in RefsOf(want) /\ ref \notin IgnoredRefs(desired)
             /\ RulesByRef(new)[ref].body = RulesByRef(want)[ref].body
  <2>1. \A j \in DOMAIN desired : desired[j].ref = ref => j = i
    BY <1>2, <1>7 DEF ValidRules
  <2>2. ref \notin IgnoredRefs(desired)
    BY <1>7, <2>1 DEF IgnoredRefs
  <2>3. ref \in RefsOf(want)
    BY <1>2, <1>7, PreparedRules
  <2>4. RulesByRef(want)[ref].body = desired[i].body
    <3>1. RulesByRef(want)[ref] = SentForm(desired[i])
      BY <2>1, <2>3, PreparedRules
    <3> QED
      BY <3>1 DEF SentForm
  <2>5. PICK k \in DOMAIN pay : pay[k].ref = ref /\ RulesByRef(pay)[ref] = pay[k]
    <3>1. ref \in RefsOf(pay)
      BY <1>1, <1>7
    <3> HIDE DEF pay
    <3> QED
      BY <1>1, <3>1, LastEntryWins
  <2>6. /\ InOrder[P][k] \in P /\ pay[k].ref = desired[InOrder[P][k]].ref
        /\ ~IsIgnored(desired[InOrder[P][k]]) => pay[k].body = desired[InOrder[P][k]].body
    BY PayloadRules
  <2>7. InOrder[P][k] = i
    BY <1>2, <2>1, <2>5, <2>6
  <2>8. RulesByRef(pay)[ref].body = desired[i].body
    BY <1>7, <2>5, <2>6, <2>7
  <2> QED
    BY <1>1, <1>7, <2>2, <2>3, <2>4, <2>8
<1>8. ref \in RefsOf(new) => \E i \in P : desired[i].ref = ref
  BY <1>1, <1>3
<1> QED
  BY <1>4, <1>5, <1>6, <1>7, <1>8

(* Unless a filter blocks some of them, the changes of diff_phase show all *)
(* its payload does to the rules with a ref: those it drops, those it      *)
(* brings and those it changes, the latter two as the file has them.       *)
THEOREM PlanShowsEveryRule ==
  ASSUME NEW desired \in Seq(FileRule), NEW current \in Seq(LiveRule), ValidRules(desired),
         NEW ref
  PROVE  LET changes == DiffPhase(desired, current).changes
             new == Stored(DiffPhase(desired, current).prepared)
             want == PrepareDesired(desired)
         IN  /\ ref \in RefsOf(current) /\ ref \notin RefsOf(new)
                  => Change("REMOVE", ref) \in changes
             /\ ref \in RefsOf(new) /\ ref \notin RefsOf(current) =>
                  /\ Change("ADD", ref) \in changes
                  /\ ref \in RefsOf(want)
                  /\ RulesByRef(new)[ref].body = RulesByRef(want)[ref].body
             /\ /\ ref \in RefsOf(current) /\ ref \in RefsOf(new)
                /\ RulesByRef(current)[ref].body # RulesByRef(new)[ref].body
                => /\ Change("MODIFY", ref) \in changes
                   /\ ref \in RefsOf(want)
                   /\ RulesByRef(new)[ref].body = RulesByRef(want)[ref].body
<1> DEFINE changes == DiffPhase(desired, current).changes
           new == Stored(PayloadKeepingIgnored(desired, current))
           want == PrepareDesired(desired)
           managed == Managed(current, IgnoredRefs(desired))
           order == <<RefOrder(PayloadKeepingIgnored(desired, current)), RefOrder(current)>>
<1>1. /\ changes = DiffRules(want, managed, order)
      /\ DiffPhase(desired, current).prepared = PayloadKeepingIgnored(desired, current)
  BY DEF DiffPhase, Managed
<1>2. /\ ref \in RefsOf(new) =>
           \/ /\ ref \in RefsOf(current)
              /\ RulesByRef(new)[ref].body = RulesByRef(current)[ref].body
           \/ /\ ref \in RefsOf(want) /\ ref \notin IgnoredRefs(desired)
              /\ RulesByRef(new)[ref].body = RulesByRef(want)[ref].body
      /\ ref \in RefsOf(want) => ref \in RefsOf(new)
      /\ ref \in RefsOf(current) /\ ref \in IgnoredRefs(desired) => ref \in RefsOf(new)
  BY StoredRules
<1>3. ref \in RefsOf(managed) <=> ref \in RefsOf(current) /\ ref \notin IgnoredRefs(desired)
  BY ManagedRules
<1>4. ref \in RefsOf(managed) => RulesByRef(managed)[ref] = RulesByRef(current)[ref]
  BY ManagedLooksUpTheSame
<1> HIDE DEF changes, new, want, managed, order
<1>5. ASSUME ref \in RefsOf(managed), ref \notin RefsOf(want)
      PROVE  Change("REMOVE", ref) \in changes
  BY <1>1, <1>5, ByRefDomain DEF DiffRules
<1>6. ASSUME ref \in RefsOf(want), ref \notin RefsOf(managed)
      PROVE  Change("ADD", ref) \in changes
  BY <1>1, <1>6, ByRefDomain DEF DiffRules
<1>7. ASSUME ref \in RefsOf(want), ref \in RefsOf(managed),
             RulesByRef(want)[ref].body # RulesByRef(managed)[ref].body
      PROVE  Change("MODIFY", ref) \in changes
  <2>1. NormalizeRule(RulesByRef(want)[ref]) # NormalizeRule(RulesByRef(managed)[ref])
    <3>1. /\ NormalizeRule(RulesByRef(want)[ref]).body = RulesByRef(want)[ref].body
          /\ NormalizeRule(RulesByRef(managed)[ref]).body = RulesByRef(managed)[ref].body
      BY DEF NormalizeRule
    <3> QED
      BY <1>7, <3>1
  <2> QED
    BY <1>1, <1>7, <2>1, ByRefDomain DEF DiffRules
<1>8. ref \in RefsOf(current) /\ ref \notin RefsOf(new) => Change("REMOVE", ref) \in changes
  BY <1>2, <1>3, <1>5
<1>9. ref \in RefsOf(new) /\ ref \notin RefsOf(current) =>
        /\ Change("ADD", ref) \in changes
        /\ ref \in RefsOf(want)
        /\ RulesByRef(new)[ref].body = RulesByRef(want)[ref].body
  BY <1>2, <1>3, <1>6
<1>10. /\ ref \in RefsOf(current) /\ ref \in RefsOf(new)
       /\ RulesByRef(current)[ref].body # RulesByRef(new)[ref].body
       => /\ Change("MODIFY", ref) \in changes
          /\ ref \in RefsOf(want)
          /\ RulesByRef(new)[ref].body = RulesByRef(want)[ref].body
  BY <1>2, <1>3, <1>4, <1>7
<1> QED
  BY <1>1, <1>8, <1>9, <1>10 DEF changes, new, want

-----------------------------------------------------------------------------
(* The inductive invariant.                                                *)

Writing == {"writing", "synced", "error"}
PastCheck == {"checked", "refused"} \cup Writing
NoPlan == {"idle", "failed"}

TypeOK ==
  /\ file \in [Phases -> FileLists \cup {Undeclared}]
  /\ \A p \in Phases : file[p] # Undeclared => ValidRules(FilterByTarget(file[p]))
  /\ selected \in SUBSET Phases
  /\ live \in [Phases -> Seq(LiveRule)]
  /\ drifts \in Nat

PlanOfFetched ==
  /\ pc \in NoPlan => fetched = <<>> /\ plans = <<>>
  /\ pc \notin NoPlan => /\ fetched \in [selected -> Seq(LiveRule) \cup {Failed}]
                         /\ plans = PlanZone(fetched)
  /\ todo \subseteq DOMAIN plans
  /\ pc \notin Writing => todo = {} /\ broken = {}
  /\ pc = "synced" => todo = {} /\ broken = {}

PlanChecked ==
  /\ pc \in Writing => ~UnplannedWrites
  /\ pc \in PastCheck /\ ~force => ~SafetyViolated

(* An edit from outside is the only other way a list changes; a put that    *)
(* failed, seen or not, may have changed it or not.                         *)
WrittenOrUntouched ==
  drifts = 0 => \A p \in FetchedPhases :
    /\ \/ live[p] = fetched[p]
       \/ /\ pc \in Writing /\ p \in DOMAIN plans \ todo
          /\ live[p] = Stored(plans[p].prepared)
    /\ pc \in Writing /\ broken = {} /\ p \in DOMAIN plans \ (todo \cup unseen)
         => live[p] = Stored(plans[p].prepared)

IInv == TypeOK /\ PlanOfFetched /\ PlanChecked /\ WrittenOrUntouched
-----------------------------------------------------------------------------
(* The plan.                                                               *)

TargetedAt(rules) == {i \in DOMAIN rules : rules[i].targeted}

(* What is planned for the target is the file's list without the others.   *)
LEMMA FilteredIsFile ==
  ASSUME NEW rules \in Seq(FileRule)
  PROVE  /\ FilterByTarget(rules) \in Seq(FileRule)
         /\ \A k \in DOMAIN FilterByTarget(rules) :
              /\ InOrder[TargetedAt(rules)][k] \in TargetedAt(rules)
              /\ FilterByTarget(rules)[k] = rules[InOrder[TargetedAt(rules)][k]]
         /\ \A k, l \in DOMAIN FilterByTarget(rules) :
              k < l => InOrder[TargetedAt(rules)][k] < InOrder[TargetedAt(rules)][l]
         /\ \A i \in TargetedAt(rules) :
              \E k \in DOMAIN FilterByTarget(rules) : InOrder[TargetedAt(rules)][k] = i
<1> DEFINE P == TargetedAt(rules)
<1>1. P \in SUBSET DOMAIN rules
  BY DEF TargetedAt
<1>2. FilterByTarget(rules) = Entries(rules, P)
  BY DEF FilterByTarget, TargetedAt
<1> QED
  BY <1>1, <1>2, EntriesAt

(* The lists a phase is diffed with have the form the diff expects.        *)
LEMMA DeclaredList ==
  ASSUME TypeOK, NEW p \in Phases, file[p] # Undeclared
  PROVE  /\ file[p] \in Seq(FileRule)
         /\ FilterByTarget(file[p]) \in Seq(FileRule)
         /\ ValidRules(FilterByTarget(file[p]))
<1>1. file[p] \in Seq(FileRule)
  BY ListAssumption DEF TypeOK
<1> QED
  BY <1>1, FilteredIsFile DEF TypeOK

Wanted(p) == FilterByTarget(file[p])

(* Each plan belongs to a declared and fetched phase, and holds its diff   *)
(* as far as the processors let it through; a phase without a plan needs   *)
(* none.                                                                   *)
LEMMA PlanOfPhase ==
  ASSUME NEW rules
  PROVE  /\ \A p \in DOMAIN PlanZone(rules) :
              /\ p \in DOMAIN rules /\ file[p] # Undeclared /\ rules[p] # Failed
              /\ PlanZone(rules)[p].changes
                   = FilterChanges(DiffPhase(Wanted(p), rules[p]).changes, exclude)
              /\ PlanZone(rules)[p].prepared = PayloadKeepingIgnored(Wanted(p), rules[p])
              /\ PlanZone(rules)[p].current = rules[p]
         /\ \A p \in DOMAIN rules \ DOMAIN PlanZone(rules) :
              file[p] # Undeclared /\ rules[p] # Failed
                => DiffPhase(Wanted(p), rules[p]).changes = {}
<1> DEFINE diff(p) == DiffPhase(FilterByTarget(file[p]), rules[p])
           changed == {p \in {q \in DOMAIN rules : file[q] # Undeclared /\ rules[q] # Failed} :
                         diff(p).changes # {}}
<1>1. PlanZone(rules) = [p \in changed |-> [diff(p) EXCEPT !.changes = FilterChanges(@, exclude)]]
  BY DEF PlanZone
<1>2. ASSUME NEW p \in changed
      PROVE  /\ PlanZone(rules)[p].changes = FilterChanges(diff(p).changes, exclude)
             /\ PlanZone(rules)[p].prepared = PayloadKeepingIgnored(Wanted(p), rules[p])
             /\ PlanZone(rules)[p].current = rules[p]
  <2>1. PlanZone(rules)[p] = [diff(p) EXCEPT !.changes = FilterChanges(@, exclude)]
    BY <1>1
  <2>2. PICK changes : diff(p) = [changes  |-> changes,
                                  prepared |-> PayloadKeepingIgnored(Wanted(p), rules[p]),
                                  current  |-> rules[p]]
    BY DEF DiffPhase, Wanted
  <2> HIDE DEF diff
  <2> QED
    BY <2>1, <2>2
<1>3. DOMAIN PlanZone(rules) = changed
  BY <1>1
<1>4. \A p : p \in changed <=> /\ p \in DOMAIN rules /\ file[p] # Undeclared
                               /\ rules[p] # Failed /\ diff(p).changes # {}
  OBVIOUS
<1>5. \A p : diff(p) = DiffPhase(Wanted(p), rules[p])
  BY DEF Wanted
<1> HIDE DEF diff, changed
<1> QED
  BY <1>2, <1>3, <1>4, <1>5

-----------------------------------------------------------------------------
(* Invariance.                                                             *)

LEMMA InitiallyInv == Init => IInv
<1> SUFFICES ASSUME Init PROVE IInv
  OBVIOUS
<1>1. TypeOK
  BY ListAssumption DEF Init, TypeOK
<1>2. PlanOfFetched
  BY DEF Init, PlanOfFetched, NoPlan, Writing
<1>3. PlanChecked
  BY DEF Init, PlanChecked, PastCheck, Writing
<1>4. FetchedPhases = {}
  BY DEF Init, FetchedPhases
<1> QED
  BY <1>1, <1>2, <1>3, <1>4 DEF IInv, WrittenOrUntouched

(* What the checks of a run look at does not change once it is planned.    *)
LEMMA SameLook ==
  ASSUME UNCHANGED <<fetched, plans>>
  PROVE  /\ FetchedPhases' = FetchedPhases
         /\ UnplannedWrites' <=> UnplannedWrites
         /\ SafetyViolated' <=> SafetyViolated
         /\ HasChanges' <=> HasChanges
<1>1. FetchedPhases' = FetchedPhases
  BY DEF FetchedPhases
<1>2. UnplannedWrites' <=> UnplannedWrites
  BY DEF UnplannedWrites
<1>3. ExistingCount' = ExistingCount
  BY <1>1 DEF ExistingCount
<1>4. \A type : CountType(type)' = CountType(type)
  BY DEF CountType, ChangesOf
<1>5. SafetyViolated' <=> SafetyViolated
  BY <1>3, <1>4 DEF SafetyViolated
<1> QED
  BY <1>1, <1>2, <1>5 DEF HasChanges

LEMMA SamePlan ==
  ASSUME UNCHANGED <<file, exclude, fetched>>
  PROVE  PlanZone(fetched)' = PlanZone(fetched)
BY DEF PlanZone

(* A payload made for a fetched list is a list the provider can store.     *)
LEMMA PlannedPayload ==
  ASSUME IInv, NEW p \in DOMAIN plans
  PROVE  /\ p \in Phases /\ p \in Owned /\ p \in FetchedPhases
         /\ file[p] \in Seq(FileRule)
         /\ Wanted(p) \in Seq(FileRule) /\ ValidRules(Wanted(p))
         /\ fetched[p] \in Seq(LiveRule)
         /\ plans[p].prepared = PayloadKeepingIgnored(Wanted(p), fetched[p])
         /\ plans[p].current = fetched[p]
         /\ plans[p].changes = FilterChanges(DiffPhase(Wanted(p), fetched[p]).changes, exclude)
         /\ plans[p].prepared \in Seq(SentRule)
         /\ Stored(plans[p].prepared) \in Seq(LiveRule)
<1>1. pc \notin NoPlan
  <2>1. DOMAIN <<>> = {}
    OBVIOUS
  <2> QED
    BY <2>1 DEF IInv, PlanOfFetched
<1>2. fetched \in [selected -> Seq(LiveRule) \cup {Failed}] /\ plans = PlanZone(fetched)
  BY <1>1 DEF IInv, PlanOfFetched
<1>3. /\ p \in DOMAIN fetched /\ file[p] # Undeclared /\ fetched[p] # Failed
      /\ plans[p].changes = FilterChanges(DiffPhase(Wanted(p), fetched[p]).changes, exclude)
      /\ plans[p].prepared = PayloadKeepingIgnored(Wanted(p), fetched[p])
      /\ plans[p].current = fetched[p]
  BY <1>2, PlanOfPhase
<1>4. p \in Phases /\ fetched[p] \in Seq(LiveRule)
  BY <1>2, <1>3 DEF IInv, TypeOK
<1>5. file[p] \in Seq(FileRule) /\ Wanted(p) \in Seq(FileRule) /\ ValidRules(Wanted(p))
  BY <1>3, <1>4, DeclaredList DEF IInv, Wanted
<1>6. plans[p].prepared \in Seq(SentRule)
  BY <1>3, <1>4, <1>5, PayloadIsTheFile
<1>7. Stored(plans[p].prepared) \in Seq(LiveRule)
  BY <1>6, StoredSaysThePayload
<1> QED
  BY <1>3, <1>4, <1>5, <1>6, <1>7 DEF Owned, FetchedPhases

LEMMA PlanKeepsInv ==
  ASSUME IInv, NEW down \in SUBSET selected, Plan(down)
  PROVE  IInv'
<1>1. TypeOK'
  BY DEF IInv, TypeOK, Plan, config
<1>2. fetched' \in [selected -> Seq(LiveRule) \cup {Failed}]
  BY DEF IInv, TypeOK, Plan
<1>3. plans' = PlanZone(fetched)'
  BY DEF Plan, config, PlanZone
<1>4. PlanOfFetched'
  BY <1>2, <1>3 DEF IInv, PlanOfFetched, Plan, config, NoPlan, Writing
<1>5. PlanChecked'
  BY DEF Plan, PlanChecked, PastCheck, Writing
<1>6. \A p \in FetchedPhases' : fetched'[p] = live'[p]
  BY DEF Plan, FetchedPhases
<1>7. WrittenOrUntouched'
  BY <1>6 DEF Plan, WrittenOrUntouched, Writing
<1> QED
  BY <1>1, <1>4, <1>5, <1>7 DEF IInv

(* A step of the command that neither plans nor writes.                    *)
LEMMA CheckKeepsInv ==
  ASSUME IInv, PlanFails \/ CheckPlan \/ StartWrites \/ FinishWrites
  PROVE  IInv'
<1>1. /\ UNCHANGED <<file, selected, exclude, force, live, fetched, plans, drifts, broken, unseen>>
      /\ todo' \subseteq DOMAIN plans
  BY DEF PlanFails, CheckPlan, StartWrites, FinishWrites, config, IInv, PlanOfFetched
<1>2. /\ FetchedPhases' = FetchedPhases
      /\ UnplannedWrites' <=> UnplannedWrites
      /\ SafetyViolated' <=> SafetyViolated
  BY <1>1, SameLook
<1>3. PlanZone(fetched)' = PlanZone(fetched)
  BY <1>1, SamePlan
<1>4. TypeOK'
  BY <1>1 DEF IInv, TypeOK
<1>5. PlanOfFetched'
  <2>1. \/ pc = "idle" /\ pc' = "failed"
        \/ pc \notin NoPlan /\ pc' \notin NoPlan
    <3>1. CASE PlanFails
      BY <3>1 DEF PlanFails
    <3>2. CASE CheckPlan
      BY <3>2 DEF CheckPlan, NoPlan
    <3>3. CASE StartWrites
      BY <3>3 DEF StartWrites, NoPlan
    <3>4. CASE FinishWrites
      BY <3>4 DEF FinishWrites, NoPlan
    <3> QED
      BY <3>1, <3>2, <3>3, <3>4
  <2>3. /\ pc' \notin Writing => todo' = {} /\ broken' = {}
        /\ pc' = "synced" => todo' = {} /\ broken' = {}
    BY DEF PlanFails, CheckPlan, StartWrites, FinishWrites, Writing, IInv, PlanOfFetched
  <2> QED
    BY <1>1, <1>3, <2>1, <2>3 DEF IInv, PlanOfFetched, NoPlan
<1>6. PlanChecked'
  <2>1. CASE PlanFails
    BY <2>1 DEF PlanFails, PlanChecked, PastCheck, Writing
  <2>2. CASE CheckPlan
    BY <1>1, <1>2, <2>2 DEF CheckPlan, PlanChecked, PastCheck, Writing
  <2>3. CASE StartWrites
    BY <1>1, <1>2, <2>3 DEF StartWrites, PlanChecked, PastCheck, Writing, IInv
  <2>4. CASE FinishWrites
    BY <1>1, <1>2, <2>4 DEF FinishWrites, PlanChecked, PastCheck, Writing, IInv
  <2> QED
    BY <2>1, <2>2, <2>3, <2>4
<1>7. WrittenOrUntouched'
  <2> SUFFICES ASSUME drifts = 0, NEW p \in FetchedPhases
               PROVE  /\ \/ live[p] = fetched[p]
                         \/ /\ pc' \in Writing /\ p \in DOMAIN plans \ todo'
                            /\ live[p] = Stored(plans[p].prepared)
                      /\ pc' \in Writing /\ broken = {} /\ p \in DOMAIN plans \ (todo' \cup unseen)
                           => live[p] = Stored(plans[p].prepared)
    BY <1>1, <1>2 DEF WrittenOrUntouched
  <2>1. /\ \/ live[p] = fetched[p]
           \/ /\ pc \in Writing /\ p \in DOMAIN plans \ todo
              /\ live[p] = Stored(plans[p].prepared)
        /\ pc \in Writing /\ broken = {} /\ p \in DOMAIN plans \ (todo \cup unseen)
             => live[p] = Stored(plans[p].prepared)
    BY DEF IInv, WrittenOrUntouched
  <2>2. CASE FinishWrites
    BY <2>1, <2>2 DEF FinishWrites, Writing
  <2>3. CASE PlanFails \/ CheckPlan
    BY <2>1, <2>3 DEF PlanFails, CheckPlan, Writing
  <2>4. CASE StartWrites
    BY <2>1, <2>4 DEF StartWrites, Writing
  <2> QED
    BY <2>2, <2>3, <2>4
<1> QED
  BY <1>4, <1>5, <1>6, <1>7 DEF IInv

(* Putting a list, whether or not the put is answered.                     *)
LEMMA WriteKeepsInv ==
  ASSUME IInv, NEW p \in Phases, WritePhase(p) \/ FailPhase(p) \/ FailUnseen(p)
  PROVE  IInv'
<1> DEFINE sent == Stored(plans[p].prepared)
<1>1. /\ pc = "writing" /\ p \in todo /\ p \in DOMAIN plans
      /\ UNCHANGED <<file, selected, exclude, force, fetched, plans, drifts, pc>>
      /\ live' = live \/ live' = [live EXCEPT ![p] = sent]
      /\ todo' \subseteq todo \ {p} /\ unseen \subseteq unseen'
  BY DEF WritePhase, FailPhase, FailUnseen, config, IInv, PlanOfFetched
<1>2. \/ broken' # {}
      \/ /\ broken' = broken /\ todo' = todo \ {p}
         /\ p \in unseen' \/ live' = [live EXCEPT ![p] = sent]
  BY DEF WritePhase, FailPhase, FailUnseen
<1>3. sent \in Seq(LiveRule)
  BY <1>1, PlannedPayload
<1> HIDE DEF sent
<1>4. live \in [Phases -> Seq(LiveRule)]
  BY DEF IInv, TypeOK
<1>5. /\ live' \in [Phases -> Seq(LiveRule)]
      /\ live'[p] = live[p] \/ live'[p] = sent
      /\ \A q \in Phases \ {p} : live'[q] = live[q]
      /\ broken' = {} => p \in unseen' \/ live'[p] = sent
  BY <1>1, <1>2, <1>3, <1>4
<1>6. /\ FetchedPhases' = FetchedPhases
      /\ UnplannedWrites' <=> UnplannedWrites
      /\ SafetyViolated' <=> SafetyViolated
  BY <1>1, SameLook
<1>7. PlanZone(fetched)' = PlanZone(fetched)
  BY <1>1, SamePlan
<1>8. broken' = {} => broken = {} /\ todo' = todo \ {p}
  BY <1>2
<1>9. /\ pc = "writing" /\ p \in todo /\ p \in DOMAIN plans
      /\ UNCHANGED <<file, selected, exclude, force, fetched, plans, drifts, pc>>
      /\ todo' \subseteq todo \ {p} /\ unseen \subseteq unseen'
  BY <1>1
<1>10. TypeOK'
  BY <1>5, <1>9 DEF IInv, TypeOK
<1>11. PlanOfFetched'
  BY <1>7, <1>9 DEF IInv, PlanOfFetched, NoPlan, Writing
<1>12. PlanChecked'
  BY <1>6, <1>9 DEF IInv, PlanChecked
<1>13. WrittenOrUntouched'
  <2> SUFFICES ASSUME drifts = 0, NEW q \in FetchedPhases
               PROVE  /\ \/ live'[q] = fetched[q]
                         \/ q \in DOMAIN plans \ todo' /\ live'[q] = Stored(plans[q].prepared)
                      /\ broken' = {} /\ q \in DOMAIN plans \ (todo' \cup unseen')
                           => live'[q] = Stored(plans[q].prepared)
    BY <1>6, <1>9 DEF WrittenOrUntouched, Writing
  <2>1. /\ \/ live[q] = fetched[q]
           \/ q \in DOMAIN plans \ todo /\ live[q] = Stored(plans[q].prepared)
        /\ broken = {} /\ q \in DOMAIN plans \ (todo \cup unseen)
             => live[q] = Stored(plans[q].prepared)
    BY <1>9 DEF IInv, WrittenOrUntouched, Writing
  <2>2. q \in Phases
    BY <1>9 DEF IInv, PlanOfFetched, TypeOK, FetchedPhases, NoPlan
  <2>3. CASE q = p
    BY <1>5, <1>9, <2>1, <2>3 DEF sent
  <2>4. CASE q # p
    BY <1>5, <1>8, <1>9, <2>1, <2>2, <2>4
  <2> QED
    BY <2>3, <2>4
<1> QED
  BY <1>10, <1>11, <1>12, <1>13 DEF IInv

LEMMA RerunKeepsInv ==
  ASSUME IInv, Rerun
  PROVE  IInv'
<1>1. TypeOK'
  BY DEF IInv, TypeOK, Rerun, config
<1>2. PlanOfFetched'
  BY DEF Rerun, PlanOfFetched, NoPlan, Writing
<1>3. PlanChecked'
  BY DEF Rerun, PlanChecked, PastCheck, Writing
<1>4. FetchedPhases' = {}
  BY DEF Rerun, FetchedPhases
<1> QED
  BY <1>1, <1>2, <1>3, <1>4 DEF IInv, WrittenOrUntouched

LEMMA DriftKeepsInv ==
  ASSUME IInv, NEW p \in Phases, Drift(p)
  PROVE  IInv'
<1>1. /\ UNCHANGED <<file, selected, exclude, force, fetched, plans, todo, broken, unseen, pc>>
      /\ drifts' = drifts + 1
  BY DEF Drift, config
<1>2. TypeOK'
  <2>1. live' \in [Phases -> Seq(LiveRule)]
    BY ListAssumption DEF Drift, IInv, TypeOK
  <2> QED
    BY <1>1, <2>1 DEF IInv, TypeOK
<1>3. PlanZone(fetched)' = PlanZone(fetched)
  BY <1>1, SamePlan
<1>4. PlanOfFetched'
  BY <1>1, <1>3 DEF IInv, PlanOfFetched
<1>5. PlanChecked'
  BY <1>1, SameLook DEF IInv, PlanChecked
<1>6. drifts' # 0
  BY <1>1 DEF IInv, TypeOK
<1> QED
  BY <1>2, <1>4, <1>5, <1>6 DEF IInv, WrittenOrUntouched

LEMMA NextKeepsInv == IInv /\ [Next]_vars => IInv'
<1> SUFFICES ASSUME IInv, [Next]_vars PROVE IInv'
  OBVIOUS
<1>1. CASE \E down \in SUBSET selected : Plan(down)
  BY <1>1, PlanKeepsInv
<1>2. CASE PlanFails \/ CheckPlan \/ StartWrites \/ FinishWrites
  BY <1>2, CheckKeepsInv
<1>3. CASE \E p \in Phases : WritePhase(p) \/ FailPhase(p) \/ FailUnseen(p)
  BY <1>3, WriteKeepsInv
<1>4. CASE Rerun
  BY <1>4, RerunKeepsInv
<1>5. CASE \E p \in Phases : Drift(p)
  BY <1>5, DriftKeepsInv
<1>6. CASE UNCHANGED vars
  <2>1. UNCHANGED <<file, selected, exclude, force, live, fetched, plans, todo, broken, unseen, pc, drifts>>
    BY <1>6 DEF vars
  <2>2. PlanZone(fetched)' = PlanZone(fetched)
    BY <2>1, SamePlan
  <2>3. TypeOK' /\ PlanOfFetched'
    BY <2>1, <2>2 DEF IInv, TypeOK, PlanOfFetched
  <2>4. PlanChecked' /\ WrittenOrUntouched'
    BY <2>1, SameLook DEF IInv, PlanChecked, WrittenOrUntouched
  <2> QED
    BY <2>3, <2>4 DEF IInv
<1> QED
  BY <1>1, <1>2, <1>3, <1>4, <1>5, <1>6 DEF Next, Step

(* A run's plan is always the plan of the lists it fetched, its writes     *)
(* come after both checks, and without outside edits a fetched list is as  *)
(* fetched or as planned.                                                  *)
LEMMA Invariance == Spec => []IInv
BY InitiallyInv, NextKeepsInv, PTL DEF Spec
-----------------------------------------------------------------------------
(* What a write may do.                                                    *)

(* The command changes a list only by putting the payload of its plan.     *)
LEMMA OnlyPutsPlans ==
  ASSUME IInv, Step, NEW p \in Phases, live'[p] # live[p]
  PROVE  /\ pc = "writing" /\ p \in todo /\ p \in DOMAIN plans
         /\ live'[p] = Stored(plans[p].prepared)
<1>1. PICK q \in Phases : WritePhase(q) \/ FailPhase(q) \/ FailUnseen(q)
  <2>1. CASE \E down \in SUBSET selected : Plan(down)
    BY <2>1 DEF Plan
  <2>2. CASE PlanFails \/ CheckPlan \/ StartWrites \/ FinishWrites \/ Rerun
    BY <2>2 DEF PlanFails, CheckPlan, StartWrites, FinishWrites, Rerun
  <2> QED
    BY <2>1, <2>2 DEF Step
<1>2. /\ pc = "writing" /\ q \in todo
      /\ live' = live \/ live' = [live EXCEPT ![q] = Stored(plans[q].prepared)]
  BY <1>1 DEF WritePhase, FailPhase, FailUnseen
<1>3. q \in DOMAIN plans
  BY <1>2 DEF IInv, PlanOfFetched
<1>4. live \in [Phases -> Seq(LiveRule)]
  BY DEF IInv, TypeOK
<1>5. p = q /\ live'[p] = Stored(plans[q].prepared)
  BY <1>2, <1>4
<1> QED
  BY <1>2, <1>3, <1>5

(* A phase the file does not declare, the run did not select or the fetch  *)
(* could not read is never written (plan_zone, _apply_single_zone).        *)
THEOREM OwnedPhasesOnly == Spec => OnlyOwnedPhases
<1>1. ASSUME IInv, Step, NEW p \in Phases, live'[p] # live[p]
      PROVE  p \in Owned
  BY <1>1, OnlyPutsPlans, PlannedPayload
<1>2. IInv /\ [Next]_vars => [\A p \in Phases : (Step /\ live'[p] # live[p]) => p \in Owned]_vars
  BY <1>1
<1> QED
  BY <1>2, Invariance, PTL DEF Spec, OnlyOwnedPhases

(* A write over the list it was planned on adds, removes, changes and      *)
(* moves only what the plan shows, whatever the processors took out of the *)
(* plan: _unplanned_writes is enough of a check.                           *)
THEOREM PlanShowsEveryWrite == Spec => WritesMatchPlan
<1>1. ASSUME IInv, Step, NEW p \in Phases, live'[p] # live[p], live[p] = fetched[p]
      PROVE  /\ p \in DOMAIN plans
             /\ Visible(live[p], live'[p]) \subseteq plans[p].changes
             /\ Swaps(live[p], live'[p]) => Reorder \in plans[p].changes
  <2>1. /\ pc = "writing" /\ p \in DOMAIN plans
        /\ live'[p] = Stored(plans[p].prepared)
    BY <1>1, OnlyPutsPlans
  <2>2. /\ fetched[p] \in Seq(LiveRule) /\ plans[p].current = fetched[p]
        /\ plans[p].prepared \in Seq(SentRule)
    BY <1>1, <2>1, PlannedPayload
  <2>3. UnplannedChanges(plans[p].changes, plans[p].prepared, fetched[p]) = {}
    <3>1. ~UnplannedWrites
      BY <1>1, <2>1 DEF IInv, PlanChecked, Writing
    <3>2. UnplannedChanges(plans[p].changes, plans[p].prepared, plans[p].current) = {}
      BY <2>1, <3>1 DEF UnplannedWrites
    <3> QED
      BY <2>2, <3>2
  <2> DEFINE old == fetched[p]
             new == Stored(plans[p].prepared)
             changes == plans[p].changes
  <2>4. /\ \A ref \in RefsOf(old) \ RefsOf(new) : Change("REMOVE", ref) \in changes
        /\ \A ref \in RefsOf(new) \ RefsOf(old) : Change("ADD", ref) \in changes
        /\ \A ref \in RefsOf(old) \cap RefsOf(new) :
             RulesByRef(old)[ref].body # RulesByRef(new)[ref].body
               => Change("MODIFY", ref) \in changes
        /\ \A a, b \in RefsOf(old) \cap RefsOf(new) :
             Precedes(new, a, b) /\ ~Precedes(old, a, b) => Reorder \in changes
    BY <2>2, <2>3, NothingUnplanned
  <2> HIDE DEF old, new, changes
  <2>5. DOMAIN RulesByRef(old) = RefsOf(old) /\ DOMAIN RulesByRef(new) = RefsOf(new)
    BY ByRefDomain
  <2>6. Visible(old, new) \subseteq changes
    BY <2>4, <2>5 DEF Visible
  <2>7. Swaps(old, new) => Reorder \in changes
    BY <2>4 DEF Swaps, Before, Precedes
  <2> QED
    BY <1>1, <2>1, <2>6, <2>7 DEF old, new, changes
<1>2. IInv /\ [Next]_vars =>
        [\A p \in Phases :
           (Step /\ live'[p] # live[p] /\ live[p] = fetched[p]) =>
             /\ p \in DOMAIN plans
             /\ Visible(live[p], live'[p]) \subseteq plans[p].changes
             /\ Swaps(live[p], live'[p]) => Reorder \in plans[p].changes]_vars
  BY <1>1
<1> QED
  BY <1>2, Invariance, PTL DEF Spec, WritesMatchPlan

(* An ignored rule that is live survives each write with its body, and one *)
(* that is not live is not created (_payload_keeping_ignored).             *)
THEOREM IgnoredRulesAreKept == Spec => IgnoredUntouched
<1>1. ASSUME IInv, Step, NEW p \in Phases, live'[p] # live[p], live[p] = fetched[p],
             NEW i \in DOMAIN file[p], file[p][i].ignored, file[p][i].targeted
      PROVE  LET ref == file[p][i].ref
             IN  /\ ref \in RefsOf(live[p]) <=> ref \in RefsOf(live'[p])
                 /\ ref \in RefsOf(live[p]) =>
                      RulesByRef(live[p])[ref].body = RulesByRef(live'[p])[ref].body
  <2>1. p \in DOMAIN plans /\ live'[p] = Stored(plans[p].prepared)
    BY <1>1, OnlyPutsPlans
  <2>2. /\ file[p] \in Seq(FileRule)
        /\ Wanted(p) \in Seq(FileRule) /\ ValidRules(Wanted(p))
        /\ fetched[p] \in Seq(LiveRule)
        /\ plans[p].prepared = PayloadKeepingIgnored(Wanted(p), fetched[p])
    BY <1>1, <2>1, PlannedPayload
  <2>3. PICK k \in DOMAIN Wanted(p) : Wanted(p)[k] = file[p][i]
    <3>1. i \in TargetedAt(file[p])
      BY <1>1 DEF TargetedAt
    <3>2. PICK k \in DOMAIN Wanted(p) : InOrder[TargetedAt(file[p])][k] = i
      BY <2>2, <3>1, FilteredIsFile DEF Wanted
    <3>3. Wanted(p)[k] = file[p][i]
      BY <2>2, <3>2, FilteredIsFile DEF Wanted
    <3> QED
      BY <3>3
  <2>4. IsIgnored(Wanted(p)[k])
    BY <1>1, <2>3 DEF IsIgnored
  <2>5. live'[p] = Stored(PayloadKeepingIgnored(Wanted(p), live[p]))
    BY <1>1, <2>1, <2>2
  <2> QED
    BY <1>1, <2>2, <2>3, <2>4, <2>5, IgnoredStaysAsItWas
<1>2. IInv /\ [Next]_vars =>
        [\A p \in Phases :
           (Step /\ live'[p] # live[p] /\ live[p] = fetched[p]) =>
             \A i \in DOMAIN file[p] :
               LET ref == file[p][i].ref
               IN  (file[p][i].ignored /\ file[p][i].targeted) =>
                     /\ ref \in RefsOf(live[p]) <=> ref \in RefsOf(live'[p])
                     /\ ref \in RefsOf(live[p]) =>
                          RulesByRef(live[p])[ref].body = RulesByRef(live'[p])[ref].body]_vars
  BY <1>1
<1> QED
  BY <1>2, Invariance, PTL DEF Spec, IgnoredUntouched

-----------------------------------------------------------------------------
(* What a run leaves behind.                                               *)

(* After a sync that ended well the next plan of the phases it owned is    *)
(* empty, but for one whose put failed with an error that has no text.     *)
THEOREM NoSecondSync == Spec => []Converged
<1>1. ASSUME IInv, pc = "synced", drifts = 0, NEW p \in Owned \ unseen
      PROVE  DiffPhase(Wanted(p), live[p]).changes = {}
  <2>1. /\ p \in FetchedPhases /\ p \in DOMAIN fetched
        /\ file[p] # Undeclared /\ fetched[p] # Failed
    BY DEF Owned, FetchedPhases
  <2>2. todo = {} /\ broken = {} /\ plans = PlanZone(fetched)
    BY <1>1 DEF IInv, PlanOfFetched, NoPlan
  <2>3. CASE p \in DOMAIN plans
    <3>1. live[p] = Stored(plans[p].prepared)
      BY <1>1, <2>1, <2>2, <2>3 DEF IInv, WrittenOrUntouched, Writing
    <3>2. /\ Wanted(p) \in Seq(FileRule) /\ ValidRules(Wanted(p))
          /\ fetched[p] \in Seq(LiveRule)
          /\ plans[p].prepared = PayloadKeepingIgnored(Wanted(p), fetched[p])
      BY <1>1, <2>3, PlannedPayload
    <3> QED
      BY <3>1, <3>2, StoredNeedsNothing
  <2>4. CASE p \notin DOMAIN plans
    <3>1. live[p] = fetched[p]
      BY <1>1, <2>1, <2>4 DEF IInv, WrittenOrUntouched
    <3>2. DiffPhase(Wanted(p), fetched[p]).changes = {}
      BY <2>1, <2>2, <2>4, PlanOfPhase
    <3> QED
      BY <3>1, <3>2
  <2> QED
    BY <2>3, <2>4
<1>2. IInv => Converged
  BY <1>1 DEF Converged, Wanted
<1> QED
  BY <1>2, Invariance, PTL
-----------------------------------------------------------------------------
(* How much a run may delete.                                              *)

(* The rules a run fetched, as positions.                                  *)
Existing == UNION {{p} \X DOMAIN fetched[p] : p \in FetchedPhases}

LEMMA ExistingIsFinite ==
  ASSUME IInv
  PROVE  /\ IsFiniteSet(Existing) /\ ExistingCount \in Nat
         /\ \A x \in Existing : x = <<x[1], x[2]>> /\ x[1] \in FetchedPhases
         /\ \A p \in FetchedPhases : \A i \in DOMAIN fetched[p] : <<p, i>> \in Existing
<1>1. /\ FetchedPhases \in SUBSET Phases
      /\ \A p \in FetchedPhases : fetched[p] \in Seq(LiveRule)
  <2>1. CASE pc \in NoPlan
    <3>1. FetchedPhases = {}
      BY <2>1 DEF IInv, PlanOfFetched, FetchedPhases
    <3> QED
      BY <3>1
  <2>2. CASE pc \notin NoPlan
    BY <2>2 DEF IInv, PlanOfFetched, FetchedPhases, TypeOK
  <2> QED
    BY <2>1, <2>2
<1>2. IsFiniteSet(FetchedPhases)
  BY <1>1, ListAssumption, FS_Subset
<1> DEFINE rows == {{p} \X DOMAIN fetched[p] : p \in FetchedPhases}
           row == [p \in FetchedPhases |-> {p} \X DOMAIN fetched[p]]
<1>3. IsFiniteSet(rows)
  <2>1. row \in Surjection(FetchedPhases, rows)
    BY DEF Surjection
  <2> HIDE DEF row, rows
  <2> QED
    BY <1>2, <2>1, FS_Surjection
<1>4. \A r \in rows : IsFiniteSet(r)
  <2> SUFFICES ASSUME NEW p \in FetchedPhases PROVE IsFiniteSet({p} \X DOMAIN fetched[p])
    OBVIOUS
  <2>1. DOMAIN fetched[p] = 1..Len(fetched[p]) /\ Len(fetched[p]) \in Nat
    BY <1>1
  <2> DEFINE n == Len(fetched[p])
  <2>2. IsFiniteSet({p}) /\ IsFiniteSet(DOMAIN fetched[p])
    <3>1. n \in Int /\ DOMAIN fetched[p] = 1..n
      BY <2>1
    <3> HIDE DEF n
    <3>2. IsFiniteSet(1..n)
      BY <3>1, FS_Interval
    <3>3. IsFiniteSet({p})
      BY FS_Singleton
    <3> QED
      BY <3>1, <3>2, <3>3
  <2> QED
    BY <2>2, FS_Product
<1>5. IsFiniteSet(UNION rows)
  <2> HIDE DEF rows
  <2> QED
    BY <1>3, <1>4, FS_UNION
<1>6. IsFiniteSet(Existing) /\ ExistingCount \in Nat
  BY <1>5, FS_CardinalityType DEF Existing, ExistingCount
<1>7. \A x \in Existing : x = <<x[1], x[2]>> /\ x[1] \in FetchedPhases
  BY DEF Existing
<1>8. \A p \in FetchedPhases : \A i \in DOMAIN fetched[p] : <<p, i>> \in Existing
  BY DEF Existing
<1> QED
  BY <1>6, <1>7, <1>8

(* Every planned removal is of a rule that was fetched.                    *)
LEMMA RemovalsAreFinite ==
  ASSUME IInv
  PROVE  IsFiniteSet(ChangesOf("REMOVE")) /\ CountType("REMOVE") \in Nat
<1> DEFINE removal == [x \in Existing |-> <<x[1], Change("REMOVE", fetched[x[1]][x[2]].ref)>>]
           possible == {removal[x] : x \in Existing}
<1>1. IsFiniteSet(possible)
  <2>1. removal \in Surjection(Existing, possible)
    BY DEF Surjection
  <2> HIDE DEF removal, possible
  <2> QED
    BY <2>1, ExistingIsFinite, FS_Surjection
<1>2. ChangesOf("REMOVE") \in SUBSET possible
  <2> SUFFICES ASSUME NEW p \in DOMAIN plans, NEW c \in plans[p].changes, c.type = "REMOVE"
               PROVE  <<p, c>> \in possible
    BY DEF ChangesOf
  <2>1. /\ p \in FetchedPhases /\ fetched[p] \in Seq(LiveRule)
        /\ plans[p].changes = FilterChanges(DiffPhase(Wanted(p), fetched[p]).changes, exclude)
    BY PlannedPayload
  <2>2. c \in DiffPhase(Wanted(p), fetched[p]).changes
    BY <2>1 DEF FilterChanges
  <2>3. PICK ref \in RefsOf(fetched[p]) : c = Change("REMOVE", ref)
    BY <2>1, <2>2, RemovesWhatIsLive
  <2>4. PICK i \in DOMAIN fetched[p] : fetched[p][i].ref = ref
    BY DEF RefsOf
  <2>5. <<p, i>> \in Existing
    BY <2>1, ExistingIsFinite
  <2>6. removal[<<p, i>>] = <<p, c>>
    BY <2>3, <2>4, <2>5
  <2> HIDE DEF removal
  <2> QED
    BY <2>5, <2>6
<1> HIDE DEF possible
<1>3. IsFiniteSet(ChangesOf("REMOVE"))
  BY <1>1, <1>2, FS_Subset
<1> QED
  BY <1>3, FS_CardinalityType DEF CountType

(* Every rule lost was planned to be removed.                              *)
LEMMA LossWasPlanned ==
  ASSUME IInv, drifts = 0, NEW p \in FetchedPhases,
         NEW ref \in RefsOf(fetched[p]) \ RefsOf(live[p])
  PROVE  /\ pc \in Writing /\ p \in DOMAIN plans
         /\ Change("REMOVE", ref) \in plans[p].changes
<1>1. /\ pc \in Writing /\ p \in DOMAIN plans
      /\ live[p] = Stored(plans[p].prepared)
  BY DEF IInv, WrittenOrUntouched
<1>2. /\ fetched[p] \in Seq(LiveRule) /\ plans[p].current = fetched[p]
      /\ plans[p].prepared \in Seq(SentRule)
  BY <1>1, PlannedPayload
<1>3. ~UnplannedWrites
  BY <1>1 DEF IInv, PlanChecked
<1>4. UnplannedChanges(plans[p].changes, plans[p].prepared, fetched[p]) = {}
  BY <1>1, <1>2, <1>3 DEF UnplannedWrites
<1>5. Change("REMOVE", ref) \in plans[p].changes
  BY <1>1, <1>2, <1>4, NothingUnplanned
<1> QED
  BY <1>1, <1>5

(* Without --force a run deletes at most the allowed share of the rules it *)
(* fetched (check_safety), over all its phases and however many of its     *)
(* writes fail or go unanswered.                                           *)
THEOREM LossIsBounded == Spec => []BoundedLoss
<1>1. ASSUME IInv, ~force, drifts = 0, ExistingCount >= MinExisting
      PROVE  Cardinality(Lost) * 100 <= DeleteThreshold * ExistingCount
  <2>1. /\ ExistingCount \in Nat /\ IsFiniteSet(ChangesOf("REMOVE"))
        /\ CountType("REMOVE") \in Nat
    BY <1>1, ExistingIsFinite, RemovalsAreFinite
  <2>2. DeleteThreshold * ExistingCount \in Nat
    BY <2>1, ThresholdAssumption
  <2>3. CASE Lost = {}
    <3>1. Cardinality(Lost) = 0
      BY <2>3, FS_EmptySet
    <3> QED
      BY <2>2, <3>1
  <2>4. CASE Lost # {}
    <3>1. \A x \in Lost : /\ x = <<x[1], x[2]>> /\ x[1] \in FetchedPhases
                          /\ x[2] \in RefsOf(fetched[x[1]]) \ RefsOf(live[x[1]])
      BY DEF Lost
    <3>2. pc \in Writing
      BY <1>1, <2>4, <3>1, LossWasPlanned
    <3>3. ExistingCount > 0
      <4>1. PICK p \in FetchedPhases : RefsOf(fetched[p]) # {}
        BY <2>4, <3>1
      <4>2. PICK i \in DOMAIN fetched[p] : TRUE
        BY <4>1 DEF RefsOf
      <4>3. Existing # {} /\ IsFiniteSet(Existing)
        BY <1>1, <4>2, ExistingIsFinite
      <4>4. Cardinality(Existing) # 0
        BY <4>3, FS_EmptySet
      <4> QED
        BY <2>1, <4>4 DEF Existing, ExistingCount
    <3>4. ~SafetyViolated
      BY <1>1, <3>2 DEF IInv, PlanChecked, PastCheck
    <3>5. ~(CountType("REMOVE") * 100 > DeleteThreshold * ExistingCount)
      BY <1>1, <3>3, <3>4 DEF SafetyViolated
    <3> DEFINE removal == [x \in Lost |-> <<x[1], Change("REMOVE", x[2])>>]
    <3>6. \A x \in Lost : <<x[1], Change("REMOVE", x[2])>> \in ChangesOf("REMOVE")
      <4> SUFFICES ASSUME NEW x \in Lost
                   PROVE  <<x[1], Change("REMOVE", x[2])>> \in ChangesOf("REMOVE")
        OBVIOUS
      <4>1. x[1] \in DOMAIN plans /\ Change("REMOVE", x[2]) \in plans[x[1]].changes
        BY <1>1, <3>1, LossWasPlanned
      <4>2. Change("REMOVE", x[2]).type = "REMOVE"
        BY DEF Change
      <4> QED
        BY <4>1, <4>2 DEF ChangesOf
    <3>7. \A x, y \in Lost : removal[x] = removal[y] => x = y
      <4> SUFFICES ASSUME NEW x \in Lost, NEW y \in Lost, removal[x] = removal[y]
                   PROVE  x = y
        OBVIOUS
      <4>1. x[1] = y[1] /\ Change("REMOVE", x[2]) = Change("REMOVE", y[2])
        OBVIOUS
      <4>2. x[2] = y[2]
        BY <4>1 DEF Change
      <4>3. x = <<x[1], x[2]>> /\ y = <<y[1], y[2]>>
        BY <3>1
      <4> QED
        BY <4>1, <4>2, <4>3
    <3>8. removal \in [Lost -> ChangesOf("REMOVE")]
      BY <3>6
    <3> HIDE DEF removal
    <3>9. removal \in Injection(Lost, ChangesOf("REMOVE"))
      BY <3>7, <3>8 DEF Injection, IsInjective
    <3>10. IsFiniteSet(Lost) /\ Cardinality(Lost) <= Cardinality(ChangesOf("REMOVE"))
      BY <2>1, <3>9, FS_Injection
    <3>11. Cardinality(Lost) \in Nat /\ Cardinality(Lost) <= CountType("REMOVE")
      BY <3>10, FS_CardinalityType DEF CountType
    <3> QED
      BY <2>1, <2>2, <3>5, <3>11
  <2> QED
    BY <2>3, <2>4
<1>2. IInv => BoundedLoss
  BY <1>1 DEF BoundedLoss
<1> QED
  BY <1>2, Invariance, PTL
-----------------------------------------------------------------------------
(* Lists are replaced whole.                                               *)

(* The file's rules for the target have a position of their own.           *)
LEMMA OnePosition ==
  ASSUME NEW rules \in Seq(FileRule), ValidRules(FilterByTarget(rules)),
         NEW i \in TargetedAt(rules)
  PROVE  /\ \A j \in TargetedAt(rules) : rules[j].ref = rules[i].ref => j = i
         /\ Owner!Position(rules, rules[i].ref) = i
<1> DEFINE w == FilterByTarget(rules)
           T == TargetedAt(rules)
<1>1. /\ \A k \in DOMAIN w : w[k] = rules[InOrder[T][k]]
      /\ \A j \in T : \E k \in DOMAIN w : InOrder[T][k] = j
  BY FilteredIsFile
<1>2. \A k, l \in DOMAIN w : w[k].ref = w[l].ref => k = l
  BY DEF ValidRules
<1>3. T = Owner!Declared(rules)
  BY DEF TargetedAt, Owner!Declared
<1> HIDE DEF w, T
<1>4. ASSUME NEW j \in T, rules[j].ref = rules[i].ref PROVE j = i
  <2>1. PICK k \in DOMAIN w : InOrder[T][k] = i
    BY <1>1 DEF T
  <2>2. PICK l \in DOMAIN w : InOrder[T][l] = j
    BY <1>1
  <2>3. w[k].ref = w[l].ref
    BY <1>1, <1>4, <2>1, <2>2
  <2> QED
    BY <1>2, <2>1, <2>2, <2>3
<1>5. Owner!Position(rules, rules[i].ref) = CHOOSE j \in T : rules[j].ref = rules[i].ref
  BY <1>3 DEF Owner!Position
<1>6. i \in T
  BY DEF T
<1>7. Owner!Position(rules, rules[i].ref) = i
  BY <1>4, <1>5, <1>6
<1> QED
  BY <1>4, <1>7 DEF T

(* The stored payload is what the file asks for.                           *)
LEMMA PayloadRealises ==
  ASSUME NEW rules \in Seq(FileRule), ValidRules(FilterByTarget(rules)),
         NEW old \in Seq(LiveRule)
  PROVE  Owner!Realises(Stored(PayloadKeepingIgnored(FilterByTarget(rules), old)), rules, old)
<1> DEFINE w == FilterByTarget(rules)
           T == TargetedAt(rules)
           P == SentAt(w, old)
           pay == PayloadKeepingIgnored(w, old)
           new == Stored(pay)
           at(m) == InOrder[T][InOrder[P][m]]
<1>1. /\ w \in Seq(FileRule)
      /\ \A k \in DOMAIN w : InOrder[T][k] \in T /\ w[k] = rules[InOrder[T][k]]
      /\ \A k, l \in DOMAIN w : k < l => InOrder[T][k] < InOrder[T][l]
      /\ \A i \in T : \E k \in DOMAIN w : InOrder[T][k] = i
  BY FilteredIsFile
<1>2. /\ pay \in Seq(SentRule)
      /\ \A m, n \in DOMAIN pay : m < n => InOrder[P][m] < InOrder[P][n]
      /\ \A k \in P : \E m \in DOMAIN pay : InOrder[P][m] = k
  BY <1>1, PayloadIsTheFile
<1>3. /\ DOMAIN new = DOMAIN pay
      /\ \A m \in DOMAIN pay : new[m].ref = pay[m].ref /\ new[m].body = pay[m].body
  BY <1>2, StoredSaysThePayload
<1>4. \A m \in DOMAIN pay :
        /\ InOrder[P][m] \in P /\ pay[m].ref = w[InOrder[P][m]].ref
        /\ ~IsIgnored(w[InOrder[P][m]]) => pay[m].body = w[InOrder[P][m]].body
        /\ IsIgnored(w[InOrder[P][m]]) =>
             pay[m].body = RulesByRef(old)[w[InOrder[P][m]].ref].body
  BY <1>1, PayloadRules
<1>5. \A k : k \in P <=> k \in DOMAIN w /\ (IsIgnored(w[k]) => w[k].ref \in RefsOf(old))
  BY DEF SentAt
<1>6. \A i \in T : /\ \A j \in T : rules[j].ref = rules[i].ref => j = i
                   /\ Owner!Position(rules, rules[i].ref) = i
  BY OnePosition
<1>7. T = Owner!Declared(rules)
  BY DEF TargetedAt, Owner!Declared
<1>8. \A i \in T : rules[i].ref # NoRef
  <2>1. \A i \in T : rules[i] \in FileRule
    BY DEF TargetedAt
  <2> QED
    BY <2>1, NoRefAssumption DEF FileRule
<1>9. \A rule : IsIgnored(rule) <=> rule.ignored
  BY DEF IsIgnored
<1>10. \A m \in DOMAIN new : at(m) \in T /\ new[m].ref = rules[at(m)].ref
  BY <1>1, <1>3, <1>4, <1>5
<1>11. \A m, n \in DOMAIN new : m < n => at(m) < at(n)
  BY <1>1, <1>2, <1>3, <1>4, <1>5
<1> DEFINE declared == {rules[i].ref : i \in Owner!Declared(rules)}
           ruleOf(ref) == rules[Owner!Position(rules, ref)]
           inOld(ref) == \E i \in DOMAIN old : old[i].ref = ref
<1>12. \A ref : ref \in declared <=> \E i \in T : rules[i].ref = ref
  BY <1>7
<1>13. \A i \in T : ruleOf(rules[i].ref) = rules[i]
  BY <1>6
<1>14. \A ref : ref # NoRef => (inOld(ref) <=> ref \in RefsOf(old))
  BY DEF RefsOf
<1>15. \A m \in DOMAIN new : Owner!Position(rules, new[m].ref) = at(m)
  BY <1>6, <1>10
<1>16. ASSUME NEW ref \in RefsOf(old)
       PROVE  \E j \in DOMAIN old : old[j].ref = ref /\ RulesByRef(old)[ref] = old[j]
  BY LastEntryWins
<1> HIDE DEF w, T, P, pay, new, declared, ruleOf, inOld
<1>17. \A m \in DOMAIN new : new[m].ref \in declared
  BY <1>10, <1>12
<1>18. \A m, n \in DOMAIN new :
         m < n => Owner!Position(rules, new[m].ref) < Owner!Position(rules, new[n].ref)
  BY <1>11, <1>15
<1>19. ASSUME NEW ref \in declared
       PROVE  (\E m \in DOMAIN new : new[m].ref = ref) <=> (ruleOf(ref).ignored => inOld(ref))
  <2>1. PICK i \in T : rules[i].ref = ref
    BY <1>12
  <2>2. PICK k \in DOMAIN w : InOrder[T][k] = i
    BY <1>1
  <2>3. w[k] = rules[i] /\ ruleOf(ref) = rules[i] /\ ref # NoRef
    BY <1>1, <1>8, <1>13, <2>1, <2>2
  <2>4. k \in P <=> (ruleOf(ref).ignored => inOld(ref))
    BY <1>5, <1>9, <1>14, <2>1, <2>3
  <2>5. ASSUME k \in P PROVE \E m \in DOMAIN new : new[m].ref = ref
    BY <1>2, <1>3, <1>4, <2>1, <2>3, <2>5
  <2>6. ASSUME NEW m \in DOMAIN new, new[m].ref = ref PROVE k \in P
    <3>1. InOrder[P][m] \in P /\ InOrder[P][m] \in DOMAIN w
      BY <1>3, <1>4, <1>5
    <3>2. InOrder[T][InOrder[P][m]] = i
      BY <1>6, <1>10, <2>1, <2>6
    <3>3. InOrder[P][m] = k
      <4>1. k \in Int /\ InOrder[P][m] \in Int
        BY <1>1, <3>1
      <4>2. i \in Int
        BY DEF T, TargetedAt
      <4>3. ~(k < InOrder[P][m]) /\ ~(InOrder[P][m] < k)
        BY <1>1, <2>2, <3>1, <3>2, <4>2
      <4> QED
        BY <4>1, <4>3
    <3> QED
      BY <3>1, <3>3
  <2> QED
    BY <2>4, <2>5, <2>6
<1>20. ASSUME NEW m \in DOMAIN new
       PROVE  IF ruleOf(new[m].ref).ignored
                THEN \E j \in DOMAIN old : old[j].ref = new[m].ref /\ old[j].body = new[m].body
                ELSE new[m].body = ruleOf(new[m].ref).body
  <2> DEFINE k == InOrder[P][m]
  <2>1. /\ k \in P /\ k \in DOMAIN w /\ w[k] = rules[at(m)]
        /\ pay[m].ref = w[k].ref /\ new[m].ref = w[k].ref /\ new[m].body = pay[m].body
        /\ ~IsIgnored(w[k]) => pay[m].body = w[k].body
        /\ IsIgnored(w[k]) => pay[m].body = RulesByRef(old)[w[k].ref].body
    BY <1>1, <1>3, <1>4, <1>5
  <2>2. ruleOf(new[m].ref) = w[k]
    BY <1>10, <1>13, <2>1
  <2> HIDE DEF k
  <2>3. CASE ~IsIgnored(w[k])
    BY <1>9, <2>1, <2>2, <2>3
  <2>4. CASE IsIgnored(w[k])
    <3>1. w[k].ref \in RefsOf(old)
      BY <1>5, <2>1, <2>4
    <3>2. PICK j \in DOMAIN old : old[j].ref = w[k].ref /\ RulesByRef(old)[w[k].ref] = old[j]
      BY <1>16, <3>1
    <3>3. old[j].ref = new[m].ref /\ old[j].body = new[m].body
      BY <2>1, <2>4, <3>2
    <3>4. ruleOf(new[m].ref).ignored
      BY <1>9, <2>2, <2>4
    <3> QED
      BY <3>3, <3>4
  <2> QED
    BY <2>3, <2>4
<1>21. Owner!Realises(new, rules, old)
  BY <1>17, <1>18, <1>19, <1>20 DEF Owner!Realises, declared, ruleOf, inOld
<1> QED
  BY <1>21 DEF new, pay, w

(* While nobody edits the provider from outside, the sync of a zone        *)
(* implements RuleListOwner: whatever fails, is filtered or run again, a   *)
(* list is only ever replaced whole, by what its file declares.            *)
THEOREM ListsAreReplacedWhole ==
  ASSUME DriftLists = {}
  PROVE  Spec => ReplacesWholeLists
<1> DEFINE Quiet == IInv /\ drifts = 0
<1>1. Init => Quiet /\ Owner!Init
  BY InitiallyInv DEF Init, Owner!Init
<1>2. ASSUME Quiet, [Next]_vars PROVE drifts' = 0 /\ UNCHANGED file
  <2>1. ASSUME NEW p \in Phases PROVE ~Drift(p)
    BY DEF Drift
  <2>2. CASE \E down \in SUBSET selected : Plan(down)
    BY <1>2, <2>2 DEF Plan, config
  <2>3. CASE PlanFails \/ CheckPlan \/ StartWrites \/ FinishWrites \/ Rerun
    BY <1>2, <2>3 DEF PlanFails, CheckPlan, StartWrites, FinishWrites, Rerun, config
  <2>4. CASE \E p \in Phases : WritePhase(p) \/ FailPhase(p) \/ FailUnseen(p)
    BY <1>2, <2>4 DEF WritePhase, FailPhase, FailUnseen, config
  <2>5. CASE UNCHANGED vars
    BY <1>2, <2>5 DEF vars
  <2> QED
    BY <1>2, <2>1, <2>2, <2>3, <2>4, <2>5 DEF Next, Step
<1>3. ASSUME Quiet, [Next]_vars PROVE [Owner!Next]_(Owner!vars)
  <2>1. CASE live' = live
    BY <1>2, <1>3, <2>1 DEF Owner!vars
  <2>2. CASE live' # live
    <3>1. live \in [Phases -> Seq(LiveRule)] /\ live' \in [Phases -> Seq(LiveRule)]
      BY <1>3, NextKeepsInv DEF IInv, TypeOK
    <3>2. PICK p \in Phases : live'[p] # live[p]
      BY <2>2, <3>1
    <3>3. Step
      BY <1>3, <2>2 DEF Next, Drift, vars
    <3>4. /\ pc = "writing" /\ p \in todo /\ p \in DOMAIN plans
          /\ live'[p] = Stored(plans[p].prepared)
      BY <1>3, <3>2, <3>3, OnlyPutsPlans
    <3>5. /\ p \in FetchedPhases /\ p \in Owned
          /\ file[p] \in Seq(FileRule) /\ ValidRules(Wanted(p))
          /\ fetched[p] \in Seq(LiveRule)
          /\ plans[p].prepared = PayloadKeepingIgnored(Wanted(p), fetched[p])
      BY <1>3, <3>4, PlannedPayload
    <3>6. live[p] = fetched[p]
      BY <1>3, <3>4, <3>5 DEF IInv, WrittenOrUntouched
    <3>7. live'[p] = Stored(PayloadKeepingIgnored(FilterByTarget(file[p]), live[p]))
      BY <3>4, <3>5, <3>6 DEF Wanted
    <3>8. Owner!Realises(live'[p], file[p], live[p])
      BY <3>5, <3>6, <3>7, PayloadRealises DEF Wanted
    <3>9. \A q \in Phases \ {p} : live'[q] = live[q]
      <4>1. PICK r \in Phases : WritePhase(r) \/ FailPhase(r) \/ FailUnseen(r)
        BY <2>2, <3>3 DEF Step, Plan, PlanFails, CheckPlan, StartWrites, FinishWrites, Rerun
      <4>2. \A q \in Phases \ {r} : live'[q] = live[q]
        BY <3>1, <4>1 DEF WritePhase, FailPhase, FailUnseen
      <4> QED
        BY <3>2, <4>2
    <3>10. file[p] # Undeclared
      BY <3>5 DEF Owned
    <3>11. Owner!Replace(p)
      BY <1>2, <1>3, <3>8, <3>9, <3>10 DEF Owner!Replace
    <3> QED
      BY <3>11 DEF Owner!Next
  <2> QED
    BY <2>1, <2>2
<1>4. Quiet /\ [Next]_vars => Quiet'
  BY <1>2, NextKeepsInv
<1> HIDE DEF Quiet
<1>5. Quiet /\ [Next]_vars => [Owner!Next]_(Owner!vars)
  BY <1>3
<1> QED
  BY <1>1, <1>4, <1>5, PTL DEF Spec, ReplacesWholeLists, Owner!Spec

-----------------------------------------------------------------------------
(* A plan and a sync with --checksum.                                      *)

(* What the sync is about to send is the payload of a plan that has the    *)
(* digest of the plan that was reviewed.                                   *)
ReviewInv ==
  /\ fileNow \in Seq(FileRule) /\ ValidRules(fileNow)
  /\ liveNow \in Seq(LiveRule)
  /\ checksum = ComputeChecksum(reviewed)
  /\ stage = "accepted" => /\ toSend = DiffPhase(fileNow, liveNow).prepared
                           /\ ComputeChecksum(ShownNow) = checksum

LEMMA ReviewInvariance == ReviewSpec => []ReviewInv
<1>1. ReviewInit => ReviewInv
  <2> SUFFICES ASSUME ReviewInit PROVE ReviewInv
    OBVIOUS
  <2>1. fileNow \in Seq(FileRule) /\ ValidRules(fileNow) /\ liveNow \in Seq(LiveRule)
    BY StateAssumption DEF ReviewInit
  <2>2. ComputeChecksum({}) = {}
    BY DEF ComputeChecksum
  <2> QED
    BY <2>1, <2>2 DEF ReviewInit, ReviewInv
<1>2. ReviewInv /\ [ReviewNext]_reviewVars => ReviewInv'
  <2> SUFFICES ASSUME ReviewInv, [ReviewNext]_reviewVars
               PROVE  ReviewInv'
    OBVIOUS
  <2>1. CASE Review
    BY <2>1 DEF Review, ReviewInv
  <2>2. CASE EditFile
    BY <2>2, StateAssumption DEF EditFile, ReviewInv
  <2>3. CASE EditLive
    BY <2>3, StateAssumption DEF EditLive, ReviewInv
  <2>4. CASE Compare
    <3>1. stage' = "accepted" => /\ ComputeChecksum(ShownNow) = checksum
                                 /\ toSend' = DiffPhase(fileNow, liveNow).prepared
      BY <2>4 DEF Compare
    <3>2. UNCHANGED <<fileNow, liveNow, reviewed, checksum>>
      BY <2>4 DEF Compare
    <3>3. ShownNow' = ShownNow
      BY <3>2 DEF ShownNow
    <3> QED
      BY <3>1, <3>2, <3>3 DEF ReviewInv
  <2>5. CASE Put
    <3>1. toSend = DiffPhase(fileNow, liveNow).prepared
      BY <2>5 DEF Put, ReviewInv
    <3>2. toSend \in Seq(SentRule)
      BY <3>1, PayloadIsTheFile DEF DiffPhase, ReviewInv
    <3>3. liveNow' \in Seq(LiveRule)
      BY <2>5, <3>2, StoredSaysThePayload DEF Put
    <3> QED
      BY <2>5, <3>3 DEF Put, ReviewInv
  <2>6. CASE UNCHANGED reviewVars
    BY <2>6 DEF reviewVars, ReviewInv, ShownNow
  <2> QED
    BY <2>1, <2>2, <2>3, <2>4, <2>5, <2>6 DEF ReviewNext
<1> QED
  BY <1>1, <1>2, PTL DEF ReviewSpec

(* A list says of each of its refs one body.                               *)
LEMMA SaysOneBody ==
  ASSUME NEW S, NEW rules \in Seq(S), NEW rule
  PROVE  rule \in Says(rules) <=>
           \E ref \in RefsOf(rules) : rule = [ref |-> ref, body |-> RulesByRef(rules)[ref].body]
<1>1. \A ref \in RefsOf(rules) :
        NormalizeRule(RulesByRef(rules)[ref]) = [ref |-> ref, body |-> RulesByRef(rules)[ref].body]
  <2> SUFFICES ASSUME NEW ref \in RefsOf(rules)
               PROVE  RulesByRef(rules)[ref].ref = ref
    BY DEF NormalizeRule
  <2> QED
    BY LastEntryWins
<1> QED
  BY <1>1 DEF Says

(* Equal digests: a change of one plan has its counterpart in the other,   *)
(* with the sides its type has.                                            *)
LEMMA DigestKeepsSides ==
  ASSUME NEW shown, NEW seen, ComputeChecksum(shown) = ComputeChecksum(seen), NEW c \in shown
  PROVE  \E d \in seen :
           /\ d.ref = c.ref
           /\ c.type \in {"REMOVE", "MODIFY"} => d.current = c.current
           /\ c.type \in {"ADD", "MODIFY"} => d.desired = c.desired
<1>1. SerializeChange(c) \in ComputeChecksum(seen)
  BY DEF ComputeChecksum
<1>2. PICK d \in seen : SerializeChange(c) = SerializeChange(d)
  BY <1>1 DEF ComputeChecksum
<1>3. /\ SerializeChange(c).type = c.type /\ SerializeChange(d).type = d.type
      /\ SerializeChange(c).ref = c.ref /\ SerializeChange(d).ref = d.ref
      /\ c.type \in {"REMOVE", "MODIFY"} => SerializeChange(c).current = c.current
      /\ d.type \in {"REMOVE", "MODIFY"} => SerializeChange(d).current = d.current
      /\ c.type \in {"ADD", "MODIFY"} => SerializeChange(c).desired = c.desired
      /\ d.type \in {"ADD", "MODIFY"} => SerializeChange(d).desired = d.desired
  BY DEF SerializeChange
<1> QED
  BY <1>2, <1>3

(* The sides of a change as a reader sees them.                            *)
LEMMA ShownSides ==
  ASSUME NEW changes, NEW want, NEW current, NEW type, NEW ref, Change(type, ref) \in changes
  PROVE  \E c \in Shown(changes, want, current) :
           /\ c.type = type /\ c.ref = ref
           /\ c.current = BodyIn(current, ref) /\ c.desired = BodyIn(want, ref)
<1> DEFINE c == [type |-> type, ref |-> ref,
                 current |-> BodyIn(current, ref), desired |-> BodyIn(want, ref)]
<1>1. Change(type, ref).type = type /\ Change(type, ref).ref = ref
  BY DEF Change
<1>2. c \in Shown(changes, want, current)
  BY <1>1 DEF Shown
<1> QED
  BY <1>2

LEMMA BodyOfListed ==
  ASSUME NEW rules, NEW ref \in RefsOf(rules)
  PROVE  BodyIn(rules, ref) = {RulesByRef(rules)[ref].body}
BY DEF BodyIn

(* Whatever happened to the file and to the provider since the review: a   *)
(* sync the checksum lets through takes away what the reviewer saw taken   *)
(* away and brings what he saw brought.                                    *)
THEOREM ChecksumHoldsToThePlan == ReviewSpec => AppliedAsReviewed
<1>1. ReviewInv /\ [ReviewNext]_reviewVars =>
        ((stage = "accepted" /\ stage' = "synced") =>
          /\ \A rule \in Says(liveNow) \ Says(liveNow') :
               \E c \in reviewed : c.ref = rule.ref /\ c.current = {rule.body}
          /\ \A rule \in Says(liveNow') \ Says(liveNow) :
               \E c \in reviewed : c.ref = rule.ref /\ c.desired = {rule.body})
  <2> SUFFICES ASSUME ReviewInv, [ReviewNext]_reviewVars, stage = "accepted", stage' = "synced"
               PROVE  /\ \A rule \in Says(liveNow) \ Says(liveNow') :
                           \E c \in reviewed : c.ref = rule.ref /\ c.current = {rule.body}
                      /\ \A rule \in Says(liveNow') \ Says(liveNow) :
                           \E c \in reviewed : c.ref = rule.ref /\ c.desired = {rule.body}
    OBVIOUS
  <2> DEFINE changes == DiffPhase(fileNow, liveNow).changes
             new == Stored(DiffPhase(fileNow, liveNow).prepared)
             want == PrepareDesired(fileNow)
  <2>1. Put
    BY DEF ReviewNext, Review, EditFile, EditLive, Compare, reviewVars
  <2>2. /\ fileNow \in Seq(FileRule) /\ ValidRules(fileNow) /\ liveNow \in Seq(LiveRule)
        /\ liveNow' = new
        /\ ComputeChecksum(ShownNow) = ComputeChecksum(reviewed)
    BY <2>1 DEF ReviewInv, Put
  <2>3. new \in Seq(LiveRule)
    BY <2>2, PayloadIsTheFile, StoredSaysThePayload DEF DiffPhase
  <2>4. ShownNow = Shown(changes, want, liveNow)
    BY DEF ShownNow
  <2>5. ASSUME NEW type, NEW ref, Change(type, ref) \in changes
        PROVE  \E d \in reviewed :
                 /\ d.ref = ref
                 /\ type \in {"REMOVE", "MODIFY"} => d.current = BodyIn(liveNow, ref)
                 /\ type \in {"ADD", "MODIFY"} => d.desired = BodyIn(want, ref)
    <3>1. PICK c \in ShownNow :
            /\ c.type = type /\ c.ref = ref
            /\ c.current = BodyIn(liveNow, ref) /\ c.desired = BodyIn(want, ref)
      <4> HIDE DEF changes, want
      <4> QED
        BY <2>4, <2>5, ShownSides
    <3>2. PICK d \in reviewed :
            /\ d.ref = c.ref
            /\ c.type \in {"REMOVE", "MODIFY"} => d.current = c.current
            /\ c.type \in {"ADD", "MODIFY"} => d.desired = c.desired
      <4>1. ComputeChecksum(ShownNow) = ComputeChecksum(reviewed) /\ c \in ShownNow
        BY <2>2, <3>1
      <4> HIDE DEF changes, new, want
      <4> QED
        BY ONLY <4>1, DigestKeepsSides
    <3> QED
      BY <3>1, <3>2
  <2>6. \A ref :
          /\ ref \in RefsOf(liveNow) /\ ref \notin RefsOf(new) => Change("REMOVE", ref) \in changes
          /\ ref \in RefsOf(new) /\ ref \notin RefsOf(liveNow) =>
               /\ Change("ADD", ref) \in changes
               /\ ref \in RefsOf(want)
               /\ RulesByRef(new)[ref].body = RulesByRef(want)[ref].body
          /\ /\ ref \in RefsOf(liveNow) /\ ref \in RefsOf(new)
             /\ RulesByRef(liveNow)[ref].body # RulesByRef(new)[ref].body
             => /\ Change("MODIFY", ref) \in changes
                /\ ref \in RefsOf(want)
                /\ RulesByRef(new)[ref].body = RulesByRef(want)[ref].body
    BY <2>2, PlanShowsEveryRule
  <2> HIDE DEF changes, new, want
  <2>7. ASSUME NEW rule \in Says(liveNow) \ Says(liveNow')
        PROVE  \E c \in reviewed : c.ref = rule.ref /\ c.current = {rule.body}
    <3>1. PICK ref \in RefsOf(liveNow) :
            rule = [ref |-> ref, body |-> RulesByRef(liveNow)[ref].body]
      BY <2>2, <2>7, SaysOneBody
    <3>2. ref \in RefsOf(new) => RulesByRef(new)[ref].body # RulesByRef(liveNow)[ref].body
      <4> SUFFICES ASSUME ref \in RefsOf(new),
                          RulesByRef(new)[ref].body = RulesByRef(liveNow)[ref].body
                   PROVE  FALSE
        OBVIOUS
      <4>1. rule \in Says(new)
        BY <2>3, <3>1, SaysOneBody
      <4> QED
        BY <2>2, <2>7, <4>1
    <3>3. \E type \in {"REMOVE", "MODIFY"} : Change(type, ref) \in changes
      BY <2>6, <3>1, <3>2
    <3>4. rule.ref = ref /\ BodyIn(liveNow, ref) = {rule.body}
      BY <3>1, BodyOfListed
    <3> QED
      BY <2>5, <3>1, <3>3, <3>4
  <2>8. ASSUME NEW rule \in Says(liveNow') \ Says(liveNow)
        PROVE  \E c \in reviewed : c.ref = rule.ref /\ c.desired = {rule.body}
    <3>0. rule \in Says(new) /\ rule \notin Says(liveNow)
      BY <2>2, <2>8
    <3>1. PICK ref \in RefsOf(new) : rule = [ref |-> ref, body |-> RulesByRef(new)[ref].body]
      BY <2>3, <3>0, SaysOneBody
    <3>2. ref \in RefsOf(liveNow) => RulesByRef(liveNow)[ref].body # RulesByRef(new)[ref].body
      BY <2>2, <3>0, <3>1, SaysOneBody
    <3>3. /\ \E type \in {"ADD", "MODIFY"} : Change(type, ref) \in changes
          /\ ref \in RefsOf(want)
          /\ RulesByRef(new)[ref].body = RulesByRef(want)[ref].body
      BY <2>6, <3>1, <3>2
    <3>4. rule.ref = ref /\ BodyIn(want, ref) = {rule.body}
      BY <3>1, <3>3, BodyOfListed
    <3> QED
      BY <2>5, <3>3, <3>4
  <2> QED
    BY <2>7, <2>8
<1> QED
  BY <1>1, ReviewInvariance, PTL DEF ReviewSpec, AppliedAsReviewed
=============================================================================
