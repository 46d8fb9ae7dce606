--------------------------- MODULE RuleListOwner ---------------------------
(***************************************************************************)
(* What a sync promises of the rule lists of one zone, whatever the diff,  *)
(* the payload or the order of the calls: a list is only ever replaced as  *)
(* a whole, by the list its file declares, and a list no file declares is  *)
(* never written.                                                          *)
(***************************************************************************)
EXTENDS Integers, Sequences

CONSTANTS
  Phases,      \* the rule lists of the zone
  Undeclared   \* what the file says of a list it does not mention

VARIABLES
  file,        \* [Phases -> Undeclared or the rules the file declares]
  live         \* [Phases -> the rules the provider holds]

vars == <<file, live>>

(* The file's rules that concern this target. *)
Declared(rules) == {i \in DOMAIN rules : rules[i].targeted}

Position(rules, ref) == CHOOSE i \in Declared(rules) : rules[i].ref = ref

(* new is what the file asks for, given the rules old it is written over:  *)
(* the declared rules and only those, each once and in the file's order;   *)
(* a managed rule says what the file says, an ignored one what it said     *)
(* before, if it was there.                                                *)
Realises(new, rules, old) ==
  LET declared == {rules[i].ref : i \in Declared(rules)}
      ruleOf(ref) == rules[Position(rules, ref)]
      inOld(ref) == \E i \in DOMAIN old : old[i].ref = ref
  IN  /\ \A i \in DOMAIN new : new[i].ref \in declared
      /\ \A i, j \in DOMAIN new :
           i < j => Position(rules, new[i].ref) < Position(rules, new[j].ref)
      /\ \A ref \in declared :
           (\E i \in DOMAIN new : new[i].ref = ref)
             <=> (ruleOf(ref).ignored => inOld(ref))
      /\ \A i \in DOMAIN new :
           IF ruleOf(new[i].ref).ignored
             THEN \E j \in DOMAIN old :
                    old[j].ref = new[i].ref /\ old[j].body = new[i].body
             ELSE new[i].body = ruleOf(new[i].ref).body

Replace(p) ==
  /\ file[p] # Undeclared
  /\ Realises(live'[p], file[p], live[p])
  /\ \A q \in Phases \ {p} : live'[q] = live[q]
  /\ UNCHANGED file

Init == DOMAIN file = Phases /\ DOMAIN live = Phases

Next == \E p \in Phases : Replace(p)

Spec == Init /\ [][Next]_vars
=============================================================================
