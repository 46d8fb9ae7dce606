------------------------------ MODULE RuleDiff ------------------------------
(***************************************************************************)
(* The diff of one rule list (octorules/planner.py): a phase or a custom   *)
(* ruleset is an ordered list of rules, written back as a whole.  This     *)
(* module has no state; the modules that plan and write rule lists use it. *)
(*                                                                         *)
(* A rule is its ref, its body and the form it is spelled in.  A file      *)
(* declares a body in "file" form; the provider returns what it stores in  *)
(* "api" form (ids, versions, reflowed expressions).  Two spellings of one *)
(* body are the same rule once normalised.  A live rule may carry no ref.  *)
(***************************************************************************)
EXTENDS Integers, FiniteSets, Sequences

CONSTANTS
  Refs,     \* the refs rules are matched by
  Bodies,   \* what a rule says once its spelling is normalised
  NoRef     \* the ref of a live rule that has none

ASSUME NoRefAssumption == NoRef \notin Refs

LiveRule == [ref : Refs \cup {NoRef}, body : Bodies, form : {"api"}]
FileRule == [ref : Refs, body : Bodies, ignored : BOOLEAN, targeted : BOOLEAN]
SentRule == [ref : Refs, body : Bodies, form : {"file"}]

ChangeTypes == {"ADD", "REMOVE", "MODIFY", "REORDER"}

(* A faulty variant: the spelling of a rule is compared too. *)
NormalizeKeepingForm(rule) == rule

(* normalize_rule: API fields, metadata and spelling play no part. *)
NormalizeRule(rule) == [ref |-> rule.ref, body |-> rule.body]

(* A faulty variant: the ignored marker is never recognised. *)
IgnoresNothing(rule) == FALSE

IsIgnored(rule) == rule.ignored

(* A set of positions as an increasing sequence.                           *)
InOrder[positions \in SUBSET Nat] ==
  [k \in 1..Cardinality(positions) |->
     CHOOSE i \in positions : Cardinality({j \in positions : j <= i}) = k]

(* The entries of a sequence at these positions, in their order: what a    *)
(* comprehension over a list keeps.                                        *)
Entries(seq, positions) ==
  LET order == InOrder[positions]
  IN  [k \in DOMAIN order |-> seq[order[k]]]

(* filter_by_target: targeted says whether the rule's included / excluded  *)
(* metadata lets it through for the target being planned.                  *)
FilterByTarget(rules) == Entries(rules, {i \in DOMAIN rules : rules[i].targeted})

(* validate_rules: every rule kept for the target has a ref of its own. *)
ValidRules(rules) ==
  \A i, j \in DOMAIN rules : rules[i].ref = rules[j].ref => i = j

RefsOf(rules) == {rules[i].ref : i \in DOMAIN rules} \ {NoRef}

(* _rules_by_ref: of duplicated refs the last entry wins; no ref, no entry. *)
Latest[positions \in SUBSET Nat] ==
  CHOOSE i \in positions : \A j \in positions : j <= i

RulesByRef(rules) ==
  [ref \in RefsOf(rules) |-> rules[Latest[{i \in DOMAIN rules : rules[i].ref = ref}]]]

(* _ref_order *)
RefOrder(rules) ==
  Entries([i \in DOMAIN rules |-> rules[i].ref], {i \in DOMAIN rules : rules[i].ref # NoRef})

(* The refs that the other side has as well. *)
Shared(refs, others) ==
  Entries(refs, {i \in DOMAIN refs : \E j \in DOMAIN others : others[j] = refs[i]})

(* _shared_order_differs: the refs on both sides come in another order. *)
SharedOrderDiffers(desired, current) ==
  Shared(desired, current) # Shared(current, desired)

(* The form a rule is sent in: no metadata, no API field. *)
SentForm(rule) == [ref |-> rule.ref, body |-> rule.body, form |-> "file"]

(* prepare_desired_rules: ignored rules drop out, metadata is stripped. *)
PrepareDesired(rules) ==
  Entries([i \in DOMAIN rules |-> SentForm(rules[i])],
          {i \in DOMAIN rules : ~IsIgnored(rules[i])})

IgnoredRefs(rules) == {rules[i].ref : i \in {j \in DOMAIN rules : IsIgnored(rules[j])}}

(* What a rule of the file is sent as over the live rules.                 *)
SentOver(rule, current) ==
  IF IsIgnored(rule) THEN SentForm(RulesByRef(current)[rule.ref]) ELSE SentForm(rule)

(* A faulty variant: the rules that are new come after those that are live. *)
PayloadAppendingNew(desired, current) ==
  LET sent == [i \in DOMAIN desired |-> SentOver(desired[i], current)]
      known == {i \in DOMAIN desired : desired[i].ref \in RefsOf(current)}
  IN  Entries(sent, known) \o
      Entries(sent, {i \in DOMAIN desired \ known : ~IsIgnored(desired[i])})

(* _payload_keeping_ignored: the file's rules in the file's order, an       *)
(* ignored rule standing for its live copy; one that is not live drops out. *)
PayloadKeepingIgnored(desired, current) ==
  Entries([i \in DOMAIN desired |-> SentOver(desired[i], current)],
          {i \in DOMAIN desired :
             IsIgnored(desired[i]) => desired[i].ref \in RefsOf(current)})

Change(type, ref) == [type |-> type, ref |-> ref]
Reorder == Change("REORDER", NoRef)

(* _diff_rules: order is the (desired, current) pair of ref sequences. *)
DiffRules(desired, current, order) ==
  LET want == RulesByRef(desired)
      have == RulesByRef(current)
  IN  {Change("ADD", ref) : ref \in DOMAIN want \ DOMAIN have}
      \cup {Change("REMOVE", ref) : ref \in DOMAIN have \ DOMAIN want}
      \cup {Change("MODIFY", ref) : ref \in
              {r \in DOMAIN want \cap DOMAIN have :
                 NormalizeRule(want[r]) # NormalizeRule(have[r])}}
      \cup (IF SharedOrderDiffers(order[1], order[2]) THEN {Reorder} ELSE {})

(* diff_phase, and diff_custom_ruleset for the rules of a ruleset. *)
DiffPhase(desired, current) ==
  LET ignored == IgnoredRefs(desired)
      payload == PayloadKeepingIgnored(desired, current)
      managed == Entries(current, {i \in DOMAIN current : current[i].ref \notin ignored})
  IN  [changes  |-> DiffRules(PrepareDesired(desired), managed,
                              <<RefOrder(payload), RefOrder(current)>>),
       prepared |-> payload,
       current  |-> current]

(* A faulty variant: a rule the payload leaves out is not looked for. *)
UnplannedAdditions(changes, payload, current) ==
  {Change("ADD", ref) : ref \in
     {r \in RefsOf(payload) \ RefsOf(current) : Change("ADD", r) \notin changes}}

(* unplanned_changes: what sending payload over current would do that the   *)
(* planned changes do not show.                                             *)
UnplannedChanges(changes, payload, current) ==
  LET sent == RulesByRef(payload)
      live == RulesByRef(current)
  IN  {Change("REMOVE", ref) : ref \in
         {r \in DOMAIN live \ DOMAIN sent : Change("REMOVE", r) \notin changes}}
      \cup {Change("ADD", ref) : ref \in
         {r \in DOMAIN sent \ DOMAIN live : Change("ADD", r) \notin changes}}
      \cup {Change("MODIFY", ref) : ref \in
         {r \in DOMAIN sent \cap DOMAIN live :
            /\ Change("MODIFY", r) \notin changes
            /\ NormalizeRule(sent[r]) # NormalizeRule(live[r])}}
      \cup (IF /\ Reorder \notin changes
               /\ SharedOrderDiffers(RefOrder(payload), RefOrder(current))
            THEN {Reorder} ELSE {})

(* ChangeTypeFilter.process_changes on one rule list. *)
FilterChanges(changes, exclude) == {c \in changes : c.type \notin exclude}

(* put_phase_rules / put_custom_ruleset: the provider replaces the whole    *)
(* list, and returns it in its own form from then on.                       *)
Stored(payload) ==
  [i \in DOMAIN payload |-> [ref |-> payload[i].ref, body |-> payload[i].body, form |-> "api"]]
=============================================================================
