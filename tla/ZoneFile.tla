------------------------------ MODULE ZoneFile ------------------------------
(***************************************************************************)
(* The sections of a rules file and who manages them: what the loader      *)
(* makes of the nested format (normalize_zone_format), what each provider  *)
(* of a zone sees of the result (_provider_view), which sections nobody    *)
(* would manage (check_zone_sections), and how dump groups the sections    *)
(* again (_nest_output).                                                   *)
(*                                                                         *)
(* A section key is a pair <<namespace, member>>; a key without a dot has  *)
(* the namespace "".  A file is [flat, blocks, scalars]: its top-level     *)
(* keys that are no registered namespace, the members of each namespace,   *)
(* and the namespaces that hold no mapping.                                *)
(***************************************************************************)
EXTENDS Integers, Sequences, FiniteSets

CONSTANTS
  Namespaces,    \* the registered namespaces
  Members,       \* [Namespaces -> the members each one registered]
  Uninstalled,   \* keys that look like the namespace of a package not installed
  Unscoped       \* no namespace (a class without one, a check that is off)

CoreSections == {"lists", "custom_rulesets"}

ASSUME NamespaceAssumption ==
  /\ "" \notin Namespaces
  /\ Unscoped \notin Namespaces /\ \A some \in SUBSET Namespaces : some # Unscoped
  /\ \A ns \in Namespaces : Members[ns] \cap CoreSections = {}

Plain(member) == <<"", member>>
IsOwned(key) == key[1] \in Namespaces /\ key[2] \in Members[key[1]]
IsScopedCore(key) == key[1] \in Namespaces /\ key[2] \in CoreSections
IsPlainCore(key) == key \in {Plain(section) : section \in CoreSections}
-----------------------------------------------------------------------------
(* A file of several providers keeps each one's lists and rulesets apart.  *)
IsShared(file) == \E a, b \in DOMAIN file.blocks \cup file.scalars : a # b

InternalKey(file, ns, member) ==
  IF member \in CoreSections /\ ~IsShared(file) THEN Plain(member) ELSE <<ns, member>>

Nested(file) == UNION {{ns} \X file.blocks[ns] : ns \in DOMAIN file.blocks}

(* The internal spelling is no input form, a plain core section does not   *)
(* say whose it is in a shared file, and no section is written twice.      *)
IsWellFormed(file) ==
  /\ \A key \in file.flat : key[1] \notin Namespaces
  /\ IsShared(file) => \A key \in file.flat : ~IsPlainCore(key)
  /\ file.scalars = {}
  /\ \A key \in Nested(file) : InternalKey(file, key[1], key[2]) \notin file.flat

NormalizeZoneFormat(file) ==
  file.flat \cup {InternalKey(file, key[1], key[2]) : key \in Nested(file)}
-----------------------------------------------------------------------------
(* A provider sees its own sections, its own lists and rulesets unwrapped, *)
(* and what nobody owns; one without a namespace sees everything.          *)
ProviderView(sections, ns) ==
  IF ns = Unscoped THEN sections
  ELSE {key \in sections : (IsOwned(key) => key[1] = ns) /\ ~IsScopedCore(key)}
         \cup {Plain(key[2]) : key \in {k \in sections : IsScopedCore(k) /\ k[1] = ns}}

(* The namespaces of a zone's targets, if each has one.                    *)
NamespaceSet(namespaces) == IF Unscoped \in namespaces THEN Unscoped ELSE namespaces

(* The sections that plan would skip and the strict set refuses.  A name   *)
(* that some loaded package registered is known, whoever the zone targets; *)
(* a key that may be a namespace not installed is only warned about.       *)
UnknownSections(sections, registered) ==
  {key \in sections \ registered :
     ~IsOwned(key) /\ ~IsScopedCore(key) /\ ~IsPlainCore(key) /\ key \notin Uninstalled}

(* A faulty variant: sections of other namespaces pass. *)
SkippedSectionsUnknown(sections, targeted, registered) ==
  UnknownSections(sections, registered)

SkippedSections(sections, targeted, registered) ==
  UnknownSections(sections, registered)
    \cup {key \in sections : /\ targeted # Unscoped
                             /\ IsOwned(key) \/ IsScopedCore(key)
                             /\ key[1] \notin targeted}
-----------------------------------------------------------------------------
(* Dump groups the sections by namespace; with just one, the core sections *)
(* go with it.                                                             *)
Grouped(sections) == {key \in sections : IsOwned(key) \/ IsScopedCore(key)}

Involved(sections) == {key[1] : key \in Grouped(sections)}

Joins(key, ns, sections) ==
  \/ key \in Grouped(sections) /\ key[1] = ns
  \/ IsPlainCore(key) /\ Involved(sections) = {ns}

NestOutput(sections) ==
  [flat |-> {key \in sections : \A ns \in Involved(sections) : ~Joins(key, ns, sections)},
   blocks |-> [ns \in Involved(sections) |->
                 {key[2] : key \in {k \in sections : Joins(k, ns, sections)}}],
   scalars |-> {}]
=============================================================================
