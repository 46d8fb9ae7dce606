-------------------------- MODULE ZoneSetupProofs --------------------------
(***************************************************************************)
(* What the set-up of plan and dump guarantees for any config, rules       *)
(* directory and providers.  First the format of rules files, for every    *)
(* set of namespaces and members: what dump writes the loader reads back   *)
(* unchanged, providers of two namespaces never share a section, and a     *)
(* file without skipped sections has each of them in some provider's view; *)
(* then the invariant of ZoneSetup and what follows from it.               *)
(***************************************************************************)
EXTENDS ZoneSetup, FiniteSetTheorems, TLAPS

(* The flat views that dump has to write: sections with a name, a plain    *)
(* core section only where it is clear whose it is, and scoped ones only   *)
(* where it is not.                                                        *)
IsDumpable(sections) ==
  /\ \A key \in sections : key = <<key[1], key[2]>>
  /\ \A key \in sections : key[1] \in Namespaces => key \in Grouped(sections)
  /\ \A key \in sections : IsPlainCore(key) =>
       \A a, b \in Involved(sections) : a = b
  /\ \A key \in sections : IsScopedCore(key) =>
       \E a, b \in Involved(sections) : a # b

(* A file is shared when the sections dumped are of two namespaces.        *)
LEMMA SharedWhenSeveral ==
  ASSUME NEW sections
  PROVE  IsShared(NestOutput(sections)) <=> \E a, b \in Involved(sections) : a # b
  BY DEF IsShared, NestOutput

(* The nested members are the sections that join a namespace.              *)
LEMMA NestedMembers ==
  ASSUME NEW sections, NEW ns \in Involved(sections), NEW member
  PROVE  <<ns, member>> \in Nested(NestOutput(sections)) <=>
           \E k \in sections : Joins(k, ns, sections) /\ k[2] = member
<1> DEFINE file == NestOutput(sections)
<1>1. DOMAIN file.blocks = Involved(sections)
  BY DEF NestOutput
<1>2. file.blocks[ns] = {key[2] : key \in {k \in sections : Joins(k, ns, sections)}}
  BY DEF NestOutput
<1>3. <<ns, member>> \in Nested(file) <=> member \in file.blocks[ns]
  BY <1>1 DEF Nested
<1> QED
  BY <1>2, <1>3

(* What is not an involved namespace has no members nested.                *)
LEMMA NestedAreInvolved ==
  ASSUME NEW sections, NEW key \in Nested(NestOutput(sections))
  PROVE  /\ key[1] \in Involved(sections)
         /\ key = <<key[1], key[2]>>
         /\ \E k \in sections : Joins(k, key[1], sections) /\ k[2] = key[2]
<1> DEFINE file == NestOutput(sections)
<1>1. DOMAIN file.blocks = Involved(sections)
  BY DEF NestOutput
<1>2. PICK ns \in Involved(sections) : key \in {ns} \X file.blocks[ns]
  BY <1>1 DEF Nested
<1>3. key = <<ns, key[2]>> /\ key[1] = ns /\ key[2] \in file.blocks[ns]
  BY <1>2
<1>4. <<ns, key[2]>> \in Nested(file)
  BY <1>3
<1> QED
  BY <1>3, <1>4, NestedMembers

(* A section that joins a namespace comes back under its own key.          *)
LEMMA JoinedComesBack ==
  ASSUME NamespaceAssumption,
         NEW sections, IsDumpable(sections),
         NEW ns \in Involved(sections),
         NEW k \in sections, Joins(k, ns, sections)
  PROVE  InternalKey(NestOutput(sections), ns, k[2]) = k
<1> DEFINE file == NestOutput(sections)
<1>1. k = <<k[1], k[2]>>
  BY DEF IsDumpable
<1>2. CASE IsPlainCore(k)
  <2>1. ~IsShared(file)
    BY <1>2, SharedWhenSeveral DEF IsDumpable
  <2>2. PICK section \in CoreSections : k = Plain(section)
    BY <1>2 DEF IsPlainCore
  <2>3. Plain(section)[2] = section
    BY DEF Plain
  <2> QED
    BY <2>1, <2>2, <2>3 DEF InternalKey
<1>3. CASE ~IsPlainCore(k)
  <2>1. k \in Grouped(sections) /\ k[1] = ns
    BY <1>3 DEF Joins
  <2>2. CASE IsScopedCore(k)
    <3>1. IsShared(file)
      BY <2>2, SharedWhenSeveral DEF IsDumpable
    <3> QED
      BY <1>1, <2>1, <3>1 DEF InternalKey
  <2>3. CASE IsOwned(k)
    <3>1. k[2] \notin CoreSections
      BY <2>3 DEF IsOwned, NamespaceAssumption
    <3> QED
      BY <1>1, <2>1, <3>1 DEF InternalKey
  <2> QED
    BY <2>1, <2>2, <2>3 DEF Grouped
<1> QED
  BY <1>2, <1>3

(* The loader reads back what dump wrote: _nest_output, then               *)
(* normalize_zone_format, is the identity on the sections dump has         *)
(* ("round-tripping through the loader's single-namespace rule").          *)
THEOREM DumpLoadsBack ==
  ASSUME NamespaceAssumption, NEW sections, IsDumpable(sections)
  PROVE  NormalizeZoneFormat(NestOutput(sections)) = sections
<1> DEFINE file == NestOutput(sections)
           back == {InternalKey(file, key[1], key[2]) : key \in Nested(file)}
<1>1. back \subseteq sections
  <2> SUFFICES ASSUME NEW key \in Nested(file)
               PROVE  InternalKey(file, key[1], key[2]) \in sections
    OBVIOUS
  <2>1. PICK k \in sections : Joins(k, key[1], sections) /\ k[2] = key[2]
    BY NestedAreInvolved
  <2>2. key[1] \in Involved(sections)
    BY NestedAreInvolved
  <2> QED
    BY <2>1, <2>2, JoinedComesBack
<1>2. file.flat \subseteq sections
  BY DEF NestOutput
<1>3. \A k \in sections : k \in file.flat \/ k \in back
  <2> SUFFICES ASSUME NEW k \in sections, k \notin file.flat
               PROVE  k \in back
    OBVIOUS
  <2>1. PICK ns \in Involved(sections) : Joins(k, ns, sections)
    BY DEF NestOutput
  <2>2. <<ns, k[2]>> \in Nested(file)
    BY <2>1, NestedMembers
  <2>3. InternalKey(file, ns, k[2]) = k
    BY <2>1, JoinedComesBack
  <2> DEFINE key == <<ns, k[2]>>
  <2>4. key[1] = ns /\ key[2] = k[2]
    OBVIOUS
  <2> QED
    BY <2>2, <2>3, <2>4
<1> QED
  BY <1>1, <1>2, <1>3 DEF NormalizeZoneFormat

(* And the loader does not reject it.                                      *)
THEOREM DumpIsWellFormed ==
  ASSUME NamespaceAssumption, NEW sections, IsDumpable(sections)
  PROVE  IsWellFormed(NestOutput(sections))
<1> DEFINE file == NestOutput(sections)
<1>1. \A key \in file.flat : key \in sections /\ \A ns \in Involved(sections) : ~Joins(key, ns, sections)
  BY DEF NestOutput
<1>2. \A key \in file.flat : key[1] \notin Namespaces
  <2> SUFFICES ASSUME NEW key \in file.flat, key[1] \in Namespaces
               PROVE  FALSE
    OBVIOUS
  <2>1. key \in Grouped(sections)
    BY <1>1 DEF IsDumpable
  <2>2. key[1] \in Involved(sections) /\ Joins(key, key[1], sections)
    BY <2>1 DEF Involved, Joins
  <2> QED
    BY <1>1, <2>2
<1>3. IsShared(file) => \A key \in file.flat : ~IsPlainCore(key)
  <2> SUFFICES ASSUME IsShared(file), NEW key \in file.flat, IsPlainCore(key)
               PROVE  FALSE
    OBVIOUS
  <2>1. \A a, b \in Involved(sections) : a = b
    BY <1>1 DEF IsDumpable
  <2>2. IsShared(NestOutput(sections))
    OBVIOUS
  <2>3. \E a, b \in Involved(sections) : a # b
    BY <2>2 DEF IsShared, NestOutput
  <2> QED
    BY <2>1, <2>3
<1>4. file.scalars = {}
  BY DEF NestOutput
<1>5. \A key \in Nested(file) : InternalKey(file, key[1], key[2]) \notin file.flat
  <2> SUFFICES ASSUME NEW key \in Nested(file)
               PROVE  InternalKey(file, key[1], key[2]) \notin file.flat
    OBVIOUS
  <2>1. PICK k \in sections : Joins(k, key[1], sections) /\ k[2] = key[2]
    BY NestedAreInvolved
  <2>2. key[1] \in Involved(sections)
    BY NestedAreInvolved
  <2>3. InternalKey(file, key[1], key[2]) = k
    BY <2>1, <2>2, JoinedComesBack
  <2> QED
    BY <1>1, <2>1, <2>2, <2>3
<1> QED
  BY <1>2, <1>3, <1>4, <1>5 DEF IsWellFormed

(* A section that a namespace owns is in no view but its own: providers of *)
(* two namespaces never plan the same section (_provider_view).            *)
THEOREM OneOwner ==
  ASSUME NamespaceAssumption, NEW sections,
         NEW a \in Namespaces, NEW b \in Namespaces, a # b,
         NEW key, IsOwned(key)
  PROVE  ~(key \in ProviderView(sections, a) /\ key \in ProviderView(sections, b))
<1>1. \A ns \in Namespaces : key \in ProviderView(sections, ns) => key[1] = ns
  <2> SUFFICES ASSUME NEW ns \in Namespaces, key \in ProviderView(sections, ns)
               PROVE  key[1] = ns
    OBVIOUS
  <2>1. ASSUME NEW member PROVE key # Plain(member)
    <3>1. Plain(member)[1] = ""
      BY DEF Plain
    <3>2. key[1] # ""
      BY DEF IsOwned, NamespaceAssumption
    <3> QED
      BY <3>1, <3>2
  <2> QED
    BY <2>1 DEF ProviderView, NamespaceAssumption
<1> QED
  BY <1>1

(* Where nothing is skipped, nothing is lost: each section of a zone whose *)
(* targets have the namespaces `targeted`, but for what may belong to a    *)
(* package not installed, is in the view of one of them, a phase that no   *)
(* namespace owns included (check_zone_sections before _provider_view).    *)
THEOREM NothingIsLost ==
  ASSUME NamespaceAssumption, NEW sections, NEW registered,
         NEW targeted \in SUBSET Namespaces, targeted # {},
         SkippedSections(sections, targeted, registered) = {},
         NEW key \in sections \ Uninstalled
  PROVE  \E ns \in targeted :
           \/ key \in ProviderView(sections, ns)
           \/ IsScopedCore(key) /\ key[1] = ns /\ Plain(key[2]) \in ProviderView(sections, ns)
<1>1. IsOwned(key) \/ IsScopedCore(key) => key[1] \in targeted
  BY DEF SkippedSections
<1>2. CASE IsScopedCore(key)
  BY <1>1, <1>2 DEF ProviderView, NamespaceAssumption
<1>3. CASE IsOwned(key) /\ ~IsScopedCore(key)
  BY <1>1, <1>3 DEF ProviderView, NamespaceAssumption
<1>4. CASE ~IsOwned(key) /\ ~IsScopedCore(key)
  <2>1. PICK ns : ns \in targeted
    OBVIOUS
  <2> QED
    BY <1>4, <2>1 DEF ProviderView, NamespaceAssumption
<1> QED
  BY <1>2, <1>3, <1>4

-----------------------------------------------------------------------------

(* The entry a zone was made from.                                         *)
EntryOf(z) == IF z \in DOMAIN Entries THEN Entries[z] ELSE Entries[Template]

Refusal == pc = "config" \/ (pc = "refused" /\ call = 0)

ZoneFields == {"targets", "names", "rules", "strict", "id", "ids"}

ConfigInv ==
  /\ raw \in Configs
  /\ call \in Nat
  /\ cmd \in {"plan", "dump"}
  /\ pc = "config" => zones = <<>> /\ call = 0
  /\ Refusal \/ \A z \in DOMAIN Entries : IsAcceptable(z, Entries[z])
  /\ Refusal \/ DOMAIN Entries \ {Template} \subseteq DOMAIN zones

(* A zone keeps what its entry gave it; the ids it has are its targets' own *)
(* answers, and the first target's is the zone's.                           *)
ZoneInv(z) ==
  /\ DOMAIN zones[z] = ZoneFields
  /\ z \in DOMAIN Entries \/ Template \in DOMAIN Entries
  /\ zones[z].names = EntryOf(z).names
  /\ zones[z].targets = ParsedTargets(EntryOf(z))
  /\ zones[z].targets # <<>>
  /\ TargetsOf(z) \subseteq Elements(Providers)
  /\ \A t \in DOMAIN zones[z].ids : zones[z].ids[t] = <<t, GivenName(z, t)>>
  /\ zones[z].id # NoId => Primary(z) \in DOMAIN zones[z].ids
  /\ Primary(z) \in DOMAIN zones[z].ids => zones[z].id = zones[z].ids[Primary(z)]

(* Every target of a zone that may be worked on has its answer, is still to *)
(* be asked, or its answer was lost; the first target's was not.            *)
Accounted(z) ==
  \A t \in TargetsOf(z) : t \in DOMAIN zones[z].ids \/ <<z, t>> \in items \cup missed

AskInv ==
  /\ \A item \in items :
       /\ item = <<item[1], item[2]>>
       /\ item[1] \in Selected /\ item[2] \in TargetsOf(item[1])
  /\ pc # "resolve" => items = {}
  /\ \A z \in DOMAIN zones : zones[z].id # NoId => Accounted(z)
  /\ pc = "resolve" => \A z \in Selected :
       Accounted(z) /\ (Primary(z) \in DOMAIN zones[z].ids \/ <<z, Primary(z)>> \in items)
  /\ pc \in {"plan", "dump"} => \A z \in Selected :
       Accounted(z) /\ Primary(z) \in DOMAIN zones[z].ids

Separated ==
  pc \in {"discover", "items", "resolve", "plan", "dump"} =>
    \A z \in DOMAIN zones \cap DOMAIN Entries : IsSeparable(zones[z].targets)

ScopesInv == pc \notin {"planned", "dumped", "idle"} => scopes = {}

IInv ==
  /\ ConfigInv
  /\ \A z \in DOMAIN zones : ZoneInv(z)
  /\ AskInv /\ Separated /\ ScopesInv
  /\ OwnIdentity /\ SectionOwners /\ NothingSilentlySkipped /\ DumpLoads

-----------------------------------------------------------------------------
LEMMA OverlayParts ==
  ASSUME NEW f, NEW g
  PROVE  /\ DOMAIN Overlay(f, g) = DOMAIN f \cup DOMAIN g
         /\ \A x \in DOMAIN f : Overlay(f, g)[x] = f[x]
         /\ \A x \in DOMAIN g \ DOMAIN f : Overlay(f, g)[x] = g[x]
  BY DEF Overlay

(* The zones and the providers speak the typed language of the assumptions. *)
LEMMA Typed ==
  ASSUME ConfigInv
  PROVE  /\ Providers \in Seq(DOMAIN ClassOf)
         /\ \A z \in DOMAIN Entries : Entries[z].targets \in Seq(Elements(Entries[z].targets))
  BY SetupAssumption DEF ConfigInv, Providers, Entries

LEMMA SequenceHead ==
  ASSUME NEW S, NEW s \in Seq(S), s # <<>>
  PROVE  s[1] \in Elements(s) /\ Elements(s) \subseteq S
  BY DEF Elements

LEMMA InitHolds == Init => IInv
  BY SetupAssumption DEF Init, IInv, ConfigInv, AskInv, Separated, ScopesInv, OwnIdentity,
     SectionOwners, KeptApart, NothingSilentlySkipped, DumpLoads, Refusal

(* What depends on the config and the zones alone stays with them.          *)
LEMMA SameZones ==
  ASSUME UNCHANGED <<raw, zones>>
  PROVE  /\ Entries' = Entries /\ Providers' = Providers
         /\ \A z : ZoneInv(z) => ZoneInv(z)'
         /\ \A z : TargetsOf(z)' = TargetsOf(z) /\ Primary(z)' = Primary(z)
         /\ \A z, t : GivenName(z, t)' = GivenName(z, t)
         /\ \A z : IsAcceptable(z, Entries[z]) => IsAcceptable(z, Entries[z])'
<1>1. Entries' = Entries /\ Providers' = Providers /\ zones' = zones
  BY DEF Entries, Providers
<1>2. \A z : TargetsOf(z)' = TargetsOf(z) /\ Primary(z)' = Primary(z)
  BY <1>1 DEF TargetsOf, Primary
<1>3. \A z, t : GivenName(z, t)' = GivenName(z, t)
  BY <1>1 DEF GivenName
<1>4. \A entry : ParsedTargets(entry)' = ParsedTargets(entry)
  BY <1>1 DEF ParsedTargets
<1>5. \A z : IsAcceptable(z, Entries[z]) => IsAcceptable(z, Entries[z])'
  BY <1>1, <1>4 DEF IsAcceptable
<1>6. \A z : EntryOf(z)' = EntryOf(z)
  BY <1>1 DEF EntryOf
<1>7. \A z : ZoneInv(z) => ZoneInv(z)'
  BY <1>1, <1>2, <1>3, <1>4, <1>6 DEF ZoneInv
<1> QED BY <1>1, <1>2, <1>3, <1>5, <1>7

(* A call that has not come to its work yet, or has left it, has no scopes. *)
LEMMA NoScopes ==
  ASSUME scopes = {}, pc \notin {"planned", "dumped"}
  PROVE  OwnIdentity /\ SectionOwners /\ NothingSilentlySkipped /\ DumpLoads
  BY DEF OwnIdentity, SectionOwners, KeptApart, NothingSilentlySkipped, DumpLoads

LEMMA BeginHolds ==
  ASSUME IInv, Begin
  PROVE  IInv'
<1>1. /\ UNCHANGED <<raw, zones, items, missed>>
      /\ pc = "idle" /\ pc' = "import" /\ call' = call + 1 /\ scopes' = {}
      /\ cmd' \in {"plan", "dump"}
  BY DEF Begin
<1>2. ConfigInv'
  BY <1>1, SameZones DEF IInv, ConfigInv, Refusal
<1>3. \A z \in DOMAIN zones' : ZoneInv(z)'
  BY <1>1, SameZones DEF IInv
<1>4. AskInv'
  <2>1. items = {}
    BY <1>1 DEF IInv, AskInv
  <2> QED BY <1>1, <2>1, SameZones DEF IInv, AskInv, Accounted
<1>5. Separated' /\ ScopesInv'
  BY <1>1 DEF Separated, ScopesInv
<1>6. OwnIdentity' /\ SectionOwners' /\ NothingSilentlySkipped' /\ DumpLoads'
  BY <1>1 DEF OwnIdentity, SectionOwners, KeptApart, NothingSilentlySkipped, DumpLoads
<1> QED BY <1>2, <1>3, <1>4, <1>5, <1>6 DEF IInv

LEMMA ImportHolds ==
  ASSUME IInv, ImportProvider
  PROVE  IInv'
<1>1. /\ UNCHANGED <<raw, zones, items, missed, call, cmd, scopes, filter>>
      /\ pc = "import" /\ pc' \in {"import", "validate", "crashed"}
  BY DEF ImportProvider
<1>2. ConfigInv'
  BY <1>1, SameZones DEF IInv, ConfigInv, Refusal
<1>3. \A z \in DOMAIN zones' : ZoneInv(z)'
  BY <1>1, SameZones DEF IInv
<1>4. AskInv'
  <2>1. items = {}
    BY <1>1 DEF IInv, AskInv
  <2> QED BY <1>1, <2>1, SameZones DEF IInv, AskInv, Accounted
<1>5. Separated' /\ scopes' = {} /\ ScopesInv'
  BY <1>1 DEF IInv, Separated, ScopesInv
<1>6. OwnIdentity' /\ SectionOwners' /\ NothingSilentlySkipped' /\ DumpLoads'
  BY <1>1, <1>5 DEF OwnIdentity, SectionOwners, KeptApart, NothingSilentlySkipped, DumpLoads
<1> QED BY <1>2, <1>3, <1>4, <1>5, <1>6 DEF IInv

LEMMA ValidateHolds ==
  ASSUME IInv, ValidateMultiTarget
  PROVE  IInv'
<1>1. /\ UNCHANGED <<raw, zones, items, missed, call, cmd, scopes, filter>>
      /\ pc = "validate" /\ pc' \in {"discover", "refused"}
      /\ pc' = "discover" => \A z \in DOMAIN zones : IsSeparable(zones[z].targets)
  BY DEF ValidateMultiTarget
<1>2. ConfigInv'
  BY <1>1, SameZones DEF IInv, ConfigInv, Refusal
<1>3. \A z \in DOMAIN zones' : ZoneInv(z)'
  BY <1>1, SameZones DEF IInv
<1>4. AskInv'
  <2>1. items = {}
    BY <1>1 DEF IInv, AskInv
  <2> QED BY <1>1, <2>1, SameZones DEF IInv, AskInv, Accounted
<1>5. Separated' /\ scopes' = {} /\ ScopesInv'
  BY <1>1, SameZones DEF IInv, Separated, ScopesInv
<1>6. OwnIdentity' /\ SectionOwners' /\ NothingSilentlySkipped' /\ DumpLoads'
  BY <1>1, <1>5 DEF OwnIdentity, SectionOwners, KeptApart, NothingSilentlySkipped, DumpLoads
<1> QED BY <1>2, <1>3, <1>4, <1>5, <1>6 DEF IInv

LEMMA ReturnHolds ==
  ASSUME IInv, Return
  PROVE  IInv'
<1>1. /\ UNCHANGED <<raw, zones, files, cache, items, missed, call, cmd, scopes, filter>>
      /\ pc # "resolve" /\ pc # "config" /\ call # 0 /\ pc' = "idle"
  BY DEF Return
<1>2. ConfigInv'
  BY <1>1, SameZones DEF IInv, ConfigInv, Refusal
<1>3. \A z \in DOMAIN zones' : ZoneInv(z)'
  BY <1>1, SameZones DEF IInv
<1>4. AskInv'
  <2>1. items = {}
    BY <1>1 DEF IInv, AskInv
  <2> QED BY <1>1, <2>1, SameZones DEF IInv, AskInv, Accounted
<1>5. Separated' /\ ScopesInv' /\ NothingSilentlySkipped' /\ DumpLoads'
  BY <1>1 DEF Separated, ScopesInv, NothingSilentlySkipped, DumpLoads
<1>6. OwnIdentity' /\ SectionOwners'
  BY <1>1, SameZones DEF IInv, OwnIdentity, SectionOwners, KeptApart
<1> QED BY <1>2, <1>3, <1>4, <1>5, <1>6 DEF IInv

LEMMA FinishHolds ==
  ASSUME IInv, FinishResolve
  PROVE  IInv'
<1>1. /\ UNCHANGED <<raw, zones, items, missed, call, cmd, scopes, filter>>
      /\ pc = "resolve" /\ items = {} /\ pc' \in {"refused", "plan", "dump"}
  BY DEF FinishResolve, IInv, ConfigInv
<1>2. ConfigInv'
  BY <1>1, SameZones DEF IInv, ConfigInv, Refusal
<1>3. \A z \in DOMAIN zones' : ZoneInv(z)'
  BY <1>1, SameZones DEF IInv
<1>4. AskInv'
  BY <1>1, SameZones DEF IInv, AskInv, Accounted, Selected
<1>5. Separated' /\ scopes' = {} /\ ScopesInv'
  BY <1>1, SameZones DEF IInv, Separated, ScopesInv
<1>6. OwnIdentity' /\ SectionOwners' /\ NothingSilentlySkipped' /\ DumpLoads'
  BY <1>1, <1>5 DEF OwnIdentity, SectionOwners, KeptApart, NothingSilentlySkipped, DumpLoads
<1> QED BY <1>2, <1>3, <1>4, <1>5, <1>6 DEF IInv

-----------------------------------------------------------------------------
(* Zones made from their entries, and zones discovered.                     *)
LEMMA ParseParts ==
  ASSUME NEW entry
  PROVE  /\ DOMAIN ParseZone(entry) = ZoneFields
         /\ ParseZone(entry).targets = ParsedTargets(entry)
         /\ ParseZone(entry).names = entry.names
         /\ ParseZone(entry).id = NoId /\ ParseZone(entry).ids = <<>>
  BY DEF ParseZone, ZoneFields

LEMMA MadeFrom ==
  ASSUME raw' = raw, NEW z, z \in DOMAIN Entries \/ Template \in DOMAIN Entries,
         zones'[z] = ParseZone(EntryOf(z)), NEW name, IsAcceptable(name, EntryOf(z))
  PROVE  ZoneInv(z)' /\ zones'[z].id = NoId
<1>1. Entries' = Entries /\ Providers' = Providers /\ EntryOf(z)' = EntryOf(z)
      /\ ParsedTargets(EntryOf(z))' = ParsedTargets(EntryOf(z))
  BY DEF Entries, Providers, EntryOf, ParsedTargets
<1>2. /\ DOMAIN zones'[z] = ZoneFields
      /\ zones'[z].targets = ParsedTargets(EntryOf(z))
      /\ zones'[z].names = EntryOf(z).names
      /\ zones'[z].id = NoId /\ zones'[z].ids = <<>>
  BY ParseParts
<1>3. ParsedTargets(EntryOf(z)) # <<>>
      /\ Elements(ParsedTargets(EntryOf(z))) \subseteq Elements(Providers)
  BY DEF IsAcceptable, ParsedTargets
<1>4. TargetsOf(z)' \subseteq Elements(Providers)
  BY <1>2, <1>3 DEF TargetsOf
<1>5. DOMAIN <<>> = {}
  OBVIOUS
<1> QED BY <1>1, <1>2, <1>3, <1>4, <1>5 DEF ZoneInv

LEMMA LoadHolds ==
  ASSUME IInv, LoadConfig
  PROVE  IInv'
<1>1. /\ UNCHANGED <<raw, items, missed, call, cmd, scopes, filter>> /\ Entries' = Entries
      /\ pc = "config" /\ zones = <<>> /\ call = 0 /\ items = {} /\ scopes = {}
  BY DEF LoadConfig, IInv, ConfigInv, ScopesInv, AskInv, Entries
<1>2. CASE \A z \in DOMAIN Entries : IsAcceptable(z, Entries[z])
  <2>1. /\ DOMAIN zones' = DOMAIN Entries \ {Template}
        /\ \A z \in DOMAIN zones' : zones'[z] = ParseZone(Entries[z])
        /\ pc' = "idle"
    BY <1>2 DEF LoadConfig
  <2>2. ASSUME NEW z \in DOMAIN zones' PROVE ZoneInv(z)' /\ zones'[z].id = NoId
    <3>1. z \in DOMAIN Entries /\ EntryOf(z) = Entries[z]
      BY <2>1 DEF EntryOf
    <3> QED BY <1>1, <1>2, <2>1, <3>1, MadeFrom
  <2>3. ConfigInv'
    <3>1. \A z \in DOMAIN Entries : IsAcceptable(z, Entries[z])'
      BY <1>1, <1>2 DEF IsAcceptable, ParsedTargets, Providers
    <3> QED BY <1>1, <2>1, <3>1 DEF IInv, ConfigInv, Refusal
  <2>4. AskInv'
    BY <1>1, <2>1, <2>2 DEF AskInv
  <2>5. Separated' /\ ScopesInv'
    BY <1>1, <2>1 DEF Separated, ScopesInv
  <2>6. OwnIdentity' /\ SectionOwners' /\ NothingSilentlySkipped' /\ DumpLoads'
    BY <1>1, <2>1 DEF OwnIdentity, SectionOwners, KeptApart, NothingSilentlySkipped, DumpLoads
  <2> QED BY <2>2, <2>3, <2>4, <2>5, <2>6 DEF IInv
<1>3. CASE ~\A z \in DOMAIN Entries : IsAcceptable(z, Entries[z])
  <2>1. pc' = "refused" /\ zones' = zones /\ DOMAIN zones' = {}
    BY <1>1, <1>3 DEF LoadConfig
  <2>2. ConfigInv'
    BY <1>1, <2>1 DEF IInv, ConfigInv, Refusal
  <2>3. AskInv' /\ Separated' /\ ScopesInv'
    BY <1>1, <2>1 DEF AskInv, Separated, ScopesInv
  <2>4. OwnIdentity' /\ SectionOwners' /\ NothingSilentlySkipped' /\ DumpLoads'
    BY <1>1, <2>1 DEF OwnIdentity, SectionOwners, KeptApart, NothingSilentlySkipped, DumpLoads
  <2> QED BY <2>1, <2>2, <2>3, <2>4 DEF IInv
<1> QED BY <1>2, <1>3

(* A discovered zone is no zone of the config, so that every zone of the    *)
(* config has been validated.                                               *)
LEMMA DiscoverHolds ==
  ASSUME IInv, DiscoverZones
  PROVE  IInv'
<1>1. /\ UNCHANGED <<raw, items, missed, call, cmd, scopes, filter>> /\ Entries' = Entries
      /\ pc = "discover" /\ pc' = "items" /\ items = {} /\ scopes = {}
  BY DEF DiscoverZones, IInv, ScopesInv, AskInv, Entries
<1>2. /\ DOMAIN zones \subseteq DOMAIN zones'
      /\ \A z \in DOMAIN zones : zones'[z] = zones[z]
      /\ \A z \in DOMAIN zones' \ DOMAIN zones :
           /\ z \notin DOMAIN Entries /\ Template \in DOMAIN Entries
           /\ zones'[z] = ParseZone(Entries[Template])
           /\ IsAcceptable(Template, Entries[Template])
  <2>1. CASE zones' = zones
    BY <2>1
  <2>2. CASE zones' # zones
    <3> DEFINE template == Entries[Template]
               asked == Elements(ParsedTargets(template)) \cap Discovering
    <3>1. Template \in DOMAIN Entries
      BY <2>2 DEF DiscoverZones
    <3>2. PICK silent \in SUBSET asked :
            zones' = ExpandTemplates(template, UNION {Hosted[t] : t \in asked \ silent})
      BY <3>1 DEF DiscoverZones
    <3>3. IsAcceptable(Template, template) /\ DOMAIN Entries \ {Template} \subseteq DOMAIN zones
      BY <1>1, <3>1 DEF IInv, ConfigInv, Refusal
    <3>4. asked \subseteq DOMAIN ClassOf
      <4>1. Elements(ParsedTargets(template)) \subseteq Elements(Providers)
        BY <3>3 DEF IsAcceptable, ParsedTargets
      <4>2. Elements(Providers) \subseteq DOMAIN ClassOf
        BY Typed DEF IInv, Elements
      <4> QED BY <4>1, <4>2
    <3>5. Template \notin UNION {Hosted[t] : t \in asked \ silent}
      BY <3>4, SetupAssumption
    <3>6. [ParseZone(template) EXCEPT !.names = <<>>] = ParseZone(template)
      <4>1. template.names = <<>>
        BY <3>3 DEF IsAcceptable
      <4> QED BY <4>1 DEF ParseZone
    <3> HIDE DEF asked
    <3>7. \A z \in DOMAIN zones' \ DOMAIN zones : z # Template /\ zones'[z] = ParseZone(template)
      BY <3>2, <3>5, <3>6 DEF ExpandTemplates
    <3>8. DOMAIN zones \subseteq DOMAIN zones' /\ \A z \in DOMAIN zones : zones'[z] = zones[z]
      BY <3>2 DEF ExpandTemplates
    <3> QED BY <3>1, <3>3, <3>7, <3>8
  <2> QED BY <2>1, <2>2
<1>3. ASSUME NEW z \in DOMAIN zones' \ DOMAIN zones
      PROVE  ZoneInv(z)' /\ zones'[z].id = NoId
  <2>1. EntryOf(z) = Entries[Template]
    BY <1>2, <1>3 DEF EntryOf
  <2> QED BY <1>1, <1>2, <2>1, MadeFrom
<1>4. ASSUME NEW z \in DOMAIN zones PROVE ZoneInv(z)' /\ (Accounted(z) => Accounted(z)')
  <2>1. ZoneInv(z) /\ zones'[z] = zones[z]
    BY <1>2 DEF IInv
  <2>2. TargetsOf(z)' = TargetsOf(z) /\ Primary(z)' = Primary(z)
        /\ EntryOf(z)' = EntryOf(z) /\ Providers' = Providers
        /\ ParsedTargets(EntryOf(z))' = ParsedTargets(EntryOf(z))
        /\ \A s : GivenName(z, s)' = GivenName(z, s)
    BY <1>1, <2>1 DEF TargetsOf, Primary, EntryOf, Providers, ParsedTargets, GivenName
  <2> QED BY <1>1, <2>1, <2>2 DEF ZoneInv, Accounted
<1>5. ConfigInv'
  <2>1. \A z \in DOMAIN Entries : IsAcceptable(z, Entries[z])'
    BY <1>1 DEF IInv, ConfigInv, Refusal, IsAcceptable, ParsedTargets, Providers
  <2> QED BY <1>1, <1>2, <2>1 DEF IInv, ConfigInv, Refusal
<1>6. AskInv'
  BY <1>1, <1>2, <1>3, <1>4 DEF IInv, AskInv
<1>7. Separated' /\ ScopesInv'
  BY <1>1, <1>2 DEF IInv, Separated, ScopesInv
<1>8. OwnIdentity' /\ SectionOwners' /\ NothingSilentlySkipped' /\ DumpLoads'
  BY <1>1 DEF OwnIdentity, SectionOwners, KeptApart, NothingSilentlySkipped, DumpLoads
<1> QED BY <1>3, <1>4, <1>5, <1>6, <1>7, <1>8 DEF IInv

-----------------------------------------------------------------------------
(* Asking the targets.                                                      *)
LEMMA CollectHolds ==
  ASSUME IInv, CollectItems
  PROVE  IInv'
<1>1. /\ UNCHANGED <<raw, zones, missed, call, cmd, scopes, filter>>
      /\ pc = "items" /\ pc' = "resolve" /\ items = {} /\ scopes = {}
      /\ items' = UNION {{z} \X TargetsOf(z) : z \in {s \in Selected : zones[s].id = NoId}}
  BY DEF CollectItems, IInv, ScopesInv, AskInv
<1>2. ConfigInv'
  BY <1>1, SameZones DEF IInv, ConfigInv, Refusal
<1>3. \A z \in DOMAIN zones' : ZoneInv(z)'
  BY <1>1, SameZones DEF IInv
<1>4. Selected' = Selected /\ Selected \subseteq DOMAIN zones
  BY <1>1 DEF Selected
<1>5. AskInv'
  <2>1. ASSUME NEW item \in items'
        PROVE  /\ item = <<item[1], item[2]>>
               /\ item[1] \in Selected /\ item[2] \in TargetsOf(item[1])
    BY <1>1, <2>1
  <2>2. ASSUME NEW z \in Selected, zones[z].id = NoId, NEW t \in TargetsOf(z)
        PROVE  <<z, t>> \in items'
    <3>1. <<z, t>> \in {z} \X TargetsOf(z)
      BY <2>2
    <3> QED BY <1>1, <2>2, <3>1
  <2>3. ASSUME NEW z \in DOMAIN zones, zones[z].id # NoId
        PROVE  Accounted(z) /\ Primary(z) \in DOMAIN zones[z].ids
    BY <2>3 DEF IInv, AskInv, ZoneInv
  <2>4. ASSUME NEW z \in DOMAIN zones PROVE Primary(z) \in TargetsOf(z)
    <3>1. z \in DOMAIN Entries \/ Template \in DOMAIN Entries
      BY DEF IInv, ZoneInv
    <3>2. zones[z].targets \in Seq(Elements(zones[z].targets)) /\ zones[z].targets # <<>>
      BY <3>1, Typed, SequenceHead DEF IInv, ZoneInv, ParsedTargets, EntryOf, Elements
    <3> QED BY <3>2, SequenceHead DEF Primary, TargetsOf
  <2>5. \A z : TargetsOf(z)' = TargetsOf(z) /\ Primary(z)' = Primary(z)
    BY <1>1, SameZones
  <2>6. \A z \in DOMAIN zones : Accounted(z) => Accounted(z)'
    BY <1>1, <2>5 DEF Accounted
  <2>7. \A z \in Selected : zones[z].id = NoId => Accounted(z)' /\ <<z, Primary(z)>> \in items'
    BY <1>1, <1>4, <2>2, <2>4, <2>5 DEF Accounted
  <2> QED BY <1>1, <1>4, <2>1, <2>3, <2>5, <2>6, <2>7 DEF AskInv
<1>6. Separated' /\ ScopesInv'
  BY <1>1, SameZones DEF IInv, Separated, ScopesInv
<1>7. OwnIdentity' /\ SectionOwners' /\ NothingSilentlySkipped' /\ DumpLoads'
  BY <1>1 DEF OwnIdentity, SectionOwners, KeptApart, NothingSilentlySkipped, DumpLoads
<1> QED BY <1>2, <1>3, <1>5, <1>6, <1>7 DEF IInv

LEMMA StoreParts ==
  ASSUME NEW z \in DOMAIN zones, DOMAIN zones[z] = ZoneFields, NEW t, NEW id
  PROVE  /\ DOMAIN Store(z, t, id) = DOMAIN zones
         /\ \A y \in DOMAIN zones \ {z} : Store(z, t, id)[y] = zones[y]
         /\ DOMAIN Store(z, t, id)[z] = ZoneFields
         /\ Store(z, t, id)[z].targets = zones[z].targets
         /\ Store(z, t, id)[z].names = zones[z].names
         /\ DOMAIN Store(z, t, id)[z].ids = {t} \cup DOMAIN zones[z].ids
         /\ Store(z, t, id)[z].ids[t] = id
         /\ \A u \in DOMAIN zones[z].ids \ {t} : Store(z, t, id)[z].ids[u] = zones[z].ids[u]
         /\ Store(z, t, id)[z].id = IF t = Primary(z) THEN id ELSE zones[z].id
<1>1. Store(z, t, id)[z].ids = Overlay([x \in {t} |-> id], zones[z].ids)
  BY DEF Store, ZoneFields
<1>2. DOMAIN [x \in {t} |-> id] = {t} /\ [x \in {t} |-> id][t] = id
  OBVIOUS
<1>3. /\ DOMAIN Overlay([x \in {t} |-> id], zones[z].ids) = {t} \cup DOMAIN zones[z].ids
      /\ Overlay([x \in {t} |-> id], zones[z].ids)[t] = id
      /\ \A u \in DOMAIN zones[z].ids \ {t} :
           Overlay([x \in {t} |-> id], zones[z].ids)[u] = zones[z].ids[u]
  BY <1>2 DEF Overlay
<1> QED BY <1>1, <1>3 DEF Store, ZoneFields

LEMMA ResolveHolds ==
  ASSUME IInv, NEW item, Resolve(item)
  PROVE  IInv'
<1> DEFINE z == item[1]
           t == item[2]
           id == <<t, Resource(item)>>
<1>1. /\ UNCHANGED <<raw, missed, call, cmd, scopes, filter, pc>> /\ Entries' = Entries
      /\ pc = "resolve" /\ item \in items /\ items' = items \ {item} /\ scopes = {}
      /\ zones' = Store(z, t, id)
  BY DEF Resolve, IInv, ScopesInv, Entries
<1>2. item = <<z, t>> /\ z \in Selected /\ z \in DOMAIN zones /\ t \in TargetsOf(z)
  BY <1>1 DEF IInv, AskInv, Selected
<1>3. ZoneInv(z) /\ Accounted(z)
  BY <1>1, <1>2 DEF IInv, AskInv
<1> HIDE DEF id
<1>4. /\ DOMAIN zones' = DOMAIN zones
      /\ \A y \in DOMAIN zones \ {z} : zones'[y] = zones[y]
      /\ DOMAIN zones'[z] = ZoneFields
      /\ zones'[z].targets = zones[z].targets /\ zones'[z].names = zones[z].names
      /\ DOMAIN zones'[z].ids = {t} \cup DOMAIN zones[z].ids
      /\ zones'[z].ids[t] = id
      /\ \A u \in DOMAIN zones[z].ids \ {t} : zones'[z].ids[u] = zones[z].ids[u]
      /\ zones'[z].id = IF t = Primary(z) THEN id ELSE zones[z].id
  <2>1. DOMAIN zones[z] = ZoneFields
    BY <1>3 DEF ZoneInv
  <2> DEFINE stored == Store(z, t, id)
  <2>2. /\ DOMAIN stored = DOMAIN zones
        /\ \A y \in DOMAIN zones \ {z} : stored[y] = zones[y]
        /\ DOMAIN stored[z] = ZoneFields
        /\ stored[z].targets = zones[z].targets /\ stored[z].names = zones[z].names
        /\ DOMAIN stored[z].ids = {t} \cup DOMAIN zones[z].ids
        /\ stored[z].ids[t] = id
        /\ \A u \in DOMAIN zones[z].ids \ {t} : stored[z].ids[u] = zones[z].ids[u]
        /\ stored[z].id = IF t = Primary(z) THEN id ELSE zones[z].id
    BY <1>2, <2>1, StoreParts
  <2> QED BY <1>1, <2>2
<1>5. id = <<t, GivenName(z, t)>>
  BY <1>2, <1>3 DEF id, Resource, GivenName, ZoneInv, EntryOf
<1>6. /\ \A y \in DOMAIN zones : TargetsOf(y)' = TargetsOf(y) /\ Primary(y)' = Primary(y)
      /\ \A y : EntryOf(y)' = EntryOf(y)
      /\ \A y : ParsedTargets(EntryOf(y))' = ParsedTargets(EntryOf(y))
      /\ \A y, s : GivenName(y, s)' = GivenName(y, s)
      /\ Providers' = Providers
  <2>1. \A y \in DOMAIN zones : zones'[y].targets = zones[y].targets
    BY <1>4
  <2> QED BY <1>1, <2>1
          DEF TargetsOf, Primary, EntryOf, ParsedTargets, Providers, GivenName
<1>7. ASSUME NEW y \in DOMAIN zones' PROVE ZoneInv(y)'
  <2>1. CASE y # z
    <3>1. ZoneInv(y) /\ zones'[y] = zones[y]
      BY <1>4, <1>7, <2>1 DEF IInv
    <3> QED BY <1>1, <1>4, <1>6, <3>1 DEF ZoneInv
  <2>2. CASE y = z
    <3>1. \A u \in DOMAIN zones'[z].ids : zones'[z].ids[u] = <<u, GivenName(z, u)>>
      BY <1>3, <1>4, <1>5 DEF ZoneInv
    <3>2. zones'[z].id # NoId => Primary(z) \in DOMAIN zones'[z].ids
      BY <1>3, <1>4 DEF ZoneInv
    <3>3. Primary(z) \in DOMAIN zones'[z].ids => zones'[z].id = zones'[z].ids[Primary(z)]
      BY <1>3, <1>4 DEF ZoneInv
    <3> QED BY <1>1, <1>2, <1>3, <1>4, <1>6, <2>2, <3>1, <3>2, <3>3 DEF ZoneInv
  <2> QED BY <2>1, <2>2
<1>8. ConfigInv'
  <2>1. \A y \in DOMAIN Entries : IsAcceptable(y, Entries[y])'
    BY <1>1 DEF IInv, ConfigInv, Refusal, IsAcceptable, ParsedTargets, Providers
  <2> QED BY <1>1, <1>4, <2>1 DEF IInv, ConfigInv, Refusal
<1>9. Selected' = Selected
  BY <1>1, <1>4 DEF Selected
<1>10. ASSUME NEW y \in DOMAIN zones, Accounted(y) PROVE Accounted(y)'
  <2>1. \A u \in TargetsOf(y) : <<y, u>> = item => y = z /\ u = t
    BY <1>2
  <2>2. DOMAIN zones[y].ids \subseteq DOMAIN zones'[y].ids
    BY <1>4
  <2> QED BY <1>1, <1>4, <1>6, <1>10, <2>1, <2>2 DEF Accounted
<1>11. AskInv'
  <2>1. ASSUME NEW y \in Selected
        PROVE  Primary(y) \in DOMAIN zones'[y].ids \/ <<y, Primary(y)>> \in items'
    <3>1. Primary(y) \in DOMAIN zones[y].ids \/ <<y, Primary(y)>> \in items
      BY <1>1 DEF IInv, AskInv
    <3>2. <<y, Primary(y)>> = item => y = z /\ Primary(y) = t
      BY <1>2
    <3>3. y \in DOMAIN zones
      BY DEF Selected
    <3> QED BY <1>1, <1>4, <3>1, <3>2, <3>3
  <2>2. \A y \in Selected : y \in DOMAIN zones /\ Accounted(y)
    BY <1>1 DEF IInv, AskInv, Selected
  <2>3. \A y \in DOMAIN zones : zones'[y].id # NoId => Accounted(y)
    BY <1>3, <1>4 DEF IInv, AskInv
  <2>4. \A i \in items' : /\ i = <<i[1], i[2]>>
                        /\ i[1] \in Selected /\ i[2] \in TargetsOf(i[1])'
    BY <1>1, <1>6, <2>2 DEF IInv, AskInv
  <2> QED BY <1>1, <1>4, <1>6, <1>9, <1>10, <2>1, <2>2, <2>3, <2>4 DEF AskInv
<1>12. Separated' /\ ScopesInv'
  <2>1. \A y \in DOMAIN zones : zones'[y].targets = zones[y].targets
    BY <1>4
  <2> QED BY <1>1, <1>4, <2>1 DEF IInv, Separated, ScopesInv
<1>13. OwnIdentity' /\ SectionOwners' /\ NothingSilentlySkipped' /\ DumpLoads'
  BY <1>1 DEF OwnIdentity, SectionOwners, KeptApart, NothingSilentlySkipped, DumpLoads
<1> QED BY <1>7, <1>8, <1>11, <1>12, <1>13 DEF IInv

LEMMA FailHolds ==
  ASSUME IInv, NEW item, FailToResolve(item)
  PROVE  IInv'
<1>1. /\ UNCHANGED <<raw, zones, call, cmd, scopes, filter>>
      /\ pc = "resolve" /\ item \in items /\ scopes = {}
      /\ IF item[2] = Primary(item[1])
           THEN pc' = "aborted" /\ items' = {} /\ missed' = missed \cup items
           ELSE items' = items \ {item} /\ missed' = missed \cup {item} /\ pc' = pc
  BY DEF FailToResolve, IInv, ScopesInv
<1>2. ConfigInv'
  BY <1>1, SameZones DEF IInv, ConfigInv, Refusal
<1>3. \A z \in DOMAIN zones' : ZoneInv(z)'
  BY <1>1, SameZones DEF IInv
<1>4. Selected' = Selected
  BY <1>1 DEF Selected
<1>5. \A z : TargetsOf(z)' = TargetsOf(z) /\ Primary(z)' = Primary(z)
  BY <1>1, SameZones
<1>6. items \cup missed \subseteq items' \cup missed' /\ items' \subseteq items
  BY <1>1
<1>7. \A z : Accounted(z) => Accounted(z)'
  BY <1>1, <1>5, <1>6 DEF Accounted
<1>8. AskInv'
  <2>1. ASSUME pc' = "resolve", NEW z, <<z, Primary(z)>> \in items
        PROVE  <<z, Primary(z)>> \in items'
    BY <1>1, <2>1
  <2> QED BY <1>1, <1>4, <1>5, <1>6, <1>7, <2>1 DEF IInv, AskInv
<1>9. Separated' /\ ScopesInv'
  BY <1>1, SameZones DEF IInv, Separated, ScopesInv
<1>10. OwnIdentity' /\ SectionOwners' /\ NothingSilentlySkipped' /\ DumpLoads'
  BY <1>1 DEF OwnIdentity, SectionOwners, KeptApart, NothingSilentlySkipped, DumpLoads
<1> QED BY <1>2, <1>3, <1>8, <1>9, <1>10 DEF IInv

-----------------------------------------------------------------------------
(* The work of a call.                                                      *)
LEMMA PrimaryIsTarget ==
  ASSUME IInv, NEW z \in DOMAIN zones
  PROVE  /\ zones[z].targets \in Seq(DOMAIN ClassOf) /\ zones[z].targets # <<>>
         /\ Primary(z) \in TargetsOf(z) /\ TargetsOf(z) \subseteq DOMAIN ClassOf
<1>1. z \in DOMAIN Entries \/ Template \in DOMAIN Entries
  BY DEF IInv, ZoneInv
<1>2. zones[z].targets \in Seq(Elements(zones[z].targets)) /\ zones[z].targets # <<>>
  BY <1>1, Typed, SequenceHead DEF IInv, ZoneInv, ParsedTargets, EntryOf, Elements
<1>3. TargetsOf(z) \subseteq DOMAIN ClassOf
  BY Typed, SequenceHead DEF IInv, ZoneInv, Elements
<1>4. zones[z].targets \in Seq(DOMAIN ClassOf)
  BY <1>2, <1>3 DEF TargetsOf
<1> QED BY <1>2, <1>3, <1>4, SequenceHead DEF Primary, TargetsOf

(* A scope has its target's own answer, or else the first target's, and     *)
(* then its own was lost.                                                   *)
LEMMA ScopeId ==
  ASSUME IInv, pc \in {"plan", "dump"}, NEW z \in Selected, NEW t \in TargetsOf(z)
  PROVE  \/ ZoneIdFor(z, t) = <<t, GivenName(z, t)>>
         \/ /\ t # Primary(z) /\ <<z, t>> \in missed
            /\ ZoneIdFor(z, t) = <<Primary(z), GivenName(z, Primary(z))>>
<1>1. /\ z \in DOMAIN zones /\ ZoneInv(z) /\ Accounted(z) /\ items = {}
      /\ Primary(z) \in DOMAIN zones[z].ids
  BY DEF IInv, AskInv, Selected
<1>2. CASE t \in DOMAIN zones[z].ids
  BY <1>1, <1>2 DEF ZoneIdFor, ZoneInv
<1>3. CASE t \notin DOMAIN zones[z].ids
  BY <1>1, <1>3 DEF ZoneIdFor, ZoneInv, Accounted
<1> QED BY <1>2, <1>3

LEMMA ScopesIdentified ==
  ASSUME IInv, pc \in {"plan", "dump"}, UNCHANGED <<raw, zones>>, missed' = missed,
         \A s \in scopes' : s.zone \in Selected /\ s.target \in TargetsOf(s.zone)
                           /\ s.id = ZoneIdFor(s.zone, s.target)
  PROVE  OwnIdentity'
<1>1. \A z : Primary(z)' = Primary(z) /\ \A t : GivenName(z, t)' = GivenName(z, t)
  BY SameZones
<1> QED BY <1>1, ScopeId DEF OwnIdentity

(* Targets of two classes that may share a zone each have a namespace, and  *)
(* not the same one.                                                        *)
LEMMA TwoClasses ==
  ASSUME NEW targets \in Seq(DOMAIN ClassOf), IsSeparable(targets),
         NEW t \in Elements(targets), NEW u \in Elements(targets), ClassOf[t] # ClassOf[u]
  PROVE  /\ NamespaceFor(t) \in Namespaces /\ NamespaceFor(u) \in Namespaces
         /\ NamespaceFor(t) # NamespaceFor(u)
<1>1. IsFiniteSet(ClassesOf(targets))
  <2> DEFINE f == [i \in 1..Len(targets) |-> ClassOf[targets[i]]]
  <2>1. Len(targets) \in Nat /\ DOMAIN targets = 1..Len(targets)
    OBVIOUS
  <2>2. f \in [1..Len(targets) -> ClassesOf(targets)]
    BY <2>1 DEF ClassesOf, Elements
  <2>3. \A c \in ClassesOf(targets) : \E i \in 1..Len(targets) : f[i] = c
    BY <2>1 DEF ClassesOf, Elements
  <2>4. f \in Surjection(1..Len(targets), ClassesOf(targets))
    BY <2>2, <2>3 DEF Surjection
  <2>5. IsFiniteSet(1..Len(targets))
    BY <2>1, FS_Interval
  <2> HIDE DEF f
  <2> QED BY <2>4, <2>5, FS_Surjection
<1>2. Cardinality(ClassesOf(targets)) > 1
  <2>1. ClassOf[t] \in ClassesOf(targets) /\ ClassOf[u] \in ClassesOf(targets)
    BY DEF ClassesOf
  <2>2. Cardinality(ClassesOf(targets)) \in Nat
    BY <1>1, FS_CardinalityType
  <2>3. Cardinality(ClassesOf(targets)) # 0
    BY <1>1, <2>1, FS_EmptySet
  <2>4. Cardinality(ClassesOf(targets)) # 1
    BY <1>1, <2>1, FS_Singleton
  <2> QED BY <2>2, <2>3, <2>4
<1>3. NamespaceFor(t) # Unscoped /\ NamespaceFor(u) # Unscoped
  BY <1>2 DEF IsSeparable
<1>4. t \in DOMAIN ClassOf /\ u \in DOMAIN ClassOf
  BY DEF Elements
<1> QED BY <1>3, <1>4, SetupAssumption

(* Scopes whose sections are in their targets' own hands are kept apart.    *)
LEMMA ScopesApart ==
  ASSUME IInv, pc \in {"plan", "dump"}, UNCHANGED <<raw, zones>>,
         \A s \in scopes' : s.zone \in Selected /\ s.target \in TargetsOf(s.zone),
         \A s \in scopes' : \A key \in s.sections :
           NamespaceFor(s.target) # Unscoped /\ IsOwned(key) => key[1] = NamespaceFor(s.target)
  PROVE  SectionOwners'
<1> SUFFICES ASSUME NEW z \in DOMAIN Entries, NEW s \in scopes', NEW u \in scopes',
                    s.zone = z, u.zone = z, ClassOf[s.target] # ClassOf[u.target],
                    NEW key \in s.sections \cap u.sections, IsOwned(key)
             PROVE  FALSE
  BY SameZones DEF SectionOwners, KeptApart
<1>1. z \in DOMAIN zones /\ IsSeparable(zones[z].targets)
  BY DEF IInv, Separated, Selected
<1>2. s.target \in Elements(zones[z].targets) /\ u.target \in Elements(zones[z].targets)
  BY DEF TargetsOf
<1>3. /\ NamespaceFor(s.target) \in Namespaces /\ NamespaceFor(u.target) \in Namespaces
      /\ NamespaceFor(s.target) # NamespaceFor(u.target)
  BY <1>1, <1>2, PrimaryIsTarget, TwoClasses
<1> QED BY <1>3, NamespaceAssumption

(* A provider's view holds of the owned sections its namespace's only.      *)
LEMMA ViewIsOwn ==
  ASSUME NEW sections, NEW ns \in Namespaces, NEW key \in ProviderView(sections, ns), IsOwned(key)
  PROVE  key[1] = ns
<1>1. ns # Unscoped
  BY NamespaceAssumption
<1>2. ASSUME NEW member PROVE key # Plain(member)
  <2>1. Plain(member)[1] = ""
    BY DEF Plain
  <2> QED BY <2>1, NamespaceAssumption DEF IsOwned
<1> QED BY <1>1, <1>2 DEF ProviderView

(* What a plan of a strict zone leaves to nobody is refused.                *)
LEMMA StrictZone ==
  ASSUME IInv, NEW z \in DOMAIN zones, zones[z].strict, ~IsRefused(z),
         \A t \in TargetsOf(z) : NamespaceFor(t) # Unscoped,
         NEW key \in SectionsOf(z) \ Uninstalled
  PROVE  \E t \in TargetsOf(z) :
           LET view == ProviderView(SectionsOf(z), NamespaceFor(t))
           IN  IF IsScopedCore(key) THEN NamespaceFor(t) = key[1] /\ Plain(key[2]) \in view
               ELSE key \in view /\ (IsOwned(key) \/ IsPlainCore(key) \/ key \in RegisteredNames)
<1> DEFINE targeted == {NamespaceFor(t) : t \in TargetsOf(z)}
<1>1. targeted \in SUBSET Namespaces /\ targeted # {}
  BY PrimaryIsTarget, SetupAssumption
<1>2. targeted # Unscoped /\ Unscoped \notin targeted
  BY <1>1, NamespaceAssumption
<1>3. SkippedSections(SectionsOf(z), targeted, RegisteredNames) = {}
  BY <1>2 DEF IsRefused, NamespaceSet
<1> HIDE DEF targeted
<1>4. PICK ns \in targeted :
         \/ key \in ProviderView(SectionsOf(z), ns)
         \/ /\ IsScopedCore(key) /\ key[1] = ns
            /\ Plain(key[2]) \in ProviderView(SectionsOf(z), ns)
  BY <1>1, <1>2, <1>3, NamespaceAssumption, NothingIsLost
<1>5. IsOwned(key) \/ IsScopedCore(key) \/ IsPlainCore(key) \/ key \in RegisteredNames
  BY <1>3 DEF SkippedSections, UnknownSections
<1>6. IsScopedCore(key) => key \notin ProviderView(SectionsOf(z), ns)
  <2>1. ns # Unscoped /\ \A member : Plain(member)[1] \notin Namespaces
    BY <1>2, NamespaceAssumption DEF Plain
  <2> QED BY <2>1 DEF ProviderView, IsScopedCore
<1>7. PICK t \in TargetsOf(z) : NamespaceFor(t) = ns
  BY DEF targeted
<1> QED BY <1>4, <1>5, <1>6, <1>7

LEMMA PlanHolds ==
  ASSUME IInv, Plan
  PROVE  IInv'
<1>1. /\ UNCHANGED <<raw, zones, files, registry, call, cmd, filter, items, missed>>
      /\ pc = "plan" /\ pc' \in {"refused", "planned"} /\ scopes = {} /\ items = {}
      /\ pc' = "refused" => scopes' = scopes
  BY DEF Plan, IInv, ScopesInv, AskInv
<1>2. ConfigInv'
  BY <1>1, SameZones DEF IInv, ConfigInv, Refusal
<1>3. \A z \in DOMAIN zones' : ZoneInv(z)'
  BY <1>1, SameZones DEF IInv
<1>4. AskInv'
  BY <1>1, SameZones DEF IInv, AskInv, Accounted
<1>5. Separated' /\ ScopesInv' /\ DumpLoads'
  BY <1>1 DEF Separated, ScopesInv, DumpLoads
<1>6. CASE pc' = "refused"
  BY <1>1, <1>2, <1>3, <1>4, <1>5, <1>6
     DEF IInv, OwnIdentity, SectionOwners, KeptApart, NothingSilentlySkipped
<1>7. CASE pc' = "planned"
  <2> DEFINE view(z, t) == ProviderView(SectionsOf(z), NamespaceFor(t))
  <2>1. /\ cache' = Overlay([z \in Selected |-> SectionsOf(z)], cache)
        /\ \A z \in Selected : ~IsRefused(z)
        /\ scopes' = UNION {{Scope(z, t, view(z, t)) : t \in TargetsOf(z)} : z \in Selected}
    BY <1>7 DEF Plan
  <2>2. Selected' = Selected /\ Selected \subseteq DOMAIN zones
    BY <1>1 DEF Selected
  <2>3. ASSUME NEW s \in scopes'
        PROVE  /\ s.zone \in Selected /\ s.target \in TargetsOf(s.zone)
               /\ s.id = ZoneIdFor(s.zone, s.target) /\ s.sections = view(s.zone, s.target)
    <3>1. PICK z \in Selected : \E t \in TargetsOf(z) : s = Scope(z, t, view(z, t))
      BY <2>1, <2>3
    <3>2. PICK t \in TargetsOf(z) : s = Scope(z, t, view(z, t))
      BY <3>1
    <3> QED BY <3>2 DEF Scope
  <2>4. OwnIdentity'
    BY <1>1, <2>3, ScopesIdentified
  <2>5. SectionOwners'
    <3>1. ASSUME NEW s \in scopes', NEW key \in s.sections,
                 NamespaceFor(s.target) # Unscoped, IsOwned(key)
          PROVE  key[1] = NamespaceFor(s.target)
      <4>1. s.target \in DOMAIN ClassOf
        BY <2>2, <2>3, PrimaryIsTarget
      <4>2. NamespaceFor(s.target) \in Namespaces
        BY <3>1, <4>1, SetupAssumption
      <4> QED BY <2>3, <3>1, <4>2, ViewIsOwn
    <3> QED BY <1>1, <2>3, <3>1, ScopesApart
  <2>6. ASSUME NEW z \in Selected PROVE SectionsOf(z)' = SectionsOf(z)
    <3> DEFINE fresh == [y \in Selected |-> SectionsOf(y)]
    <3>1. DOMAIN fresh = Selected /\ fresh[z] = SectionsOf(z)
      OBVIOUS
    <3> HIDE DEF fresh
    <3>2. z \in DOMAIN Overlay(fresh, cache) /\ Overlay(fresh, cache)[z] = SectionsOf(z)
      BY <3>1, OverlayParts
    <3>3. z \in DOMAIN cache' /\ cache'[z] = SectionsOf(z)
      BY <2>1, <3>2 DEF fresh
    <3> QED BY <3>3 DEF SectionsOf
  <2>7. NothingSilentlySkipped'
    <3> SUFFICES ASSUME NEW z \in Selected, zones[z].strict,
                        \A t \in TargetsOf(z) : NamespaceFor(t) # Unscoped,
                        NEW key \in SectionsOf(z) \ Uninstalled
                 PROVE  \E s \in scopes' : s.zone = z /\ Manages(s, key)
      <4>1. \A s, k : Manages(s, k)' <=> Manages(s, k)
        BY <1>1 DEF Manages, RegisteredNames
      <4> QED BY <1>1, <2>2, <2>6, <4>1, SameZones DEF NothingSilentlySkipped
    <3>1. PICK t \in TargetsOf(z) :
            IF IsScopedCore(key) THEN NamespaceFor(t) = key[1] /\ Plain(key[2]) \in view(z, t)
            ELSE /\ key \in view(z, t)
                 /\ IsOwned(key) \/ IsPlainCore(key) \/ key \in RegisteredNames
      BY <2>1, <2>2, StrictZone
    <3> DEFINE s == Scope(z, t, view(z, t))
    <3>2. s \in scopes'
      BY <2>1
    <3>3. s.zone = z /\ s.target = t /\ s.sections = view(z, t)
      BY DEF Scope
    <3>4. Manages(s, key)
      BY <3>1, <3>3 DEF Manages
    <3> QED BY <3>2, <3>3, <3>4
  <2> QED BY <1>2, <1>3, <1>4, <1>5, <2>4, <2>5, <2>7 DEF IInv
<1> QED BY <1>1, <1>6, <1>7

(* Of the targets that are dumped no two are of one class, and what each    *)
(* has is its own, so that the file of a zone that may be shared takes all  *)
(* of it and gives each its part back.                                      *)
LEMMA DumpedApart ==
  ASSUME IInv, NEW z \in DOMAIN zones, NEW t \in DumpedTargets(z), NEW u \in DumpedTargets(z),
         t # u
  PROVE  ClassOf[t] # ClassOf[u]
<1> DEFINE targets == zones[z].targets
<1>1. targets \in Seq(DOMAIN ClassOf)
  BY PrimaryIsTarget
<1>2. PICK i \in DOMAIN targets : targets[i] = t /\ \A j \in 1..(i - 1) : ClassOf[targets[j]] # ClassOf[t]
  BY DEF DumpedTargets, IsFirstOfClass
<1>3. PICK k \in DOMAIN targets : targets[k] = u /\ \A j \in 1..(k - 1) : ClassOf[targets[j]] # ClassOf[u]
  BY DEF DumpedTargets, IsFirstOfClass
<1>4. i \in Nat \ {0} /\ k \in Nat \ {0} /\ i # k
  BY <1>1, <1>2, <1>3
<1>5. CASE i < k
  <2>1. i \in 1..(k - 1)
    BY <1>4, <1>5
  <2> QED BY <1>2, <1>3, <2>1
<1>6. CASE k < i
  <2>1. k \in 1..(i - 1)
    BY <1>4, <1>6
  <2> QED BY <1>2, <1>3, <2>1
<1> QED BY <1>4, <1>5, <1>6

LEMMA DumpedParts ==
  ASSUME IInv, NEW z \in DOMAIN zones, IsSeparable(zones[z].targets)
  PROVE  /\ IsDumpable(DumpedSections(z))
         /\ \A t \in DumpedTargets(z) :
              ProviderView(DumpedSections(z), NamespaceFor(t)) = LiveSections[t]
<1> DEFINE sections == DumpedSections(z)
<1>1. DumpedTargets(z) \subseteq DOMAIN ClassOf /\ DumpedTargets(z) \subseteq Elements(zones[z].targets)
      /\ zones[z].targets \in Seq(DOMAIN ClassOf)
  BY PrimaryIsTarget DEF DumpedTargets, TargetsOf
<1>2. \A key \in sections : \E t \in DumpedTargets(z) : key \in LiveSections[t]
  BY DEF DumpedSections
<1>3. \A t \in DumpedTargets(z) : LiveSections[t] \subseteq sections
  BY DEF DumpedSections
<1> HIDE DEF sections
<1>4. ASSUME NEW t \in DumpedTargets(z), NEW key \in LiveSections[t]
      PROVE  /\ key = <<key[1], key[2]>>
             /\ IF NamespaceFor(t) = Unscoped THEN key[1] \notin Namespaces
                ELSE IsOwned(key) /\ key[1] = NamespaceFor(t)
  BY <1>1, <1>4, SetupAssumption
<1>5. ASSUME NEW t \in DumpedTargets(z), NEW u \in DumpedTargets(z), t # u
      PROVE  /\ NamespaceFor(t) \in Namespaces /\ NamespaceFor(u) \in Namespaces
             /\ NamespaceFor(t) # NamespaceFor(u)
  BY <1>1, <1>5, DumpedApart, TwoClasses
<1>6. \A key \in sections : IsOwned(key) \/ key[1] \notin Namespaces
  BY <1>2, <1>4
<1>7. \A key \in sections : ~IsScopedCore(key)
  BY <1>6, NamespaceAssumption DEF IsScopedCore, IsOwned
<1>8. IsDumpable(sections)
  <2>1. \A key \in sections : key = <<key[1], key[2]>>
    BY <1>2, <1>4
  <2>2. \A key \in sections : key[1] \in Namespaces => key \in Grouped(sections)
    BY <1>6 DEF Grouped
  <2>3. ASSUME NEW key \in sections, IsPlainCore(key), NEW a \in Involved(sections)
        PROVE  FALSE
    <3>1. PICK t \in DumpedTargets(z) : key \in LiveSections[t]
      BY <1>2
    <3>2. key[1] \notin Namespaces
      <4>1. PICK section \in CoreSections : key = Plain(section)
        BY <2>3 DEF IsPlainCore
      <4> QED BY <4>1, NamespaceAssumption DEF Plain
    <3>3. NamespaceFor(t) = Unscoped
      BY <1>4, <3>1, <3>2 DEF IsOwned
    <3>4. PICK k \in sections : IsOwned(k)
      BY <1>7, <2>3 DEF Involved, Grouped
    <3>5. PICK u \in DumpedTargets(z) : k \in LiveSections[u]
      BY <1>2
    <3>6. NamespaceFor(u) # Unscoped
      BY <1>4, <3>4, <3>5 DEF IsOwned
    <3> QED BY <1>5, <3>3, <3>6, NamespaceAssumption
  <2> QED BY <1>7, <2>1, <2>2, <2>3 DEF IsDumpable
<1>9. ASSUME NEW t \in DumpedTargets(z)
      PROVE  ProviderView(sections, NamespaceFor(t)) = LiveSections[t]
  <2>1. CASE NamespaceFor(t) = Unscoped
    <3>1. sections = LiveSections[t]
      BY <1>2, <1>3, <1>5, <2>1, NamespaceAssumption
    <3> QED BY <2>1, <3>1 DEF ProviderView
  <2>2. CASE NamespaceFor(t) # Unscoped
    <3>1. ProviderView(sections, NamespaceFor(t)) =
            {key \in sections : IsOwned(key) => key[1] = NamespaceFor(t)}
      BY <1>7, <2>2 DEF ProviderView
    <3>2. ASSUME NEW u \in DumpedTargets(z), NEW key \in LiveSections[u],
                 IsOwned(key) => key[1] = NamespaceFor(t)
          PROVE  u = t
      <4>1. NamespaceFor(u) # Unscoped \/ u = t
        BY <1>5, NamespaceAssumption
      <4> QED BY <1>4, <1>5, <3>2, <4>1
    <3> QED BY <1>2, <1>3, <1>4, <2>2, <3>1, <3>2
  <2> QED BY <2>1, <2>2
<1> QED BY <1>8, <1>9 DEF sections

LEMMA DumpHolds ==
  ASSUME IInv, Dump
  PROVE  IInv'
<1>1. /\ UNCHANGED <<raw, zones, cache, call, cmd, filter, items, missed>>
      /\ pc = "dump" /\ pc' = "dumped" /\ items = {}
      /\ scopes' = UNION {{Scope(z, t, LiveSections[t]) : t \in DumpedTargets(z)} : z \in Selected}
  BY DEF Dump, IInv, AskInv
<1>2. ConfigInv'
  BY <1>1, SameZones DEF IInv, ConfigInv, Refusal
<1>3. \A z \in DOMAIN zones' : ZoneInv(z)'
  BY <1>1, SameZones DEF IInv
<1>4. AskInv'
  BY <1>1, SameZones DEF IInv, AskInv, Accounted
<1>5. Separated' /\ ScopesInv' /\ NothingSilentlySkipped'
  BY <1>1 DEF Separated, ScopesInv, NothingSilentlySkipped
<1>6. Selected \subseteq DOMAIN zones
  BY DEF Selected
<1>7. ASSUME NEW s \in scopes'
      PROVE  /\ s.zone \in Selected /\ s.target \in TargetsOf(s.zone)
             /\ s.id = ZoneIdFor(s.zone, s.target) /\ s.sections = LiveSections[s.target]
  <2>1. PICK z \in Selected : \E t \in DumpedTargets(z) : s = Scope(z, t, LiveSections[t])
    BY <1>1, <1>7
  <2>2. PICK t \in DumpedTargets(z) : s = Scope(z, t, LiveSections[t])
    BY <2>1
  <2> QED BY <2>2 DEF Scope, DumpedTargets
<1>8. OwnIdentity'
  BY <1>1, <1>7, ScopesIdentified
<1>9. SectionOwners'
  <2>1. ASSUME NEW s \in scopes', NEW key \in s.sections,
               NamespaceFor(s.target) # Unscoped, IsOwned(key)
        PROVE  key[1] = NamespaceFor(s.target)
    <3>1. s.target \in DOMAIN ClassOf
      BY <1>6, <1>7, PrimaryIsTarget
    <3> QED BY <1>7, <2>1, <3>1, SetupAssumption
  <2> QED BY <1>1, <1>7, <2>1, ScopesApart
<1>10. DumpLoads'
  <2>1. PICK ok \in SUBSET Selected :
          /\ files' = Overlay([z \in ok |-> NestOutput(DumpedSections(z))], files)
          /\ written' = ok
    BY DEF Dump
  <2>2. ASSUME NEW z \in ok PROVE files'[z] = NestOutput(DumpedSections(z))
    <3> DEFINE fresh == [y \in ok |-> NestOutput(DumpedSections(y))]
    <3>1. DOMAIN fresh = ok /\ fresh[z] = NestOutput(DumpedSections(z))
      OBVIOUS
    <3> HIDE DEF fresh
    <3>2. Overlay(fresh, files)[z] = NestOutput(DumpedSections(z))
      BY <3>1, OverlayParts
    <3> QED BY <2>1, <3>2 DEF fresh
  <2>3. ASSUME NEW z \in ok, IsSeparable(zones[z].targets)
        PROVE  /\ IsWellFormed(files'[z])
               /\ \A t \in DumpedTargets(z) :
                    ProviderView(NormalizeZoneFormat(files'[z]), NamespaceFor(t)) = LiveSections[t]
    <3>1. /\ IsDumpable(DumpedSections(z))
          /\ \A t \in DumpedTargets(z) :
               ProviderView(DumpedSections(z), NamespaceFor(t)) = LiveSections[t]
      BY <1>6, <2>3, DumpedParts
    <3>2. /\ IsWellFormed(NestOutput(DumpedSections(z)))
          /\ NormalizeZoneFormat(NestOutput(DumpedSections(z))) = DumpedSections(z)
      BY <3>1, NamespaceAssumption, DumpIsWellFormed, DumpLoadsBack
    <3> QED BY <2>2, <3>1, <3>2
  <2>4. \A z : DumpedTargets(z)' = DumpedTargets(z)
    BY <1>1, SameZones DEF DumpedTargets, IsFirstOfClass
  <2> QED BY <1>1, <2>1, <2>3, <2>4 DEF DumpLoads
<1> QED BY <1>2, <1>3, <1>4, <1>5, <1>8, <1>9, <1>10 DEF IInv

-----------------------------------------------------------------------------
LEMMA StutterHolds ==
  ASSUME IInv, UNCHANGED vars
  PROVE  IInv'
<1>1. /\ UNCHANGED <<raw, zones, files, cache, registry, call, cmd, filter, pc, items, scopes,
                     written, missed>>
      /\ Selected' = Selected
  BY DEF vars, Selected
<1>2. ConfigInv'
  BY <1>1, SameZones DEF IInv, ConfigInv, Refusal
<1>3. \A z \in DOMAIN zones' : ZoneInv(z)'
  BY <1>1, SameZones DEF IInv
<1>4. AskInv'
  BY <1>1, SameZones DEF IInv, AskInv, Accounted
<1>5. Separated' /\ ScopesInv'
  BY <1>1, SameZones DEF IInv, Separated, ScopesInv
<1>6. OwnIdentity' /\ SectionOwners'
  BY <1>1, SameZones DEF IInv, OwnIdentity, SectionOwners, KeptApart
<1>7. NothingSilentlySkipped'
  <2>1. \A z : SectionsOf(z)' = SectionsOf(z)
    BY <1>1 DEF SectionsOf, HasRules
  <2>2. \A s, key : Manages(s, key)' <=> Manages(s, key)
    BY <1>1 DEF Manages, RegisteredNames
  <2> QED BY <1>1, <2>1, <2>2, SameZones DEF IInv, NothingSilentlySkipped
<1>8. DumpLoads'
  <2>1. \A z : DumpedTargets(z)' = DumpedTargets(z)
    BY <1>1, SameZones DEF DumpedTargets, IsFirstOfClass
  <2> QED BY <1>1, <2>1 DEF IInv, DumpLoads
<1> QED BY <1>2, <1>3, <1>4, <1>5, <1>6, <1>7, <1>8 DEF IInv

LEMMA Inductive == IInv /\ [Next]_vars => IInv'
<1> SUFFICES ASSUME IInv, [Next]_vars PROVE IInv'
  OBVIOUS
<1>1. CASE LoadConfig \/ Begin \/ ImportProvider \/ ValidateMultiTarget \/ DiscoverZones
  BY <1>1, LoadHolds, BeginHolds, ImportHolds, ValidateHolds, DiscoverHolds
<1>2. CASE CollectItems \/ FinishResolve
  BY <1>2, CollectHolds, FinishHolds
<1>3. ASSUME NEW item \in items, Resolve(item) \/ FailToResolve(item) PROVE IInv'
  BY <1>3, ResolveHolds, FailHolds
<1>4. CASE Plan \/ Dump \/ Return
  BY <1>4, PlanHolds, DumpHolds, ReturnHolds
<1>5. CASE UNCHANGED vars
  BY <1>5, StutterHolds
<1> QED BY <1>1, <1>2, <1>3, <1>4, <1>5 DEF Next

LEMMA Invariance == Spec => []IInv
<1>1. Init => IInv
  BY InitHolds
<1>2. IInv /\ [Next]_vars => IInv'
  BY Inductive
<1> QED BY <1>1, <1>2, PTL DEF Spec

(* Plan and dump work on a zone under the id its own target gave to the     *)
(* name the config has for it there; only where that answer was lost, and   *)
(* never for the first target, under the first target's (resolve_zone_ids,  *)
(* ZoneConfig.zone_id_for).                                                 *)
THEOREM ScopesHaveTheirIdentity == Spec => []OwnIdentity
<1>1. IInv => OwnIdentity
  BY DEF IInv
<1> QED BY <1>1, Invariance, PTL

(* Two targets of different classes never work on one section of a zone the *)
(* config lists (_validate_multi_target, _provider_view).                   *)
THEOREM SectionsHaveOneOwner == Spec => []SectionOwners
<1>1. IInv => SectionOwners
  BY DEF IInv
<1> QED BY <1>1, Invariance, PTL

(* A strict zone that is planned has every section of its file in the hands *)
(* of some target (check_zone_sections, _plan_single_zone).                 *)
THEOREM StrictZonesAreCovered == Spec => []NothingSilentlySkipped
<1>1. IInv => NothingSilentlySkipped
  BY DEF IInv
<1> QED BY <1>1, Invariance, PTL

(* A dumped file is accepted by the loader, and each provider finds in it   *)
(* what was dumped from it (cmd_dump, _nest_output, normalize_zone_format). *)
THEOREM DumpsLoadBack == Spec => []DumpLoads
<1>1. IInv => DumpLoads
  BY DEF IInv
<1> QED BY <1>1, Invariance, PTL
=============================================================================
