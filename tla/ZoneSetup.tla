------------------------------ MODULE ZoneSetup ------------------------------
(***************************************************************************)
(* From a config file to the work of plan and dump: parse the zones        *)
(* (Config.from_file), load the providers and register their phases, check *)
(* the targets, discover zones for the template, resolve every zone at     *)
(* every target in parallel, and then read each rules file through the     *)
(* eyes of each target's provider.  A Manager keeps one Config over its    *)
(* calls, so zones, ids and read files stay from one call to the next.     *)
(*                                                                         *)
(* A zone entry is [targets, names, rules, strict, odd]; odd stands for a  *)
(* key or a value the parser rejects.  An id is what a provider answers    *)
(* for a name: the pair <<target, name>>.                                  *)
(***************************************************************************)
EXTENDS ZoneFile

CONSTANTS
  ClassOf,        \* [provider -> class]
  NamespaceOf,    \* [class -> the namespace it declares, or Unscoped]
  PhasesOf,       \* [class -> the <<section key, id>> pairs its package registers]
  Features,       \* [class -> the core sections it supports]
  Hosted,         \* [provider -> the resource names it knows]
  Discovering,    \* the providers that can list their zones
  LiveSections,   \* [provider -> the sections a dump finds there]
  Configs,        \* [providers, zones]: what a config may say
  Template,       \* the name of the zone template ("*")
  FileChoices,    \* [zone -> rules file], what the rules directory may hold
  Filters,        \* the --zone filters, or NoFilter
  NoFilter, NoId,
  MaxCalls,       \* bound: calls of the Manager
  MaxTroubles     \* bound: provider calls that fail

VARIABLES
  raw,       \* the providers, in order, and zone entries of the config
  zones,     \* config.zones: [zone -> ZoneConfig]
  files,     \* the rules directory
  cache,     \* config._rules_cache: [zone -> sections]
  registry,  \* the registered phases, <<section key, id>> pairs
  call,      \* which call of the Manager this is
  cmd,       \* plan or dump
  filter,    \* --zone
  pc,        \* where the call is
  items,     \* the <<zone, target>> still to be resolved
  scopes,    \* what the call works on: [zone, target, id, sections]
  written,   \* the zones dump has written
  missed,    \* <<zone, target>> whose answer an earlier or this call lost
  troubles

vars == <<raw, zones, files, cache, registry, call, cmd, filter, pc, items, scopes,
          written, missed, troubles>>

Elements(seq) == {seq[i] : i \in DOMAIN seq}
NamespaceFor(target) == NamespaceOf[ClassOf[target]]

(* A namespace is one class's; a provider of a class that has one dumps    *)
(* what that namespace owns, any other none of that; no zone has the       *)
(* template's name.                                                        *)
ASSUME SetupAssumption ==
  /\ \A c \in Configs :
       /\ c.providers \in Seq(DOMAIN ClassOf)
       /\ \A z \in DOMAIN c.zones :
            c.zones[z].targets \in Seq(Elements(c.zones[z].targets))
  /\ \A p \in DOMAIN ClassOf : NamespaceFor(p) \in Namespaces \cup {Unscoped}
  /\ \A p, q \in DOMAIN ClassOf :
       ClassOf[p] # ClassOf[q] /\ NamespaceFor(p) = NamespaceFor(q) => NamespaceFor(p) = Unscoped
  /\ \A p \in DOMAIN ClassOf : \A key \in LiveSections[p] :
       /\ key = <<key[1], key[2]>>
       /\ IF NamespaceFor(p) = Unscoped THEN key[1] \notin Namespaces
          ELSE IsOwned(key) /\ key[1] = NamespaceFor(p)
  /\ \A p \in DOMAIN ClassOf : Template \notin Hosted[p]

(* The entries of f before those of g. *)
Overlay(f, g) ==
  [x \in DOMAIN f \cup DOMAIN g |-> IF x \in DOMAIN f THEN f[x] ELSE g[x]]

Providers == raw.providers
Entries == raw.zones
TargetsOf(z) == Elements(zones[z].targets)
Primary(z) == zones[z].targets[1]

ResourceName(names, zone, target) ==
  IF target \in DOMAIN names THEN names[target] ELSE zone
-----------------------------------------------------------------------------
(* A single provider is every zone's target unless the zone says so.       *)
ParsedTargets(entry) ==
  IF entry.targets = <<>> /\ Len(Providers) = 1 THEN Providers ELSE entry.targets

(* One resource name cannot serve every zone of a template.                *)
IsAcceptable(zone, entry) ==
  /\ Elements(entry.targets) \subseteq Elements(Providers)
  /\ ParsedTargets(entry) # <<>>
  /\ DOMAIN entry.names \subseteq Elements(ParsedTargets(entry))
  /\ zone = Template => entry.names = <<>>
  /\ ~entry.odd

ParseZone(entry) ==
  [targets |-> ParsedTargets(entry), names |-> entry.names, rules |-> entry.rules,
   strict |-> entry.strict, id |-> NoId, ids |-> <<>>]

LoadConfig ==
  /\ pc = "config"
  /\ IF \A z \in DOMAIN Entries : IsAcceptable(z, Entries[z])
       THEN /\ zones' = [z \in DOMAIN Entries \ {Template} |-> ParseZone(Entries[z])]
            /\ pc' = "idle"
       ELSE pc' = "refused" /\ UNCHANGED zones
  /\ UNCHANGED <<raw, files, cache, registry, call, cmd, filter, items, scopes, written,
                 missed, troubles>>

(* A command of the Manager, on what earlier commands left in its Config.  *)
Begin ==
  /\ pc = "idle" /\ call < MaxCalls
  /\ \E c \in {"plan", "dump"}, f \in Filters : cmd' = c /\ filter' = f
  /\ call' = call + 1
  /\ scopes' = {} /\ written' = {}
  /\ pc' = "import"
  /\ UNCHANGED <<raw, zones, files, cache, registry, items, missed, troubles>>
-----------------------------------------------------------------------------
(* A batch of phases is registered whole or not at all; what is there with *)
(* the same name and id is skipped, what shares only one of them refused.  *)
New(batch) == batch \ registry

Conflicts(batch) ==
  \E a \in New(batch), b \in registry \cup New(batch) : a # b /\ (a[1] = b[1] \/ a[2] = b[2])

(* The providers' packages are imported in turn; each registers its phases *)
(* once.                                                                   *)
Unloaded ==
  SelectSeq(Providers, LAMBDA p : ~(PhasesOf[ClassOf[p]] \subseteq registry))

ImportProvider ==
  /\ pc = "import"
  /\ IF Unloaded = <<>>
       THEN pc' = "validate" /\ UNCHANGED registry
       ELSE LET batch == PhasesOf[ClassOf[Unloaded[1]]]
            IN  IF Conflicts(batch) THEN pc' = "crashed" /\ UNCHANGED registry
                ELSE registry' = registry \cup batch /\ UNCHANGED pc
  /\ UNCHANGED <<raw, zones, files, cache, call, cmd, filter, items, scopes, written,
                 missed, troubles>>

(* Targets of different classes must each have their own part of the file. *)
ClassesOf(targets) == {ClassOf[t] : t \in Elements(targets)}

IsSeparable(targets) ==
  Cardinality(ClassesOf(targets)) > 1 =>
    \A t \in Elements(targets) : NamespaceFor(t) # Unscoped

(* A faulty variant: the targets are not checked. *)
ValidateNothing ==
  /\ pc = "validate"
  /\ pc' = "discover"
  /\ UNCHANGED <<raw, zones, files, cache, registry, call, cmd, filter, items, scopes,
                 written, missed, troubles>>

ValidateMultiTarget ==
  /\ pc = "validate"
  /\ pc' = IF \A z \in DOMAIN zones : IsSeparable(zones[z].targets)
             THEN "discover" ELSE "refused"
  /\ UNCHANGED <<raw, zones, files, cache, registry, call, cmd, filter, items, scopes,
                 written, missed, troubles>>
-----------------------------------------------------------------------------
(* The template becomes a zone for every listed name that has a rules file *)
(* and no entry yet.                                                       *)
ExpandTemplates(template, names) ==
  [z \in DOMAIN zones \cup (names \cap DOMAIN files) |->
     IF z \in DOMAIN zones THEN zones[z]
     ELSE [ParseZone(template) EXCEPT !.names = <<>>]]

(* A provider that cannot list its zones, or fails to, lists none.         *)
DiscoverZones ==
  /\ pc = "discover"
  /\ IF Template \notin DOMAIN Entries
       THEN UNCHANGED <<zones, troubles>>
       ELSE LET asked == Elements(ParsedTargets(Entries[Template])) \cap Discovering
            IN  \E silent \in SUBSET asked :
                  /\ troubles + Cardinality(silent) <= MaxTroubles
                  /\ troubles' = troubles + Cardinality(silent)
                  /\ zones' = ExpandTemplates(Entries[Template],
                                              UNION {Hosted[t] : t \in asked \ silent})
  /\ pc' = "items"
  /\ UNCHANGED <<raw, files, cache, registry, call, cmd, filter, items, scopes, written,
                 missed>>

(* Every target of a zone without an id is asked; --zone limits the zones. *)
Selected == IF filter = NoFilter THEN DOMAIN zones ELSE filter \cap DOMAIN zones

CollectItems ==
  /\ pc = "items"
  /\ items' = UNION {{z} \X TargetsOf(z) : z \in {s \in Selected : zones[s].id = NoId}}
  /\ pc' = "resolve"
  /\ UNCHANGED <<raw, zones, files, cache, registry, call, cmd, filter, scopes, written,
                 missed, troubles>>

(* A faulty variant: the configured name is not used. *)
ResourceOfZone(item) == item[1]

(* A provider may know the zone by another name than the config.           *)
Resource(item) == ResourceName(zones[item[1]].names, item[1], item[2])

(* The first target's id is also the zone's.                               *)
Store(z, t, id) ==
  [zones EXCEPT ![z].ids = Overlay([x \in {t} |-> id], @),
                ![z].id = IF t = Primary(z) THEN id ELSE @]

Resolve(item) ==
  /\ pc = "resolve" /\ item \in items
  /\ Resource(item) \in Hosted[item[2]]
  /\ zones' = Store(item[1], item[2], <<item[2], Resource(item)>>)
  /\ items' = items \ {item}
  /\ UNCHANGED <<raw, files, cache, registry, call, cmd, filter, pc, scopes, written,
                 missed, troubles>>

(* A provider that does not know the zone, or cannot be reached.  A first  *)
(* target's failure ends the command and loses what is not stored yet; any *)
(* other target is left without an id of its own.                          *)
FailToResolve(item) ==
  /\ pc = "resolve" /\ item \in items
  /\ \/ Resource(item) \notin Hosted[item[2]] /\ UNCHANGED troubles
     \/ /\ Resource(item) \in Hosted[item[2]]
        /\ troubles < MaxTroubles
        /\ troubles' = troubles + 1
  /\ IF item[2] = Primary(item[1])
       THEN pc' = "aborted" /\ items' = {} /\ missed' = missed \cup items
       ELSE items' = items \ {item} /\ missed' = missed \cup {item} /\ UNCHANGED pc
  /\ UNCHANGED <<raw, zones, files, cache, registry, call, cmd, filter, scopes, written>>

FinishResolve ==
  /\ pc = "resolve" /\ items = {}
  /\ pc' = IF filter # NoFilter /\ ~(filter \subseteq DOMAIN zones) THEN "refused"
           ELSE cmd
  /\ UNCHANGED <<raw, zones, files, cache, registry, call, cmd, filter, items, scopes,
                 written, missed, troubles>>
-----------------------------------------------------------------------------
(* A file is read once per Config; a zone without rules in its sources, or *)
(* without a file, has no sections.                                        *)
HasRules(z) == zones[z].rules /\ z \in DOMAIN files

IsReadable(z) == z \in DOMAIN cache \/ (HasRules(z) => IsWellFormed(files[z]))

SectionsOf(z) ==
  IF z \in DOMAIN cache THEN cache[z]
  ELSE IF HasRules(z) THEN NormalizeZoneFormat(files[z])
  ELSE {}

ZoneIdFor(z, t) == IF t \in DOMAIN zones[z].ids THEN zones[z].ids[t] ELSE zones[z].id

Scope(z, t, sections) ==
  [zone |-> z, target |-> t, id |-> ZoneIdFor(z, t), sections |-> sections]

(* A strict zone is refused over a section that nobody would manage, or a  *)
(* feature its provider lacks.                                             *)
Unsupported(z, t) ==
  {key \in ProviderView(SectionsOf(z), NamespaceFor(t)) :
     IsPlainCore(key) /\ key[2] \notin Features[ClassOf[t]]}

RegisteredNames == {phase[1] : phase \in registry}

IsRefused(z) ==
  /\ zones[z].strict
  /\ \/ SkippedSections(SectionsOf(z), NamespaceSet({NamespaceFor(t) : t \in TargetsOf(z)}),
                        RegisteredNames) # {}
     \/ \E t \in TargetsOf(z) : Unsupported(z, t) # {}

Plan ==
  /\ pc = "plan"
  /\ LET unread == \E z \in Selected : ~IsReadable(z)
         view(z, t) == ProviderView(SectionsOf(z), NamespaceFor(t))
     IN  IF unread
           THEN pc' = "refused" /\ UNCHANGED <<cache, scopes>>
           ELSE /\ cache' = Overlay([z \in Selected |-> SectionsOf(z)], cache)
                /\ IF \E z \in Selected : IsRefused(z)
                     THEN pc' = "refused" /\ UNCHANGED scopes
                     ELSE /\ scopes' = UNION {{Scope(z, t, view(z, t)) : t \in TargetsOf(z)} :
                                                z \in Selected}
                          /\ pc' = "planned"
  /\ UNCHANGED <<raw, zones, files, registry, call, cmd, filter, items, written, missed,
                 troubles>>
-----------------------------------------------------------------------------
(* Dump asks the first target of each class and writes one file per zone.  *)
IsFirstOfClass(z, t) ==
  LET targets == zones[z].targets
  IN  \E i \in DOMAIN targets :
        /\ targets[i] = t
        /\ \A j \in 1..(i - 1) : ClassOf[targets[j]] # ClassOf[t]

DumpedTargets(z) == {t \in TargetsOf(z) : IsFirstOfClass(z, t)}

(* A faulty variant: only the first target is dumped. *)
DumpedFromPrimary(z) == LiveSections[Primary(z)]

DumpedSections(z) == UNION {LiveSections[t] : t \in DumpedTargets(z)}

(* A zone whose provider fails, or whose file cannot be written, keeps the *)
(* file it has.                                                            *)
Dump ==
  /\ pc = "dump"
  /\ \E ok \in SUBSET Selected :
       /\ troubles + Cardinality(Selected \ ok) <= MaxTroubles
       /\ troubles' = troubles + Cardinality(Selected \ ok)
       /\ files' = Overlay([z \in ok |-> NestOutput(DumpedSections(z))], files)
       /\ written' = ok
  /\ scopes' = UNION {{Scope(z, t, LiveSections[t]) : t \in DumpedTargets(z)} : z \in Selected}
  /\ pc' = "dumped"
  /\ UNCHANGED <<raw, zones, cache, registry, call, cmd, filter, items, missed>>

(* Whatever its outcome, a call leaves the Config to the next one.         *)
Return ==
  /\ pc \in {"planned", "dumped", "aborted", "refused", "crashed"}
  /\ call \in 1..(MaxCalls - 1)
  /\ pc' = "idle"
  /\ UNCHANGED <<raw, zones, files, cache, registry, call, cmd, filter, items, scopes,
                 written, missed, troubles>>

Init ==
  /\ raw \in Configs /\ files \in FileChoices
  /\ zones = <<>> /\ cache = <<>> /\ registry = {}
  /\ call = 0 /\ cmd = "plan" /\ filter = NoFilter /\ pc = "config"
  /\ items = {} /\ scopes = {} /\ written = {} /\ missed = {} /\ troubles = 0

Next ==
  \/ LoadConfig \/ Begin \/ ImportProvider \/ ValidateMultiTarget \/ DiscoverZones
  \/ CollectItems
  \/ \E item \in items : Resolve(item) \/ FailToResolve(item)
  \/ FinishResolve \/ Plan \/ Dump \/ Return

Spec == Init /\ [][Next]_vars
-----------------------------------------------------------------------------
(* Work starts only with an id for every scope: the target's own answer to *)
(* the name the config gives the zone there; or, for a target that is not  *)
(* the first and whose answer was lost, what the first target answered     *)
(* (config.py:1196-1198).                                                  *)
GivenName(z, t) ==
  ResourceName(IF z \in DOMAIN Entries THEN Entries[z].names ELSE Entries[Template].names, z, t)

OwnIdentity ==
  \A s \in scopes :
    \/ s.id = <<s.target, GivenName(s.zone, s.target)>>
    \/ /\ s.target # Primary(s.zone) /\ <<s.zone, s.target>> \in missed
       /\ s.id = <<Primary(s.zone), GivenName(s.zone, Primary(s.zone))>>

(* Of a zone's targets of different classes, no two work on one section    *)
(* ("each provider then plans only its own namespace's sections",          *)
(* _providers.py:116-117); for the zones the config lists.                 *)
KeptApart(z) ==
  \A s, u \in {w \in scopes : w.zone = z} :
    ClassOf[s.target] # ClassOf[u.target] =>
      \A key \in s.sections \cap u.sections : ~IsOwned(key)

SectionOwners == \A z \in DOMAIN Entries : KeptApart(z)

(* A strict zone is planned only if each section of its file is in the     *)
(* hands of some target, but for what may be another installation's        *)
(* ("a section octorules would silently skip should stop a deploy",        *)
(* config.py:138-140); where every target has a namespace.  A registered   *)
(* phase that no namespace owns is in the hands of every target: each      *)
(* plans it, the phase its own or not (planner.py:798-806).                *)
Manages(s, key) ==
  IF IsScopedCore(key) THEN NamespaceFor(s.target) = key[1] /\ Plain(key[2]) \in s.sections
  ELSE key \in s.sections /\ (IsOwned(key) \/ IsPlainCore(key) \/ key \in RegisteredNames)

NothingSilentlySkipped ==
  pc = "planned" => \A z \in Selected :
    zones[z].strict /\ (\A t \in TargetsOf(z) : NamespaceFor(t) # Unscoped) =>
      \A key \in SectionsOf(z) \ Uninstalled :
        \E s \in scopes : s.zone = z /\ Manages(s, key)

(* What dump writes, the loader takes back, and each provider finds in it  *)
(* the sections it was dumped from (dumper.py:215-224).                    *)
DumpLoads ==
  pc = "dumped" => \A z \in written :
    IsSeparable(zones[z].targets) =>
      /\ IsWellFormed(files[z])
      /\ \A t \in DumpedTargets(z) :
           ProviderView(NormalizeZoneFormat(files[z]), NamespaceFor(t)) = LiveSections[t]
=============================================================================
