SPECIFICATION Spec
CONSTANTS
  Namespaces <- MCNamespaces
  Members <- MCMembers
  Uninstalled <- MCUninstalled
  Unscoped = Unscoped
  ClassOf <- MCClassOf
  NamespaceOf <- MCNamespaceOf
  PhasesOf <- MCPhasesOf
  Features <- MCFeatures
  Hosted <- MCHosted
  Discovering = {"cf1", "cf2", "own"}
  LiveSections <- MCLiveSections
  Configs <- MCConfigs
  Template = "*"
  FileChoices <- MCFileChoices
  Filters <- MCFilters
  NoFilter = NoFilter
  NoId = NoId
  MaxCalls = 2
  MaxTroubles = 2
INVARIANTS
  OwnIdentity
  SectionOwners
  
  DumpLoads
CHECK_DEADLOCK FALSE
