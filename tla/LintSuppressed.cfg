SPECIFICATION Spec
CONSTANTS
  NoAnchor = NoAnchor
  WholeFile = WholeFile
  NoLimit = NoLimit
  KnownNames <- MCKnown
  Zones <- MCZones
  Options <- MCOptions
  Texts <- MCTexts
  PluginSets <- MCPluginSets
INVARIANTS
  SuppressedReportClaims
CHECK_DEADLOCK FALSE
