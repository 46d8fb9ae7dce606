SPECIFICATION Spec
CONSTANTS
  NoAnchor = NoAnchor
  WholeFile = WholeFile
  Nets <- MCNets
  Rules <- MCRules
  Place <- MCPlace
  KnownNames <- AllChecks
  Files <- MCFiles
  Texts <- MCTexts
  CheckChoices <- MCChecks
  Phases <- MCPhases
  Blocking = {"block"}
  Sources <- MCSources
  Rank <- MCRank
  Published <- MCPublished
  Active = {"Cloudflare"}
  MaxCrashes = 1
INVARIANTS
  SweepFindsAll
  EveryAddressIsAudited
  ShadowedNeverMatch
  NeverGreenAfterCrash
  WaivedByItsOwnDirective
  GreenMeansAccounted
PROPERTIES
  KeepsSweep
CHECK_DEADLOCK FALSE
