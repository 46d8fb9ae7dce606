SPECIFICATION Spec
CONSTANTS
  l1 = l1
  l2 = l2
  s1 = s1
  s2 = s2
  c1 = c1
  d1 = d1
  Lists = {l1, l2}
  Rulesets = {s1, s2}
  Contents = {c1, Empty}
  Empty = Empty
  Descs = {d1, NoText}
  NoText = NoText
  NoDesc = NoDesc
  Absent = Absent
  Undeclared = Undeclared
  FileLists <- MCFileLists
  FileRulesets <- MCFileRulesets
  LiveLists <- MCLiveLists
  LiveRulesets <- MCLiveRulesets
  FileRefs <- MCFileRefs
  MaxRuns = 3
  MaxFaults = 2
PROPERTIES
  NewReferencesResolve
  DeletesLast
  KeepsUnowned
  EventuallySettled
CHECK_DEADLOCK FALSE
