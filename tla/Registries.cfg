SPECIFICATION MCSpec
CONSTANTS
  a = a
  b = b
  c = c
  NoName = NoName
  NoDir = NoDir
  Names = {a, b, c}
  Dirs <- MCDirs
  SearchPaths <- MCSearchPaths
  Children <- MCChildren
  Manifest <- MCManifest
  LibName <- OwnNames
  KMaxScanDepth = 2
  Factories = {b, c}
  AppConfig <- MCConfig
  NestedLoads = {b}
  MaxRecords = 4
  s1 = s1
  s2 = s2
  o1 = o1
  o2 = o2
  NoScope = NoScope
  Services <- MCServices
  ScopeIds <- MCScopeIds
  Tokens <- MCTokens
  MaxDepth = 3
SYMMETRY Renamings
INVARIANTS
  ScanExact
  OneRecordEach
  EntriesAccounted
  StaleIsPending
