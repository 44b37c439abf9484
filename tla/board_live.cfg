SPECIFICATION RunningSpec
CONSTANTS
  BootAttemptsMax = 3
  Unreadable = Unreadable
  NoManifest = NoManifest
  Blocks <- MCBlocks
  Erased = "ff"
  Garbage <- MCGarbage
  BootHeaders <- MCBootHeaders
  Loadable <- MCLoadable
  SlotBlocks = 2
  Images <- LiveImages
  Healthy <- MCHealthy
  Manifests <- LiveManifests
  SearchEnds <- MCSearchEnds
  Verbs <- AllVerbs
  Faults <- LiveFaults
  MaxFaults = 2
INVARIANTS
  GoldenReplyIsKept
  SwitchReplyIsKept
  VerbsKeepPresent
  NoUnforcedDowngrade
PROPERTIES
  BoardServesAgain
  BadUpdateFallsBack
  PersistenceInstalls
