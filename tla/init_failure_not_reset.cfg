SPECIFICATION RunningSpec
CONSTANTS
  BootAttemptsMax = 3
  Unreadable = Unreadable
  NoManifest = NoManifest
  Blocks <- MCBlocks
  Erased = "ff"
  Garbage <- MCGarbage
  BootHeaders <- MCBootHeaders
  Loadable <- MCLoadable
  SlotBlocks = 2
  Images <- OneImage
  Healthy <- MCHealthy
  Manifests <- OneManifest
  SearchEnds <- MCSearchEnds
  Verbs <- AllVerbs
  Faults <- InitFaults
  MaxFaults = 1
PROPERTIES
  InitFailureIsReset
