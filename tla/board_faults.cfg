SPECIFICATION Spec
CONSTANTS
  BootAttemptsMax = 3
  Unreadable = Unreadable
  NoManifest = NoManifest
  Blocks <- MCBlocks
  Erased = "ff"
  Garbage <- MCGarbage
  BootHeaders <- MCBootHeaders
  Loadable <- MCLoadable
  SlotBlocks = 2
  Images <- FieldImages
  Healthy <- MCHealthy
  Manifests <- FieldManifests
  SearchEnds <- MCSearchEnds
  Verbs <- AllVerbs
  Faults <- AllFaults
  MaxFaults = 2
INVARIANTS
  TypeOK
  PresentImpliesVerified
  OnlyVerifiedCodeRuns
  RoleMatchesBytes
  InstalledReplyIsTrue
  SkippedReplyIsTrue
  RefusalCostsNothing
  StartsBounded
PROPERTY SlotPromise
