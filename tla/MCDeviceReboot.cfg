SPECIFICATION FairSpec
CONSTANTS
  sda1 = sda1
  sda2 = sda2
  native = native
  great = great
  bare = bare
  program = program
  withProgram = withProgram
  without = without
  script = script
  nothing = nothing
  Partitions <- SomePartitions
  InitScan <- SomeScan
  Candidates <- SomeCandidates
  NulldScan <- SomeScan
  Ram = Ram
  Nowhere = Nowhere
  NoFiles <- EmptyUpper
  Contents = {native, great, bare, script, program}
  Manifests = {native, great, bare, script}
  Prefixes = {bare}
  ManifestOf <- SomeManifests
  Bundles = {withProgram, script}
  Entries <- SomeEntries
  Empty = Empty
  NoFile = NoFile
  Torn = Torn
  NoManifest = NoManifest
  NoBundle = NoBundle
  Resolve <- SomeResolve
  VMM_BASE = {1, 3}
  NETWORK_SYSCALLS = {4}
  SHELL_SYSCALLS = {2}
  MaxJump = 3
  Slots = {1}
  NoSlot = 0
  FileSystems <- SomeFileSystems
  Conveyed = {native, great, script}
INVARIANT SecretsPersist
