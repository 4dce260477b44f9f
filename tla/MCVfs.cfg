SPECIFICATION Spec
CONSTANTS
  MaxNodes = 3
  MaxOpen = 2
  Capacity = 1
  BadName = "bad"
  A = A
  B = B
  FileSystems <- TwoFileSystems
  MaxMounts = 2
  MaxHandles = 2
  Paths <- SomePaths
  MountPoints <- SomeMountPoints
  Flags <- SomeFlags
  Perms <- SomePerms
  Texts <- SomeTexts
INVARIANTS
  HandlesOwnOpenFiles
  FailedOpenChangesNothing
SYMMETRY EitherOrder
