SPECIFICATION ServicesSpec
CONSTANTS
  MaxNodes = 6
  MaxOpen = 2
  Capacity = 2
  BadName = "bad"
  RootFs = "root"
  VarFs = "var"
  FileSystems = {"root", "var"}
  MaxMounts = 2
  MaxHandles = 2
  Keys = {"k", "m"}
  Paths <- SomePaths
  MountPoints <- SomeMountPoints
  Flags <- SomeFlags
  Perms <- SomePerms
  Texts <- SomeTexts
INVARIANTS
  LogIsComplete
  SettingsKeepValues
