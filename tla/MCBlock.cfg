SPECIFICATION BlockSpec
CONSTANTS
  hd = hd
  rom = rom
  NoDevice = NoDevice
  Devices <- TwoDevices
  Writable <- OnlyDisk
  Sectors <- SectorCounts
  Lbas = {0, 1}
  Data = {0, 1}
  Zero = 0
  Entries = 2
  MaxClock = 4
INVARIANTS
  Coherent
  KeepsMostRecent
  TableIsTheDisks
CHECK_DEADLOCK FALSE
