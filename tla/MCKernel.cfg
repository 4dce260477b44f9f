SPECIFICATION KernelSpec
CONSTANTS
  MaxThreads = 3
  MaxId = 6
INVARIANTS
  ReadyOwnsItsFrame
  ManagesUsablePages
  RefusalsAreJustified
  KernelImageProtected
  DevicePointersStay
  AcpiReadsItsTable
  Tiling
  NoStaleHeader
PROPERTIES
  NoResurrection
  WaitShrinks
  NoStarvation
  ImplementsFrameAllocator
CHECK_DEADLOCK FALSE
