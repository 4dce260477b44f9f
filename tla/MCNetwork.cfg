SPECIFICATION NetworkSpec
CONSTANTS
  TX_COUNT = 2
  RX_COUNT = 3
  MaxSends = 4
  MaxFrames = 4
  Long = {4}
  Frames = {good, bad, huge}
  Bad = {bad}
  Huge = {huge}
  Faults = {"NOT_FOUND", "PCI_ERROR", "MMIO_ERROR", "RESET_TIMEOUT", "BAD_MAC", "NO_MEMORY", "NET_REGISTER_ERROR"}
  None = None
  Busy = Busy
  Empty = Empty
INVARIANTS
  ResultMatchesWire
  StaysInsideFrame
  WritesFit
  ChecksumsVerify
PROPERTIES
  QueuedIsSent
  RxImplementsFifo
  ParseReturns
CHECK_DEADLOCK FALSE
