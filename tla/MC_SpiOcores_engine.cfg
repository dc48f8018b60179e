\* Both completion modes (probe picks one per behaviour), three messages to
\* two devices in any order, a core that may outlast the poll timeout and a
\* bounded number of handler calls without the IRQ line.
\* The host stops after MaxMsgs messages and the driver then idles, and after
\* a poll timeout no one finalizes the message (see the timeout run): the
\* system really stops, which is not a deadlock of the driver.
CONSTANTS
  PollModes = {FALSE, TRUE}
  ClockHz = 100000000
  Candidates <- GoodMessages
  MaxMsgs = 3
  MaxBursts = 8
  HwMayHang = TRUE
  MaxSpurious = 1
  RemoveModes = {TRUE}
SPECIFICATION Spec
INVARIANT TypeOK
INVARIANT NoBufferOverrun
INVARIANT WireMatchesBuffers
INVARIANT ChipSelectOfDeviceOnly
INVARIANT HandlerFindsMessage
PROPERTY TransfersExchangeWholeBuffers
PROPERTY MessageEventuallyFinalized
PROPERTY PollLoopReturns
PROPERTY MessageSpecRefined
CHECK_DEADLOCK FALSE
