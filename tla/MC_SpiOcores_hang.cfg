\* A message whose first transfer is rejected, interrupt mode: nothing finalizes it, the system stops.
CONSTANTS
  PollModes = {FALSE}
  ClockHz = 100000000
  Candidates <- CandsShortFirst
  MaxMsgs = 1
  MaxBursts = 8
  HwMayHang = FALSE
  MaxSpurious = 0
  RemoveModes = {}
SPECIFICATION Spec
PROPERTY MessageEventuallyFinalized
CHECK_DEADLOCK FALSE
