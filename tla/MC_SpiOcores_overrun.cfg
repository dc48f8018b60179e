\* A 64-bit word over a 12-byte buffer: the push and pop cursors against its end.
CONSTANTS
  PollModes = {FALSE}
  ClockHz = 100000000
  Candidates <- CandsOdd64
  MaxMsgs = 1
  MaxBursts = 8
  HwMayHang = FALSE
  MaxSpurious = 0
  RemoveModes = {}
SPECIFICATION Spec
INVARIANT NoBufferOverrun
