\* A 128-bit word: the bytes rx_pop128 stores against the bytes received.
CONSTANTS
  PollModes = {FALSE}
  ClockHz = 100000000
  Candidates <- Cands128
  MaxMsgs = 1
  MaxBursts = 8
  HwMayHang = FALSE
  MaxSpurious = 0
  RemoveModes = {}
SPECIFICATION Spec
INVARIANT WireMatchesBuffers
