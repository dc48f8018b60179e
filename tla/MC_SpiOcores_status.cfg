\* A message whose second transfer is rejected: the status finalize leaves.
CONSTANTS
  PollModes = {FALSE}
  ClockHz = 100000000
  Candidates <- CandsShortSecond
  MaxMsgs = 1
  MaxBursts = 8
  HwMayHang = FALSE
  MaxSpurious = 0
  RemoveModes = {}
SPECIFICATION Spec
INVARIANT StatusReflectsValidity
