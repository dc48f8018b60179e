\* Poll mode, a burst outlasting the 100 ms timeout.
CONSTANTS
  PollModes = {TRUE}
  ClockHz = 100000000
  Candidates <- GoodMessages
  MaxMsgs = 1
  MaxBursts = 8
  HwMayHang = TRUE
  MaxSpurious = 0
  RemoveModes = {}
SPECIFICATION Spec
INVARIANT PollReturnsFinalized
