\* htvic_remove disposes of the mappings while the handler thread may still be in its loop.
CONSTANTS
  NVec = 2
  IvtOrig <- MC_IvtOrig
  MaxRaises = 3
  MaxProbes = 1
  MapMayFail = FALSE
  ReqMayFail = FALSE
  SharedLine = FALSE
  DbgMayFail = FALSE
  EarlyMayFail = FALSE
  MaxClientOps = 4
SPECIFICATION Spec
INVARIANT NoDispatchUnmapped
CHECK_DEADLOCK FALSE
