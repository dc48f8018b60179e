\* irq_create_mapping or request_any_context_irq fails after the vector table was rewritten.
CONSTANTS
  NVec = 2
  IvtOrig <- MC_IvtOrig
  MaxRaises = 0
  MaxProbes = 2
  MapMayFail = TRUE
  ReqMayFail = TRUE
  SharedLine = FALSE
  DbgMayFail = FALSE
  EarlyMayFail = FALSE
  MaxClientOps = 4
SPECIFICATION Spec
INVARIANT IvtRestoredWhenUnbound
CHECK_DEADLOCK FALSE
