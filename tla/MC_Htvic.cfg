\* Probe, interrupts on three vectors through the cascade and the swirq file,
\* client request_irq/free_irq, debugfs creation failing part-way, and remove.
CONSTANTS
  NVec = 3
  IvtOrig <- MC_IvtOrig
  MaxRaises = 4
  MaxProbes = 2
  MapMayFail = FALSE
  ReqMayFail = FALSE
  SharedLine = TRUE
  DbgMayFail = TRUE
  EarlyMayFail = TRUE
  MaxClientOps = 4
SPECIFICATION Spec
INVARIANT TypeOK
INVARIANT EoiAcksDispatchedVector
INVARIANT IvtRestoredWhenUnbound
INVARIANT SwirqOnLiveDevice
INVARIANT VarNamesVector
PROPERTY LineServed
PROPERTY RemoveCompletes
\* The devices stop after MaxRaises interrupts, clients after MaxClientOps
\* calls and probe after MaxProbes.
CHECK_DEADLOCK FALSE
