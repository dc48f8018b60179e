\* Interrupt mode, one message, and spi_ocores_remove called at any point:
\* free_irq comes before spi_unregister_master, which lets the child devices'
\* drivers finish their I/O.
CONSTANTS
  PollModes = {FALSE}
  ClockHz = 100000000
  Candidates <- GoodMessages
  MaxMsgs = 1
  MaxBursts = 8
  HwMayHang = FALSE
  MaxSpurious = 0
  RemoveModes = {FALSE}
SPECIFICATION Spec
PROPERTY MessageEventuallyFinalized
CHECK_DEADLOCK FALSE
