\* genraminit over every small file; the program returns, so the final state
\* has no successor and deadlock is not an error.
CONSTANTS
  Files <- MC_Files
  Ns <- MC_Ns
  Garbage = {0, 7}
  Missing = Missing
  Dirs = {}
  MaxLines = 8
SPECIFICATION Spec
INVARIANT ImageBesideTail
PROPERTY Terminates
CHECK_DEADLOCK FALSE
