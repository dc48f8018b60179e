\* genraminit given a directory as argv[1]: fopen succeeds and every fread
\* fails without setting end-of-file.  MaxLines caps the lines the endless
\* loop prints; regular files never reach it (at most 4 lines here).
CONSTANTS
  Files <- MC_Files
  Ns <- MC_Ns
  Garbage = {0, 7}
  Missing = Missing
  Dirs = {Dir}
  MaxLines = 8
SPECIFICATION Spec
PROPERTY Terminates
CHECK_DEADLOCK FALSE
