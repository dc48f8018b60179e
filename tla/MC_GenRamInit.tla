--------------------------- MODULE MC_GenRamInit ---------------------------
(***************************************************************************)
(* Inputs of genraminit for TLC: every file of up to 9 bytes over two byte *)
(* values (so lengths 0, 4 and 8 end on a word boundary and the others     *)
(* inside a word), a missing file, and RAM sizes below, at and above the   *)
(* file's word count, including a negative atoi result.                    *)
(***************************************************************************)
EXTENDS GenRamInit

MC_Files == UNION {[1..len -> {1, 2}] : len \in 0..9}

MC_Ns == {-1, 0, 2, 3, 4}

=============================================================================
