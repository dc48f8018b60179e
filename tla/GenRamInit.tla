----------------------------- MODULE GenRamInit -----------------------------
(***************************************************************************)
(* genraminit (testbench/wishbone/lm32_testsys/sw/genraminit.c): reads a   *)
(* binary file four bytes at a time and prints one "write <addr> <word>"   *)
(* line per word, then zero words up to the address given on the command   *)
(* line. A printed line is abstracted to its address and its four bytes.   *)
(* fread(x, 1, 4, f) copies the bytes that are left, at most 4, into the   *)
(* front of x and leaves the rest of x as it was; it sets the end-of-file  *)
(* indicator only when it asked for more bytes than were left. When argv[1]*)
(* names a directory, fopen(.., "rb") succeeds and every read fails with   *)
(* EISDIR: fread copies nothing and sets the error indicator, never the    *)
(* end-of-file one.                                                        *)
(***************************************************************************)
EXTENDS Integers, Sequences, FiniteSetsExt

CONSTANTS
  Files,     \* contents of argv[1] (sequences of bytes); Missing if absent
  Ns,        \* values atoi(argv[2]) may return
  Garbage,   \* values an uninitialized byte of x may hold
  Missing,   \* argv[1] names no readable file
  Dirs,      \* argv[1] names a directory, which opens but cannot be read
  MaxLines   \* bound: lines printed in one behaviour

VARIABLES
  pc,     \* "start", "loop", "pad", "done" (return 0) or "exit" (return -1)
  file,   \* the file's bytes
  pos,    \* the stream position
  eof,    \* the stream's end-of-file indicator
  x,      \* unsigned char x[4]
  i,      \* the next address
  n,      \* atoi(argv[2])
  out     \* lines printed so far: [addr, data]

vars == << pc, file, pos, eof, x, i, n, out >>

Byte4 == 0..3

Line(addr, data) == [addr |-> addr, data |-> data]

\* fread(x, 1, 4, f) on a regular file: the new x, the new position and
\* whether the read came up short
FreadData(xs, p) ==
  LET k == Min({4, Len(file) - p})
  IN  [x   |-> [j \in Byte4 |-> IF j < k THEN file[p + j + 1] ELSE xs[j]],
       pos |-> p + k,
       eof |-> k < 4]

\* fread(x, 1, 4, f) on a directory: the read fails, nothing moves
FreadError(xs, p) == [x |-> xs, pos |-> p, eof |-> FALSE]

Fread(xs, p) == IF file \in Dirs THEN FreadError(xs, p) ELSE FreadData(xs, p)

Init ==
  /\ pc = "start"
  /\ file \in Files \cup Dirs \cup {Missing}
  /\ n \in Ns
  /\ x \in [Byte4 -> Garbage]
  /\ pos = 0 /\ eof = FALSE /\ i = 0 /\ out = << >>

\* argc check, fopen and atoi: an unreadable file returns -1 at once
Start ==
  /\ pc = "start"
  /\ pc' = IF file = Missing THEN "exit" ELSE "loop"
  /\ UNCHANGED << file, pos, eof, x, i, n, out >>

\* Mutant: the word is printed before fread fills x.
ReadWordPrintFirst ==
  /\ pc = "loop" /\ ~eof /\ Len(out) < MaxLines
  /\ LET r == Fread(x, pos)
     IN  /\ x' = r.x /\ pos' = r.pos /\ eof' = r.eof
         /\ out' = Append(out, Line(i, x))
  /\ i' = i + 1
  /\ UNCHANGED << pc, file, n >>

\* while (!feof(f)) { fread(x, 1, 4, f); printf(..., i++, x[0..3]); }
ReadWord ==
  /\ pc = "loop" /\ ~eof /\ Len(out) < MaxLines
  /\ LET r == Fread(x, pos)
     IN  /\ x' = r.x /\ pos' = r.pos /\ eof' = r.eof
         /\ out' = Append(out, Line(i, r.x))
  /\ i' = i + 1
  /\ UNCHANGED << pc, file, n >>

\* the loop test finds the end-of-file indicator set
LoopExit ==
  /\ pc = "loop" /\ eof
  /\ pc' = "pad"
  /\ UNCHANGED << file, pos, eof, x, i, n, out >>

\* Mutant: the address is printed without being incremented.
PadWordNoIncrement ==
  /\ pc = "pad" /\ i < n /\ Len(out) < MaxLines
  /\ out' = Append(out, Line(i, [j \in Byte4 |-> 0]))
  /\ UNCHANGED << pc, file, pos, eof, x, i, n >>

\* for (; i < n;) printf(..., i++, 0, 0, 0, 0);
PadWord ==
  /\ pc = "pad" /\ i < n /\ Len(out) < MaxLines
  /\ out' = Append(out, Line(i, [j \in Byte4 |-> 0]))
  /\ i' = i + 1
  /\ UNCHANGED << pc, file, pos, eof, x, n >>

\* fclose(f); return 0;
Close ==
  /\ pc = "pad" /\ i >= n
  /\ pc' = "done"
  /\ UNCHANGED << file, pos, eof, x, i, n, out >>

Next == Start \/ ReadWord \/ LoopExit \/ PadWord \/ Close

\* a host process run to completion
Spec == Init /\ [][Next]_vars /\ WF_vars(Next)

-----------------------------------------------------------------------------
(***************************************************************************)
(* The reference: the RAM image the file stands for, the file cut into     *)
(* 4-byte words with a short last word filled with zeros, then zero words *)
(* up to address n.                                                        *)
(***************************************************************************)
ZeroWord == [j \in Byte4 |-> 0]

RECURSIVE Words(_)
Words(s) ==
  IF s = << >> THEN << >>
  ELSE LET k == Min({4, Len(s)})
       IN  << [j \in Byte4 |-> IF j < k THEN s[j + 1] ELSE 0] >>
             \o Words(SubSeq(s, k + 1, Len(s)))

RefImage(f, cnt) ==
  LET w == Words(f)
  IN  [a \in 0..(Max({Len(w), cnt}) - 1) |-> IF a < Len(w) THEN w[a + 1] ELSE ZeroWord]

(* What main prints agrees with the reference image at every address       *)
(* except one: the address right after the file's last whole word, where   *)
(* the read loop prints one more line from whatever x still holds (the     *)
(* previous word after a read of 0 bytes, its stale tail after a short     *)
(* read, uninitialized bytes for an empty file) because feof only turns    *)
(* true after a read comes up short. Lines carry consecutive addresses     *)
(* from 0, and there is exactly one line more than the image has whenever  *)
(* the file length is a multiple of 4 and covers n.                        *)
ImageBesideTail ==
  pc = "done" =>
    LET ref  == RefImage(file, n)
        tail == Len(file) \div 4
    IN  /\ Len(out) = Max({tail + 1, n})
        /\ \A k \in 1..Len(out) : out[k].addr = k - 1
        /\ \A a \in DOMAIN ref \ {tail} : out[a + 1].data = ref[a]

(* The read loop ends, so main returns: while(!feof(f)) is left only     *)
(* through the end-of-file indicator, which every input must set.          *)
Terminates == <>(pc \in {"done", "exit"})

=============================================================================
