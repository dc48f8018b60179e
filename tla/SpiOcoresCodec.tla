--------------------------- MODULE SpiOcoresCodec ---------------------------
(***************************************************************************)
(* The word codec of the spi-ocores driver: how a buffer fragment is       *)
(* packed into the four 32-bit TX slots and how the RX slots are unpacked  *)
(* into the receive buffer, for each of the five width classes the driver  *)
(* dispatches on (cur_tx_push / cur_rx_pop).                               *)
(*                                                                         *)
(* A register value is abstracted to its bytes, most significant first:    *)
(* cpu_to_be16/32/64 make that byte order independent of the host, so a    *)
(* be-converted word of the buffer is just the buffer's bytes in order.    *)
(* The 128-bit FIFO is one sequence of 16 bytes, most significant first,   *)
(* i.e. << TX3, TX2, TX1, TX0 >>; TX and RX slots alias the same bytes.    *)
(***************************************************************************)
EXTENDS Integers, Sequences

(* A byte written by the driver's zero extension of a narrow word.         *)
ZeroByte == 0

(* The function pair chosen by spi_ocores_sw_xfer_next_init for nbits.     *)
WordClass(nbits) ==
  CASE nbits <= 8  -> 8
    [] nbits <= 16 -> 16
    [] nbits <= 32 -> 32
    [] nbits <= 64 -> 64
    [] OTHER       -> 128

(* Bytes one push or pop of a class moves: the return value sizeof(data).  *)
ClassBytes(cls) == cls \div 8

(* First position of slot idx (0..3) in the 16-byte FIFO.                  *)
SlotPos(idx) == 13 - 4 * idx

Slot(reg, idx) == SubSeq(reg, SlotPos(idx), SlotPos(idx) + 3)

(* spi_ocores_tx_set: a 32-bit write of a whole slot.                      *)
TxSet(reg, idx, word) ==
  [i \in 1..16 |-> IF i \in SlotPos(idx)..SlotPos(idx) + 3
                     THEN word[i - SlotPos(idx) + 1]
                     ELSE reg[i]]

(* The five push functions; b is the buffer from cur_tx_buf on (b[1] is    *)
(* the byte at cur_tx_buf).                                                *)
TxPush8(reg, b)  == TxSet(reg, 0, << ZeroByte, ZeroByte, ZeroByte, b[1] >>)
TxPush16(reg, b) == TxSet(reg, 0, << ZeroByte, ZeroByte, b[1], b[2] >>)
TxPush32(reg, b) == TxSet(reg, 0, SubSeq(b, 1, 4))
\* Mutant: the two halves of a 64-bit word written to the wrong slots.
TxPush64Swapped(reg, b) == TxSet(TxSet(reg, 0, SubSeq(b, 1, 4)), 1, SubSeq(b, 5, 8))
TxPush64(reg, b) == TxSet(TxSet(reg, 0, SubSeq(b, 5, 8)), 1, SubSeq(b, 1, 4))
TxPush128(reg, b) ==
  LET first == TxSet(TxSet(reg, 2, SubSeq(b, 5, 8)), 3, SubSeq(b, 1, 4))
  IN  TxSet(TxSet(first, 0, SubSeq(b, 13, 16)), 1, SubSeq(b, 9, 12))

TxPush(cls, reg, b) ==
  CASE cls = 8  -> TxPush8(reg, b)
    [] cls = 16 -> TxPush16(reg, b)
    [] cls = 32 -> TxPush32(reg, b)
    [] cls = 64 -> TxPush64(reg, b)
    [] OTHER    -> TxPush128(reg, b)

(* The five pop functions: the bytes stored from cur_rx_buf on, in order.  *)
RxPop8(reg)  == << reg[16] >>
RxPop16(reg) == << reg[15], reg[16] >>
RxPop32(reg) == Slot(reg, 0)
RxPop64(reg) == Slot(reg, 1) \o Slot(reg, 0)
\* 64-bit word 1 of rx gets RX3:RX2, word 0 gets RX1:RX0.
RxPop128(reg) == (Slot(reg, 1) \o Slot(reg, 0)) \o (Slot(reg, 3) \o Slot(reg, 2))

RxPop(cls, reg) ==
  CASE cls = 8  -> RxPop8(reg)
    [] cls = 16 -> RxPop16(reg)
    [] cls = 32 -> RxPop32(reg)
    [] cls = 64 -> RxPop64(reg)
    [] OTHER    -> RxPop128(reg)

(***************************************************************************)
(* The SPI master core (HDL, not part of the driver sources): a burst of   *)
(* bits bits (char_len, 0 meaning 128) shifts the low bits of the FIFO out *)
(* most significant first and stores the bits received in their place;    *)
(* bytes above the character are untouched. Bits are counted in whole     *)
(* bytes, rounding a partial byte up.                                      *)
(***************************************************************************)
CharBits(charlen) == IF charlen = 0 THEN 128 ELSE charlen

BurstBytes(charlen) == (CharBits(charlen) + 7) \div 8

(* The bytes put on MOSI, in wire order.                                   *)
ShiftedOut(reg, charlen) == SubSeq(reg, 17 - BurstBytes(charlen), 16)

(* The FIFO after a burst that received the bytes in (in wire order).      *)
ShiftIn(reg, charlen, in) == SubSeq(reg, 1, 16 - BurstBytes(charlen)) \o in

=============================================================================
