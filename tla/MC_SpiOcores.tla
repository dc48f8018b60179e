---------------------------- MODULE MC_SpiOcores ----------------------------
(***************************************************************************)
(* Instances of SpiOcores for TLC. Devices and messages are written as     *)
(* the spi_board_info / spi_message the SPI core would hand over: every    *)
(* message has at least one transfer, every transfer a non-zero speed      *)
(* source, and len a multiple of the word size __spi_validate requires     *)
(* (1, 2 or 4 bytes for bits_per_word <= 8, <= 16, otherwise).             *)
(***************************************************************************)
EXTENDS SpiOcores

\* spi_board_info: chip_select, default bits_per_word, max_speed_hz
DevA == [chip_select |-> 0, bits_per_word |-> 8, max_speed_hz |-> 1000000]
DevB == [chip_select |-> 1, bits_per_word |-> 16, max_speed_hz |-> 5000000]

\* spi_transfer: len, bits_per_word (0: the device's), speed_hz (0: the
\* device's), tx_buf and rx_buf present, cs_change
T(len, bpw, tx, rx, csc) ==
  [len |-> len, bits_per_word |-> bpw, speed_hz |-> 0,
   tx |-> tx, rx |-> rx, cs_change |-> csc]

\* Messages of the interrupt and poll runs: all five data paths of the
\* codec except 128, a cs_change in the middle, tx-only, rx-only and
\* full-duplex transfers, a transfer using the device's default width.
MsgA == [spi |-> DevA,
         xfers |-> << T(2, 8, TRUE, TRUE, FALSE),
                      T(4, 16, TRUE, FALSE, TRUE),
                      T(4, 32, FALSE, TRUE, FALSE) >>]
MsgB == [spi |-> DevB,
         xfers |-> << T(8, 64, TRUE, TRUE, FALSE),
                      T(2, 0, TRUE, TRUE, FALSE) >>]
GoodMessages == {MsgA, MsgB}

\* A 128-bit word: the widest class, two 64-bit halves per burst.
Msg128 == [spi |-> DevA, xfers |-> << T(16, 128, TRUE, TRUE, FALSE) >>]

\* A 64-bit word over 12 bytes: len is a multiple of the 4 bytes the SPI
\* core asks for above 32 bits, but not of the 8 bytes push64 moves.
MsgOdd64 == [spi |-> DevA, xfers |-> << T(12, 64, TRUE, TRUE, FALSE) >>]

\* A transfer shorter than one word (4 bytes of a 64-bit word), which
\* next_init rejects, after a good one and as the first one.
MsgShortSecond == [spi |-> DevA, xfers |-> << T(2, 8, TRUE, TRUE, FALSE),
                                              T(4, 64, TRUE, TRUE, FALSE) >>]
MsgShortFirst == [spi |-> DevA, xfers |-> << T(4, 64, TRUE, TRUE, FALSE),
                                             T(2, 8, TRUE, TRUE, FALSE) >>]

\* A device whose max_speed_hz does not divide clock_hz / 2 evenly.
DevC == [chip_select |-> 2, bits_per_word |-> 8, max_speed_hz |-> 3000000]
MsgOddSpeed == [spi |-> DevC, xfers |-> << T(1, 8, TRUE, TRUE, FALSE) >>]

Cands128 == {Msg128}
CandsOdd64 == {MsgOdd64}
CandsShortSecond == {MsgShortSecond}
CandsShortFirst == {MsgShortFirst}
CandsOddSpeed == {MsgOddSpeed}

=============================================================================
