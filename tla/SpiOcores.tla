------------------------------ MODULE SpiOcores ------------------------------
(***************************************************************************)
(* The transfer engine of the spi-ocores driver (spi-ocores.c): the SPI    *)
(* core hands it one message at a time (transfer_one_message); the driver  *)
(* walks the message's transfers, each in bursts of one FIFO word, and     *)
(* completes each burst from the interrupt handler or from a bounded poll  *)
(* loop, depending on the SPI_OCORES_FLAG_POLL decided at probe time.      *)
(*                                                                         *)
(* Every driver function that changes state is an operator from a world    *)
(* record W to a world record (or to [w, err] where the C function returns *)
(* an error code); an action applies the whole handler's composition.      *)
(* W has the fields                                                        *)
(*   msg   the message being processed (sp->master->cur_msg), read only,   *)
(*   sp    the driver's struct spi_ocores fields of the current transfer,  *)
(*   hw    the registers of the core,                                      *)
(*   rxbuf the bytes stored into each transfer's rx buffer,                *)
(*   st    the message status, fin whether it was finalized.               *)
(***************************************************************************)
EXTENDS Integers, Sequences, SequencesExt, SpiOcoresCodec

CONSTANTS
  PollModes,   \* values probe may give SPI_OCORES_FLAG_POLL (no IRQ line)
  ClockHz,     \* pdata->clock_hz
  Candidates,  \* the messages the SPI core may hand to the driver
  MaxMsgs,     \* bound: messages handed over in one behaviour
  MaxBursts,   \* bound: hardware bursts within one message
  HwMayHang,   \* a burst may outlast the 100 ms poll timeout
  MaxSpurious, \* bound: handler calls without the core's IRQ (irqpoll, a
               \* stale dispatch of the interrupt controller)
  RemoveModes  \* values of the POLL flag under which remove may be called

ASSUME PollModes \subseteq BOOLEAN /\ HwMayHang \in BOOLEAN
ASSUME ClockHz \in Nat \ {0} /\ MaxMsgs \in Nat /\ MaxBursts \in Nat
ASSUME MaxSpurious \in Nat /\ RemoveModes \subseteq BOOLEAN

VARIABLES
  poll,      \* SPI_OCORES_FLAG_POLL, fixed by probe for the driver's lifetime
  sp,        \* [cur_xfer, tx, rx, cur_len, cls]: cursor of the current transfer
  hw,        \* [ctrl, div, cs, fifo, irq]: the core's registers and IRQ line
  msgs,      \* messages handed to the driver so far; the last is cur_msg
  status,    \* status of each handed message
  finalized, \* whether spi_finalize_current_message ran for each message
  pc,        \* the SPI core's kthread: "idle" or inside the poll loop
  rxbuf,     \* bytes stored in each rx buffer of the last message
  wireOut,   \* history: bytes shifted out on MOSI during each transfer
  wireIn,    \* history: bytes received on MISO during each transfer
  miso,      \* bytes the device has sent in the current message
  bursts,    \* bursts executed in the current message
  spurious,  \* handler calls made without the IRQ line up
  drv,       \* "bound", "unregister" (remove past free_irq) or "removed"
  irqReq     \* spi_ocores_irq_handler is installed on the core's line

vars == << poll, sp, hw, msgs, status, finalized, pc, rxbuf, wireOut, wireIn,
           miso, bursts, spurious, drv, irqReq >>

Null == -1      \* a NULL buffer pointer (tx, rx) or a NULL cur_xfer is 0
OobByte == -2   \* a byte read past the end of a tx buffer

(***************************************************************************)
(* Data of the transfers: the tx buffer of transfer x holds distinct bytes *)
(* and the device answers with a count, so any reordering, loss or         *)
(* duplication of bytes is visible.                                        *)
(***************************************************************************)
TxByte(m, x, i) == IF i < m.xfers[x].len THEN 100 * x + i + 1 ELSE OobByte
TxBytes(m, x) == [i \in 1..m.xfers[x].len |-> TxByte(m, x, i - 1)]
MisoByte(n) == 1000 + n

(***************************************************************************)
(* Register access and helpers.                                            *)
(***************************************************************************)
Ret(w, err) == [w |-> w, err |-> err]

Xfer(w, x) == w.msg.xfers[x]

\* spi_ocores_hw_xfer_bits_per_word
BitsPerWord(w, x) ==
  IF x # 0 /\ Xfer(w, x).bits_per_word # 0 THEN Xfer(w, x).bits_per_word
                                           ELSE w.msg.spi.bits_per_word

\* (nbits - 1) & ~CHAR_LEN: for an int, x & ~0x7F = 0 iff x \in 0..127
BitsFitCharLen(nbits) == nbits - 1 \in 0..127

\* divider = clock_hz / (hz * 2) - 1, truncated to the uint16_t argument
Divider(hz) == ((ClockHz \div (hz * 2)) - 1) % 65536

\* spi_ocores_hw_xfer_config: write CTRL with GO cleared, then DIV
HwXferConfig(w, ctrl, divider) ==
  [w EXCEPT !.hw.ctrl = [ctrl EXCEPT !.go = FALSE], !.hw.div = divider]

\* spi_ocores_hw_xfer_go: read-modify-write of CTRL setting GO
HwXferGo(w) == [w EXCEPT !.hw.ctrl.go = TRUE]

\* spi_ocores_hw_xfer_cs: read-modify-write of the CS bitmask
HwXferCs(w, cs, val) ==
  [w EXCEPT !.hw.cs = IF val THEN @ \cup {cs} ELSE @ \ {cs}]

\* spi_ocores_hw_xfer_tx_push: cur_tx_push unless tx_buf is NULL
HwXferTxPush(w) ==
  IF w.sp.tx = Null THEN w
  ELSE LET frag == [i \in 1..16 |-> TxByte(w.msg, w.sp.cur_xfer, w.sp.tx + i - 1)]
       IN  [w EXCEPT !.hw.fifo = TxPush(w.sp.cls, @, frag),
                     !.sp.tx   = @ + ClassBytes(w.sp.cls)]

\* Mutants of rx_pop: cur_len counted down in bits, or twice per word.
HwXferRxPopBits(w) ==
  [w EXCEPT !.sp.cur_len = @ - BitsPerWord(w, w.sp.cur_xfer),
            !.rxbuf[w.sp.cur_xfer] = IF w.sp.rx = Null THEN @
                                     ELSE @ \o RxPop(w.sp.cls, w.hw.fifo),
            !.sp.rx = IF @ = Null THEN @ ELSE @ + ClassBytes(w.sp.cls)]
HwXferRxPopTwice(w) ==
  [w EXCEPT !.sp.cur_len = @ - BitsPerWord(w, w.sp.cur_xfer) \div 4,
            !.rxbuf[w.sp.cur_xfer] = IF w.sp.rx = Null THEN @
                                     ELSE @ \o RxPop(w.sp.cls, w.hw.fifo),
            !.sp.rx = IF @ = Null THEN @ ELSE @ + ClassBytes(w.sp.cls)]

\* spi_ocores_hw_xfer_rx_pop: cur_len -= nbits / 8 on the unsigned int (a
\* negative cur_len stands for the wrapped value cur_len + 2^32), then
\* cur_rx_pop unless rx_buf is NULL
HwXferRxPop(w) ==
  LET w1 == [w EXCEPT !.sp.cur_len = @ - BitsPerWord(w, w.sp.cur_xfer) \div 8]
  IN  IF w1.sp.rx = Null THEN w1
      ELSE [w1 EXCEPT !.rxbuf[w.sp.cur_xfer] = @ \o RxPop(w.sp.cls, w.hw.fifo),
                      !.sp.rx = @ + ClassBytes(w.sp.cls)]

\* spi_ocores_hw_xfer_start: assert the device's CS, then GO
HwXferStart(w) == HwXferGo(HwXferCs(w, w.msg.spi.chip_select, TRUE))

\* Mutant: pending tested with >= on the counter.
HasPendingAtZero(w) == w.sp.cur_len >= 0

\* spi_ocores_sw_xfer_has_pending: cur_len > 0 as unsigned
HasPending(w) == w.sp.cur_len # 0

\* spi_ocores_sw_xfer_finish (udelay is timing only)
SwXferFinish(w) ==
  LET w1 == IF Xfer(w, w.sp.cur_xfer).cs_change
              THEN HwXferCs(w, w.msg.spi.chip_select, FALSE) ELSE w
  IN  [w1 EXCEPT !.sp.tx = Null, !.sp.rx = Null, !.sp.cur_len = 0]

\* The part of spi_ocores_sw_xfer_next_init after validation of transfer x.
XferSetup(w, x, nbits) ==
  LET ctrl == [charlen |-> nbits % 128, ie |-> ~poll, go |-> FALSE]
      hz   == IF Xfer(w, x).speed_hz # 0 THEN Xfer(w, x).speed_hz
                                         ELSE w.msg.spi.max_speed_hz
      w1   == HwXferConfig(w, ctrl, Divider(hz))
  IN  [w1 EXCEPT !.sp.tx = IF Xfer(w, x).tx THEN 0 ELSE Null,
                 !.sp.rx = IF Xfer(w, x).rx THEN 0 ELSE Null,
                 !.sp.cur_len = Xfer(w, x).len,
                 !.sp.cls = WordClass(nbits)]

\* spi_ocores_sw_xfer_next_init: advance cur_xfer, validate it, configure
SwXferNextInit(w) ==
  LET n    == Len(w.msg.xfers)
      x    == IF w.sp.cur_xfer = 0 THEN (IF n = 0 THEN 0 ELSE 1)
                                   ELSE w.sp.cur_xfer + 1
      w1   == [w EXCEPT !.sp.cur_xfer = x]
      nbits == BitsPerWord(w, x)
  IN  CASE w.sp.cur_xfer # 0 /\ w.sp.cur_xfer = n -> Ret(w, "ENODATA")
        [] x = 0 \/ ~BitsFitCharLen(nbits) \/ Xfer(w, x).len * 8 < nbits ->
             Ret([w1 EXCEPT !.st = "EINVAL"], "EINVAL")
        [] OTHER -> Ret(XferSetup(w1, x, nbits), "OK")

\* spi_ocores_sw_xfer_next_start
SwXferNextStart(w) ==
  LET r == SwXferNextInit(w)
  IN  IF r.err # "OK" THEN r ELSE Ret(HwXferStart(HwXferTxPush(r.w)), "OK")

\* Mutant: finalize leaves the chip-select asserted.
FinalizeKeepCs(w) == [w EXCEPT !.sp.cur_xfer = 0, !.st = "OK", !.fin = TRUE]

\* Mutant: finalize hands the message back without writing its status.
FinalizeNoStatus(w) ==
  [HwXferCs(w, w.msg.spi.chip_select, FALSE) EXCEPT
     !.sp.cur_xfer = 0, !.fin = TRUE]

\* spi_ocores_finalize_current_message
FinalizeCurrentMessage(w) ==
  [HwXferCs(w, w.msg.spi.chip_select, FALSE) EXCEPT
     !.sp.cur_xfer = 0, !.st = "OK", !.fin = TRUE]

\* Mutant: the next word is pushed and started before the pending check.
HwXferRxtxStartFirst(w) ==
  LET w1 == HwXferStart(HwXferTxPush(HwXferRxPop(w)))
  IN  IF ~HasPending(w1) THEN Ret(w1, "ENODATA") ELSE Ret(w1, "OK")

\* spi_ocores_hw_xfer_rxtx
HwXferRxtx(w) ==
  LET w1 == HwXferRxPop(w)
  IN  IF ~HasPending(w1) THEN Ret(w1, "ENODATA")
      ELSE Ret(HwXferStart(HwXferTxPush(w1)), "OK")

\* Mutant: finalize only on an error of next_start, not on -ENODATA.
ProcessNoFinalizeOnEnd(w) ==
  IF w.hw.ctrl.go THEN Ret(w, "EBUSY")
  ELSE LET r == HwXferRxtx(w)
       IN  IF r.err # "ENODATA" THEN r
           ELSE LET r2 == SwXferNextStart(SwXferFinish(r.w))
                IN  IF r2.err \notin {"OK", "ENODATA"}
                      THEN Ret(FinalizeCurrentMessage(r2.w), r2.err)
                      ELSE r2

\* Mutant: no is_busy check, the FIFO is popped with a burst in flight.
ProcessNoBusyCheck(w) ==
  LET r == HwXferRxtx(w)
  IN  IF r.err # "ENODATA" THEN r
      ELSE LET r2 == SwXferNextStart(SwXferFinish(r.w))
           IN  IF r2.err # "OK" THEN Ret(FinalizeCurrentMessage(r2.w), r2.err)
               ELSE r2

\* spi_ocores_process: the step shared by the IRQ handler and the poll loop
Process(w) ==
  IF w.hw.ctrl.go THEN Ret(w, "EBUSY")
  ELSE LET r == HwXferRxtx(w)
       IN  IF r.err # "ENODATA" THEN r
           ELSE LET r2 == SwXferNextStart(SwXferFinish(r.w))
                IN  IF r2.err # "OK" THEN Ret(FinalizeCurrentMessage(r2.w), r2.err)
                    ELSE r2

(***************************************************************************)
(* The world of the last message and how a handler's result is applied.    *)
(***************************************************************************)
Cur == msgs[Len(msgs)]

Owned == Len(msgs) > 0 /\ ~finalized[Len(msgs)]

World == [msg |-> Cur, sp |-> sp, hw |-> hw, rxbuf |-> rxbuf,
          st |-> status[Len(msgs)], fin |-> finalized[Len(msgs)]]

Apply(w) ==
  /\ sp' = w.sp
  /\ hw' = w.hw
  /\ rxbuf' = w.rxbuf
  /\ status' = [status EXCEPT ![Len(msgs)] = w.st]
  /\ finalized' = [finalized EXCEPT ![Len(msgs)] = w.fin]

(* The core needs more than the 100 ms poll timeout for one burst.         *)
BurstTooSlow == CharBits(hw.ctrl.charlen) * 2 * (hw.div + 1) * 10 >= ClockHz

(***************************************************************************)
(* Actions.                                                                *)
(***************************************************************************)

\* spi_ocores_transfer_one_message: the SPI core hands over message m once
\* the previous one is finalized; in poll mode the kthread then loops.
TransferOneMessage ==
  /\ drv # "removed"
  /\ pc = "idle"
  /\ ~Owned
  /\ Len(msgs) < MaxMsgs
  /\ \E m \in Candidates :
       LET w0 == [msg |-> m, sp |-> sp, hw |-> hw,
                  rxbuf |-> [x \in 1..Len(m.xfers) |-> << >>],
                  st |-> "INPROGRESS", fin |-> FALSE]
           r  == SwXferNextStart(w0)
       IN  /\ msgs' = Append(msgs, m)
           /\ status' = Append(status, r.w.st)
           /\ finalized' = Append(finalized, FALSE)
           /\ sp' = r.w.sp
           /\ hw' = r.w.hw
           /\ rxbuf' = r.w.rxbuf
           /\ wireOut' = [x \in 1..Len(m.xfers) |-> << >>]
           /\ wireIn' = [x \in 1..Len(m.xfers) |-> << >>]
           /\ pc' = IF poll THEN "poll" ELSE "idle"
           /\ miso' = 0
           /\ bursts' = 0
           /\ UNCHANGED << poll, spurious, drv, irqReq >>

\* One iteration of the loop in transfer_one_message: spi_ocores_process_poll
\* finds BUSY clear within the timeout and processes; any error ends the loop.
PollProcess ==
  /\ pc = "poll"
  /\ ~hw.ctrl.go
  /\ LET r == Process(World)
     IN  /\ Apply(r.w)
         /\ pc' = IF r.err = "OK" THEN "poll" ELSE "idle"
  /\ UNCHANGED << poll, msgs, wireOut, wireIn, miso, bursts, spurious, drv,
                  irqReq >>

\* Mutant: spi_ocores_wait without the time_after exit.
PollWaitForever == FALSE

\* spi_ocores_wait returns -ETIMEDOUT: the loop ends, transfer_one_message
\* returns 0.
PollTimeout ==
  /\ pc = "poll"
  /\ hw.ctrl.go
  /\ HwMayHang \/ BurstTooSlow
  /\ pc' = "idle"
  /\ UNCHANGED << poll, sp, hw, msgs, status, finalized, rxbuf, wireOut, wireIn,
                  miso, bursts, spurious, drv, irqReq >>

\* spi_ocores_irq_handler: the IRQ line is released by the register access.
IrqHandler ==
  /\ irqReq /\ hw.irq
  /\ LET r == Process([World EXCEPT !.hw.irq = FALSE])
     IN  Apply(r.w)
  /\ UNCHANGED << poll, msgs, pc, wireOut, wireIn, miso, bursts, spurious, drv,
                  irqReq >>

\* spi_ocores_irq_handler called while the core's IRQ line is down and a
\* message is in flight: BUSY set returns -EBUSY, otherwise process runs.
\* (With no message at all, bits_per_word would read the NULL cur_msg.)
SpuriousIrq ==
  /\ irqReq /\ ~hw.irq
  /\ hw.ctrl.go \/ Owned
  /\ spurious < MaxSpurious
  /\ spurious' = spurious + 1
  /\ Apply(Process(World).w)
  /\ UNCHANGED << poll, msgs, pc, wireOut, wireIn, miso, bursts, drv, irqReq >>

\* spi_ocores_unprepare_transfer_hardware: the SPI core's queue is idle.
UnprepareTransferHardware ==
  /\ drv # "removed"
  /\ pc = "idle"
  /\ ~Owned
  /\ hw' = [hw EXCEPT !.ctrl = [charlen |-> 0, ie |-> FALSE, go |-> FALSE],
                      !.div = 0]
  /\ UNCHANGED << poll, sp, msgs, status, finalized, pc, rxbuf, wireOut, wireIn,
                  miso, bursts, spurious, drv, irqReq >>

\* spi_ocores_remove, up to spi_unregister_master: platform_get_irq gives
\* the line probe requested (-ENXIO in poll mode), and free_irq, which waits
\* for a running handler, uninstalls the handler.
RemoveFreeIrq ==
  /\ poll \in RemoveModes
  /\ drv = "bound"
  /\ irqReq' = FALSE
  /\ drv' = "unregister"
  /\ UNCHANGED << poll, sp, hw, msgs, status, finalized, pc, rxbuf, wireOut,
                  wireIn, miso, bursts, spurious >>

\* spi_unregister_master, then devm_iounmap and spi_master_put.  The SPI
\* core first removes the child devices, whose drivers may still hand over
\* messages (TransferOneMessage stays enabled), then stops the queue: it
\* waits for the message in flight only up to its retry limit, and for the
\* kthread to leave transfer_one_message, then destroys the queue.
RemoveUnregister ==
  /\ drv = "unregister"
  /\ pc = "idle"
  /\ drv' = "removed"
  /\ UNCHANGED << poll, sp, hw, msgs, status, finalized, pc, rxbuf, wireOut,
                  wireIn, miso, bursts, spurious, irqReq >>

\* The core (HDL) completes a burst: BUSY clears, IRQ raised if IE is set.
HwBurstDone ==
  /\ hw.ctrl.go
  /\ bursts < MaxBursts
  /\ LET n   == BurstBytes(hw.ctrl.charlen)
         in  == [i \in 1..n |-> MisoByte(miso + i)]
         x   == sp.cur_xfer
     IN  /\ hw' = [hw EXCEPT !.fifo = ShiftIn(@, hw.ctrl.charlen, in),
                             !.ctrl.go = FALSE,
                             !.irq = hw.ctrl.ie]
         /\ wireOut' = IF x = 0 THEN wireOut
                       ELSE [wireOut EXCEPT ![x] = @ \o ShiftedOut(hw.fifo, hw.ctrl.charlen)]
         /\ wireIn' = IF x = 0 THEN wireIn ELSE [wireIn EXCEPT ![x] = @ \o in]
         /\ miso' = miso + n
         /\ bursts' = bursts + 1
  /\ UNCHANGED << poll, sp, msgs, status, finalized, pc, rxbuf, spurious, drv,
                  irqReq >>

\* The current-transfer fields of struct spi_ocores as spi_alloc_master's
\* zeroed allocation leaves them: no transfer, NULL buffers, no push/pop.
SpAlloc == [cur_xfer |-> 0, tx |-> Null, rx |-> Null, cur_len |-> 0, cls |-> 0]

Init ==
  /\ poll \in PollModes
  /\ sp = SpAlloc
  /\ hw = [ctrl |-> [charlen |-> 0, ie |-> FALSE, go |-> FALSE], div |-> 0,
           cs |-> {}, fifo |-> [i \in 1..16 |-> ZeroByte], irq |-> FALSE]
  /\ msgs = << >>
  /\ status = << >>
  /\ finalized = << >>
  /\ pc = "idle"
  /\ rxbuf = << >>
  /\ wireOut = << >>
  /\ wireIn = << >>
  /\ miso = 0
  /\ bursts = 0
  /\ spurious = 0
  /\ drv = "bound"
  /\ irqReq = ~poll

Next ==
  \/ TransferOneMessage
  \/ PollProcess
  \/ PollTimeout
  \/ IrqHandler
  \/ SpuriousIrq
  \/ UnprepareTransferHardware
  \/ HwBurstDone
  \/ RemoveFreeIrq
  \/ RemoveUnregister

(* The core finishes a burst it was started on, the kernel runs a pending  *)
(* IRQ handler and the kthread keeps polling; the host is not fair.        *)
(* Process is defined in every state, so IrqHandler is enabled exactly     *)
(* when the IRQ line is up and PollProcess exactly when the kthread polls  *)
(* a core that is not busy; weak fairness of these two is written with     *)
(* those conditions, which TLC evaluates without expanding Process.        *)
(* A core that may hang gets no fairness; jiffies advance, so a poll that  *)
(* keeps finding BUSY set times out.  A remove, once called, returns.      *)
Fairness ==
  /\ (~HwMayHang \/ ~poll) => WF_vars(HwBurstDone)
  /\ WF_vars(PollTimeout)
  /\ <>[](irqReq /\ hw.irq) => []<><<IrqHandler>>_vars
  /\ WF_vars(RemoveUnregister)
  /\ <>[](pc = "poll" /\ ~hw.ctrl.go) => []<><<PollProcess>>_vars

Spec == Init /\ [][Next]_vars /\ Fairness

(***************************************************************************)
(* Properties.                                                             *)
(***************************************************************************)
NHanded == Len(msgs)

MaxXfers == Max({Len(m.xfers) : m \in Candidates})

\* The checks next_init applies to transfer x of message m.
Accepted(m, x) ==
  LET nbits == IF m.xfers[x].bits_per_word # 0 THEN m.xfers[x].bits_per_word
                                                ELSE m.spi.bits_per_word
  IN  BitsFitCharLen(nbits) /\ m.xfers[x].len * 8 >= nbits

(* Every variable holds a value of its C type; in particular cur_len, an   *)
(* unsigned int, is never decremented below zero (no wrap-around).        *)
TypeOK ==
  /\ sp.cur_xfer \in Nat /\ sp.tx \in Int /\ sp.rx \in Int
  /\ sp.cur_len \in Nat /\ sp.cls \in {0, 8, 16, 32, 64, 128}
  /\ hw.ctrl \in [charlen : 0..127, ie : BOOLEAN, go : BOOLEAN]
  /\ hw.div \in 0..65535 /\ hw.cs \in SUBSET (0..7) /\ hw.irq \in BOOLEAN
  /\ hw.fifo \in [1..16 -> Int]
  /\ msgs \in Seq(Candidates) /\ Len(msgs) <= MaxMsgs
  /\ status \in Seq({"INPROGRESS", "OK", "EINVAL"})
  /\ finalized \in Seq(BOOLEAN)
  /\ pc \in {"idle", "poll"}
  /\ miso \in Nat /\ bursts \in 0..MaxBursts
  /\ spurious \in 0..MaxSpurious
  /\ drv \in {"bound", "unregister", "removed"} /\ irqReq \in BOOLEAN

(* The tx and rx cursors of the current transfer never move past the end   *)
(* of its buffers: every push read and every pop wrote inside the buffer   *)
(* (tx_push/rx_pop advance by the class size while cur_len counts nbits/8).*)
NoBufferOverrun ==
  Owned /\ sp.cur_xfer # 0 =>
    LET len == Cur.xfers[sp.cur_xfer].len
    IN  (sp.tx # Null => sp.tx <= len) /\ (sp.rx # Null => sp.rx <= len)

(* Byte order end to end: what went out on MOSI during a transfer with a   *)
(* tx buffer is that buffer in order, and what rx_pop stored is what came  *)
(* in on MISO, in order (push/pop slot layout against the shift order).    *)
WireMatchesBuffers ==
  NHanded > 0 =>
    \A x \in 1..Len(Cur.xfers) :
      /\ Cur.xfers[x].tx => IsPrefix(wireOut[x], TxBytes(Cur, x))
      /\ Cur.xfers[x].rx => IsPrefix(rxbuf[x], wireIn[x])

\* Transfer x of message m exchanged exactly its len bytes.
TransferComplete(m, x) ==
  /\ Len(wireOut[x]) = m.xfers[x].len
  /\ m.xfers[x].rx => Len(rxbuf[x]) = m.xfers[x].len

(* Whenever the driver leaves a transfer it accepted (finish + next_init,  *)
(* or finalize), exactly len bytes were exchanged on the wire and, with an *)
(* rx buffer, all len bytes were stored: the burst count matches the       *)
(* length, no burst is lost or repeated.                                   *)
TransfersExchangeWholeBuffers ==
  [][ \A x \in 1..MaxXfers :
        Owned /\ sp.cur_xfer = x /\ sp'.cur_xfer # x /\ Accepted(Cur, x)
          => TransferComplete(Cur, x)' ]_vars

(* While a burst is in flight exactly the chip-select of the message's     *)
(* device is asserted: CS deasserts of cs_change and of finalize, and the  *)
(* reassert before the next burst, leave no other device selected.        *)
ChipSelectOfDeviceOnly ==
  hw.ctrl.go /\ NHanded > 0 => hw.cs = {Cur.spi.chip_select}

(* A finalized message reports success exactly when the driver accepted   *)
(* all of its transfers (next_init stores -EINVAL, finalize stores 0).    *)
StatusReflectsValidity ==
  \A i \in 1..NHanded :
    finalized[i] =>
      (status[i] = "OK" <=> \A x \in 1..Len(msgs[i].xfers) : Accepted(msgs[i], x))

(* The core's IRQ reaches an installed spi_ocores_irq_handler only while  *)
(* a message is in flight: neither a raised line nor a burst that will     *)
(* raise it outlives finalize. Otherwise process, finding BUSY clear,      *)
(* goes on to rx_pop, whose bits_per_word reads the NULL cur_xfer and then *)
(* the NULL master->cur_msg.                                               *)
HandlerFindsMessage ==
  irqReq /\ (hw.irq \/ (hw.ctrl.go /\ hw.ctrl.ie)) => Owned

(* In poll mode transfer_one_message completes the message synchronously:  *)
(* once it has returned, the message it was given has been finalized.     *)
PollReturnsFinalized == poll /\ pc = "idle" => ~Owned

(* The poll loop of transfer_one_message always returns, by completing    *)
(* the message or by the timeout, whatever the core does: the kthread is   *)
(* never stuck in the driver.                                              *)
PollLoopReturns == pc = "poll" ~> pc = "idle"

(* In interrupt mode every message handed to the driver is eventually     *)
(* finalized, so the SPI core can complete it and hand over the next one   *)
(* (in poll mode a timeout leaves it open: see PollReturnsFinalized).      *)
MessageEventuallyFinalized ==
  ~poll => \A i \in 1..MaxMsgs : (NHanded >= i) ~> (NHanded >= i /\ finalized[i])


(***************************************************************************)
(* Refinement of the message-level promise (SpiMessage). A message's data  *)
(* becomes visible to the host when it is finalized: until then the        *)
(* abstract sent and delivered buffers are empty, afterwards they are what *)
(* crossed MOSI for each tx buffer and what rx_pop stored in each rx one.  *)
(***************************************************************************)
Final == NHanded > 0 /\ finalized[NHanded]

AbsSent ==
  IF NHanded = 0 THEN << >>
  ELSE [x \in DOMAIN Cur.xfers |->
          IF Final /\ Cur.xfers[x].tx THEN wireOut[x] ELSE << >>]

AbsDelivered ==
  IF NHanded = 0 THEN << >>
  ELSE [x \in DOMAIN Cur.xfers |->
          IF Final /\ Cur.xfers[x].rx THEN rxbuf[x] ELSE << >>]

Msg == INSTANCE SpiMessage
         WITH sent <- AbsSent, delivered <- AbsDelivered,
              TxData <- TxBytes, DeviceByte <- MisoByte

(* transfer_one_message, process and finalize together implement the      *)
(* message-level promise in both completion modes: one message at a time, *)
(* finalized in one step with status 0, every tx buffer on the wire and    *)
(* every rx buffer filled with the device's bytes in order, so poll and    *)
(* interrupt mode hand back the same data. In interrupt mode every         *)
(* accepted message is also handed back; in poll mode a core that hangs    *)
(* makes the loop time out and keep the message (PollReturnsFinalized).    *)
MessageSpecRefined == Msg!SafeSpec /\ (~poll => Msg!Fairness)

=============================================================================
