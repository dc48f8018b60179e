# Model-checking the general-cores software

This directory holds TLA+ models of the C software in this repository, checked
with TLC. The models are written from `src/`. They cover:
- the Linux driver for the OpenCores SPI master (`spi-ocores`);
- the Linux driver for the HTVIC vectored interrupt controller (`htvic`);
- the RAM-image generator of the lm32 testbench (`genraminit`).

## 1. Inventory

### Parts of the system

| Part | Source | State | Operations |
|---|---|---|---|
| spi-ocores register shim | `spi-ocores.c` 65-87, 705-711 | none (picks LE or BE I/O) | `ioread32/iowrite32[_be]` |
| spi-ocores word codec | `spi-ocores.c` 153-342 | the 4 TX/RX slots (aliased), `cur_tx_buf`, `cur_rx_buf`, `cur_len` | `tx_set`, `rx_get`, `tx_push{8,...,128}`, `rx_pop{8,...,128}`, `hw_xfer_tx_push`, `hw_xfer_rx_pop` |
| transfer sequencer | `spi-ocores.c` 344-538 | `cur_xfer`, the push/pop pair, CTRL, DIV, CS | `hw_xfer_config/go/cs/start`, `sw_xfer_next_init/next_start/finish`, `has_pending` |
| completion engine | `spi-ocores.c` 365-635 | BUSY, the IRQ line, `cur_msg->status` | `wait`, `is_busy`, `hw_xfer_rxtx`, `process`, `process_poll`, `irq_handler`, `finalize_current_message` |
| message driver | `spi-ocores.c` 640-668 | `flags` (POLL), `ctrl_base` (IE) | `transfer_one_message`, `unprepare_transfer_hardware` |
| spi-ocores probe / remove | `spi-ocores.c` 670-811 | resources, master registration | `probe`, `remove` |
| HTVIC driver | `htvic.c`, `htvic.h` | CTL, IER/IDR, RISR, VAR, EOIR, the vector table, the irq domain, `hwid` | `irq_ack/mask/unmask/startup/shutdown`, `htvic_handler`, `htvic_ack_pending`, `htvic_irq_mapping`, `probe`, `remove` |
| HTVIC debugfs | `htvic.c` 21-175 | the `dbg_*` dentries; the htvic pointer the swirq file's open stores | `htvic_debug_init`, `htvic_debug_exit`, swirq open/write; info and reg dumps |
| lm32 testbench firmware | `sw/uart.c`, `gpio.h`, `target/lm32/irq.c`, `inttypes.h` | UART status, GPIO | `uart_write_byte`, gpio set/clear, irq enable |
| genraminit | `sw/genraminit.c` | the input stream, `x[4]`, `i` | the `fread` loop and the zero padding |

### How they interact

The SPI core of Linux calls `transfer_one_message` with one message at a time.
It calls it again only after `spi_finalize_current_message`.

The driver runs each message like this:
1. It configures a transfer (`next_init`), pushes one word, and sets GO.
2. The core shifts one character.
3. In interrupt mode, the end of a burst raises the IRQ. `irq_handler` runs
   `process`, which pops the received word. It then pushes the next word,
   moves to the next transfer, or finalizes the message.
4. In poll mode, the SPI kthread stays in `transfer_one_message`. It runs
   `process_poll` until an error: it waits for BUSY to clear, with a 100 ms
   timeout, then runs `process`.

On a carrier board, the SPI master's interrupt reaches the CPU through the
HTVIC. The HTVIC's `htvic_handler` is installed on the carrier's line. Each
turn of its loop does three things:
- it reads VAR to learn the vector in service;
- it calls the client's handler through `handle_nested_irq`;
- it writes EOIR, and the VIC then moves on to the next pending vector.

`genraminit` runs on the host. It turns a firmware binary into the
`write <addr> <word>` lines that initialise the testbench's RAM.

### The hard parts

- **`cur_len` and the cursors disagree.** `cur_len` is decreased by `nbits/8`
  per burst (line 335). The cursors move by the class size (lines 261, 339).
- **The 128-bit pop swaps halves.** It stores its halves in the other order
  from the push.
- **Errors in `next_init` are lost.** `finalize` overwrites them (line 550),
  and the error of the first `next_start` is dropped (line 646).
- **A poll timeout leaves the message open.** The chip-select stays asserted
  (lines 616-617, 648-653).
- **The divider can overshoot.** It rounds toward the faster clock and is
  truncated to 16 bits (line 482).
- **HTVIC's handler loop works on a snapshot.** It loops over a local copy of
  RISR while the VIC keeps latching and selecting. `remove` tears down the
  domain and the VIC under a handler that may still be running. Probe's error
  paths leave the vector table rewritten.
- **`genraminit` tests end-of-file too early, and only end-of-file.**
  `while(!feof)` tests before the read that would find it, and a stream
  whose reads fail never sets it.

## 2. Modules

| Module | Models | Source |
|---|---|---|
| `SpiOcoresCodec` | the word codec as operators on a 16-byte FIFO, plus the core's shift register (from the spec: the HDL is not under `src/`) | `spi-ocores.c` 153-342 |
| `SpiOcores` | the sequencer, the completion engine, the message driver, remove and the core's bursts, as one state machine; the refinement mapping to `SpiMessage` | `spi-ocores.c` 112-782 |
| `SpiMessage` | the message-level promise of spec.md 4.5, 5 and 7 (abstract) | spec.md |
| `MC_SpiOcores` | devices and messages for TLC | none |
| `Htvic` | the HTVIC driver (handler loop, irq_chip operations, probe with its error paths, remove) and its debugfs (creation with its failures, the swirq write, removal), with the VIC and its clients as environment | `htvic.c` 88-620, `htvic.h` |
| `MC_Htvic` | the original vector table for TLC | none |
| `GenRamInit` | `genraminit`'s `main` with stdio's `fread`/`feof`; a RECURSIVE reference image | `genraminit.c` |
| `MC_GenRamInit` | all small input files and RAM sizes | none |

### How `SpiOcores` corresponds to the code

Each C function is an operator on a record `w`, the "world" it can change:
- `msg`: the current `spi_message`;
- `sp`: `struct spi_ocores`;
- `hw`: CTRL, DIV, CS, the FIFO and the IRQ line;
- `rxbuf`: the receive buffers;
- `st`: `cur_msg->status`;
- `fin`: whether the message was finalized.

A function that returns an error returns `[w, err]` (`Ret`). Calls are composed
as the code composes them: `Process` is `HwXferRxtx`, then `SwXferFinish`,
`SwXferNextStart` and `FinalizeCurrentMessage`. So an action always applies the
whole handler.

The actions:
- `TransferOneMessage` is `spi_ocores_transfer_one_message` up to its poll
  loop.
- `PollProcess` and `PollTimeout` are the two outcomes of one iteration of
  that loop.
- `IrqHandler` is `spi_ocores_irq_handler` run for the core's IRQ.
- `SpuriousIrq` is the same handler run while the line is down, with a
  message in flight. It is bounded by `MaxSpurious`.
- `UnprepareTransferHardware` is what the SPI core calls when its queue is
  idle.
- `HwBurstDone` is the core: it ends a burst, shifts the FIFO, and raises the
  IRQ if IE is set.

`poll` is `SPI_OCORES_FLAG_POLL`. Probe decides it, so it is chosen in `Init`
from `PollModes` and never changes.

Data is abstracted as follows:
- Byte `i` of transfer `x`'s TX buffer is `100*x+i`.
- The device sends `1000+n` as its n-th byte.
- A read past a buffer yields `OobByte`.
- `cur_len` is an integer, and a negative value stands for its unsigned wrap.

### The refinement `SpiOcores` ⇒ `SpiMessage`

`SpiMessage` is what the host is promised, read from spec.md:
- There is one message at a time.
- A message with an invalid transfer is rejected whole.
- Any other message is finalized in one step with status success. At that
  step every tx buffer has been sent whole, and every rx buffer holds the
  device's bytes in order. A transfer's offset into those bytes is a
  `FoldLeft` over the earlier transfers' lengths.
- With `Fairness`, every accepted message is handed back.

The mapping in `SpiOcores` keeps `msgs`, `status` and `finalized`. It shows
`sent` and `delivered` as empty until the message is finalized, and as
`wireOut`/`rxbuf` from then on. `MessageSpecRefined` is
`Msg!SafeSpec /\ (~poll => Msg!Fairness)`. In poll mode, a core that hangs
makes the loop time out and keep the message. That is the `timeout` finding,
so the hand-back is only claimed for interrupt mode.

### How `Htvic` corresponds to the code

The VIC is hardware outside the repository. It is modelled from what the
driver relies on (`htvic.c` 183-187, 312-317, 457-462):
- **`VicLatch`**: a line that is asserted and enabled is latched in
  `pending`.
- **Selection**: while CTL is set and nothing is in service, the VIC puts the
  lowest pending vector in service (`cur`) and latches its table entry in
  VAR.
- **EOIR** (`EoiWrite`): a write retires `cur` and selects the next vector in
  the same step. The driver relies on the delay of the RISR read that
  follows the write for this.
- **CTL 0**: nothing new is selected on a latch, and VAR keeps its last
  value. An EOIR write still retires and selects. The driver relies on this
  reading: probe calls `htvic_ack_pending` (lines 409-413), whose loop ends
  only through EOI, before it sets CTL (lines 516-520). No document in the
  repository says otherwise.

Client drivers are the environment:
- `DeviceRaise` raises a device's line, bounded by `MaxRaises`;
- a client requests (`IrqStartup`) and frees (`IrqShutdown`) its Linux irq,
  at most `MaxClientOps` times in all;
- a user writes the swirq file (`SwirqWrite`) whenever it exists. The write
  is one write of 1 to SWIR, a software interrupt on vector 0. The VIC is
  taken to latch it as it does an input pulse, only if vector 0 is enabled.

The threaded `htvic_handler` is split at the points where others can
interleave:
- `HandlerEntry` takes the RISR snapshot into `risr`;
- `HandlerVar` reads VAR;
- `HandlerNested` is `handle_nested_irq`: the device drops its line;
- `HandlerEoi` writes EOIR and tests `risr`.

Probe and remove are steps on `phase`:
- `ProbeStart` (which returns at once when `EarlyMayFail` lets
  `htvic_validation` or `kzalloc` fail), then `ProbeAckPending`, then `ProbeMapping` (which may fail
  at any vector when `MapMayFail`), then `ProbeRequestIrq` (which may fail
  when `ReqMayFail`), then `ProbeDebugInit`, then `ProbeEnable`.
  `ProbeDebugInit` creates the directory and the info, reg and swirq files
  in that order. When `DbgMayFail`, any call may fail and end it with the
  earlier entries left in place. Probe ignores its result;
- `RemoveDisable` (which starts with `htvic_debug_exit`), then one `RemoveVector` per vector, then `RemoveFreeIrq`.
  `free_irq` waits for the handler to be idle.

### How `GenRamInit` corresponds to the code

The actions are `Start` (the argc/fopen early returns), `ReadWord` (one turn of
the `while(!feof)` loop), `LoopExit`, `PadWord` and `Close`. `Fread` is
`fread(x,1,4,f)`:
- it copies the bytes that are left, at most 4, into the front of `x`;
- it keeps the rest of `x` as it was;
- it sets end-of-file only when fewer than 4 bytes were left;
- on a directory (`Dirs`), which `fopen(.., "rb")` opens, the read fails
  with EISDIR: `FreadError` copies nothing and leaves end-of-file clear.

The uninitialized `x` is any value of `Garbage`. A printed line is its address
and its four bytes; `printf`'s hex formatting is left out. `Words` (RECURSIVE)
and `RefImage` build the reference: the file cut into 4-byte words, the last
one zero-filled, then zero words up to `n`.

## 3. Runs

| Run | Inputs | Checks | Result |
|---|---|---|---|
| `engine` | both modes; MsgA (3 transfers, 8/16/32 bit, 1 MHz device 0) and MsgB (64-bit, then the device's 16-bit, 5 MHz device 1); 3 messages in any order; a core that may hang; 1 spurious handler call; remove at any point in poll mode | `TypeOK`, `NoBufferOverrun`, `WireMatchesBuffers`, `ChipSelectOfDeviceOnly`, `HandlerFindsMessage`, `TransfersExchangeWholeBuffers`, `MessageEventuallyFinalized`, `PollLoopReturns`, `MessageSpecRefined` | pass (830 states) |
| `rx128` | one 16-byte transfer of 128-bit words | `WireMatchesBuffers` | violated: the received halves are swapped |
| `overrun` | one 12-byte transfer of 64-bit words | `NoBufferOverrun` | violated: the second burst reads and writes 4 bytes past the buffers |
| `status` | second transfer shorter than one word | `StatusReflectsValidity` | violated: finalized with status 0 |
| `hang` | first transfer shorter than one word, IRQ mode | `MessageEventuallyFinalized` | violated: nothing finalizes the message |
| `timeout` | poll mode, a hung core | `PollReturnsFinalized` | violated: returns with the message open and CS asserted |
| `remove` | interrupt mode, both good messages, `spi_ocores_remove` at any point | `MessageEventuallyFinalized` | violated: remove frees the IRQ; a child driver then hands over a message, whose first burst starts; remove unregisters; the burst completes with no handler, and the message is never finalized |
| `htvic` | 3 vectors, up to 4 interrupts (device lines or swirq writes), 2 probes, a shared carrier line, up to 4 client request/free calls, debugfs creation that may fail at any call | `TypeOK`, `EoiAcksDispatchedVector`, `IvtRestoredWhenUnbound`, `SwirqOnLiveDevice`, `VarNamesVector`, `LineServed`, `RemoveCompletes` | pass (339361 states, 85 s) |
| `htvic_rmrace` | 2 vectors, 3 interrupts, one probe, line not shared, debugfs never fails | `NoDispatchUnmapped` | violated: a handler between its RISR read and its VAR read, remove disposes of the mapping, the handler dispatches irq 0 |
| `htvic_ivt` | mapping and request may fail, 2 probes | `IvtRestoredWhenUnbound` | violated: a failed probe leaves the table rewritten |
| `genraminit` | every file of 0-9 bytes over 2 values, a missing file, n ∈ {-1,0,2,3,4}, any uninitialized `x` | `ImageBesideTail`, `Terminates` | pass (190672 states) |
| `genraminit_dir` | as `genraminit`, and a directory as `argv[1]` | `Terminates` | violated: every `fread` fails, end-of-file is never set, and the loop prints forever |

What the passing runs show:
- **`engine`.** Both modes hand back the same data: they refine the same
  `SpiMessage`, so the tx and rx buffers at finalize are the same. A handler
  call while BUSY is set changes nothing (line 590). Without the `is_busy`
  test, the mutant `ProcessNoBusyCheck` pops the FIFO mid-burst and breaks
  `WireMatchesBuffers`.
- **The handler never runs without a message** (`HandlerFindsMessage`).
  With the handler installed, the IRQ line is up, or a burst that will
  raise it is running, only while a message is in flight. The handler that
  takes the last burst's IRQ is the one that finalizes, and finalize starts
  no burst. If `rxtx` started the next word before its pending test (the
  mutant `HwXferRxtxStartFirst`), a burst would run past finalize. Its IRQ
  would reach a handler whose `bits_per_word` reads the NULL `cur_msg`
  (line 191).
- **spi-ocores remove** (`RemoveFreeIrq`, `RemoveUnregister`). `free_irq`
  comes first (line 775), then `spi_unregister_master` (line 776). The SPI
  core is outside the repository, and is modelled from what it is known to
  do:
  - it removes the child devices, whose drivers may still hand over
    messages;
  - it waits for the message in flight only up to a retry limit, and for
    the kthread to leave `transfer_one_message`;
  - it then destroys the queue.

  The `engine` run allows remove in poll mode, where it is safe. The
  `remove` run shows the interrupt-mode case.
- **`htvic`.** The handler only writes EOI for the vector it dispatched
  (`EoiAcksDispatchedVector`). A line a client holds while the VIC is bound
  is eventually served (`LineServed`), now with three vectors, so a vector
  can wait behind two of higher priority. An unbound VIC has its original
  table. While the VIC is bound, every VAR value the handler reads is a
  vector number (`VarNamesVector`), so the WARN exit at line 433, which
  returns without an EOI, is never taken. During remove it can be: remove
  writes the platform's entries back (line 605) before `free_irq` (line
  610), and a handler still looping may read one after its EOI. This is the
  same ordering as the `htvic_rmrace` finding, so it is a hazard note.
  Remove finishes (`RemoveCompletes`) although it clears CTL under a running
  handler: every EOI moves VAR on to a pending vector, so each turn clears
  one bit of the handler's RISR copy. If `HandlerVar` did not clear the bit
  (the mutant), `free_irq` would wait forever. If probe saved the table without rewriting it, both
  this and `LineServed` would fail. The swirq file exists only while its
  htvic is live (`SwirqOnLiveDevice`): its handler is installed and all its
  vectors are mapped. This holds after a `debug_init` that stopped part-way,
  because remove's `debug_exit` removes the whole tree.

  `htvic_debug_init` returns `PTR_ERR(htvic->dbg_reg)` when the swirq file
  fails (line 163), the wrong pointer. Probe ignores the result (line 563),
  so this changes nothing the driver does.
- **`genraminit`.** The output equals the reference image at every address
  except `len/4`. There it prints one more line from the stale `x`:
  - the previous word, when the length is a multiple of 4;
  - the previous word's tail, after a short read;
  - uninitialized bytes, for an empty file.

  When the file fills the RAM, that line lands at address `n`, past the RAM.
  No document states the intended output, so this is reported as behaviour,
  not checked as a violation. `Terminates` holds for regular and missing
  files; `genraminit_dir` shows it fails for a directory.

The bounds are enough for these reasons:
- **SPI.** The longest message needs 8 bursts (`MaxBursts`). Three messages
  on two devices cover a device change, the same device twice, and the reset
  of `cur_xfer` at finalize. Every width class other than 128 occurs, and 128
  has its own run. MsgA has a `cs_change` in the middle.
- **HTVIC.** Three vectors let a vector wait behind two of higher priority,
  with a second pending while the first is in service. Four raises let one
  vector be raised again while others are served. Two probes show what one
  probe leaves for the next. Four client calls let a client free and
  re-request its irq between a handler's VAR read and its dispatch. The
  violation runs keep 2 vectors, where their traces are shortest.
  `LineServed` fails at 3 vectors only when clients free and re-request
  without end. No client driver does that, so `MaxClientOps` leaves it out.
- **genraminit.** Lengths 0-9 give every remainder mod 4 and two word
  boundaries. `n` is below, at and above the file's word count.
  `MaxLines` = 8 is above every regular file's 4 lines, so it only stops
  runaway mutants and the directory loop, which then stutters short of an
  exit.

`CHECK_DEADLOCK FALSE` is set only where the system really stops:
- the SPI host stops after `MaxMsgs`, and after a poll timeout no one
  finalizes;
- the HTVIC devices stop after `MaxRaises`, clients after `MaxClientOps`,
  and probe after `MaxProbes`;
- `genraminit` returns.

### Fairness

- **`HwBurstDone`**: WF. A started core finishes its burst, except in poll
  mode with `HwMayHang`.
- **`IrqHandler`**: WF on the IRQ line while the handler is installed. The
  kernel runs a pending handler.
- **`RemoveUnregister`**: WF. A remove that has started returns.
- **`PollProcess`**: WF on BUSY clear. The kthread keeps running.
- **`PollTimeout`**: WF. The 100 ms timer expires.
- **`TransferOneMessage`, `SpuriousIrq`**: none. The host, and stray calls,
  owe nothing.

The WF of `IrqHandler` and `PollProcess` is written as
`<>[]P => []<><<A>>_vars`, with `P` the code-level enabling condition.

In `Htvic`:
- `VicLatch` is WF: the hardware latches an asserted line.
- `IrqOut /\ HandlerEntry` is WF: the kernel runs the threaded handler while
  the VIC's output is up.
- The handler's later steps are WF: a running thread continues.
- Probe after `ProbeStart`, and `RemoveVector`, are WF: the caller
  continues.
- `RemoveFreeIrq` is SF. `free_irq` unlinks the action under the
  descriptor's lock, which the handler does not hold between invocations,
  so a handler called again and again on the shared line does not starve
  it.
- `ProbeDebugInit` is WF: probe continues.
- Devices, clients, swirq writers, `ProbeStart` and `RemoveDisable` have no
  fairness.

In `GenRamInit`, `Next` is WF: a host process runs to completion.

### Mutants

`PROJECT.json` lists one mutant per property of each passing run. Each is a
plausible bug in the code the property is about. The check re-runs the run
with the mutant in place and TLC must report the property violated.

| Code | Mutant |
|---|---|
| spi-ocores pop | a pop that decreases `cur_len` by the bit count |
| spi-ocores pop | a doubled pop |
| spi-ocores pending test | `>= 0` |
| spi-ocores 64-bit push | swapped halves |
| spi-ocores finalize | keeps CS asserted |
| spi-ocores finalize | does not write the status |
| spi-ocores `process` | never finalizes |
| spi-ocores `process` | no `is_busy` test |
| spi-ocores `rxtx` | starts the next word before the pending test |
| spi-ocores poll wait | no timeout |
| HTVIC remove loop | `<=` |
| HTVIC remove loop | no table restore |
| HTVIC handler | no RISR test at entry |
| HTVIC handler | no EOI write |
| HTVIC handler | the dispatched bit not cleared from the RISR copy |
| HTVIC remove | no `htvic_debug_exit` |
| HTVIC mapping | the table entry saved but not rewritten |
| genraminit | prints before `fread` |
| genraminit | padding without `i++` |

## 4. Not modelled

- **The spi-ocores register shim and the endianness choice.** They transport
  values unchanged. The codec works on byte order, not on bus lanes.
- **`SPI_LSB_FIRST`, CPHA/Tx_NEG/Rx_NEG, `delay_usecs`.** They change bit
  timing on the wire, not the driver's control.
- **spi-ocores probe's error paths, module init.** Probe's decisions (POLL
  from `platform_get_irq`, IE, the installed handler) are `Init`. Its
  allocation, resource and registration failures release what they took,
  and the engine never sees them.
- **The SCLK divider.** `Divider` translates line 482. At 100 MHz, a 3 MHz
  device gets DIV 15, so SCLK is 3.125 MHz, above `max_speed_hz`. spec.md
  gives the same formula, so no run is spent on it.
- **Speed 0, and `hz*2` overflow at spi-ocores line 482.** The driver never
  sets `master->max_speed_hz`, so the SPI core leaves a device's
  `max_speed_hz` 0 when the board gives none. A transfer without `speed_hz`
  then divides by zero at line 482. The model takes speeds from a set of
  non-zero values, so no run shows it; it is a hazard note. Values near 2^32
  are outside TLC's integers.
- **A spi-ocores handler call with no message in flight, from outside the
  engine.** `bits_per_word` would read the NULL `cur_msg` (line 191).
  `HandlerFindsMessage` shows that the core's own IRQ never gets there.
  Three other ways in are not modelled:
  - The kernel's irqpoll never calls the handler, because the line is
    requested without IRQF_SHARED. `SpuriousIrq` is therefore enabled only
    while a message is in flight.
  - A stale HTVIC dispatch during teardown could call it. The composition
    of the two drivers is not modelled.
  - A line left up by an earlier instance could call it. Probe installs the
    handler (line 733) before `spi_register_master` (line 741). The line is
    left up only by the remove bug of the `remove` run, and re-probe is not
    an action.
- **HTVIC's domain `select` callback, and the memop choice.** They are
  configuration with no state the handler reads. The same goes for CTL's
  polarity and edge bits. (`set_type` is modelled: `IrqStartup` lets a
  client ask for no trigger, a level or an edge, and an edge fails the
  request.)
- **HTVIC with 32 vectors.** The vector set is reduced to 3: the handler
  treats every vector alike, and three give a vector two of higher
  priority.
- **HTVIC debugfs info and reg files.** They print the mappings and the
  registers with `seq_printf` and change no state.
- **HTVIC `ioremap`.** It is never undone: probe's error paths and remove
  lack `iounmap`, so each probe/remove cycle leaks a mapping. The model keeps
  register contents, not virtual mappings, so this is a hazard note.
- **The lm32 testbench firmware** (`uart.c`, `gpio.h`, `irq.c`). It is
  straight-line register access on a single CPU. `uart_write_byte`'s only
  control is a wait on TX_BUSY and a one-level recursion for `\n`. The GPIO and irq helpers are single read-modify-write accesses. None
  of them has an interleaving or a state a model checker would explore.
  `CALC_BAUD` is evaluated once, on constants: 10 kbaud at 1 MHz gives BCR
  5243, which is round(10000 * 2^19 / 10^6). Every run slot is taken by a
  question about the drivers.
- **The composition of HTVIC and spi-ocores.** Each driver sees the other
  only as "an interrupt is delivered" (`IrqHandler`'s fairness, and HTVIC's
  `DeviceRaise` and `HandlerNested`). Composing them would multiply two state
  spaces to check the same interface.

## 5. Plan for later work

1. A composed `HtvicSpi`, with the SPI interrupt delivered through
   `HandlerNested`. It would show the NULL `cur_msg` path reached from a
   stale dispatch during HTVIC teardown.
2. Re-probe of spi-ocores as an action, with the core's registers kept
   across instances. It would reach the probe-order hazard at line 733.
