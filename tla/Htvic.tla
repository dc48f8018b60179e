-------------------------------- MODULE Htvic --------------------------------
(***************************************************************************)
(* The HTVIC driver (htvic.c): a vectored interrupt controller cascaded on *)
(* one carrier interrupt line.  The driver maps each of the VIC's vectors  *)
(* to a Linux irq (probe), demultiplexes the carrier interrupt in          *)
(* htvic_handler, masks and unmasks vectors for the drivers that request   *)
(* them, and restores the vector table on remove.  Its debugfs directory  *)
(* holds a swirq file whose write raises a software interrupt.             *)
(*                                                                         *)
(* The VIC itself is hardware outside this repository.  Its behaviour is   *)
(* taken from what the driver relies on (htvic.c 183-187, 312-317,         *)
(* 457-462): a vector is latched pending while its line is asserted and   *)
(* enabled; while the VIC is enabled and nothing is in service it puts     *)
(* the highest-priority pending vector in service and latches that         *)
(* vector's table entry in VAR; any write of EOIR retires the vector in    *)
(* service and the VIC advances to the next pending one, within the delay *)
(* of the RISR read that follows the write.  An EOI advances also while   *)
(* CTL is 0: htvic_ack_pending (409-413), called with CTL 0 (516-520),    *)
(* relies on it to empty RISR.  RISR shows the pending vectors.  VAR keeps *)
(* its value until the next selection.                                     *)
(***************************************************************************)
EXTENDS Integers, Sequences, FiniteSets, FiniteSetsExt

CONSTANTS
  NVec,        \* VIC_MAX_VECTORS (32 in htvic.h), reduced for checking
  IvtOrig,     \* the vector table as the platform left it before probe
  MaxRaises,   \* bound: interrupts the devices raise in one behaviour
  MaxProbes,   \* bound: htvic_probe calls in one behaviour
  MapMayFail,  \* irq_create_mapping may fail
  ReqMayFail,  \* request_any_context_irq may fail
  SharedLine,  \* IRQF_SHARED: the handler also runs for other devices
  DbgMayFail,  \* debugfs_create_dir / debugfs_create_file may fail
  EarlyMayFail, \* htvic_validation or kzalloc may fail in probe
  MaxClientOps \* bound: request_irq / free_irq calls of client drivers

Vectors == 0..NVec - 1

ASSUME NVec \in Nat \ {0} /\ IvtOrig \in [Vectors -> Nat]
ASSUME MapMayFail \in BOOLEAN /\ ReqMayFail \in BOOLEAN /\ SharedLine \in BOOLEAN
ASSUME DbgMayFail \in BOOLEAN /\ EarlyMayFail \in BOOLEAN /\ MaxClientOps \in Nat

VARIABLES
  ctl,       \* VIC_REG_CTL enable bit
  imr,       \* vectors enabled through IER / disabled through IDR
  pending,   \* RISR: vectors latched pending
  cur,       \* the vector in service, or NoVec
  var,       \* VIC_REG_VAR: table entry of the last vector put in service
  ivt,       \* VIC_IVT_RAM: the vector table
  line,      \* the level each device drives on its vector's input
  phase,     \* where probe or remove is, or "unbound" / "bound"
  hwid,      \* htvic->hwid: the table saved by probe
  mapped,    \* whether irq_find_mapping(domain, v) is a live Linux irq
  requested, \* htvic_handler is installed on the carrier line
  rmi,       \* the loop index of htvic_remove
  probes,    \* htvic_probe calls so far
  devReq,    \* a client driver holds the Linux irq of vector v
  raises,    \* interrupts raised by devices so far
  hpc,       \* htvic_handler: "idle" or the next step of its loop
  risr,      \* htvic_handler's local copy of RISR
  vect,      \* htvic_handler's vect
  cascade,   \* htvic_handler's cascade_irq (0: no mapping)
  dbg,       \* the debugfs entries of this instance that exist
  clientOps  \* client request_irq / free_irq calls so far

vars == << ctl, imr, pending, cur, var, ivt, line, phase, hwid, mapped,
           requested, rmi, probes, devReq, raises, hpc, risr, vect, cascade,
           dbg, clientOps >>
hwVars == << ctl, imr, pending, cur, var, ivt, line >>

NoVec == -1

(***************************************************************************)
(* The VIC (environment).                                                  *)
(***************************************************************************)
\* Put the highest-priority pending vector in service if the VIC is free.
Select(en, p, c) ==
  IF en /\ c = NoVec /\ p # {}
    THEN [cur |-> Min(p), var |-> ivt[Min(p)]]
    ELSE [cur |-> c, var |-> var]

\* The master output towards the carrier.
IrqOut == ctl /\ cur # NoVec

\* A write of EOIR: the vector in service is retired and the VIC advances,
\* whether or not CTL enables it.
EoiWrite ==
  LET p == IF cur = NoVec THEN pending ELSE pending \ {cur}
      s == Select(TRUE, p, NoVec)
  IN  /\ pending' = p
      /\ cur' = s.cur
      /\ var' = s.var

\* A device asserts its line (it only does so once its driver requested
\* the interrupt).
DeviceRaise(v) ==
  /\ devReq[v] /\ ~line[v]
  /\ raises < MaxRaises
  /\ line' = [line EXCEPT ![v] = TRUE]
  /\ raises' = raises + 1
  /\ UNCHANGED << ctl, imr, pending, cur, var, ivt, phase, hwid, mapped,
                  requested, rmi, probes, devReq, hpc, risr, vect, cascade,
                  dbg, clientOps >>

\* The VIC latches an asserted, enabled line and selects if it is free.
VicLatch(v) ==
  /\ line[v] /\ v \in imr /\ v \notin pending
  /\ LET s == Select(ctl, pending \cup {v}, cur)
     IN  /\ pending' = pending \cup {v}
         /\ cur' = s.cur
         /\ var' = s.var
  /\ UNCHANGED << ctl, imr, ivt, line, phase, hwid, mapped, requested, rmi,
                  probes, devReq, raises, hpc, risr, vect, cascade,
                  dbg, clientOps >>

(***************************************************************************)
(* htvic_handler: one action per step of its loop; the carrier's handler   *)
(* thread runs it while the VIC, the devices and remove go on.             *)
(***************************************************************************)
\* Mutant: the RISR test at entry is dropped.
HandlerEntryNoRisrCheck ==
  /\ requested /\ hpc = "idle"
  /\ IrqOut \/ SharedLine
  /\ risr' = pending
  /\ hpc' = "var"
  /\ UNCHANGED << hwVars, phase, hwid, mapped, requested, rmi, probes,
                  devReq, raises, vect, cascade, dbg, clientOps >>

\* Entry: RISR is read; a zero RISR returns IRQ_NONE without a change.
HandlerEntry ==
  /\ requested /\ hpc = "idle"
  /\ IrqOut \/ SharedLine
  /\ pending # {}
  /\ risr' = pending
  /\ hpc' = "var"
  /\ UNCHANGED << hwVars, phase, hwid, mapped, requested, rmi, probes,
                  devReq, raises, vect, cascade, dbg, clientOps >>

\* Mutant: the vector's bit is not cleared from the local copy.
HandlerVarNoClear ==
  /\ hpc = "var"
  /\ LET v == var % 256
     IN  IF v >= NVec
           THEN /\ hpc' = "idle"
                /\ UNCHANGED << risr, vect, cascade >>
           ELSE /\ vect' = v
                /\ cascade' = IF mapped[v] THEN v + 1 ELSE 0
                /\ hpc' = "nested"
                /\ UNCHANGED risr
  /\ UNCHANGED << hwVars, phase, hwid, mapped, requested, rmi, probes,
                  devReq, raises, dbg, clientOps >>

\* VAR is read; an invalid vector returns IRQ_HANDLED at once, otherwise
\* its mapping is looked up and its bit cleared from the local copy.
HandlerVar ==
  /\ hpc = "var"
  /\ LET v == var % 256
     IN  IF v >= NVec
           THEN /\ hpc' = "idle"
                /\ UNCHANGED << risr, vect, cascade >>
           ELSE /\ vect' = v
                /\ cascade' = IF mapped[v] THEN v + 1 ELSE 0
                /\ risr' = risr \ {v}
                /\ hpc' = "nested"
  /\ UNCHANGED << hwVars, phase, hwid, mapped, requested, rmi, probes,
                  devReq, raises, dbg, clientOps >>

\* handle_nested_irq(cascade_irq): the client's handler acknowledges its
\* device, which releases the line.
HandlerNested ==
  /\ hpc = "nested"
  /\ line' = IF cascade # 0 /\ devReq[vect]
               THEN [line EXCEPT ![vect] = FALSE] ELSE line
  /\ hpc' = "eoi"
  /\ UNCHANGED << ctl, imr, pending, cur, var, ivt, phase, hwid, mapped,
                  requested, rmi, probes, devReq, raises, risr, vect, cascade,
                  dbg, clientOps >>

\* Mutant: htvic_eoi is not called.
HandlerEoiNoWrite ==
  /\ hpc = "eoi"
  /\ hpc' = IF risr # {} THEN "var" ELSE "idle"
  /\ UNCHANGED << hwVars, phase, hwid, mapped, requested, rmi, probes,
                  devReq, raises, risr, vect, cascade, dbg, clientOps >>

\* htvic_eoi, then the RISR read that gives the VIC time to advance; the
\* loop goes on while the local copy has a bit left.
HandlerEoi ==
  /\ hpc = "eoi"
  /\ EoiWrite
  /\ hpc' = IF risr # {} THEN "var" ELSE "idle"
  /\ UNCHANGED << ctl, imr, ivt, line, phase, hwid, mapped, requested, rmi,
                  probes, devReq, raises, risr, vect, cascade,
                  dbg, clientOps >>

(***************************************************************************)
(* The irq_chip operations a client driver reaches through request_irq    *)
(* and free_irq on the Linux irq of vector v.                              *)
(***************************************************************************)
\* htvic_unmask_enable_reg / htvic_mask_disable_reg: a write of 1 << hwirq
\* to IER or IDR.
UnmaskEnableReg(v) == imr \cup {v}
MaskDisableReg(v) == imr \ {v}

\* The trigger flags a client passes to request_irq: none, a level or an edge.
ClientTriggers == {"none", "level", "edge"}

\* htvic_irq_set_type, which request_irq calls only when trigger flags are
\* given: anything but a level is refused with -EINVAL.
IrqSetType(flowType) == flowType \in {"none", "level"}

\* request_irq on vector v's Linux irq: a refused trigger type fails the
\* request before htvic_irq_startup; otherwise startup pins the module and
\* enables the vector.
IrqStartup(v) ==
  /\ phase = "bound" /\ mapped[v] /\ ~devReq[v]
  /\ clientOps < MaxClientOps
  /\ \E t \in ClientTriggers :
       IF IrqSetType(t)
         THEN imr' = UnmaskEnableReg(v) /\ devReq' = [devReq EXCEPT ![v] = TRUE]
         ELSE UNCHANGED << imr, devReq >>
  /\ clientOps' = clientOps + 1
  /\ UNCHANGED << ctl, pending, cur, var, ivt, line, phase, hwid, mapped,
                  requested, rmi, probes, raises, hpc, risr, vect, cascade,
                  dbg >>

\* htvic_irq_shutdown: the vector is disabled and the module released.
IrqShutdown(v) ==
  /\ phase = "bound" /\ devReq[v]
  /\ clientOps < MaxClientOps
  /\ imr' = MaskDisableReg(v)
  /\ devReq' = [devReq EXCEPT ![v] = FALSE]
  /\ clientOps' = clientOps + 1
  /\ UNCHANGED << ctl, pending, cur, var, ivt, line, phase, hwid, mapped,
                  requested, rmi, probes, raises, hpc, risr, vect, cascade,
                  dbg >>

(***************************************************************************)
(* htvic_probe, split where the handler or the VIC can run in between.     *)
(***************************************************************************)
\* Whether htvic_validation finds the carrier IRQ with its trigger flags and
\* the memory resource, and kzalloc succeeds.
ProbeEarlyOutcomes == IF EarlyMayFail THEN BOOLEAN ELSE {TRUE}

\* Validation and kzalloc, which return before any register access when
\* they fail; then the memory operations, and the VIC and all its lines
\* are disabled.
ProbeStart ==
  /\ phase = "unbound" /\ probes < MaxProbes
  /\ probes' = probes + 1
  /\ \E ok \in ProbeEarlyOutcomes :
       IF ok THEN /\ ctl' = FALSE
                  /\ imr' = {}
                  /\ hwid' = [i \in Vectors |-> 0]
                  /\ phase' = "ack"
             ELSE UNCHANGED << ctl, imr, hwid, phase >>
  /\ UNCHANGED << pending, cur, var, ivt, line, mapped, requested, rmi,
                  devReq, raises, hpc, risr, vect, cascade,
                  dbg, clientOps >>

\* htvic_ack_pending: one turn of while (RISR) write EOIR.
ProbeAckPending ==
  /\ phase = "ack"
  /\ IF pending = {}
       THEN /\ phase' = "map"
            /\ UNCHANGED << pending, cur, var >>
       ELSE /\ EoiWrite
            /\ UNCHANGED phase
  /\ UNCHANGED << ctl, imr, ivt, line, hwid, mapped, requested, rmi, probes,
                  devReq, raises, hpc, risr, vect, cascade,
                  dbg, clientOps >>

\* The irq_create_mapping calls that may fail: none, or the k-th.
MapFailures == IF MapMayFail THEN Vectors \cup {NVec} ELSE {NVec}

\* Mutant: the table entry is saved but not replaced by its index.
ProbeMappingNoIvtWrite ==
  /\ phase = "map"
  /\ \E k \in MapFailures :
       LET done == {i \in Vectors : i <= k}
       IN  /\ hwid' = [i \in Vectors |-> IF i \in done THEN ivt[i] ELSE hwid[i]]
           /\ mapped' = [i \in Vectors |-> k = NVec]
           /\ phase' = IF k = NVec THEN "req" ELSE "unbound"
  /\ UNCHANGED << ctl, imr, pending, cur, var, ivt, line, requested, rmi,
                  probes, devReq, raises, hpc, risr, vect, cascade,
                  dbg, clientOps >>

\* htvic_irq_mapping: each table entry is saved in hwid and replaced by its
\* index before its mapping is created; a failed mapping removes the
\* domain, and probe frees the device.
ProbeMapping ==
  /\ phase = "map"
  /\ \E k \in MapFailures :
       LET done == {i \in Vectors : i <= k}
       IN  /\ hwid' = [i \in Vectors |-> IF i \in done THEN ivt[i] ELSE hwid[i]]
           /\ ivt' = [i \in Vectors |-> IF i \in done THEN i ELSE ivt[i]]
           /\ mapped' = [i \in Vectors |-> k = NVec]
           /\ phase' = IF k = NVec THEN "req" ELSE "unbound"
  /\ UNCHANGED << ctl, imr, pending, cur, var, line, requested, rmi, probes,
                  devReq, raises, hpc, risr, vect, cascade,
                  dbg, clientOps >>

\* request_any_context_irq: on failure probe frees the device and leaves
\* the domain, its mappings and the rewritten table behind.
ProbeRequestIrq ==
  /\ phase = "req"
  /\ \E ok \in IF ReqMayFail THEN BOOLEAN ELSE {TRUE} :
       /\ requested' = ok
       /\ phase' = IF ok THEN "debug" ELSE "unbound"
  /\ UNCHANGED << hwVars, hwid, mapped, rmi, probes, devReq, raises, hpc,
                  risr, vect, cascade, dbg, clientOps >>

\* The debugfs entries htvic_debug_init creates, in its order.
DbgEntries == << "dir", "info", "reg", "swirq" >>

\* How many of them are created: all, or the ones before a failing call.
DbgCreated == IF DbgMayFail THEN 0..Len(DbgEntries) ELSE {Len(DbgEntries)}

\* htvic_debug_init: the directory, then the three files; a call that
\* returns an error or NULL ends it and leaves what was created in place.
\* probe ignores its result and goes on.
ProbeDebugInit ==
  /\ phase = "debug"
  /\ \E k \in DbgCreated : dbg' = {DbgEntries[j] : j \in 1..k}
  /\ phase' = "enable"
  /\ UNCHANGED << hwVars, hwid, mapped, requested, rmi, probes, devReq,
                  raises, hpc, risr, vect, cascade, clientOps >>

\* htvic_dbg_swirq_write: a write of the swirq file writes 1 to SWIR, a
\* software interrupt on vector 0, through the htvic its open stored.  The
\* VIC latches it as it does an input pulse: only if the vector is enabled.
SwirqWrite ==
  /\ "swirq" \in dbg
  /\ raises < MaxRaises
  /\ raises' = raises + 1
  /\ IF 0 \in imr /\ 0 \notin pending
       THEN LET s == Select(ctl, pending \cup {0}, cur)
            IN  pending' = pending \cup {0} /\ cur' = s.cur /\ var' = s.var
       ELSE UNCHANGED << pending, cur, var >>
  /\ UNCHANGED << ctl, imr, ivt, line, phase, hwid, mapped, requested, rmi,
                  probes, devReq, hpc, risr, vect, cascade, dbg, clientOps >>

\* The CTL write that enables the VIC ends probe.
ProbeEnable ==
  /\ phase = "enable"
  /\ ctl' = TRUE
  /\ LET s == Select(TRUE, pending, cur)
     IN  cur' = s.cur /\ var' = s.var
  /\ phase' = "bound"
  /\ UNCHANGED << imr, pending, ivt, line, hwid, mapped, requested, rmi,
                  probes, devReq, raises, hpc, risr, vect, cascade,
                  dbg, clientOps >>

(***************************************************************************)
(* htvic_remove.                                                           *)
(***************************************************************************)
\* Mutant: htvic_debug_exit is not called.
RemoveDisableNoDebugExit ==
  /\ phase = "bound"
  /\ imr' = {}
  /\ ctl' = FALSE
  /\ rmi' = 0
  /\ phase' = "rm_loop"
  /\ UNCHANGED << pending, cur, var, ivt, line, hwid, mapped, requested,
                  probes, devReq, raises, hpc, risr, vect, cascade,
                  dbg, clientOps >>

\* htvic_debug_exit: debugfs_remove_recursive takes the directory and the
\* files created in it; a directory that failed (NULL or an error pointer)
\* left nothing to remove.
DebugExit(d) == {}

\* htvic_debug_exit, then all lines, then the VIC, are disabled.
RemoveDisable ==
  /\ phase = "bound"
  /\ dbg' = DebugExit(dbg)
  /\ imr' = {}
  /\ ctl' = FALSE
  /\ rmi' = 0
  /\ phase' = "rm_loop"
  /\ UNCHANGED << pending, cur, var, ivt, line, hwid, mapped, requested,
                  probes, devReq, raises, hpc, risr, vect, cascade,
                  clientOps >>

\* Mutant: the loop runs one index past the table.
RemoveVectorPastEnd ==
  /\ phase = "rm_loop" /\ rmi <= NVec
  /\ ivt' = [i \in Vectors |-> IF i = rmi THEN hwid[i] ELSE ivt[i]]
  /\ mapped' = [i \in Vectors |-> IF i = rmi THEN FALSE ELSE mapped[i]]
  /\ devReq' = [i \in Vectors |-> IF i = rmi THEN FALSE ELSE devReq[i]]
  /\ rmi' = rmi + 1
  /\ UNCHANGED << ctl, imr, pending, cur, var, line, phase, hwid, requested,
                  probes, raises, hpc, risr, vect, cascade,
                  dbg, clientOps >>

\* Mutant: the table entry is not restored.
RemoveVectorNoRestore ==
  /\ phase = "rm_loop" /\ rmi < NVec
  /\ mapped' = [mapped EXCEPT ![rmi] = FALSE]
  /\ devReq' = [devReq EXCEPT ![rmi] = FALSE]
  /\ rmi' = rmi + 1
  /\ UNCHANGED << ctl, imr, pending, cur, var, ivt, line, phase, hwid,
                  requested, probes, raises, hpc, risr, vect, cascade,
                  dbg, clientOps >>

\* One turn of the loop: the saved entry is written back and the Linux irq
\* disposed of, together with the client's action on it.
RemoveVector ==
  /\ phase = "rm_loop" /\ rmi < NVec
  /\ ivt' = [ivt EXCEPT ![rmi] = hwid[rmi]]
  /\ mapped' = [mapped EXCEPT ![rmi] = FALSE]
  /\ devReq' = [devReq EXCEPT ![rmi] = FALSE]
  /\ rmi' = rmi + 1
  /\ UNCHANGED << ctl, imr, pending, cur, var, line, phase, hwid, requested,
                  probes, raises, hpc, risr, vect, cascade,
                  dbg, clientOps >>

\* free_irq waits for a running handler; then the domain is removed and
\* the device freed.
RemoveFreeIrq ==
  /\ phase = "rm_loop" /\ rmi = NVec
  /\ hpc = "idle"
  /\ requested' = FALSE
  /\ phase' = "unbound"
  /\ UNCHANGED << hwVars, hwid, mapped, rmi, probes, devReq, raises, hpc,
                  risr, vect, cascade, dbg, clientOps >>

(***************************************************************************)
(* The specification.                                                      *)
(***************************************************************************)
Init ==
  /\ ctl = FALSE /\ imr = {} /\ pending = {} /\ cur = NoVec /\ var = 0
  /\ ivt = IvtOrig
  /\ line = [v \in Vectors |-> FALSE]
  /\ phase = "unbound"
  /\ hwid = [v \in Vectors |-> 0]
  /\ mapped = [v \in Vectors |-> FALSE]
  /\ requested = FALSE /\ rmi = 0 /\ probes = 0
  /\ devReq = [v \in Vectors |-> FALSE]
  /\ raises = 0
  /\ hpc = "idle" /\ risr = {} /\ vect = 0 /\ cascade = 0
  /\ dbg = {} /\ clientOps = 0

Next ==
  \/ \E v \in Vectors :
       DeviceRaise(v) \/ VicLatch(v) \/ IrqStartup(v) \/ IrqShutdown(v)
  \/ HandlerEntry \/ HandlerVar \/ HandlerNested \/ HandlerEoi
  \/ ProbeStart \/ ProbeAckPending \/ ProbeMapping \/ ProbeRequestIrq
  \/ ProbeDebugInit \/ ProbeEnable \/ SwirqWrite
  \/ RemoveDisable \/ RemoveVector \/ RemoveFreeIrq

\* The VIC latches what it sees; the carrier keeps calling the handler
\* while the VIC's level output is high; the handler thread, and probe and
\* remove once started, run to their end.  Devices, client drivers and the
\* decisions to probe or remove are not forced.  free_irq unlinks the
\* action under the descriptor's lock, which a handler thread between two
\* invocations does not hold, so it is not starved by a handler called
\* again and again on the shared line: strong fairness.
Fairness ==
  /\ \A v \in Vectors : WF_vars(VicLatch(v))
  /\ WF_vars(IrqOut /\ HandlerEntry)
  /\ WF_vars(HandlerVar) /\ WF_vars(HandlerNested) /\ WF_vars(HandlerEoi)
  /\ WF_vars(ProbeAckPending) /\ WF_vars(ProbeMapping)
  /\ WF_vars(ProbeRequestIrq) /\ WF_vars(ProbeDebugInit)
  /\ WF_vars(ProbeEnable)
  /\ WF_vars(RemoveVector) /\ SF_vars(RemoveFreeIrq)

Spec == Init /\ [][Next]_vars /\ Fairness

(***************************************************************************)
(* Properties.                                                             *)
(***************************************************************************)
Phases == {"unbound", "ack", "map", "req", "debug", "enable", "bound",
           "rm_loop"}

\* Every variable holds a value of its type, and the remove loop index
\* stays within the vector table.
TypeOK ==
  /\ ctl \in BOOLEAN /\ requested \in BOOLEAN
  /\ imr \subseteq Vectors /\ pending \subseteq Vectors /\ risr \subseteq Vectors
  /\ cur \in Vectors \cup {NoVec}
  /\ var \in Nat /\ ivt \in [Vectors -> Nat] /\ hwid \in [Vectors -> Nat]
  /\ line \in [Vectors -> BOOLEAN] /\ mapped \in [Vectors -> BOOLEAN]
  /\ devReq \in [Vectors -> BOOLEAN]
  /\ phase \in Phases
  /\ rmi \in 0..NVec
  /\ probes \in 0..MaxProbes /\ raises \in 0..MaxRaises
  /\ hpc \in {"idle", "var", "nested", "eoi"}
  /\ vect \in Vectors /\ cascade \in 0..NVec
  /\ dbg \subseteq {DbgEntries[j] : j \in DOMAIN DbgEntries}
  /\ clientOps \in 0..MaxClientOps

\* While the VIC is enabled, the vector htvic_handler dispatches and then
\* acknowledges with EOI is the one the VIC has in service: the RISR test at
\* entry and the loop over the local copy never let the handler read a
\* stale VAR, so the EOI after the client's handler (htvic.c 312-317) always
\* retires the vector that was handled.
EoiAcksDispatchedVector ==
  (phase = "bound" /\ hpc \in {"nested", "eoi"}) => cur = vect

\* While HTVIC is bound, every VAR value htvic_handler reads names one of
\* the VIC's vectors, so the WARN exit for an invalid vector (htvic.c
\* 433-435), which returns without an EOI and leaves that vector in
\* service for good, is never taken: probe replaces every table entry by
\* its index before the VIC is enabled, and its ack loop ends with no
\* vector in service, so no entry of the platform's table reaches VAR,
\* through re-probes that follow removes racing the handler.  (Remove
\* itself writes the platform's entries back, line 605, before free_irq,
\* line 610, so a handler still looping then can read one.)
VarNamesVector ==
  phase = "bound" /\ hpc = "var" => var % 256 \in Vectors

\* Whenever the driver is not bound, the VIC's vector table holds what the
\* platform had put there (htvic_remove restores it from hwid).
IvtRestoredWhenUnbound ==
  phase = "unbound" => ivt = IvtOrig

\* A device that raised its interrupt while its client holds the Linux irq
\* is eventually acknowledged by the client's handler, through the cascade,
\* unless the client frees the irq or HTVIC is removed first.
LineServed ==
  \A v \in Vectors :
    (phase = "bound" /\ devReq[v] /\ line[v])
      ~> (~line[v] \/ ~devReq[v] \/ phase # "bound")

\* htvic_handler never calls handle_nested_irq, nor htvic_eoi, on an irq
\* that is not a mapping of the domain (cascade_irq 0).
NoDispatchUnmapped ==
  hpc \in {"nested", "eoi"} => cascade # 0

\* The swirq file never outlives the instance it writes to: while it
\* exists (a write through it uses the htvic pointer its open stored), the
\* htvic is the one whose handler is installed and whose vectors are all
\* mapped, through every probe that fails part-way, every debug_init that
\* fails part-way, and remove.
SwirqOnLiveDevice ==
  "swirq" \in dbg => requested /\ \A v \in Vectors : mapped[v]

\* Once htvic_remove has started, it returns: free_irq waits for a handler
\* thread that may still hold bits in its local RISR copy after CTL was
\* cleared (line 598), and that loop ends because every EOI moves VAR on
\* to a pending vector, so each turn clears one bit of the copy.
RemoveCompletes ==
  phase = "rm_loop" ~> phase = "unbound"

====
