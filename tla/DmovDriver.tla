----------------------------- MODULE DmovDriver -----------------------------
(***************************************************************************)
(* The axi4s2dmov kernel driver (axi_dma_prj2): a ring of BUF_NUM DMA      *)
(* buffers that an AXI DataMover fills from a stream.  The driver writes   *)
(* one transfer command per buffer into an AXI FIFO, the DataMover answers *)
(* with one status word per command, the interrupt handler turns statuses  *)
(* into "ready" flags, and ioctl callers GET a ready buffer and CONFIRM it,*)
(* which resubmits its command.                                            *)
(*                                                                         *)
(* tst1_ioctl is an unlocked_ioctl: it takes no lock, and the handler runs *)
(* on the other core.  Every process step below is therefore one access    *)
(* (or one group of accesses that nobody else can tell apart) to the       *)
(* globals or to the hardware.                                             *)
(*                                                                         *)
(* The FIFO, the DataMover and the packet generator are external to the C  *)
(* source: they are modelled from how the driver uses them and from the    *)
(* block design, where GPIO bit 0 resets all of them (design_1.bd).        *)
(*                                                                         *)
(* An operator named Faulty... is a fault seeded on purpose, the way a slip *)
(* in the code would; no specification uses it.                            *)
(***************************************************************************)
EXTENDS Integers, Sequences, FiniteSets

CONSTANTS
  BUF_NUM,     \* number of DMA buffers in the ring
  PKTS,        \* packets are numbered cyclically 1..PKTS
  Threads,     \* processes that open the device, one descriptor each
  Kinds,       \* what a DataMover status may say: "okay", "error"
  FreeOrder,   \* FALSE: calls come in the order a4s2d_app.c makes them
  SharedLine,  \* TRUE: another device on the line may run our handler too
  FIFO_DEPTH,  \* commands the transmit FIFO, statuses the receive FIFO holds
  MAX_HANDLERS \* bound on handlers registered at once

\* The tag of a command is a nibble (AXI_DM status bits 3..0).
ASSUME BufNumAssumption == BUF_NUM \in 1..16
ASSUME PktsAssumption == PKTS \in Nat \ {0}
ASSUME KindsAssumption == Kinds \subseteq {"okay", "error"}
ASSUME FlagsAssumption == FreeOrder \in BOOLEAN /\ SharedLine \in BOOLEAN
ASSUME BoundsAssumption == FIFO_DEPTH \in Nat /\ MAX_HANDLERS \in Nat

Buf == 0..BUF_NUM - 1
Packet == 1..PKTS
Lens == 0..PKTS      \* a packet's length stands for the packet; 0: cleared

\* The buffer after b in the ring: the "+= 1, back to 0" of exp_buf, received_buf.
FaultySucc(b) == IF b = BUF_NUM THEN 0 ELSE b + 1
Succ(b) == IF b + 1 = BUF_NUM THEN 0 ELSE b + 1
\* The packet the generator makes after p.
SuccPacket(p) == IF p = PKTS THEN 1 ELSE p + 1

\* Labels at which a process is in user space: what it called last.
UserStates == {"opened", "after_reset", "running", "got", "stopped"}
\* Labels inside a system call.
KernelStates ==
  {"reset_hold", "reset_fifo", "start_submit", "start_enable", "start_go",
   "get_wait", "get_sleep", "get_read", "confirm_clear", "confirm_submit",
   "confirm_next", "release_stop", "release_irq"}
Labels == {"closed"} \cup UserStates \cup KernelStates
IsrLabels == {"idle", "occupancy", "length", "status", "store", "wake"}

VARIABLES
  resetn, start,   \* the two GPIO outputs that ksgpio drives
  ier, isr_rc,     \* AXI FIFO: receive-complete interrupt enabled / pending
  cmds,            \* commands (buffer numbers) the DataMover has not finished
  dm_busy,         \* the DataMover is writing the buffer of Head(cmds)
  stsq,            \* statuses in the receive FIFO
  mem,             \* packet held by each buffer; 0: no complete packet
  src,             \* next packet of the generator
  bready, blen, received_buf, exp_buf, is_started, \* the driver's globals
  irq_set, handlers, \* the driver's flag, and handlers really registered
  isr, nbuf,       \* where the interrupt handler is; its decoded buffer
  pc, idx,         \* where each process is; loop counter of ADM_START
  held,            \* what the last ADM_GET of each process returned
  want             \* history: packet the next ADM_GET has to deliver

gpioVars == <<resetn, start>>
fifoVars == <<ier, isr_rc, stsq>>
dmVars == <<cmds, dm_busy, mem, src>>
ringVars == <<bready, blen, received_buf, exp_buf>>
irqVars == <<irq_set, handlers>>
isrVars == <<isr, nbuf>>
procVars == <<pc, idx, held, want>>
vars == <<gpioVars, fifoVars, dmVars, ringVars, is_started, irqVars, isrVars, procVars>>

Status == [tag : Buf, kind : {"okay", "error"}, len : Lens]
Result == [buf : Buf, len : Lens]
NoResult == [buf |-> 0, len |-> 0]

TypeOK ==
  /\ resetn \in BOOLEAN /\ start \in BOOLEAN
  /\ ier \in BOOLEAN /\ isr_rc \in BOOLEAN
  /\ cmds \in Seq(Buf) /\ dm_busy \in BOOLEAN
  /\ stsq \in Seq(Status)
  /\ mem \in [Buf -> Lens] /\ src \in Packet
  /\ bready \in [Buf -> {0, 1}] /\ blen \in [Buf -> Lens]
  /\ received_buf \in Buf /\ exp_buf \in Buf
  /\ is_started \in BOOLEAN
  /\ irq_set \in BOOLEAN /\ handlers \in Nat
  /\ isr \in IsrLabels /\ nbuf \in Buf
  /\ pc \in [Threads -> Labels] /\ idx \in [Threads -> 0..BUF_NUM]
  /\ held \in [Threads -> Result] /\ want \in Packet

\* State after both modules are probed: ksgpio drives both lines high
\* (GPIOD_OUT_HIGH), nothing is submitted, the device is closed.
Init ==
  /\ resetn = TRUE /\ start = TRUE
  /\ ier = FALSE /\ isr_rc = FALSE /\ stsq = <<>>
  /\ cmds = <<>> /\ dm_busy = FALSE
  /\ mem = [b \in Buf |-> 0] /\ src = 1
  /\ bready = [b \in Buf |-> 0] /\ blen = [b \in Buf |-> 0]
  /\ received_buf = 0 /\ exp_buf = 0 /\ is_started = FALSE
  /\ irq_set = FALSE /\ handlers = 0
  /\ isr = "idle" /\ nbuf = 0
  /\ pc = [t \in Threads |-> "closed"] /\ idx = [t \in Threads |-> 0]
  /\ held = [t \in Threads |-> NoResult] /\ want = 1

-----------------------------------------------------------------------------
(* Hardware, external *)

\* The DataMover takes a packet of the stream into the oldest command's buffer.
DmBegin ==
  /\ resetn /\ start /\ cmds # <<>> /\ ~dm_busy
  /\ dm_busy' = TRUE
  /\ mem' = [mem EXCEPT ![Head(cmds)] = 0]
  /\ UNCHANGED <<gpioVars, fifoVars, cmds, src, ringVars, is_started, irqVars,
                 isrVars, procVars>>

\* It finishes the command: the packet is in memory and the status, one packet
\* of the receive FIFO, raises receive-complete.  A full FIFO makes it wait.
DmComplete(kind) ==
  /\ dm_busy /\ Len(stsq) < FIFO_DEPTH
  /\ dm_busy' = FALSE
  /\ cmds' = Tail(cmds)
  /\ mem' = [mem EXCEPT ![Head(cmds)] = IF kind = "okay" THEN src ELSE 0]
  /\ stsq' = Append(stsq, [tag |-> Head(cmds), kind |-> kind, len |-> src])
  /\ src' = SuccPacket(src)
  /\ isr_rc' = TRUE
  /\ UNCHANGED <<gpioVars, ier, ringVars, is_started, irqVars, isrVars, procVars>>

-----------------------------------------------------------------------------
(* tst1_irq *)

\* The kernel calls the handler, which sees bit 26 of ISR and clears ISR.
IsrEnter ==
  /\ isr = "idle" /\ handlers > 0
  /\ ier \/ SharedLine
  /\ isr_rc
  /\ isr_rc' = FALSE
  /\ isr' = "occupancy"
  /\ UNCHANGED <<gpioVars, ier, stsq, dmVars, ringVars, is_started, irqVars, nbuf,
                 procVars>>

\* Reads RDFO; an empty FIFO ends the loop.
IsrOccupancy ==
  /\ isr = "occupancy"
  /\ isr' = IF stsq = <<>> THEN "wake" ELSE "length"
  /\ UNCHANGED <<gpioVars, fifoVars, dmVars, ringVars, is_started, irqVars, nbuf,
                 procVars>>

\* Reads RLR: 4 for a status, 0 when a reset emptied the FIFO meanwhile.
IsrLength ==
  /\ isr = "length"
  /\ isr' = IF stsq = <<>> THEN "wake" ELSE "status"
  /\ UNCHANGED <<gpioVars, fifoVars, dmVars, ringVars, is_started, irqVars, nbuf,
                 procVars>>

\* Reads RDFD (a word without OKAY when the FIFO is empty) and decodes it: a
\* status without OKAY is dropped and ends the loop.
IsrStatusBad ==
  /\ isr = "status"
  /\ \/ stsq = <<>> /\ stsq' = stsq
     \/ stsq # <<>> /\ Head(stsq).kind # "okay" /\ stsq' = Tail(stsq)
  /\ isr' = "wake"
  /\ UNCHANGED <<gpioVars, ier, isr_rc, dmVars, ringVars, is_started, irqVars, nbuf,
                 procVars>>

IsrStatusOkay ==
  /\ isr = "status"
  /\ stsq # <<>> /\ Head(stsq).kind = "okay"
  /\ stsq' = Tail(stsq)
  /\ nbuf' = Head(stsq).tag
  /\ blen' = [blen EXCEPT ![Head(stsq).tag] = Head(stsq).len]
  /\ isr' = "store"
  /\ UNCHANGED <<gpioVars, ier, isr_rc, dmVars, bready, received_buf, exp_buf,
                 is_started, irqVars, procVars>>

\* Marks the buffer ready and advances exp_buf.
IsrReady ==
  /\ isr = "store"
  /\ bready' = [bready EXCEPT ![nbuf] = 1]
  /\ exp_buf' = Succ(exp_buf)
  /\ isr' = "occupancy"
  /\ UNCHANGED <<gpioVars, fifoVars, dmVars, blen, received_buf, is_started, irqVars,
                 nbuf, procVars>>

\* wake_up_interruptible on readqueue, after the loop, however it ended.
FaultyIsrWake ==
  /\ isr = "wake"
  /\ isr' = "idle"
  /\ isr_rc' = FALSE      \* clears the interrupt at the end of the handler
  /\ pc' = [t \in Threads |-> IF pc[t] = "get_sleep" THEN "get_wait" ELSE pc[t]]
  /\ UNCHANGED <<gpioVars, ier, stsq, dmVars, ringVars, is_started, irqVars, nbuf,
                 idx, held, want>>
IsrWake ==
  /\ isr = "wake"
  /\ isr' = "idle"
  /\ pc' = [t \in Threads |-> IF pc[t] = "get_sleep" THEN "get_wait" ELSE pc[t]]
  /\ UNCHANGED <<gpioVars, fifoVars, dmVars, ringVars, is_started, irqVars, nbuf,
                 idx, held, want>>

-----------------------------------------------------------------------------
(* System calls.  A call starts at a user label and ends at the label that    *)
(* names it; an error return ends there too, the caller looks at no errno.    *)

Goto(t, l) == pc' = [pc EXCEPT ![t] = l]

\* transfer_buf(i): three words and the length 9 commit one command.  The driver
\* does not look at the vacancy of the FIFO: a full one loses the command.
TransferBuf(i) ==
  cmds' = IF Len(cmds) < FIFO_DEPTH THEN Append(cmds, i) ELSE cmds

\* A process may make a call now.
MayCall(t, after) == IF FreeOrder THEN pc[t] \in UserStates ELSE pc[t] \in after

Open(t) ==
  /\ pc[t] = "closed"
  /\ \/ /\ handlers < MAX_HANDLERS
        /\ irq_set' = TRUE /\ handlers' = handlers + 1
     \/ irq_set' = FALSE /\ handlers' = handlers  \* request_irq failed
  /\ Goto(t, "opened")
  /\ UNCHANGED <<gpioVars, fifoVars, dmVars, ringVars, is_started, isrVars, idx,
                 held, want>>

\* What the reset line clears in the FIFO and the DataMover.
FaultyHardwareReset ==
  ier' = FALSE /\ isr_rc' = FALSE /\ stsq' = <<>> /\ UNCHANGED <<cmds, dm_busy>>
HardwareReset ==
  ier' = FALSE /\ isr_rc' = FALSE /\ stsq' = <<>> /\ cmds' = <<>> /\ dm_busy' = FALSE

\* ADM_RESET asserts the reset line: FIFO, DataMover and generator lose all.
ResetAssert(t) ==
  /\ MayCall(t, {"opened"})
  /\ resetn' = FALSE
  /\ HardwareReset
  /\ src' = 1
  /\ Goto(t, "reset_hold")
  /\ UNCHANGED <<start, mem, ringVars, is_started, irqVars, isrVars, idx, held, want>>

\* start goes low, and after mdelay(100), which outlasts a running handler,
\* the reset line is released.
ResetRelease(t) ==
  /\ pc[t] = "reset_hold"
  /\ isr = "idle"
  /\ start' = FALSE /\ resetn' = TRUE
  /\ Goto(t, "reset_fifo")
  /\ UNCHANGED <<fifoVars, dmVars, ringVars, is_started, irqVars, isrVars, idx, held,
                 want>>

\* 0xa5 to the three FIFO reset registers.  A command the DataMover is
\* executing is out of their reach.
ResetFifo(t) ==
  /\ pc[t] = "reset_fifo"
  /\ cmds' = IF dm_busy THEN <<Head(cmds)>> ELSE <<>>
  /\ stsq' = <<>>
  /\ Goto(t, "after_reset")
  /\ UNCHANGED <<gpioVars, ier, isr_rc, dm_busy, mem, src, ringVars, is_started,
                 irqVars, isrVars, idx, held, want>>

\* What ADM_START resets before it submits anything.
FaultyKeepsExpected ==
  received_buf' = 0 /\ exp_buf' = exp_buf /\ bready' = [b \in Buf |-> 0]
FaultyKeepsReceived ==
  received_buf' = received_buf /\ exp_buf' = 0 /\ bready' = [b \in Buf |-> 0]
FaultyKeepsReady ==
  received_buf' = 0 /\ exp_buf' = 0 /\ bready' = bready
ClearRing ==
  exp_buf' = 0 /\ received_buf' = 0 /\ bready' = [b \in Buf |-> 0]

StartRefused(t) ==
  /\ MayCall(t, {"after_reset"})
  /\ is_started
  /\ Goto(t, "running")
  /\ UNCHANGED <<gpioVars, fifoVars, dmVars, ringVars, is_started, irqVars, isrVars,
                 idx, held, want>>

StartClear(t) ==
  /\ MayCall(t, {"after_reset"})
  /\ ~is_started
  /\ ClearRing
  /\ want' = 1
  /\ idx' = [idx EXCEPT ![t] = 0]
  /\ Goto(t, "start_submit")
  /\ UNCHANGED <<gpioVars, fifoVars, dmVars, blen, is_started, irqVars, isrVars, held>>

\* One round of the loop that submits all buffers.
StartSubmit(t) ==
  /\ pc[t] = "start_submit"
  /\ \/ /\ idx[t] < BUF_NUM
        /\ TransferBuf(idx[t])
        /\ idx' = [idx EXCEPT ![t] = @ + 1]
        /\ pc' = pc
     \/ /\ idx[t] = BUF_NUM
        /\ cmds' = cmds
        /\ idx' = [idx EXCEPT ![t] = 0]
        /\ Goto(t, "start_enable")
  /\ UNCHANGED <<gpioVars, fifoVars, dm_busy, mem, src, ringVars, is_started, irqVars,
                 isrVars, held, want>>

StartEnable(t) ==
  /\ pc[t] = "start_enable"
  /\ ier' = TRUE
  /\ Goto(t, "start_go")
  /\ UNCHANGED <<gpioVars, isr_rc, stsq, dmVars, ringVars, is_started, irqVars,
                 isrVars, idx, held, want>>

StartGo(t) ==
  /\ pc[t] = "start_go"
  /\ start' = TRUE
  /\ is_started' = TRUE
  /\ Goto(t, "running")
  /\ UNCHANGED <<resetn, fifoVars, dmVars, ringVars, irqVars, isrVars, idx, held, want>>

\* ADM_STOP disables the interrupt and clears is_started, nothing else.
Stop(t) ==
  /\ MayCall(t, {"running"})
  /\ ier' = FALSE
  /\ is_started' = FALSE
  /\ Goto(t, "stopped")
  /\ UNCHANGED <<gpioVars, isr_rc, stsq, dmVars, ringVars, irqVars, isrVars, idx,
                 held, want>>

GetCall(t) ==
  /\ MayCall(t, {"running"})
  /\ Goto(t, "get_wait")
  /\ UNCHANGED <<gpioVars, fifoVars, dmVars, ringVars, is_started, irqVars, isrVars,
                 idx, held, want>>

\* The condition ADM_GET waits for.
FaultyCondition == bready[received_buf] >= 0
BufReady == bready[received_buf] > 0

\* wait_event_interruptible: on the queue already, it tests the condition.
GetWait(t) ==
  /\ pc[t] = "get_wait"
  /\ Goto(t, IF BufReady THEN "get_read" ELSE "get_sleep")
  /\ UNCHANGED <<gpioVars, fifoVars, dmVars, ringVars, is_started, irqVars, isrVars,
                 idx, held, want>>

\* A signal ends the sleep with -ERESTARTSYS.
GetSignal(t) ==
  /\ pc[t] = "get_sleep"
  /\ Goto(t, "running")
  /\ UNCHANGED <<gpioVars, fifoVars, dmVars, ringVars, is_started, irqVars, isrVars,
                 idx, held, want>>

\* The globals are read again for the result.
GetRead(t) ==
  /\ pc[t] = "get_read"
  /\ held' = [held EXCEPT ![t] = [buf |-> received_buf, len |-> blen[received_buf]]]
  /\ Goto(t, "got")
  /\ UNCHANGED <<gpioVars, fifoVars, dmVars, ringVars, is_started, irqVars, isrVars,
                 idx, want>>

\* ADM_CONFIRM of a buffer that is not ready is refused.
Confirmable == bready[received_buf] # 0

ConfirmCall(t) ==
  /\ MayCall(t, {"got"})
  /\ Goto(t, IF Confirmable THEN "confirm_clear" ELSE "running")
  /\ held' = [held EXCEPT ![t] = NoResult]
  /\ UNCHANGED <<gpioVars, fifoVars, dmVars, ringVars, is_started, irqVars, isrVars,
                 idx, want>>

ConfirmClear(t) ==
  /\ pc[t] = "confirm_clear"
  /\ blen' = [blen EXCEPT ![received_buf] = 0]
  /\ bready' = [bready EXCEPT ![received_buf] = 0]
  /\ Goto(t, "confirm_submit")
  /\ UNCHANGED <<gpioVars, fifoVars, dmVars, received_buf, exp_buf, is_started,
                 irqVars, isrVars, idx, held, want>>

ConfirmSubmit(t) ==
  /\ pc[t] = "confirm_submit"
  /\ TransferBuf(received_buf)
  /\ Goto(t, "confirm_next")
  /\ UNCHANGED <<gpioVars, fifoVars, dm_busy, mem, src, ringVars, is_started, irqVars,
                 isrVars, idx, held, want>>

ConfirmNext(t) ==
  /\ pc[t] = "confirm_next"
  /\ received_buf' = Succ(received_buf)
  /\ want' = SuccPacket(want)
  /\ Goto(t, "running")
  /\ UNCHANGED <<gpioVars, fifoVars, dmVars, bready, blen, exp_buf, is_started,
                 irqVars, isrVars, idx, held>>

\* close(), or the kernel closing for a killed process.
Close(t) ==
  /\ pc[t] \in UserStates
  /\ Goto(t, "release_stop")
  /\ held' = [held EXCEPT ![t] = NoResult]
  /\ UNCHANGED <<gpioVars, fifoVars, dmVars, ringVars, is_started, irqVars, isrVars,
                 idx, want>>

\* The first half of tst1_release stops a running acquisition.
FaultyStopAcquisition == ier' = ier /\ is_started' = FALSE
StopAcquisition == ier' = (ier /\ ~is_started) /\ is_started' = FALSE

ReleaseStop(t) ==
  /\ pc[t] = "release_stop"
  /\ StopAcquisition
  /\ Goto(t, "release_irq")
  /\ UNCHANGED <<gpioVars, isr_rc, stsq, dmVars, ringVars, irqVars, isrVars, idx,
                 held, want>>

\* free_irq waits until no handler runs.
ReleaseIrq(t) ==
  /\ pc[t] = "release_irq"
  /\ \/ irq_set /\ isr = "idle" /\ handlers' = handlers - 1
     \/ ~irq_set /\ handlers' = handlers
  /\ irq_set' = FALSE
  /\ Goto(t, "closed")
  /\ UNCHANGED <<gpioVars, fifoVars, dmVars, ringVars, is_started, isrVars, idx, held,
                 want>>

-----------------------------------------------------------------------------
Hardware == DmBegin \/ \E kind \in Kinds : DmComplete(kind)

Handler ==
  \/ IsrOccupancy \/ IsrLength \/ IsrStatusBad \/ IsrStatusOkay
  \/ IsrReady \/ IsrWake

\* What the kernel runs on its own once a call has been made.
InCall(t) ==
  \/ ResetRelease(t) \/ ResetFifo(t)
  \/ StartSubmit(t) \/ StartEnable(t) \/ StartGo(t)
  \/ GetWait(t) \/ GetRead(t)
  \/ ConfirmClear(t) \/ ConfirmSubmit(t) \/ ConfirmNext(t)
  \/ ReleaseStop(t) \/ ReleaseIrq(t)

\* What the user decides: calls and signals.
Call(t) ==
  \/ Open(t) \/ ResetAssert(t) \/ StartRefused(t) \/ StartClear(t) \/ Stop(t)
  \/ GetCall(t) \/ GetSignal(t) \/ ConfirmCall(t) \/ Close(t)

Next == Hardware \/ IsrEnter \/ Handler \/ \E t \in Threads : InCall(t) \/ Call(t)

Spec == Init /\ [][Next]_vars

\* The stream never dries up and the DataMover keeps working; an asserted
\* interrupt line runs the handler and the handler runs to its end; a process
\* inside a call is scheduled.  Nothing is assumed of the user, nor of the other
\* devices on the line.
Fairness ==
  /\ WF_vars(Hardware)
  /\ WF_vars(ier /\ IsrEnter)
  /\ WF_vars(Handler)
  /\ \A t \in Threads : WF_vars(InCall(t))

FairSpec == Spec /\ Fairness

-----------------------------------------------------------------------------
(* Properties *)

\* A buffer has one owner.  No two commands or statuses carry the same buffer,
\* and a buffer the user may read (ready) is not in the hardware's hands: the
\* DataMover cannot overwrite it, nor can a late status mark it ready again.
OneOwner ==
  /\ \A i, j \in DOMAIN cmds : cmds[i] = cmds[j] => i = j
  /\ \A i, j \in DOMAIN stsq : stsq[i].tag = stsq[j].tag => i = j
  /\ \A i \in DOMAIN cmds, j \in DOMAIN stsq : cmds[i] # stsq[j].tag
  /\ \A i \in DOMAIN cmds : bready[cmds[i]] = 0
  /\ \A j \in DOMAIN stsq : bready[stsq[j].tag] = 0
  /\ isr = "store" =>
       /\ \A i \in DOMAIN cmds : cmds[i] # nbuf
       /\ \A j \in DOMAIN stsq : stsq[j].tag # nbuf
       /\ bready[nbuf] = 0

\* Until it confirms, the caller of ADM_GET has a whole packet in the buffer it
\* was given, of the length it was given, whatever the hardware does meanwhile.
HeldIsIntact ==
  \A t \in Threads :
    pc[t] = "got" => held[t].len # 0 /\ mem[held[t].buf] = held[t].len

\* Packets are delivered in stream order, none lost or repeated, from the first
\* one after ADM_START: across wraps of the ring, and across a killed reader
\* and its successor.
InOrder ==
  \A t \in Threads : pc[t] = "got" => held[t].len = want

\* The "Incorrect buffer number" message of tst1_irq never appears.
ExpectedTag == isr = "store" => nbuf = exp_buf

\* After ADM_RESET nothing of the previous run is left that could reach the
\* driver: no command, no status, no pending interrupt, no handler at work.
ResetQuiesces ==
  \A t \in Threads :
    pc[t] = "after_reset" => cmds = <<>> /\ stsq = <<>> /\ ~isr_rc /\ isr = "idle"

\* Once every descriptor is closed, the way it was opened or by a kill, the
\* interrupt is disabled and no handler stays registered (tst1_release).
Released ==
  (\A t \in Threads : pc[t] = "closed") => handlers = 0 /\ ~ier /\ ~is_started

\* An ADM_GET made while the acquisition runs returns: no completion or wake-up
\* is lost, however DataMover, handler and caller interleave.
GetReturns ==
  \A t \in Threads :
    (pc[t] = "get_wait" /\ is_started /\ handlers > 0) ~> pc[t] \in {"got", "running"}

\* What the comment in ADM_STOP says stopping means: "We stop resending the
\* descriptors" (axi4s2dmov.c:260).
StopStopsResending ==
  [][\A t \in Threads :
       pc[t] = "confirm_submit" /\ pc'[t] = "confirm_next" => is_started]_vars
=============================================================================
