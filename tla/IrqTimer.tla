------------------------------ MODULE IrqTimer ------------------------------
(***************************************************************************)
(* The down-counter of axi_irq_prj1 with its kernel driver axi_irq1: a     *)
(* process writes a 64-bit start value and reads; the read sleeps until    *)
(* the counter has run through zero and its interrupt has been handled,    *)
(* and returns the counter, whose top bit is then set.                     *)
(*                                                                         *)
(* A step of the driver is one access to a register of the counter: the    *)
(* driver changes the control register by reading and writing it, takes no *)
(* lock, and its interrupt handler may run on the other core in between.   *)
(* The counter is clocked at least once between two accesses.              *)
(***************************************************************************)
EXTENDS CounterRegisters

CONSTANTS
  Threads,      \* processes that open the device
  VALUES,       \* start values that are written
  Rearm,        \* TRUE: a process may write again without reading first
  SharedLine,   \* TRUE: another device on the line may run the handler too
  IrqFails,     \* TRUE: request_irq may fail
  MAX_HANDLERS  \* bound on handlers registered at once

ASSUME ValuesAssumption == VALUES \subseteq Counter
ASSUME FlagsAssumption == {Rearm, SharedLine, IrqFails} \subseteq BOOLEAN
ASSUME HandlersAssumption == MAX_HANDLERS \in Nat \ {0}

VARIABLES
  isr, isr_tmp,        \* where the handler is; what it read of ctrl
  irq_set, handlers,   \* the driver's flag; handlers really registered
  pc, tmp,             \* where each process is; what it read of ctrl
  arg, val             \* argument of write, result of read

isrVars == <<isr, isr_tmp>>
irqVars == <<irq_set, handlers>>
procVars == <<pc, tmp, arg, val>>
vars == <<regVars, isrVars, irqVars, procVars>>

\* Calls end in a user state; "closed" has no descriptor.
UserStates == {"opened", "armed", "got"}
\* Labels at which the control register is about to be read for an update, and
\* the label that follows the update.
Update == [clear |-> "set_low", load |-> "unload", unload |-> "enable",
           enable |-> "armed", disable |-> "free_irq"]
Labels == {"closed", "set_low", "set_high", "check", "sleep", "get_low", "get_high",
           "free_irq"} \cup UserStates \cup DOMAIN Update

NotRead == [read |-> FALSE, bits |-> {}]

TypeOK ==
  /\ slv_reg0 \in 0..Half - 1 /\ slv_reg1 \in 0..Half - 1
  /\ ctrl \subseteq Bits /\ int_counter \in Counter
  /\ isr \in {"idle", "read", "write", "wake"} /\ isr_tmp \in SUBSET Bits
  /\ irq_set \in BOOLEAN /\ handlers \in 0..MAX_HANDLERS
  /\ pc \in [Threads -> Labels] /\ tmp \in [Threads -> [read : BOOLEAN, bits : SUBSET Bits]]
  /\ arg \in [Threads -> Counter] /\ val \in [Threads -> Counter]

\* After reset and probe, before the first open.
Init ==
  /\ RegInit
  /\ isr = "idle" /\ isr_tmp = {}
  /\ irq_set = FALSE /\ handlers = 0
  /\ pc = [t \in Threads |-> "closed"] /\ tmp = [t \in Threads |-> NotRead]
  /\ arg = [t \in Threads |-> 0] /\ val = [t \in Threads |-> 0]

-----------------------------------------------------------------------------
(* The counter, clocked between two accesses *)

Tick == Count /\ UNCHANGED <<isrVars, irqVars, procVars>>

\* The clock after a register was written.
Loaded == LoadedOver(int_counter)

-----------------------------------------------------------------------------
(* tst1_irq *)

\* It runs when the line is up; it looks at the status register first.
IsrEnter ==
  /\ handlers > 0 /\ isr = "idle" /\ (Request \/ SharedLine)
  /\ isr' = IF Request THEN "read" ELSE "idle"
  /\ UNCHANGED <<regVars, isr_tmp, irqVars, procVars>>

\* Stop the counter and disable the interrupt: read the control register ...
IsrRead ==
  /\ isr = "read" /\ isr' = "write"
  /\ isr_tmp' = ctrl
  /\ UNCHANGED <<regVars, irqVars, procVars>>

\* ... and write it without the enable bit.
IsrWrite ==
  /\ isr = "write" /\ isr' = "wake"
  /\ ctrl' = isr_tmp \ {"irq_enable"}
  /\ UNCHANGED <<slv_reg0, slv_reg1>> /\ Loaded
  /\ UNCHANGED <<isr_tmp, irqVars, procVars>>

FaultyWoken(t) == pc[t]
Woken(t) == IF pc[t] = "sleep" THEN "check" ELSE pc[t]
IsrWake ==
  /\ isr = "wake" /\ isr' = "idle"
  /\ pc' = [t \in Threads |-> Woken(t)]
  /\ UNCHANGED <<regVars, isr_tmp, irqVars, tmp, arg, val>>

-----------------------------------------------------------------------------
(* Calls of a process *)

Goto(t, label) == pc' = [pc EXCEPT ![t] = label]

\* open returns success whether or not the handler could be registered.
Open(t) ==
  /\ pc[t] = "closed" /\ Goto(t, "opened")
  /\ \/ /\ handlers < MAX_HANDLERS
        /\ irq_set' = TRUE /\ handlers' = handlers + 1
     \/ /\ IrqFails
        /\ irq_set' = FALSE /\ UNCHANGED handlers
  /\ UNCHANGED <<regVars, isrVars, tmp, arg, val>>

Write(t, v) ==
  /\ pc[t] \in {"opened", "got"} \/ (Rearm /\ pc[t] = "armed")
  /\ Goto(t, "clear") /\ arg' = [arg EXCEPT ![t] = v]
  /\ UNCHANGED <<regVars, isrVars, irqVars, tmp, val>>

\* An update of the control register in two accesses.
Updated(op, bits) ==
  CASE op = "clear" -> bits \ Bits
    [] op = "load" -> bits \cup {"load_enable"}
    [] op = "unload" -> bits \ {"load_enable"}
    [] op = "enable" -> bits \cup {"irq_enable"}
    [] op = "disable" -> bits \ {"irq_enable"}

UpdateRead(t) ==
  /\ pc[t] \in DOMAIN Update /\ ~tmp[t].read
  /\ tmp' = [tmp EXCEPT ![t] = [read |-> TRUE, bits |-> ctrl]]
  /\ UNCHANGED <<regVars, isrVars, irqVars, pc, arg, val>>

UpdateWrite(t) ==
  /\ pc[t] \in DOMAIN Update /\ tmp[t].read
  /\ ctrl' = Updated(pc[t], tmp[t].bits)
  /\ UNCHANGED <<slv_reg0, slv_reg1>> /\ Loaded
  /\ tmp' = [tmp EXCEPT ![t] = NotRead]
  /\ Goto(t, Update[pc[t]])
  /\ UNCHANGED <<isrVars, irqVars, arg, val>>

SetLow(t) ==
  /\ pc[t] = "set_low" /\ Goto(t, "set_high")
  /\ slv_reg0' = arg[t] % Half /\ UNCHANGED <<slv_reg1, ctrl>> /\ Loaded
  /\ UNCHANGED <<isrVars, irqVars, tmp, arg, val>>

SetHigh(t) ==
  /\ pc[t] = "set_high" /\ Goto(t, "load")
  /\ slv_reg1' = arg[t] \div Half /\ UNCHANGED <<slv_reg0, ctrl>> /\ Loaded
  /\ UNCHANGED <<isrVars, irqVars, tmp, arg, val>>

Read(t) ==
  /\ pc[t] = "armed" /\ Goto(t, "check")
  /\ UNCHANGED <<regVars, isrVars, irqVars, tmp, arg, val>>

\* wait_event_interruptible: until the enable bit is clear.
Check(t) ==
  /\ pc[t] = "check"
  /\ Goto(t, IF "irq_enable" \notin ctrl THEN "get_low" ELSE "sleep")
  /\ UNCHANGED <<regVars, isrVars, irqVars, tmp, arg, val>>

ReadSignal(t) ==
  /\ pc[t] = "sleep" /\ Goto(t, "armed")
  /\ UNCHANGED <<regVars, isrVars, irqVars, tmp, arg, val>>

\* The 64-bit counter is read as two registers.
GetLow(t) ==
  /\ pc[t] = "get_low" /\ Goto(t, "get_high")
  /\ val' = [val EXCEPT ![t] = int_counter % Half]
  /\ UNCHANGED <<regVars, isrVars, irqVars, tmp, arg>>

GetHigh(t) ==
  /\ pc[t] = "get_high" /\ Goto(t, "got")
  /\ val' = [val EXCEPT ![t] = @ + (int_counter \div Half) * Half]
  /\ UNCHANGED <<regVars, isrVars, irqVars, tmp, arg>>

\* close, or the end of a killed process: the first half of tst1_release.
Close(t) ==
  /\ pc[t] \in UserStates /\ Goto(t, "disable")
  /\ UNCHANGED <<regVars, isrVars, irqVars, tmp, arg, val>>

\* free_irq waits for a running handler.
FaultyUnregistered == handlers
Unregistered == IF irq_set THEN handlers - 1 ELSE handlers
FreeIrq(t) ==
  /\ pc[t] = "free_irq" /\ (irq_set => isr = "idle") /\ Goto(t, "closed")
  /\ handlers' = Unregistered /\ irq_set' = FALSE
  /\ val' = [val EXCEPT ![t] = 0]
  /\ UNCHANGED <<regVars, isrVars, tmp, arg>>

-----------------------------------------------------------------------------
Handler == IsrRead \/ IsrWrite \/ IsrWake

InCall(t) ==
  \/ UpdateRead(t) \/ UpdateWrite(t) \/ SetLow(t) \/ SetHigh(t)
  \/ Check(t) \/ GetLow(t) \/ GetHigh(t) \/ FreeIrq(t)

Call(t) ==
  \/ Open(t) \/ Read(t) \/ ReadSignal(t) \/ Close(t)
  \/ \E v \in VALUES : Write(t, v)

Next ==
  \/ Tick
  \/ IsrEnter
  \/ Handler
  \/ \E t \in Threads : InCall(t) \/ Call(t)

Spec == Init /\ [][Next]_vars

\* The counter is clocked, a line that is up interrupts, and a handler or a
\* system call that has begun goes on; the user may stop making calls.
Fairness ==
  /\ WF_vars(Tick)
  /\ WF_vars(Request /\ IsrEnter)
  /\ WF_vars(Handler)
  /\ \A t \in Threads : WF_vars(InCall(t))
FairSpec == Spec /\ Fairness
-----------------------------------------------------------------------------
(* Properties *)

\* "Interrupts are on, so we should sleep and wait for interrupt"
\* (axi_irq1.c:75): what a read after a write returns is a counter that has
\* run through zero, not the remains of a run that something else stopped,
\* and its two halves belong together.
ReadExpired == \A t \in Threads : pc[t] = "got" => val[t] >= Top

\* When no process has the device open, no handler is registered and the
\* counter is stopped.
Released ==
  (\A t \in Threads : pc[t] = "closed") => handlers = 0 /\ "irq_enable" \notin ctrl

\* A read gets its answer: no interrupt and no wake-up is lost between
\* counter, handler and sleeper, provided that open could register the handler.
ReadReturns ==
  \A t \in Threads :
    pc[t] = "check" /\ handlers > 0 ~> pc[t] \notin {"check", "sleep"}
=============================================================================
