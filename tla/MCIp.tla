-------------------------------- MODULE MCIp --------------------------------
(***************************************************************************)
(* The IP of axi_irq_prj1 for TLC.  A behaviour uses one part of it: the   *)
(* counter, the test of the memory, or the interrupt controller, which has *)
(* an AXI port of its own.                                                 *)
(***************************************************************************)
EXTENDS WzabIp, IntrSlave

VARIABLE use

vars == <<use, ipVars, intrVars>>

PortTypeOK ==
  /\ {awvalid, wvalid, arvalid, axi_awready, axi_bvalid, axi_arready, axi_rvalid}
       \subseteq BOOLEAN
  /\ axi_rdata \in 0..7 \cup 0..View!Half - 1

TypeOK ==
  /\ PortTypeOK /\ BankTypeOK /\ MasterTypeOK /\ SoftTypeOK /\ IntrTypeOK

Init ==
  /\ use \in {"counter", "memory test", "interrupts"}
  /\ AxiInit /\ BankInit /\ MasterInit /\ SoftInit /\ IntrInit

-----------------------------------------------------------------------------
(* Registers and values that the masters use.  A choice is offered only where *)
(* it matters; awready and arready count for the master at any time.          *)

When(matters) == IF matters THEN BOOLEAN ELSE {TRUE}

CounterWrites ==
  [addr : {0}, data : {1}] \cup [addr : {4}, data : {1}]
    \cup [addr : {12}, data : {0, 2, 4, 6}]
IntrWrites == [addr : {0, 4, 12}, data : {0, 1}]

CounterClock(bready, rready) ==
  /\ BankClock(bready, rready, FALSE, FALSE)
  /\ UNCHANGED <<masterVars, softVars, intrVars>>

CounterNext ==
  \/ /\ \/ \E cmd \in CounterWrites : StartWrite(cmd)
        \/ \E addr \in {0, 8} : StartRead(addr)
        \/ OfferRest
     /\ UNCHANGED <<bankVars, masterVars, softVars, intrVars>>
  \/ \E bready \in When(axi_bvalid), rready \in When(axi_rvalid) : CounterClock(bready, rready)
  \/ AxiReset /\ BankReset /\ UNCHANGED <<masterVars, softVars, intrVars>>

TestClock(bready, rready, awready, wready, arready, answer) ==
  /\ IpClock(bready, rready, awready, wready, arready, answer)
  /\ UNCHANGED intrVars

TestNext ==
  \/ /\ (\E start \in BOOLEAN : Command(start)) \/ Poll
     /\ UNCHANGED <<bankVars, masterVars, intrVars>>
  \/ OfferRest /\ UNCHANGED <<bankVars, masterVars, softVars, intrVars>>
  \/ \E bready \in When(axi_bvalid), rready \in When(axi_rvalid), awready, arready \in BOOLEAN,
        wready \in When(axi_wvalid), answer \in When(WriteAccepted \/ m_raddr # NoWord) :
       TestClock(bready, rready, awready, wready, arready, answer)
  \/ IpReset /\ UNCHANGED intrVars

IntrPortClock(bready, rready) ==
  IntrClock(bready, rready) /\ UNCHANGED <<bankVars, masterVars, softVars>>

IntrNext ==
  \/ /\ \/ \E cmd \in IntrWrites : StartWrite(cmd)
        \/ \E addr \in {8, 16} : StartRead(addr)
        \/ OfferRest
     /\ UNCHANGED <<bankVars, masterVars, softVars, intrVars>>
  \/ \E bready \in When(axi_bvalid), rready \in When(axi_rvalid) : IntrPortClock(bready, rready)
  \/ AxiReset /\ IntrReset /\ UNCHANGED <<bankVars, masterVars, softVars>>

Next ==
  /\ UNCHANGED use
  /\ \/ use = "counter" /\ CounterNext
     \/ use = "memory test" /\ TestNext
     \/ use = "interrupts" /\ IntrNext

Spec == Init /\ [][Next]_vars

-----------------------------------------------------------------------------
(* Whatever waits in a handshake meets, in the end, an edge at which the    *)
(* master of the registers and the memory are both ready.                   *)

ReadyClock ==
  /\ UNCHANGED use
  /\ \/ use = "counter" /\ CounterClock(TRUE, TRUE)
     \/ use = "memory test" /\ TestClock(TRUE, TRUE, TRUE, TRUE, TRUE, TRUE)
     \/ use = "interrupts" /\ IntrPortClock(TRUE, TRUE)

Offer == OfferRest /\ UNCHANGED <<use, bankVars, masterVars, softVars, intrVars>>

Fairness ==
  /\ WF_vars(Offer)
  /\ WF_vars(ReadyClock)
  /\ WF_vars(axi_bvalid /\ ReadyClock) /\ WF_vars(axi_rvalid /\ ReadyClock)
  /\ WF_vars(axi_awvalid /\ ReadyClock) /\ WF_vars(axi_wvalid /\ ReadyClock)
  /\ WF_vars(axi_arvalid /\ ReadyClock)
  /\ WF_vars((WriteAccepted \/ m_raddr # NoWord) /\ ReadyClock)
FairSpec == Spec /\ Fairness
-----------------------------------------------------------------------------
(* Properties *)

\* The bank does to the counter what its driver thinks: a register written acts
\* as a whole, once, with the load, however clocks and accesses meet.
DriverView == View!RegSpec

\* Every access of the registers gets its answer, and every test of the memory
\* comes to an end, whenever the partners of a handshake are ready.
AllEnds == AccessEnds /\ TestEnds
=============================================================================
