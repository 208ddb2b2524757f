------------------------------ MODULE MCDrivers ------------------------------
(***************************************************************************)
(* The kernel drivers for TLC, apart from the data paths of the two DMA    *)
(* drivers.  A behaviour shows the timer in use, the life of the modules,  *)
(* or the attributes of multi-gpio.                                        *)
(***************************************************************************)
EXTENDS IrqTimer, PlatformDriver, GpioGroups

VARIABLE use

driversVars == <<use, vars, platformVars, groupVars>>

\* Every driver by itself, and the one that needs another with it.
MCBoards == {{d} : d \in Drivers \ {"axi4s2dmov"}} \cup {{"ksgpio", "axi4s2dmov"}}
MCRebound == Drivers \ {"axi4s2dma", "ksgpio"}
\* dout1 is as wide as a long.
MCWidth == [dout1 |-> LONG_BITS, dout2 |-> LONG_BITS - 1, din |-> 1]
MCNumbers == {-LONG_BITS, 1}

DriversInit ==
  /\ use \in {"timer", "modules", "attributes"}
  /\ Init /\ GroupInit
  /\ IF use = "modules" THEN PlatformInit ELSE PlatformInit /\ installed = {"multi-gpio"}

DriversNext ==
  /\ UNCHANGED use
  /\ \/ use = "timer" /\ Next /\ UNCHANGED <<platformVars, groupVars>>
     \/ use = "modules" /\ PlatformNext /\ UNCHANGED <<vars, groupVars>>
     \/ use = "attributes" /\ GroupNext(MCNumbers) /\ UNCHANGED <<vars, platformVars>>

\* The fairness of the timer; modules and attributes need none.
TimerFairness ==
  /\ WF_vars(use = "timer" /\ Tick)
  /\ WF_vars(use = "timer" /\ Request /\ IsrEnter)
  /\ WF_vars(use = "timer" /\ Handler)
  /\ \A t \in Threads : WF_vars(use = "timer" /\ InCall(t))

DriversSpec == DriversInit /\ [][DriversNext]_driversVars /\ TimerFairness
-----------------------------------------------------------------------------
(* Properties *)

DriversTypeOK == TypeOK /\ PlatformTypeOK /\ GroupTypeOK
==============================================================================
