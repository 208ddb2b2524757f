------------------------------- MODULE WzabIp -------------------------------
(***************************************************************************)
(* The IP wzab_ip_ms_v1_0: its register bank (TimerSlave) wired to its AXI *)
(* master (BurstMaster).  Bit 0 of slv_reg3 starts a test of the memory,   *)
(* bits 0 and 1 of the status register show its report.  All ports have    *)
(* one clock and one reset, as design_1.bd connects them.                  *)
(*                                                                         *)
(* The software is external: it makes one access at a time and starts a    *)
(* test only when it knows of no other one that runs.                      *)
(***************************************************************************)
EXTENDS TimerSlave, BurstMaster

VARIABLES
  free,   \* the software believes that no test runs
  report  \* history: the last status it read

softVars == <<free, report>>

NoReport == [done |-> FALSE, error |-> FALSE]
SoftInit == free = TRUE /\ report = NoReport
SoftTypeOK == free \in BOOLEAN /\ report \in [done : BOOLEAN, error : BOOLEAN]

\* Lower the start bit, or raise it.
Command(start) ==
  /\ rcmd = None
  /\ start => ~init_txn /\ free
  /\ StartWrite([addr |-> 12, data |-> IF start THEN 1 ELSE 0])
  /\ free' = (free /\ ~start)
  /\ UNCHANGED report

Poll == wcmd = None /\ StartRead(8) /\ UNCHANGED softVars

\* What the software learns from an answer.
Learn(rready) ==
  IF Answered(rready)
    THEN /\ report' = [done |-> BitOf(axi_rdata, 1), error |-> BitOf(axi_rdata, 0)]
         /\ free' = (free \/ report'.done)
    ELSE UNCHANGED softVars

\* One edge of the common clock; the ports between bank and master.
IpClock(bready, rready, awready, wready, arready, answer) ==
  /\ BankClock(bready, rready, error, compare_done)
  /\ MasterClock(init_txn, awready, wready, arready, answer)
  /\ Learn(rready)

IpReset == AxiReset /\ BankReset /\ MasterReset /\ free' = TRUE /\ report' = NoReport

ipVars == <<axiVars, bankVars, masterVars, softVars>>

-----------------------------------------------------------------------------
(* Properties *)

\* A status that shows the end of a test shows the verdict on that test, and
\* the master is at rest: after a start, no read is early enough to show the
\* end of the test before.
ReportIsFresh ==
  /\ free => mst_exec_state = "IDLE" /\ ~init_txn_pulse
  /\ free /\ report.done => report.error = bad

\* A test that was started comes to its end, or a reset ends it.
TestEnds == mst_exec_state # "IDLE" ~> mst_exec_state = "IDLE"
=============================================================================
