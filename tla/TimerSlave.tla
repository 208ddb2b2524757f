----------------------------- MODULE TimerSlave -----------------------------
(***************************************************************************)
(* The register bank wzab_ip_ms_v1_0_S00_AXI, clock by clock: the start    *)
(* value, status and control of the counter, and the counter.  The status  *)
(* register shows two inputs from the AXI master of the same IP.           *)
(*                                                                         *)
(* The bits of slv_reg2 that no input replaces are left out.               *)
(***************************************************************************)
EXTENDS AxiLiteSlave

CONSTANT HALF_BITS  \* width of slv_reg0 and slv_reg1

VARIABLES
  slv_reg0, slv_reg1, slv_reg3,  \* slv_reg3: a number of three bits
  int_counter

bankVars == <<slv_reg0, slv_reg1, slv_reg3, int_counter>>

BitOf(word, i) == (word \div 2^i) % 2 = 1
init_txn == BitOf(slv_reg3, 0)
irq_enable == BitOf(slv_reg3, 1)
load_enable == BitOf(slv_reg3, 2)

\* What the driver sees: a load that the next edge will do counts as done.
StartValue == slv_reg1 * 2^HALF_BITS + slv_reg0
View == INSTANCE CounterRegisters WITH
  ctrl <- (IF irq_enable THEN {"irq_enable"} ELSE {})
            \cup (IF load_enable THEN {"load_enable"} ELSE {}),
  int_counter <- IF load_enable THEN StartValue ELSE int_counter

ASSUME BankAssumption ==
  /\ HALF_BITS \in Nat \ {0}
  /\ View!Half \in Nat /\ View!Half > 1   \* arithmetic, for the provers
  /\ View!Top \in Nat /\ 2 * View!Top = View!Half * View!Half

BankInit == slv_reg0 = 0 /\ slv_reg1 = 0 /\ slv_reg3 = 0 /\ int_counter = 0

BankTypeOK ==
  /\ slv_reg0 \in 0..2^HALF_BITS - 1 /\ slv_reg1 \in 0..2^HALF_BITS - 1
  /\ slv_reg3 \in 0..7 /\ int_counter \in View!Counter

-----------------------------------------------------------------------------
cnt_irq(count) == irq_enable /\ count >= View!Top

Numeral(b) == IF b THEN 1 ELSE 0
\* The word at an address, for a value of the counter and the two inputs.
Word(addr, count, error_txn, txn_done) ==
  CASE addr = 0 -> count % 2^HALF_BITS
    [] addr = 4 -> count \div 2^HALF_BITS
    [] addr = 8 -> Numeral(error_txn) + 2 * Numeral(txn_done) + 4 * Numeral(cnt_irq(count))
    [] addr = 12 -> slv_reg3
    [] OTHER -> 0

Written(addr, old) == IF Taking /\ wcmd.addr = addr THEN wcmd.data ELSE old

\* irq_process.
FaultyCounted ==
  IF irq_enable /\ int_counter # View!Top THEN (int_counter - 1) % (2 * View!Top)
  ELSE IF load_enable THEN StartValue
  ELSE int_counter
Counted ==
  IF load_enable THEN StartValue
  ELSE IF irq_enable /\ int_counter # View!Top THEN (int_counter - 1) % (2 * View!Top)
  ELSE int_counter

BankClock(bready, rready, error_txn, txn_done) ==
  /\ WriteClock(bready)
  /\ ReadClock(rready, Word(rcmd, int_counter, error_txn, txn_done))
  /\ slv_reg0' = Written(0, slv_reg0) /\ slv_reg1' = Written(4, slv_reg1)
  /\ slv_reg3' = Written(12, slv_reg3)
  /\ int_counter' = Counted

BankReset == slv_reg0' = 0 /\ slv_reg1' = 0 /\ slv_reg3' = 0 /\ int_counter' = 0
=============================================================================
