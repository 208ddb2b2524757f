-------------------------- MODULE CounterRegisters --------------------------
(***************************************************************************)
(* The counter of axi_irq_prj1 as its driver may think of it: a write to a *)
(* register acts at once, load_enable included, and the counter is clocked *)
(* in between.  IrqTimer builds on this view, TimerSlave implements it.    *)
(***************************************************************************)
EXTENDS Integers

CONSTANT HALF_BITS  \* width of a register; the counter has twice as many bits

Half == 2^HALF_BITS
Top == 2^(2 * HALF_BITS - 1)    \* the counter's top bit, and its lowest value
Counter == 0..2 * Top - 1

ASSUME WidthAssumption ==
  /\ HALF_BITS \in Nat \ {0}
  /\ Half \in Nat \ {0} /\ Top \in Int /\ 2 * Top = Half * Half  \* arithmetic, for the provers

VARIABLES
  slv_reg0, slv_reg1,  \* start value, low and high
  ctrl,                \* bits of slv_reg3 that are set
  int_counter

regVars == <<slv_reg0, slv_reg1, ctrl, int_counter>>

Bits == {"irq_enable", "load_enable"}

RegInit == slv_reg0 = 0 /\ slv_reg1 = 0 /\ ctrl = {} /\ int_counter = 0

\* cnt_irq, also bit 2 of the status register.
FaultyRequest == TRUE
Request == "irq_enable" \in ctrl /\ int_counter >= Top

\* One clock: the counter stays at its lowest value.
FaultyDecremented == int_counter - 1
Decremented == (int_counter - 1) % (2 * Top)
Counting == "irq_enable" \in ctrl /\ "load_enable" \notin ctrl /\ int_counter # Top
Count == Counting /\ int_counter' = Decremented /\ UNCHANGED <<slv_reg0, slv_reg1, ctrl>>

\* After a register was written: load_enable copies the start value.
LoadedOver(count) ==
  int_counter' = IF "load_enable" \in ctrl' THEN slv_reg1' * Half + slv_reg0' ELSE count

Store ==
  \/ slv_reg0' \in 0..Half - 1 /\ UNCHANGED <<slv_reg1, ctrl>>
  \/ slv_reg1' \in 0..Half - 1 /\ UNCHANGED <<slv_reg0, ctrl>>
  \/ ctrl' \in SUBSET Bits /\ UNCHANGED <<slv_reg0, slv_reg1>>

\* A write, which may come with a clock of the counter.
Access ==
  /\ Store
  /\ \E count \in {int_counter} \cup (IF Counting THEN {Decremented} ELSE {}) :
       LoadedOver(count)

RegNext == Count \/ Access \/ RegInit'

RegSpec == RegInit /\ [][RegNext]_regVars
=============================================================================
