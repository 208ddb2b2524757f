------------------------------ MODULE IntrSlave ------------------------------
(***************************************************************************)
(* The interrupt controller wzab_ip_ms_v1_0_S_AXI_INTR, clock by clock,    *)
(* with its default generics: one interrupt, which is level-sensitive and  *)
(* active high, as is the output irq.  A counter that runs down once after *)
(* reset gives one pulse, det_intr keeps it until it is acknowledged.      *)
(***************************************************************************)
EXTENDS AxiLiteSlave

CONSTANTS COUNT, PULSE  \* the counter's first value, and the one that interrupts

ASSUME PulseAssumption == COUNT \in Nat /\ PULSE \in 1..COUNT

VARIABLES
  reg_global_intr_en, reg_intr_en, reg_intr_sts, reg_intr_ack, reg_intr_pending,
  intr_counter, intr, det_intr,
  intr_all, intr_ack_all, intr_ack_all_ff, s_irq_lvl,
  owed,    \* history: there was an interrupt and no acknowledgement after it
  missed   \* history: it came in the very clock of an earlier acknowledgement

intrVars == <<reg_global_intr_en, reg_intr_en, reg_intr_sts, reg_intr_ack, reg_intr_pending,
              intr_counter, intr, det_intr, intr_all, intr_ack_all, intr_ack_all_ff,
              s_irq_lvl, owed, missed>>

IntrTypeOK ==
  /\ {reg_global_intr_en, reg_intr_en, reg_intr_sts, reg_intr_ack, reg_intr_pending, intr,
      det_intr, intr_all, intr_ack_all, intr_ack_all_ff, s_irq_lvl, owed, missed} \subseteq BOOLEAN
  /\ intr_counter \in 0..COUNT

IntrInit ==
  /\ reg_global_intr_en = FALSE /\ reg_intr_en = FALSE /\ reg_intr_sts = FALSE
  /\ reg_intr_ack = FALSE /\ reg_intr_pending = FALSE
  /\ intr_counter = COUNT /\ intr = FALSE /\ det_intr = FALSE
  /\ intr_all = FALSE /\ intr_ack_all = FALSE /\ intr_ack_all_ff = FALSE
  /\ s_irq_lvl = FALSE /\ owed = FALSE /\ missed = FALSE

-----------------------------------------------------------------------------
IntrWord(addr) ==
  LET shown == CASE addr = 0 -> reg_global_intr_en [] addr = 4 -> reg_intr_en
                 [] addr = 8 -> reg_intr_sts       [] addr = 12 -> reg_intr_ack
                 [] addr = 16 -> reg_intr_pending  [] OTHER -> FALSE
  IN  IF shown THEN 1 ELSE 0

WritingTo(addr) == Taking /\ wcmd.addr = addr
IntrWritten(addr, old) == IF WritingTo(addr) THEN wcmd.data = 1 ELSE old

\* An acknowledgement clears the three stages before intr_all for one clock.
Registers ==
  /\ reg_global_intr_en' = IntrWritten(0, reg_global_intr_en)
  /\ reg_intr_en' = IntrWritten(4, reg_intr_en)
  /\ reg_intr_sts' = (~reg_intr_ack /\ det_intr)
  /\ reg_intr_ack' = (~reg_intr_ack /\ IntrWritten(12, FALSE))
  /\ reg_intr_pending' = (~reg_intr_ack /\ reg_intr_sts /\ reg_intr_en)

\* User logic, example
Pulse ==
  /\ intr_counter' = IF intr_counter = 0 THEN 0 ELSE intr_counter - 1
  /\ intr' = (intr_counter = PULSE)

FaultyDetected == intr
Detected == ~reg_intr_ack /\ (det_intr \/ intr)
FaultyCollected == intr_all \/ reg_intr_pending
Collected == ~intr_ack_all_ff /\ (intr_all \/ reg_intr_pending)

IntrClock(bready, rready) ==
  /\ WriteClock(bready)
  /\ ReadClock(rready, IntrWord(rcmd))
  /\ Registers /\ Pulse
  /\ det_intr' = Detected
  /\ intr_all' = Collected
  /\ intr_ack_all' = (~intr_ack_all_ff /\ (intr_ack_all \/ reg_intr_ack))
  /\ intr_ack_all_ff' = intr_ack_all
  /\ s_irq_lvl' = (~intr_ack_all /\ (s_irq_lvl \/ (intr_all /\ reg_global_intr_en)))
  /\ owed' = (intr \/ (owed /\ ~reg_intr_ack))
  /\ missed' = ((intr /\ reg_intr_ack) \/ (missed /\ ~intr /\ ~reg_intr_ack))

IntrReset ==
  /\ reg_global_intr_en' = FALSE /\ reg_intr_en' = FALSE /\ reg_intr_sts' = FALSE
  /\ reg_intr_ack' = FALSE /\ reg_intr_pending' = FALSE
  /\ intr_counter' = COUNT /\ intr' = FALSE /\ det_intr' = FALSE
  /\ intr_all' = FALSE /\ intr_ack_all' = FALSE /\ intr_ack_all_ff' = FALSE
  /\ s_irq_lvl' = FALSE /\ owed' = FALSE /\ missed' = FALSE

-----------------------------------------------------------------------------
(* Properties *)

\* det_intr looks at the acknowledgement before it looks at the interrupt, so one
\* that comes in the clock in which reg_intr_ack stands, for whatever that was
\* written, is lost.
Standing == owed /\ ~missed

\* The interrupt travels through four registers, the acknowledgement follows it
\* through three: no stage that still holds an interrupt that was acknowledged
\* may raise irq again.
AckedStaysLow == [][~Standing /\ ~s_irq_lvl => ~s_irq_lvl']_intrVars

\* An interrupt raises irq unless it is acknowledged or disabled first, also when
\* it comes while it is disabled, or a clock before or after an acknowledgement
\* of nothing.  The one that comes in the very clock is left out: the code loses it.
InterruptRaisesIrq ==
  LET awaited == Standing /\ reg_intr_en /\ reg_global_intr_en
  IN  awaited ~> s_irq_lvl \/ ~awaited
=============================================================================
