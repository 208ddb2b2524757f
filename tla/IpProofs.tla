------------------------------ MODULE IpProofs ------------------------------
(***************************************************************************)
(* The IP of axi_irq_prj1: an interrupt that was acknowledged stays low,   *)
(* for any pulse; the master tests the memory as MemoryTest says and no    *)
(* status is stale, for any number of words; the register bank acts as the *)
(* driver of the counter thinks, for any width.                            *)
(***************************************************************************)
EXTENDS MCIp, TLAPS

-----------------------------------------------------------------------------
(* The interrupt controller *)

\* What a stage holds was detected and not acknowledged since, but for the last
\* stage, intr_all, which the acknowledgement reaches one clock later.
PipeInv ==
  /\ {reg_intr_ack, reg_intr_sts, reg_intr_pending, det_intr, intr, intr_all, intr_ack_all,
      intr_ack_all_ff, s_irq_lvl, owed, missed} \subseteq BOOLEAN
  /\ det_intr <=> Standing
  /\ reg_intr_sts => det_intr
  /\ reg_intr_pending => reg_intr_sts
  /\ intr_all => Standing \/ intr_ack_all

LEMMA PipeInit == Init => PipeInv
BY DEF Init, IntrInit, PipeInv, Standing

LEMMA PipeClock ==
  ASSUME PipeInv, NEW bready, NEW rready, IntrClock(bready, rready)
  PROVE  PipeInv'
<1>1. /\ reg_intr_sts' <=> ~reg_intr_ack /\ det_intr
      /\ reg_intr_pending' <=> ~reg_intr_ack /\ reg_intr_sts /\ reg_intr_en
      /\ intr_all' <=> ~intr_ack_all_ff /\ (intr_all \/ reg_intr_pending)
      /\ intr_ack_all' <=> ~intr_ack_all_ff /\ (intr_ack_all \/ reg_intr_ack)
      /\ det_intr' <=> ~reg_intr_ack /\ (det_intr \/ intr)
      /\ owed' <=> intr \/ (owed /\ ~reg_intr_ack)
      /\ missed' <=> (intr /\ reg_intr_ack) \/ (missed /\ ~intr /\ ~reg_intr_ack)
  BY DEF IntrClock, Registers, Detected, Collected
<1>2. /\ {reg_intr_sts', reg_intr_pending', intr_all', intr_ack_all', det_intr', owed',
          missed', reg_intr_ack', intr', s_irq_lvl', intr_ack_all_ff'} \subseteq BOOLEAN
  BY DEF IntrClock, Registers, Pulse, Detected, Collected, PipeInv
<1> QED
  BY <1>1, <1>2 DEF PipeInv, Standing

LEMMA PipeNext == PipeInv /\ [Next]_vars => PipeInv'
<1> SUFFICES ASSUME PipeInv, [Next]_vars PROVE PipeInv'
  OBVIOUS
<1>1. CASE UNCHANGED intrVars
  BY <1>1 DEF intrVars, PipeInv, Standing
<1>2. CASE IntrReset
  BY <1>2 DEF IntrReset, PipeInv, Standing
<1>3. ASSUME NEW bready, NEW rready, IntrClock(bready, rready) PROVE PipeInv'
  BY <1>3, PipeClock
<1> QED
  BY <1>1, <1>2, <1>3
  DEF Next, vars, CounterNext, CounterClock, TestNext, TestClock, IntrNext, IntrPortClock

\* No stage that still holds an interrupt that was acknowledged raises irq again.
THEOREM AckSound == Spec => AckedStaysLow
<1> DEFINE Low == ~Standing /\ ~s_irq_lvl => ~s_irq_lvl'
<1>1. PipeInv /\ [Next]_vars => [Low]_intrVars
  <2> SUFFICES ASSUME PipeInv, [Next]_vars, ~(UNCHANGED intrVars), ~Standing, ~s_irq_lvl
               PROVE  ~s_irq_lvl'
    BY DEF Low
  <2>1. IntrReset => ~s_irq_lvl'
    BY DEF IntrReset
  <2>2. ASSUME NEW bready, NEW rready, IntrClock(bready, rready) PROVE ~s_irq_lvl'
    BY <2>2 DEF IntrClock, PipeInv
  <2> QED
    BY <2>1, <2>2
    DEF Next, vars, CounterNext, CounterClock, TestNext, TestClock, IntrNext, IntrPortClock
<1> QED
  BY PipeInit, PipeNext, <1>1, PTL DEF Spec, AckedStaysLow

-----------------------------------------------------------------------------
(* The test of the memory.  Each of its two halves goes through the same    *)
(* stages for every word: at rest, start issued, offered, answered.         *)

\* Nothing of a write is under way, and write_index words were written.
WritesMatch ==
  /\ ~axi_awvalid /\ ~axi_wvalid /\ m_addr = NoWord /\ m_word = NoWord
  /\ axi_awaddr = write_index /\ axi_wdata = write_index /\ nw = write_index

WriteRest ==
  /\ ~write_issued /\ ~start_single_write /\ ~m_bvalid /\ ~axi_bready
  /\ WritesMatch /\ (writes_done <=> write_index = N)
WriteIssued ==
  /\ write_issued /\ start_single_write /\ ~m_bvalid /\ ~axi_bready /\ ~writes_done
  /\ WritesMatch /\ write_index < N
WriteOffered ==
  /\ write_issued /\ ~start_single_write /\ ~m_bvalid /\ ~axi_bready /\ ~writes_done
  /\ write_index > 0 /\ nw = write_index - 1
  /\ axi_awvalid => axi_awaddr = nw /\ m_addr = NoWord
  /\ ~axi_awvalid => axi_awaddr = write_index /\ m_addr = nw
  /\ axi_wvalid => axi_wdata = nw /\ m_word = NoWord
  /\ ~axi_wvalid => axi_wdata = write_index /\ m_word = nw
WriteAnswered ==
  /\ write_issued /\ ~start_single_write /\ m_bvalid /\ ~writes_done
  /\ WritesMatch /\ write_index > 0

WriteInv ==
  /\ write_index \in 0..N
  /\ last_write <=> write_index = N /\ ~axi_awvalid
  /\ WriteRest \/ WriteIssued \/ WriteOffered \/ WriteAnswered

ReadsMatch ==
  /\ ~axi_arvalid /\ m_raddr = NoWord /\ axi_araddr = read_index /\ nr = read_index

ReadRest ==
  /\ ~read_issued /\ ~start_single_read /\ ~m_rvalid
  /\ ReadsMatch /\ expected_rdata = read_index /\ (reads_done <=> read_index = N)
ReadIssued ==
  /\ read_issued /\ start_single_read /\ ~m_rvalid /\ ~axi_rready /\ ~reads_done
  /\ ReadsMatch /\ expected_rdata = read_index /\ read_index < N
ReadOffered ==
  /\ read_issued /\ ~start_single_read /\ ~m_rvalid /\ ~axi_rready /\ ~reads_done
  /\ read_index > 0 /\ nr = read_index - 1 /\ expected_rdata = nr
  /\ axi_arvalid => axi_araddr = nr /\ m_raddr = NoWord
  /\ ~axi_arvalid => axi_araddr = read_index /\ m_raddr = nr
ReadAnswered ==
  /\ read_issued /\ ~start_single_read /\ m_rvalid /\ ~reads_done
  /\ ReadsMatch /\ read_index > 0 /\ expected_rdata = read_index - 1

ReadInv ==
  /\ read_index \in 0..N
  /\ last_read <=> read_index = N /\ ~axi_arvalid
  /\ ReadRest \/ ReadIssued \/ ReadOffered \/ ReadAnswered

\* What went wrong is in a register, or in an answer that is not taken yet.
Verdict ==
  bad <=> \/ error_reg \/ read_mismatch
          \/ m_bvalid /\ m_berr
          \/ m_rvalid /\ (m_rerr \/ m_rdata # expected_rdata)

\* The phases of a test.  Out of reset axi_rready is high, until the first clock
\* of a test: no answer may be there then.
PhaseInv ==
  /\ mst_exec_state = "IDLE" =>
       WriteRest /\ ReadRest /\ (compare_done => (error <=> bad))
  /\ mst_exec_state = "INIT_WRITE" =>
       /\ ReadRest /\ read_index = 0
       /\ axi_rready => WriteRest /\ write_index = 0
  /\ mst_exec_state = "INIT_READ" =>
       /\ WriteRest /\ write_index = N
       /\ axi_rready => ReadAnswered
  /\ mst_exec_state = "INIT_COMPARE" =>
       /\ WriteRest /\ write_index = N /\ ReadRest /\ read_index = N
       /\ bad <=> error_reg
  /\ mst_exec_state \in {"INIT_WRITE", "INIT_READ"} => Verdict
  /\ mst_exec_state # "IDLE" => ~compare_done

MasterInv == MasterTypeOK /\ WriteInv /\ ReadInv /\ PhaseInv

-----------------------------------------------------------------------------
(* The software that starts the tests *)

Commands == [addr : {12}, data : {0, 1}]
Raise == [addr |-> 12, data |-> 1]

\* The start bit on its way: a write that raises it is not taken yet, the bit
\* was raised at the last edge, or the pulse is there.
Launching ==
  \/ wcmd = Raise /\ ~axi_bvalid
  \/ init_txn /\ ~init_txn_ff
  \/ init_txn_pulse

Done == BitOf(axi_rdata, 1)
Failed == BitOf(axi_rdata, 0)

PortInv ==
  /\ {awvalid, wvalid, axi_bvalid, axi_awready, arvalid, axi_arready, axi_rvalid}
       \subseteq BOOLEAN
  /\ SoftTypeOK
  /\ wcmd \in Commands \cup {None} /\ rcmd \in {8, None}
  /\ wcmd # None <=> awvalid \/ wvalid \/ axi_bvalid
  /\ axi_bvalid => ~awvalid /\ ~wvalid
  /\ arvalid \/ axi_rvalid => rcmd # None
  /\ axi_rvalid => ~arvalid
  /\ rcmd # None => wcmd = None
  /\ slv_reg3 \in {0, 1}

\* A test is started when the software is not free, and a status that shows the
\* end of a test is read when none is started or runs.
StartInv ==
  /\ ~axi_bvalid => (init_txn_ff <=> init_txn)
  /\ wcmd = Raise /\ ~axi_bvalid => ~init_txn
  /\ Launching => ~free /\ mst_exec_state = "IDLE"
  /\ mst_exec_state # "IDLE" => ~free
  /\ axi_arready => ~init_txn_pulse
  /\ axi_rvalid /\ Done =>
       mst_exec_state = "IDLE" /\ ~Launching /\ (Failed <=> bad)
  /\ free /\ report.done => (report.error <=> bad)

\* In the other uses of the IP the master rests.
SoftInv ==
  IF use = "memory test" THEN PortInv /\ StartInv
  ELSE /\ mst_exec_state = "IDLE" /\ ~init_txn_pulse /\ free /\ ~report.done

-----------------------------------------------------------------------------
(* The register bank of the counter *)

\* Whatever writes to the bank stays in the range of a register.
BankWrites == CounterWrites \cup Commands
BankInv ==
  use # "interrupts" =>
    /\ awvalid \in BOOLEAN /\ wvalid \in BOOLEAN
    /\ awvalid \/ wvalid => wcmd \in BankWrites
    /\ axi_bvalid => wcmd # None /\ ~awvalid /\ ~wvalid

-----------------------------------------------------------------------------
(* What a clock without a pulse does *)

LEMMA IndexStep ==
  /\ N \in Nat /\ N > 1
  /\ \A i \in 0..N - 1 : (i + 1) % IndexValues = i + 1
<1> DEFINE m == IndexValues
<1>1. N \in Nat /\ N > 1 /\ m \in Nat /\ N < m
  BY BurstAssumption
<1> HIDE DEF m
<1>2. ASSUME NEW i \in 0..N - 1 PROVE (i + 1) % m = i + 1
  <2>1. i + 1 \in 0..m - 1 /\ m > 0
    BY ONLY <1>1, <1>2
  <2> QED
    BY ONLY <1>1, <2>1
<1> QED
  BY <1>1, <1>2 DEF m

Commit(answer) == answer /\ WriteAccepted /\ ~m_bvalid
Return(answer) == answer /\ m_raddr # NoWord /\ ~m_rvalid

LEMMA WriteEffect ==
  ASSUME MasterTypeOK, ~init_txn_pulse, NEW awready \in BOOLEAN, NEW wready \in BOOLEAN,
         WriteChannels(awready, wready)
  PROVE  /\ axi_awvalid' <=> start_single_write \/ (axi_awvalid /\ ~awready)
         /\ axi_wvalid' <=> start_single_write \/ (axi_wvalid /\ ~wready)
         /\ axi_bready' <=> m_bvalid /\ ~axi_bready
         /\ last_write' <=> last_write \/ (write_index = N /\ awready)
         /\ writes_done' <=> writes_done \/ (last_write /\ m_bvalid /\ axi_bready)
         /\ write_index' = IF start_single_write THEN (write_index + 1) % IndexValues
                           ELSE write_index
         /\ axi_awaddr' = IF awready /\ axi_awvalid THEN axi_awaddr + 1 ELSE axi_awaddr
         /\ axi_wdata' = IF wready /\ axi_wvalid THEN write_index ELSE axi_wdata
         /\ {axi_awvalid', axi_wvalid', axi_bready', last_write', writes_done'} \subseteq BOOLEAN
BY DEF WriteChannels, SetClear, Sticky, StepIf, BTaken, WritesEnd, MasterTypeOK

LEMMA ReadEffect ==
  ASSUME MasterTypeOK, ~init_txn_pulse, NEW arready \in BOOLEAN, ReadChannels(arready)
  PROVE  /\ axi_arvalid' <=> start_single_read \/ (axi_arvalid /\ ~arready)
         /\ axi_rready' <=> m_rvalid /\ ~axi_rready
         /\ last_read' <=> last_read \/ (read_index = N /\ arready)
         /\ reads_done' <=> reads_done \/ (last_read /\ m_rvalid /\ axi_rready)
         /\ read_index' = IF start_single_read THEN (read_index + 1) % IndexValues
                          ELSE read_index
         /\ axi_araddr' = IF arready /\ axi_arvalid THEN axi_araddr + 1 ELSE axi_araddr
         /\ expected_rdata' = IF m_rvalid /\ axi_rready THEN read_index ELSE expected_rdata
         /\ {axi_arvalid', axi_rready', last_read', reads_done'} \subseteq BOOLEAN
BY DEF ReadChannels, SetClear, Sticky, StepIf, RTaken, MasterTypeOK

LEMMA CompareEffect ==
  ASSUME MasterTypeOK, ~init_txn_pulse, Compare
  PROVE  /\ read_mismatch' <=> \/ read_mismatch
                               \/ m_rvalid /\ axi_rready /\ m_rdata # expected_rdata
         /\ error_reg' <=> \/ error_reg \/ read_mismatch
                           \/ m_bvalid /\ axi_bready /\ m_berr
                           \/ m_rvalid /\ axi_rready /\ m_rerr
         /\ {read_mismatch', error_reg'} \subseteq BOOLEAN
BY DEF Compare, Sticky, Wrong, BTaken, RTaken, MasterTypeOK

LEMMA MemoryEffect ==
  ASSUME MasterTypeOK, ~init_txn_pulse, NEW awready \in BOOLEAN, NEW wready \in BOOLEAN,
         NEW arready \in BOOLEAN, NEW answer \in BOOLEAN,
         Memory(awready, wready, arready, answer)
  PROVE  /\ m_bvalid' <=> Commit(answer) \/ (m_bvalid /\ ~axi_bready)
         /\ m_addr' = IF axi_awvalid /\ awready THEN axi_awaddr
                      ELSE IF Commit(answer) THEN NoWord ELSE m_addr
         /\ m_word' = IF axi_wvalid /\ wready THEN axi_wdata
                      ELSE IF Commit(answer) THEN NoWord ELSE m_word
         /\ Commit(answer) => nw' = nw + 1 /\ mem' = [mem EXCEPT ![m_addr] = m_word]
         /\ ~Commit(answer) => nw' = nw /\ mem' = mem /\ (m_berr' <=> m_berr)
         /\ m_rvalid' <=> Return(answer) \/ (m_rvalid /\ ~axi_rready)
         /\ m_raddr' = IF axi_arvalid /\ arready THEN axi_araddr
                       ELSE IF Return(answer) THEN NoWord ELSE m_raddr
         /\ Return(answer) => nr' = nr + 1
         /\ ~Return(answer) => nr' = nr /\ m_rdata' = m_rdata /\ (m_rerr' <=> m_rerr)
         /\ bad' <=> \/ bad
                     \/ Commit(answer) /\ m_berr'
                     \/ Return(answer) /\ (m_rerr' \/ m_rdata' # nr)
         /\ m_bvalid' \in BOOLEAN /\ m_berr' \in BOOLEAN /\ m_rvalid' \in BOOLEAN
         /\ m_rerr' \in BOOLEAN /\ bad' \in BOOLEAN /\ m_rdata' \in Words
<1>t. /\ m_bvalid \in BOOLEAN /\ m_berr \in BOOLEAN /\ m_rvalid \in BOOLEAN
      /\ m_rerr \in BOOLEAN /\ bad \in BOOLEAN /\ axi_bready \in BOOLEAN
      /\ axi_rready \in BOOLEAN /\ nw \in 0..N /\ nr \in 0..N /\ m_rdata \in Words
  BY DEF MasterTypeOK
<1>s. ~Starting
  BY DEF Starting
<1>1. PICK err \in BOOLEAN :
        /\ AnswerWrite(awready, wready, answer, err)
        /\ IF m_raddr = NoWord
             THEN AnswerRead(arready, FALSE, NoWord, FALSE)
             ELSE \E word \in {Garbage, mem[m_raddr]} : AnswerRead(arready, answer, word, err)
  BY DEF Memory
<1>2. /\ m_bvalid' <=> Commit(answer) \/ (m_bvalid /\ ~axi_bready)
      /\ m_addr' = IF axi_awvalid /\ awready THEN axi_awaddr
                   ELSE IF Commit(answer) THEN NoWord ELSE m_addr
      /\ m_word' = IF axi_wvalid /\ wready THEN axi_wdata
                   ELSE IF Commit(answer) THEN NoWord ELSE m_word
      /\ Commit(answer) => nw' = nw + 1 /\ mem' = [mem EXCEPT ![m_addr] = m_word]
      /\ ~Commit(answer) => nw' = nw /\ mem' = mem /\ (m_berr' <=> m_berr)
      /\ m_bvalid' \in BOOLEAN /\ m_berr' \in BOOLEAN
  BY <1>t, <1>s, <1>1 DEF AnswerWrite, Commit
<1>3. ASSUME NEW word \in Words, NEW answered \in BOOLEAN, NEW e \in BOOLEAN,
             AnswerRead(arready, answered, word, e),
             answered /\ m_raddr # NoWord <=> answer /\ m_raddr # NoWord
      PROVE  /\ m_rvalid' <=> Return(answer) \/ (m_rvalid /\ ~axi_rready)
             /\ m_raddr' = IF axi_arvalid /\ arready THEN axi_araddr
                           ELSE IF Return(answer) THEN NoWord ELSE m_raddr
             /\ Return(answer) => nr' = nr + 1
             /\ ~Return(answer) => nr' = nr /\ m_rdata' = m_rdata /\ (m_rerr' <=> m_rerr)
             /\ m_rvalid' \in BOOLEAN /\ m_rerr' \in BOOLEAN /\ m_rdata' \in Words
  BY <1>t, <1>s, <1>3 DEF AnswerRead, Return
<1>4. /\ m_rvalid' <=> Return(answer) \/ (m_rvalid /\ ~axi_rready)
      /\ m_raddr' = IF axi_arvalid /\ arready THEN axi_araddr
                    ELSE IF Return(answer) THEN NoWord ELSE m_raddr
      /\ Return(answer) => nr' = nr + 1
      /\ ~Return(answer) => nr' = nr /\ m_rdata' = m_rdata /\ (m_rerr' <=> m_rerr)
      /\ m_rvalid' \in BOOLEAN /\ m_rerr' \in BOOLEAN /\ m_rdata' \in Words
  <2>1. CASE m_raddr = NoWord
    <3>1. AnswerRead(arready, FALSE, NoWord, FALSE)
      BY <1>1, <2>1
    <3> QED
      BY <1>t, <1>s, <2>1, <3>1 DEF AnswerRead, Return
  <2>2. CASE m_raddr # NoWord
    <3>1. PICK word \in {Garbage, mem[m_raddr]} : AnswerRead(arready, answer, word, err)
      BY <1>1, <2>2
    <3>2. word \in Words
      BY <2>2, <3>1 DEF MasterTypeOK, Words
    <3> QED
      BY <1>3, <3>1, <3>2
  <2> QED
    BY <2>1, <2>2
<1>5. /\ nw' > nw <=> Commit(answer)
      /\ nr' > nr <=> Return(answer)
  BY <1>t, <1>2, <1>4
<1>6. /\ bad' <=> \/ bad
                  \/ Commit(answer) /\ m_berr'
                  \/ Return(answer) /\ (m_rerr' \/ m_rdata' # nr)
      /\ bad' \in BOOLEAN
  BY <1>s, <1>t, <1>1, <1>2, <1>4, <1>5 DEF Memory, Record
<1> QED
  BY <1>2, <1>4, <1>6

-----------------------------------------------------------------------------
(* The two halves, stage by stage *)

LEMMA WriteStays ==
  ASSUME MasterTypeOK, ~init_txn_pulse, NEW awready \in BOOLEAN, NEW wready \in BOOLEAN,
         NEW arready \in BOOLEAN, NEW answer \in BOOLEAN,
         WriteChannels(awready, wready), Memory(awready, wready, arready, answer),
         WriteInv, WriteRest, UNCHANGED <<start_single_write, write_issued>>
  PROVE  /\ WriteInv' /\ WriteRest' /\ write_index' = write_index
         /\ ~Commit(answer) /\ ~m_bvalid /\ ~m_bvalid'
<1>t. /\ write_index \in 0..N /\ (last_write <=> write_index = N /\ ~axi_awvalid)
      /\ {last_write, writes_done} \subseteq BOOLEAN
  BY DEF WriteInv, MasterTypeOK
<1>r. /\ ~write_issued /\ ~start_single_write /\ ~m_bvalid /\ ~axi_bready
      /\ ~axi_awvalid /\ ~axi_wvalid /\ m_addr = NoWord /\ m_word = NoWord
      /\ axi_awaddr = write_index /\ axi_wdata = write_index /\ nw = write_index
      /\ (writes_done <=> write_index = N)
  BY DEF WriteRest, WritesMatch
<1>1. ~Commit(answer)
  BY <1>r DEF Commit, WriteAccepted
<1>2. /\ ~m_bvalid' /\ m_addr' = NoWord /\ m_word' = NoWord /\ nw' = nw
  BY <1>1, <1>r, MemoryEffect
<1>3. /\ ~axi_awvalid' /\ ~axi_wvalid' /\ ~axi_bready' /\ write_index' = write_index
      /\ axi_awaddr' = axi_awaddr /\ axi_wdata' = axi_wdata
      /\ (last_write' <=> last_write) /\ (writes_done' <=> writes_done)
  BY <1>t, <1>r, WriteEffect
<1>4. WriteRest'
  BY <1>r, <1>2, <1>3 DEF WriteRest, WritesMatch
<1> QED
  BY <1>t, <1>r, <1>1, <1>2, <1>3, <1>4 DEF WriteInv

LEMMA WriteGoes ==
  ASSUME MasterTypeOK, ~init_txn_pulse, NEW awready \in BOOLEAN, NEW wready \in BOOLEAN,
         NEW arready \in BOOLEAN, NEW answer \in BOOLEAN,
         WriteChannels(awready, wready), Memory(awready, wready, arready, answer),
         WriteInv, ~writes_done, Issue(MayWrite, axi_bready, start_single_write, write_issued)
  PROVE  /\ WriteInv'
         /\ Commit(answer) => m_addr = nw /\ m_word = nw /\ nw < N
<1>t. /\ write_index \in 0..N /\ (last_write <=> write_index = N /\ ~axi_awvalid)
      /\ {last_write, writes_done, start_single_write, write_issued, axi_bready, m_bvalid,
          axi_awvalid, axi_wvalid} \subseteq BOOLEAN
      /\ N \in Nat /\ N > 1 /\ NoWord \notin Int
  BY IndexStep, WordAssumption DEF WriteInv, MasterTypeOK
<1>i. /\ start_single_write' <=> \/ MayWrite /\ ~start_single_write /\ ~write_issued
                                 \/ start_single_write /\ axi_bready
      /\ write_issued' <=> \/ MayWrite /\ ~start_single_write /\ ~write_issued
                           \/ write_issued /\ ~axi_bready
      /\ MayWrite <=> ~axi_awvalid /\ ~axi_wvalid /\ ~m_bvalid /\ ~last_write
  BY <1>t DEF Issue, MayWrite
<1>e. /\ axi_awvalid' <=> start_single_write \/ (axi_awvalid /\ ~awready)
      /\ axi_wvalid' <=> start_single_write \/ (axi_wvalid /\ ~wready)
      /\ axi_bready' <=> m_bvalid /\ ~axi_bready
      /\ last_write' <=> last_write \/ (write_index = N /\ awready)
      /\ writes_done' <=> writes_done \/ (last_write /\ m_bvalid /\ axi_bready)
      /\ write_index' = IF start_single_write THEN (write_index + 1) % IndexValues
                        ELSE write_index
      /\ axi_awaddr' = IF awready /\ axi_awvalid THEN axi_awaddr + 1 ELSE axi_awaddr
      /\ axi_wdata' = IF wready /\ axi_wvalid THEN write_index ELSE axi_wdata
  BY WriteEffect
<1>m. /\ m_bvalid' <=> Commit(answer) \/ (m_bvalid /\ ~axi_bready)
      /\ m_addr' = IF axi_awvalid /\ awready THEN axi_awaddr
                   ELSE IF Commit(answer) THEN NoWord ELSE m_addr
      /\ m_word' = IF axi_wvalid /\ wready THEN axi_wdata
                   ELSE IF Commit(answer) THEN NoWord ELSE m_word
      /\ Commit(answer) => nw' = nw + 1
      /\ ~Commit(answer) => nw' = nw
  BY MemoryEffect
<1>c. Commit(answer) <=> answer /\ m_addr # NoWord /\ m_word # NoWord /\ ~m_bvalid
  BY DEF Commit, WriteAccepted
<1>1. CASE WriteRest
  <2>1. write_index < N /\ ~last_write
    BY <1>t, <1>1 DEF WriteRest
  <2>2. /\ start_single_write' /\ write_issued' /\ ~m_bvalid' /\ ~axi_bready' /\ ~Commit(answer)
        /\ ~axi_awvalid' /\ ~axi_wvalid' /\ m_addr' = NoWord /\ m_word' = NoWord
        /\ axi_awaddr' = write_index /\ axi_wdata' = write_index /\ nw' = write_index
        /\ write_index' = write_index /\ ~last_write' /\ ~writes_done'
    BY <1>t, <1>i, <1>e, <1>m, <1>c, <1>1, <2>1 DEF WriteRest, WritesMatch
  <2>3. WriteIssued'
    BY <2>1, <2>2 DEF WriteIssued, WritesMatch
  <2> QED
    BY <1>t, <2>1, <2>2, <2>3 DEF WriteInv
<1>2. CASE WriteIssued
  <2>1. /\ write_index \in 0..N - 1 /\ write_issued /\ start_single_write /\ ~m_bvalid
        /\ ~axi_bready /\ ~axi_awvalid /\ ~axi_wvalid /\ m_addr = NoWord /\ m_word = NoWord
        /\ axi_awaddr = write_index /\ axi_wdata = write_index /\ nw = write_index
    BY <1>t, <1>2 DEF WriteIssued, WritesMatch
  <2>2. ~Commit(answer) /\ ~last_write
    BY <1>t, <1>c, <2>1
  <2>3. write_index' = write_index + 1
    BY <1>e, <2>1, IndexStep
  <2>4. /\ ~start_single_write' /\ write_issued' /\ ~m_bvalid' /\ ~axi_bready'
        /\ axi_awvalid' /\ axi_wvalid' /\ m_addr' = NoWord /\ m_word' = NoWord
        /\ axi_awaddr' = write_index /\ axi_wdata' = write_index /\ nw' = write_index
        /\ ~last_write' /\ ~writes_done'
    BY <1>t, <1>i, <1>e, <1>m, <2>1, <2>2
  <2>5. write_index' \in 0..N /\ write_index' > 0 /\ nw' = write_index' - 1
    BY <1>t, <2>1, <2>3, <2>4
  <2>6. WriteOffered'
    BY <2>4, <2>5 DEF WriteOffered
  <2> QED
    BY <2>2, <2>4, <2>5, <2>6 DEF WriteInv
<1>3. CASE WriteOffered
  <2>1. /\ write_issued /\ ~start_single_write /\ ~m_bvalid /\ ~axi_bready /\ ~writes_done
        /\ write_index > 0 /\ nw = write_index - 1 /\ nw \in Int /\ nw + 1 = write_index
        /\ (axi_awvalid => axi_awaddr = nw /\ m_addr = NoWord)
        /\ (~axi_awvalid => axi_awaddr = write_index /\ m_addr = nw)
        /\ (axi_wvalid => axi_wdata = nw /\ m_word = NoWord)
        /\ (~axi_wvalid => axi_wdata = write_index /\ m_word = nw)
    BY <1>t, <1>3 DEF WriteOffered
  <2>2. /\ ~start_single_write' /\ write_issued' /\ ~axi_bready' /\ ~writes_done'
        /\ write_index' = write_index
        /\ (axi_awvalid' <=> axi_awvalid /\ ~awready)
        /\ (axi_wvalid' <=> axi_wvalid /\ ~wready)
        /\ (last_write' <=> write_index' = N /\ ~axi_awvalid')
    BY <1>t, <1>i, <1>e, <2>1
  <2>3. /\ (axi_awvalid' => axi_awaddr' = nw) /\ (~axi_awvalid' => axi_awaddr' = write_index)
        /\ (axi_wvalid' => axi_wdata' = nw) /\ (~axi_wvalid' => axi_wdata' = write_index)
    BY <1>e, <2>1, <2>2
  <2>4. CASE Commit(answer)
    <3>1. ~axi_awvalid /\ ~axi_wvalid /\ m_addr = nw /\ m_word = nw
      BY <1>c, <2>1, <2>4
    <3>2. nw' = write_index /\ m_bvalid' /\ m_addr' = NoWord /\ m_word' = NoWord
      BY <1>m, <2>1, <2>4, <3>1
    <3>3. ~axi_awvalid' /\ ~axi_wvalid' /\ axi_awaddr' = write_index /\ axi_wdata' = write_index
      BY <2>2, <2>3, <3>1
    <3>4. WriteAnswered'
      BY <2>1, <2>2, <3>2, <3>3 DEF WriteAnswered, WritesMatch
    <3>5. nw < N
      BY <1>t, <2>1
    <3> QED
      BY <1>t, <2>2, <3>1, <3>4, <3>5 DEF WriteInv
  <2>5. CASE ~Commit(answer)
    <3>1. ~m_bvalid' /\ nw' = nw
      BY <1>m, <2>1, <2>5
    <3>2. /\ (axi_awvalid' => m_addr' = NoWord) /\ (~axi_awvalid' => m_addr' = nw)
          /\ (axi_wvalid' => m_word' = NoWord) /\ (~axi_wvalid' => m_word' = nw)
      BY <1>m, <2>1, <2>2, <2>5
    <3>3. WriteOffered'
      BY <2>1, <2>2, <2>3, <3>1, <3>2 DEF WriteOffered
    <3> QED
      BY <1>t, <2>2, <2>5, <3>3 DEF WriteInv
  <2> QED
    BY <2>4, <2>5
<1>4. CASE WriteAnswered
  <2>1. /\ write_issued /\ ~start_single_write /\ m_bvalid /\ ~writes_done /\ write_index > 0
        /\ ~axi_awvalid /\ ~axi_wvalid /\ m_addr = NoWord /\ m_word = NoWord
        /\ axi_awaddr = write_index /\ axi_wdata = write_index /\ nw = write_index
    BY <1>4 DEF WriteAnswered, WritesMatch
  <2>2. /\ ~Commit(answer) /\ ~start_single_write' /\ (write_issued' <=> ~axi_bready)
        /\ (m_bvalid' <=> ~axi_bready) /\ (axi_bready' <=> ~axi_bready)
        /\ ~axi_awvalid' /\ ~axi_wvalid' /\ m_addr' = NoWord /\ m_word' = NoWord
        /\ axi_awaddr' = write_index /\ axi_wdata' = write_index /\ nw' = write_index
        /\ write_index' = write_index /\ (last_write <=> write_index = N)
        /\ (last_write' <=> last_write) /\ (writes_done' <=> last_write /\ axi_bready)
    BY <1>t, <1>i, <1>e, <1>m, <1>c, <2>1
  <2>3. CASE axi_bready
    <3>1. WriteRest'
      BY <2>2, <2>3 DEF WriteRest, WritesMatch
    <3> QED
      BY <1>t, <2>2, <3>1 DEF WriteInv
  <2>4. CASE ~axi_bready
    <3>1. WriteAnswered'
      BY <2>1, <2>2, <2>4 DEF WriteAnswered, WritesMatch
    <3> QED
      BY <1>t, <2>2, <3>1 DEF WriteInv
  <2> QED
    BY <2>3, <2>4
<1> QED
  BY <1>1, <1>2, <1>3, <1>4 DEF WriteInv

LEMMA ReadStays ==
  ASSUME MasterTypeOK, ~init_txn_pulse, NEW awready \in BOOLEAN, NEW wready \in BOOLEAN,
         NEW arready \in BOOLEAN, NEW answer \in BOOLEAN,
         ReadChannels(arready), Memory(awready, wready, arready, answer),
         ReadInv, ReadRest, UNCHANGED <<start_single_read, read_issued>>
  PROVE  /\ ReadInv' /\ ReadRest' /\ read_index' = read_index
         /\ ~Return(answer) /\ ~m_rvalid /\ ~m_rvalid' /\ ~axi_rready'
<1>t. /\ read_index \in 0..N /\ (last_read <=> read_index = N /\ ~axi_arvalid)
      /\ {last_read, reads_done} \subseteq BOOLEAN
  BY DEF ReadInv, MasterTypeOK
<1>r. /\ ~read_issued /\ ~start_single_read /\ ~m_rvalid
      /\ ~axi_arvalid /\ m_raddr = NoWord /\ axi_araddr = read_index /\ nr = read_index
      /\ expected_rdata = read_index /\ (reads_done <=> read_index = N)
  BY DEF ReadRest, ReadsMatch
<1>1. ~Return(answer)
  BY <1>r DEF Return
<1>2. /\ ~m_rvalid' /\ m_raddr' = NoWord /\ nr' = nr
  BY <1>1, <1>r, MemoryEffect
<1>3. /\ ~axi_arvalid' /\ ~axi_rready' /\ read_index' = read_index
      /\ axi_araddr' = axi_araddr /\ expected_rdata' = expected_rdata
      /\ (last_read' <=> last_read) /\ (reads_done' <=> reads_done)
  BY <1>t, <1>r, ReadEffect
<1>4. ReadRest'
  BY <1>r, <1>2, <1>3 DEF ReadRest, ReadsMatch
<1> QED
  BY <1>t, <1>r, <1>1, <1>2, <1>3, <1>4 DEF ReadInv

LEMMA ReadGoes ==
  ASSUME MasterTypeOK, ~init_txn_pulse, NEW awready \in BOOLEAN, NEW wready \in BOOLEAN,
         NEW arready \in BOOLEAN, NEW answer \in BOOLEAN,
         ReadChannels(arready), Memory(awready, wready, arready, answer),
         ReadInv, ~reads_done, axi_rready => ReadAnswered,
         Issue(MayRead, axi_rready, start_single_read, read_issued)
  PROVE  /\ ReadInv' /\ (axi_rready' => ReadAnswered')
         /\ Return(answer) => nr < N /\ expected_rdata = nr /\ expected_rdata' = nr /\ ~m_rvalid
         /\ m_rvalid /\ axi_rready => ~m_rvalid'
         /\ m_rvalid /\ ~axi_rready => m_rvalid' /\ expected_rdata' = expected_rdata
<1>t. /\ read_index \in 0..N /\ (last_read <=> read_index = N /\ ~axi_arvalid)
      /\ {last_read, reads_done, start_single_read, read_issued, axi_rready, m_rvalid,
          axi_arvalid} \subseteq BOOLEAN
      /\ N \in Nat /\ N > 1 /\ NoWord \notin Int
  BY IndexStep, WordAssumption DEF ReadInv, MasterTypeOK
<1>i. /\ start_single_read' <=> \/ MayRead /\ ~start_single_read /\ ~read_issued
                                \/ start_single_read /\ axi_rready
      /\ read_issued' <=> \/ MayRead /\ ~start_single_read /\ ~read_issued
                          \/ read_issued /\ ~axi_rready
      /\ MayRead <=> ~axi_arvalid /\ ~m_rvalid /\ ~last_read
  BY <1>t DEF Issue, MayRead
<1>e. /\ axi_arvalid' <=> start_single_read \/ (axi_arvalid /\ ~arready)
      /\ axi_rready' <=> m_rvalid /\ ~axi_rready
      /\ last_read' <=> last_read \/ (read_index = N /\ arready)
      /\ reads_done' <=> reads_done \/ (last_read /\ m_rvalid /\ axi_rready)
      /\ read_index' = IF start_single_read THEN (read_index + 1) % IndexValues
                       ELSE read_index
      /\ axi_araddr' = IF arready /\ axi_arvalid THEN axi_araddr + 1 ELSE axi_araddr
      /\ expected_rdata' = IF m_rvalid /\ axi_rready THEN read_index ELSE expected_rdata
  BY ReadEffect
<1>m. /\ m_rvalid' <=> Return(answer) \/ (m_rvalid /\ ~axi_rready)
      /\ m_raddr' = IF axi_arvalid /\ arready THEN axi_araddr
                    ELSE IF Return(answer) THEN NoWord ELSE m_raddr
      /\ Return(answer) => nr' = nr + 1
      /\ ~Return(answer) => nr' = nr
  BY MemoryEffect
<1>c. Return(answer) <=> answer /\ m_raddr # NoWord /\ ~m_rvalid
  BY DEF Return
<1>v. /\ m_rvalid /\ axi_rready => ~m_rvalid'
      /\ m_rvalid /\ ~axi_rready => m_rvalid' /\ expected_rdata' = expected_rdata
      /\ Return(answer) => expected_rdata' = expected_rdata /\ ~m_rvalid
  BY <1>t, <1>e, <1>m, <1>c
<1>1. CASE ReadRest
  <2>1. read_index < N /\ ~last_read /\ ~axi_rready
    BY <1>t, <1>1 DEF ReadRest, ReadAnswered
  <2>2. /\ start_single_read' /\ read_issued' /\ ~m_rvalid' /\ ~axi_rready' /\ ~Return(answer)
        /\ ~axi_arvalid' /\ m_raddr' = NoWord /\ axi_araddr' = read_index /\ nr' = read_index
        /\ expected_rdata' = read_index
        /\ read_index' = read_index /\ ~last_read' /\ ~reads_done'
    BY <1>t, <1>i, <1>e, <1>m, <1>c, <1>1, <2>1 DEF ReadRest, ReadsMatch
  <2>3. ReadIssued'
    BY <2>1, <2>2 DEF ReadIssued, ReadsMatch
  <2> QED
    BY <1>t, <1>v, <2>1, <2>2, <2>3 DEF ReadInv
<1>2. CASE ReadIssued
  <2>1. /\ read_index \in 0..N - 1 /\ read_issued /\ start_single_read /\ ~m_rvalid
        /\ ~axi_rready /\ ~axi_arvalid /\ m_raddr = NoWord
        /\ axi_araddr = read_index /\ nr = read_index /\ expected_rdata = read_index
    BY <1>t, <1>2 DEF ReadIssued, ReadsMatch
  <2>2. ~Return(answer) /\ ~last_read
    BY <1>t, <1>c, <2>1
  <2>3. read_index' = read_index + 1
    BY <1>e, <2>1, IndexStep
  <2>4. /\ ~start_single_read' /\ read_issued' /\ ~m_rvalid' /\ ~axi_rready'
        /\ axi_arvalid' /\ m_raddr' = NoWord /\ expected_rdata' = read_index
        /\ axi_araddr' = read_index /\ nr' = read_index /\ ~last_read' /\ ~reads_done'
    BY <1>t, <1>i, <1>e, <1>m, <2>1, <2>2
  <2>5. read_index' \in 0..N /\ read_index' > 0 /\ nr' = read_index' - 1
    BY <1>t, <2>1, <2>3, <2>4
  <2>6. ReadOffered'
    BY <2>4, <2>5 DEF ReadOffered
  <2> QED
    BY <1>v, <2>2, <2>4, <2>5, <2>6 DEF ReadInv
<1>3. CASE ReadOffered
  <2>1. /\ read_issued /\ ~start_single_read /\ ~m_rvalid /\ ~axi_rready /\ ~reads_done
        /\ read_index > 0 /\ nr = read_index - 1 /\ nr \in Int /\ nr + 1 = read_index
        /\ expected_rdata = nr
        /\ (axi_arvalid => axi_araddr = nr /\ m_raddr = NoWord)
        /\ (~axi_arvalid => axi_araddr = read_index /\ m_raddr = nr)
    BY <1>t, <1>3 DEF ReadOffered
  <2>2. /\ ~start_single_read' /\ read_issued' /\ ~axi_rready' /\ ~reads_done'
        /\ read_index' = read_index /\ expected_rdata' = nr
        /\ (axi_arvalid' <=> axi_arvalid /\ ~arready)
        /\ (last_read' <=> read_index' = N /\ ~axi_arvalid')
    BY <1>t, <1>i, <1>e, <2>1
  <2>3. (axi_arvalid' => axi_araddr' = nr) /\ (~axi_arvalid' => axi_araddr' = read_index)
    BY <1>e, <2>1, <2>2
  <2>4. CASE Return(answer)
    <3>1. ~axi_arvalid /\ m_raddr = nr
      BY <1>c, <2>1, <2>4
    <3>2. nr' = read_index /\ m_rvalid' /\ m_raddr' = NoWord
      BY <1>m, <2>1, <2>4, <3>1
    <3>3. ~axi_arvalid' /\ axi_araddr' = read_index
      BY <2>2, <2>3, <3>1
    <3>4. ReadAnswered'
      BY <2>1, <2>2, <3>2, <3>3 DEF ReadAnswered, ReadsMatch
    <3>5. nr < N
      BY <1>t, <2>1
    <3> QED
      BY <1>t, <1>v, <2>1, <2>2, <3>4, <3>5 DEF ReadInv
  <2>5. CASE ~Return(answer)
    <3>1. ~m_rvalid' /\ nr' = nr
      BY <1>m, <2>1, <2>5
    <3>2. (axi_arvalid' => m_raddr' = NoWord) /\ (~axi_arvalid' => m_raddr' = nr)
      BY <1>m, <2>1, <2>2, <2>5
    <3>3. ReadOffered'
      BY <2>1, <2>2, <2>3, <3>1, <3>2 DEF ReadOffered
    <3> QED
      BY <1>t, <1>v, <2>2, <2>5, <3>3 DEF ReadInv
  <2> QED
    BY <2>4, <2>5
<1>4. CASE ReadAnswered
  <2>1. /\ read_issued /\ ~start_single_read /\ m_rvalid /\ ~reads_done /\ read_index > 0
        /\ ~axi_arvalid /\ m_raddr = NoWord /\ axi_araddr = read_index /\ nr = read_index
        /\ expected_rdata = read_index - 1
    BY <1>4 DEF ReadAnswered, ReadsMatch
  <2>2. /\ ~Return(answer) /\ ~start_single_read' /\ (read_issued' <=> ~axi_rready)
        /\ (m_rvalid' <=> ~axi_rready) /\ (axi_rready' <=> ~axi_rready)
        /\ ~axi_arvalid' /\ m_raddr' = NoWord /\ axi_araddr' = read_index /\ nr' = read_index
        /\ expected_rdata' = (IF axi_rready THEN read_index ELSE read_index - 1)
        /\ read_index' = read_index /\ (last_read <=> read_index = N)
        /\ (last_read' <=> last_read) /\ (reads_done' <=> last_read /\ axi_rready)
    BY <1>t, <1>i, <1>e, <1>m, <1>c, <2>1
  <2>3. CASE axi_rready
    <3>1. ReadRest'
      BY <2>2, <2>3 DEF ReadRest, ReadsMatch
    <3> QED
      BY <1>t, <1>v, <2>2, <2>3, <3>1 DEF ReadInv
  <2>4. CASE ~axi_rready
    <3>1. ReadAnswered'
      BY <2>1, <2>2, <2>4 DEF ReadAnswered, ReadsMatch
    <3> QED
      BY <1>t, <1>v, <2>2, <3>1 DEF ReadInv
  <2> QED
    BY <2>3, <2>4
<1> QED
  BY <1>1, <1>2, <1>3, <1>4 DEF ReadInv

-----------------------------------------------------------------------------
(* A clock of the master, phase by phase *)

TestVars == <<mem, nw, nr, bad, compare_done, error>>
TestStep == Test!Next \/ UNCHANGED TestVars

Flags ==
  {init_txn_ff, init_txn_ff2, start_single_write, write_issued, start_single_read,
   read_issued, compare_done, error, axi_awvalid, axi_wvalid, axi_bready, last_write,
   writes_done, axi_arvalid, axi_rready, last_read, reads_done, read_mismatch,
   error_reg, m_bvalid, m_berr, m_rvalid, m_rerr, bad}

\* The counters follow from the stages.
StageTypes ==
  /\ WriteInv /\ ReadInv
  /\ Flags \subseteq BOOLEAN /\ mem \in [0..N - 1 -> Words] /\ m_rdata \in Words
  /\ mst_exec_state \in {"IDLE", "INIT_WRITE", "INIT_READ", "INIT_COMPARE"}

LEMMA TypeFromStages == StageTypes => MasterTypeOK
<1> SUFFICES ASSUME StageTypes PROVE MasterTypeOK
  OBVIOUS
<1>s. /\ WriteInv /\ ReadInv
      /\ Flags \subseteq BOOLEAN /\ mem \in [0..N - 1 -> Words] /\ m_rdata \in Words
      /\ mst_exec_state \in {"IDLE", "INIT_WRITE", "INIT_READ", "INIT_COMPARE"}
  BY DEF StageTypes
<1>n. N \in Nat /\ N > 1
  BY IndexStep
<1>1. /\ write_index \in 0..N /\ axi_awaddr \in 0..N /\ axi_wdata \in 0..N /\ nw \in 0..N
      /\ m_addr \in 0..N - 1 \cup {NoWord} /\ m_word \in 0..N \cup {NoWord}
  <2>1. CASE WritesMatch
    BY <1>s, <2>1 DEF WriteInv, WritesMatch
  <2>2. CASE WriteOffered
    <3>1. write_index \in 0..N /\ write_index > 0 /\ nw = write_index - 1
      BY <1>s, <2>2 DEF WriteInv, WriteOffered
    <3>2. nw \in 0..N - 1
      BY <1>n, <3>1
    <3> QED
      BY <1>n, <2>2, <3>1, <3>2 DEF WriteOffered
  <2> QED
    BY <1>s, <2>1, <2>2 DEF WriteInv, WriteRest, WriteIssued, WriteAnswered
<1>2. /\ read_index \in 0..N /\ axi_araddr \in 0..N /\ expected_rdata \in 0..N /\ nr \in 0..N
      /\ m_raddr \in 0..N - 1 \cup {NoWord}
  <2>1. CASE ReadRest \/ ReadIssued \/ ReadAnswered
    <3>1. ReadsMatch /\ read_index \in 0..N
      BY <1>s, <2>1 DEF ReadInv, ReadRest, ReadIssued, ReadAnswered
    <3>2. expected_rdata \in 0..N
      BY <1>n, <2>1, <3>1 DEF ReadRest, ReadIssued, ReadAnswered
    <3> QED
      BY <3>1, <3>2 DEF ReadsMatch
  <2>2. CASE ReadOffered
    <3>1. read_index \in 0..N /\ read_index > 0 /\ nr = read_index - 1 /\ expected_rdata = nr
      BY <1>s, <2>2 DEF ReadInv, ReadOffered
    <3>2. nr \in 0..N - 1
      BY <1>n, <3>1
    <3> QED
      BY <1>n, <2>2, <3>1, <3>2 DEF ReadOffered
  <2> QED
    BY <1>s, <2>1, <2>2 DEF ReadInv
<1> QED
  BY <1>s, <1>1, <1>2 DEF MasterTypeOK, Flags

LEMMA ClockTypes ==
  ASSUME MasterTypeOK, NEW txn \in BOOLEAN, NEW awready \in BOOLEAN, NEW wready \in BOOLEAN,
         NEW arready \in BOOLEAN, NEW answer \in BOOLEAN,
         ~init_txn_pulse, MasterClock(txn, awready, wready, arready, answer)
  PROVE  /\ Flags' \subseteq BOOLEAN /\ m_rdata' \in Words
         /\ WriteChannels(awready, wready) /\ ReadChannels(arready) /\ Compare
         /\ Memory(awready, wready, arready, answer) /\ Execute
         /\ mst_exec_state' \in {"IDLE", "INIT_WRITE", "INIT_READ", "INIT_COMPARE"}
<1>1. /\ WriteChannels(awready, wready) /\ ReadChannels(arready) /\ Compare
      /\ Memory(awready, wready, arready, answer) /\ Execute
      /\ init_txn_ff' = txn /\ init_txn_ff2' = init_txn_ff
  BY DEF MasterClock
<1>2. {axi_awvalid', axi_wvalid', axi_bready', last_write', writes_done'} \subseteq BOOLEAN
  BY <1>1, WriteEffect
<1>3. {axi_arvalid', axi_rready', last_read', reads_done'} \subseteq BOOLEAN
  BY <1>1, ReadEffect
<1>4. {read_mismatch', error_reg'} \subseteq BOOLEAN
  BY <1>1, CompareEffect
<1>5. /\ m_bvalid' \in BOOLEAN /\ m_berr' \in BOOLEAN /\ m_rvalid' \in BOOLEAN
      /\ m_rerr' \in BOOLEAN /\ bad' \in BOOLEAN /\ m_rdata' \in Words
  BY <1>1, MemoryEffect
<1>6. /\ {start_single_write', write_issued', start_single_read', read_issued', compare_done',
          error'} \subseteq BOOLEAN
      /\ mst_exec_state' \in {"IDLE", "INIT_WRITE", "INIT_READ", "INIT_COMPARE"}
  BY <1>1 DEF Execute, Issue, MasterTypeOK
<1>7. init_txn_ff' \in BOOLEAN /\ init_txn_ff2' \in BOOLEAN
  BY <1>1 DEF MasterTypeOK
<1> QED
  BY <1>1, <1>2, <1>3, <1>4, <1>5, <1>6, <1>7 DEF Flags

LEMMA PhaseClock ==
  ASSUME MasterInv, NEW txn \in BOOLEAN, NEW awready \in BOOLEAN, NEW wready \in BOOLEAN,
         NEW arready \in BOOLEAN, NEW answer \in BOOLEAN,
         ~init_txn_pulse, MasterClock(txn, awready, wready, arready, answer)
  PROVE  MasterInv' /\ TestStep
<1>t. /\ MasterTypeOK /\ WriteInv /\ ReadInv /\ PhaseInv
  BY DEF MasterInv
<1>f. /\ Flags' \subseteq BOOLEAN /\ m_rdata' \in Words
      /\ WriteChannels(awready, wready) /\ ReadChannels(arready) /\ Compare
      /\ Memory(awready, wready, arready, answer) /\ Execute
      /\ mst_exec_state' \in {"IDLE", "INIT_WRITE", "INIT_READ", "INIT_COMPARE"}
  BY <1>t, ClockTypes
<1>b. /\ {bad, error_reg, read_mismatch, m_berr, m_rerr, m_bvalid, m_rvalid, error, compare_done,
          axi_rready, axi_bready} \subseteq BOOLEAN
      /\ mst_exec_state \in {"IDLE", "INIT_WRITE", "INIT_READ", "INIT_COMPARE"}
      /\ mem \in [0..N - 1 -> Words]
  BY <1>t DEF MasterTypeOK
<1>c. /\ read_mismatch' <=> \/ read_mismatch
                            \/ m_rvalid /\ axi_rready /\ m_rdata # expected_rdata
      /\ error_reg' <=> \/ error_reg \/ read_mismatch
                        \/ m_bvalid /\ axi_bready /\ m_berr
                        \/ m_rvalid /\ axi_rready /\ m_rerr
  BY <1>t, <1>f, CompareEffect
<1>m. /\ m_bvalid' <=> Commit(answer) \/ (m_bvalid /\ ~axi_bready)
      /\ Commit(answer) => nw' = nw + 1 /\ mem' = [mem EXCEPT ![m_addr] = m_word]
      /\ ~Commit(answer) => nw' = nw /\ mem' = mem /\ (m_berr' <=> m_berr)
      /\ m_rvalid' <=> Return(answer) \/ (m_rvalid /\ ~axi_rready)
      /\ Return(answer) => nr' = nr + 1
      /\ ~Return(answer) => nr' = nr /\ m_rdata' = m_rdata /\ (m_rerr' <=> m_rerr)
      /\ bad' <=> \/ bad
                  \/ Commit(answer) /\ m_berr'
                  \/ Return(answer) /\ (m_rerr' \/ m_rdata' # nr)
      /\ bad' \in BOOLEAN
  BY <1>t, <1>f, MemoryEffect
<1>n. ~Commit(answer) => mem' \in [0..N - 1 -> Words]
  BY <1>b, <1>m
<1>p. (StageTypes => MasterTypeOK)'
  BY TypeFromStages, PTL
<1>q. WriteInv' /\ ReadInv' /\ PhaseInv' /\ mem' \in [0..N - 1 -> Words] => MasterInv'
  BY <1>f, <1>p DEF StageTypes, MasterInv
<1>1. CASE mst_exec_state = "IDLE"
  <2>1. /\ mst_exec_state' = "IDLE" /\ compare_done' = compare_done /\ error' = error
        /\ UNCHANGED <<start_single_write, write_issued, start_single_read, read_issued>>
    BY <1>1, <1>f DEF Execute
  <2>2. WriteRest /\ ReadRest /\ (compare_done => (error <=> bad))
    BY <1>1, <1>t DEF PhaseInv
  <2>3. WriteInv' /\ WriteRest' /\ ~Commit(answer)
    BY <1>t, <1>f, <2>1, <2>2, WriteStays
  <2>4. ReadInv' /\ ReadRest' /\ ~Return(answer)
    BY <1>t, <1>f, <2>1, <2>2, ReadStays
  <2>5. (bad' <=> bad) /\ bad' = bad /\ nw' = nw /\ nr' = nr /\ mem' = mem
    BY <1>b, <1>m, <2>3, <2>4
  <2>6. PhaseInv'
    BY <2>1, <2>2, <2>3, <2>4, <2>5 DEF PhaseInv
  <2> QED
    BY <1>f, <1>n, <2>1, <2>3, <2>4, <2>5, <2>6, <1>q DEF TestStep, TestVars
<1>2. CASE mst_exec_state = "INIT_WRITE"
  <2>1. /\ compare_done' = compare_done /\ error' = error /\ ~compare_done
        /\ UNCHANGED <<start_single_read, read_issued>>
    BY <1>2, <1>t, <1>f DEF Execute, PhaseInv
  <2>2. /\ ReadRest /\ read_index = 0 /\ Verdict
    BY <1>2, <1>t DEF PhaseInv
  <2>3. ReadInv' /\ ReadRest' /\ read_index' = 0 /\ ~Return(answer) /\ ~axi_rready' /\ ~m_rvalid'
        /\ ~m_rvalid
    BY <1>t, <1>f, <2>1, <2>2, ReadStays
  <2>4. Verdict'
    BY <1>b, <1>c, <1>m, <2>2, <2>3 DEF Verdict, Commit
  <2>5. CASE writes_done
    <3>1. WriteRest /\ write_index = N
      BY <1>t, <2>5 DEF WriteInv, WriteRest, WriteIssued, WriteOffered, WriteAnswered
    <3>2. mst_exec_state' = "INIT_READ" /\ UNCHANGED <<start_single_write, write_issued>>
      BY <1>2, <1>f, <2>5 DEF Execute
    <3>3. WriteInv' /\ WriteRest' /\ ~Commit(answer) /\ write_index' = N
      BY <1>t, <1>f, <3>1, <3>2, WriteStays
    <3>4. bad' = bad /\ nw' = nw /\ nr' = nr /\ mem' = mem
      BY <1>b, <1>m, <2>3, <3>3
    <3>5. PhaseInv'
      BY <2>1, <2>3, <2>4, <3>2, <3>3 DEF PhaseInv
    <3> QED
      BY <1>f, <1>n, <2>1, <2>3, <3>3, <3>4, <3>5, <1>q DEF TestStep, TestVars
  <2>6. CASE ~writes_done
    <3>1. /\ mst_exec_state' = "INIT_WRITE"
          /\ Issue(MayWrite, axi_bready, start_single_write, write_issued)
      BY <1>2, <1>f, <2>6 DEF Execute
    <3>2. WriteInv' /\ (Commit(answer) => m_addr = nw /\ m_word = nw /\ nw < N)
      BY <1>t, <1>f, <2>6, <3>1, WriteGoes
    <3>3. PhaseInv'
      BY <2>1, <2>3, <2>4, <3>1 DEF PhaseInv
    <3>4. nr' = nr /\ nr = 0
      BY <1>m, <2>2, <2>3 DEF ReadRest, ReadsMatch
    <3>5. CASE Commit(answer)
      <4>1. /\ m_addr = nw /\ m_word = nw /\ nw < N /\ nw' = nw + 1
            /\ mem' = [mem EXCEPT ![nw] = nw]
        BY <1>m, <3>2, <3>5
      <4>2. nw \in 0..N /\ N \in Nat
        BY <1>t, IndexStep DEF MasterTypeOK
      <4>3. mem' \in [0..N - 1 -> Words]
        <5>1. nw \in 0..N - 1 /\ nw \in Words
          BY <4>1, <4>2 DEF Words
        <5> QED
          BY <1>b, <4>1, <5>1
      <4>4. bad' \in {bad, TRUE}
        BY <1>b, <1>m
      <4>5. Test!WriteWord
        BY <2>1, <3>4, <4>1, <4>4 DEF Test!WriteWord
      <4> QED
        BY <1>f, <2>3, <3>2, <3>3, <4>3, <4>5, <1>q DEF TestStep, Test!Next
    <3>6. CASE ~Commit(answer)
      <4>1. bad' = bad /\ nw' = nw /\ mem' = mem
        BY <1>b, <1>m, <2>3, <3>6
      <4> QED
        BY <1>f, <1>n, <2>1, <2>3, <3>2, <3>3, <3>4, <3>6, <4>1, <1>q DEF TestStep, TestVars
    <3> QED
      BY <3>5, <3>6
  <2> QED
    BY <2>5, <2>6
<1>3. CASE mst_exec_state = "INIT_READ"
  <2>1. /\ compare_done' = compare_done /\ error' = error /\ ~compare_done
        /\ UNCHANGED <<start_single_write, write_issued>>
    BY <1>3, <1>t, <1>f DEF Execute, PhaseInv
  <2>2. WriteRest /\ write_index = N /\ Verdict /\ (axi_rready => ReadAnswered)
    BY <1>3, <1>t DEF PhaseInv
  <2>3. /\ WriteInv' /\ WriteRest' /\ write_index' = N /\ ~Commit(answer)
        /\ ~m_bvalid /\ ~m_bvalid'
    BY <1>t, <1>f, <2>1, <2>2, WriteStays
  <2>4. nw' = nw /\ nw = N /\ mem' = mem /\ mem' \in [0..N - 1 -> Words]
    BY <1>m, <1>n, <2>2, <2>3 DEF WriteRest, WritesMatch
  <2>5. CASE reads_done
    <3>1. ReadRest /\ read_index = N
      BY <1>t, <2>5 DEF ReadInv, ReadRest, ReadIssued, ReadOffered, ReadAnswered
    <3>2. mst_exec_state' = "INIT_COMPARE" /\ UNCHANGED <<start_single_read, read_issued>>
      BY <1>3, <1>f, <2>5 DEF Execute
    <3>3. /\ ReadInv' /\ ReadRest' /\ ~Return(answer) /\ read_index' = N
          /\ ~m_rvalid /\ ~m_rvalid' /\ ~axi_rready'
      BY <1>t, <1>f, <3>1, <3>2, ReadStays
    <3>4. bad' = bad /\ nr' = nr
      BY <1>b, <1>m, <2>3, <3>3
    <3>5. bad' <=> error_reg'
      BY <1>b, <1>c, <2>2, <2>3, <3>3, <3>4 DEF Verdict
    <3>6. PhaseInv'
      BY <2>1, <2>3, <3>2, <3>3, <3>5 DEF PhaseInv
    <3> QED
      BY <1>f, <2>1, <2>3, <2>4, <3>3, <3>4, <3>6, <1>q DEF TestStep, TestVars
  <2>6. CASE ~reads_done
    <3>1. /\ mst_exec_state' = "INIT_READ"
          /\ Issue(MayRead, axi_rready, start_single_read, read_issued)
      BY <1>3, <1>f, <2>6 DEF Execute
    <3>2. /\ ReadInv' /\ (axi_rready' => ReadAnswered')
          /\ Return(answer) => nr < N /\ expected_rdata = nr /\ expected_rdata' = nr /\ ~m_rvalid
          /\ m_rvalid /\ axi_rready => ~m_rvalid'
          /\ m_rvalid /\ ~axi_rready => m_rvalid' /\ expected_rdata' = expected_rdata
      BY <1>t, <1>f, <2>2, <2>6, <3>1, ReadGoes
    <3>3. Verdict'
      <4>1. CASE Return(answer)
        BY <1>b, <1>c, <1>m, <2>2, <2>3, <3>2, <4>1 DEF Verdict
      <4>2. CASE ~Return(answer) /\ m_rvalid /\ axi_rready
        BY <1>b, <1>c, <1>m, <2>2, <2>3, <3>2, <4>2 DEF Verdict
      <4>3. CASE ~Return(answer) /\ ~(m_rvalid /\ axi_rready)
        BY <1>b, <1>c, <1>m, <2>2, <2>3, <3>2, <4>3 DEF Verdict
      <4> QED
        BY <4>1, <4>2, <4>3
    <3>4. PhaseInv'
      BY <2>1, <2>3, <3>1, <3>2, <3>3 DEF PhaseInv
    <3>5. MasterInv'
      BY <1>f, <2>3, <2>4, <3>2, <3>4, <1>q
    <3>6. CASE Return(answer)
      <4>1. nr < N /\ nr' = nr + 1
        BY <1>m, <3>2, <3>6
      <4>2. bad' \in {bad, TRUE}
        BY <1>b, <1>m
      <4> QED
        BY <2>1, <2>4, <3>5, <4>1, <4>2 DEF TestStep, Test!Next, Test!ReadWord
    <3>7. CASE ~Return(answer)
      <4>1. bad' = bad /\ nr' = nr
        BY <1>b, <1>m, <2>3, <3>7
      <4> QED
        BY <2>1, <2>4, <3>5, <4>1 DEF TestStep, TestVars
    <3> QED
      BY <3>6, <3>7
  <2> QED
    BY <2>5, <2>6
<1>4. CASE mst_exec_state = "INIT_COMPARE"
  <2>1. /\ mst_exec_state' = "IDLE" /\ compare_done' /\ error' = error_reg
        /\ UNCHANGED <<start_single_write, write_issued, start_single_read, read_issued>>
    BY <1>4, <1>f DEF Execute
  <2>2. WriteRest /\ ReadRest /\ write_index = N /\ read_index = N /\ (bad <=> error_reg)
        /\ ~compare_done
    BY <1>4, <1>t DEF PhaseInv
  <2>3. WriteInv' /\ WriteRest' /\ ~Commit(answer)
    BY <1>t, <1>f, <2>1, <2>2, WriteStays
  <2>4. ReadInv' /\ ReadRest' /\ ~Return(answer)
    BY <1>t, <1>f, <2>1, <2>2, ReadStays
  <2>5. bad' = bad /\ nw' = nw /\ nr' = nr /\ mem' = mem /\ nr = N
    BY <1>b, <1>m, <2>2, <2>3, <2>4 DEF ReadRest, ReadsMatch
  <2>6. PhaseInv'
    BY <1>b, <2>1, <2>2, <2>3, <2>4, <2>5 DEF PhaseInv
  <2>7. error' = bad
    BY <1>b, <2>1, <2>2
  <2>8. Test!Report
    BY <2>1, <2>2, <2>5, <2>7 DEF Test!Report
  <2> QED
    BY <1>f, <1>n, <2>3, <2>4, <2>6, <2>8, <1>q DEF TestStep, Test!Next
<1> QED
  BY <1>b, <1>1, <1>2, <1>3, <1>4

\* What the master is at the start of a test and out of reset.
Fresh ==
  /\ WritesMatch /\ write_index = 0 /\ ~m_bvalid /\ ~axi_bready
  /\ ReadsMatch /\ read_index = 0 /\ expected_rdata = 0 /\ ~m_rvalid
  /\ ~start_single_write /\ ~write_issued /\ ~start_single_read /\ ~read_issued
  /\ ~last_write /\ ~writes_done /\ ~last_read /\ ~reads_done
  /\ ~read_mismatch /\ ~error_reg /\ ~bad /\ ~compare_done

LEMMA FreshInv ==
  Fresh /\ mst_exec_state \in {"IDLE", "INIT_WRITE"} =>
    WriteInv /\ ReadInv /\ PhaseInv
<1> SUFFICES ASSUME Fresh, mst_exec_state \in {"IDLE", "INIT_WRITE"}
             PROVE  WriteInv /\ ReadInv /\ PhaseInv
  OBVIOUS
<1>n. N \in Nat /\ N > 1
  BY IndexStep
<1>1. 0 \in 0..N /\ 0 # N
  BY <1>n
<1>2. WriteRest /\ WriteInv
  BY <1>1 DEF Fresh, WriteRest, WriteInv
<1>3. ReadRest /\ ReadInv
  BY <1>1 DEF Fresh, ReadRest, ReadInv
<1>4. Verdict
  BY DEF Fresh, Verdict
<1> QED
  BY <1>2, <1>3, <1>4 DEF Fresh, PhaseInv

\* A test begins at a pulse that finds the master at rest.
LEMMA PulseClock ==
  ASSUME MasterInv, NEW txn \in BOOLEAN, NEW awready \in BOOLEAN, NEW wready \in BOOLEAN,
         NEW arready \in BOOLEAN, NEW answer \in BOOLEAN,
         init_txn_pulse, mst_exec_state = "IDLE",
         MasterClock(txn, awready, wready, arready, answer)
  PROVE  MasterInv' /\ TestStep
<1>p. (StageTypes => MasterTypeOK)' /\ (Fresh /\ mst_exec_state \in {"IDLE", "INIT_WRITE"} =>
                                          WriteInv /\ ReadInv /\ PhaseInv)'
  BY TypeFromStages, FreshInv, PTL
<1>t. MasterTypeOK /\ WriteRest /\ ReadRest
  BY DEF MasterInv, PhaseInv
<1>r. /\ ~axi_awvalid /\ ~axi_wvalid /\ m_addr = NoWord /\ m_word = NoWord /\ ~m_bvalid
      /\ ~axi_arvalid /\ m_raddr = NoWord /\ ~m_rvalid
      /\ ~start_single_write /\ ~write_issued /\ ~start_single_read /\ ~read_issued
  BY <1>t DEF WriteRest, WritesMatch, ReadRest, ReadsMatch
<1>f. /\ WriteChannels(awready, wready) /\ ReadChannels(arready) /\ Compare
      /\ Memory(awready, wready, arready, answer) /\ Execute
      /\ init_txn_ff' = txn /\ init_txn_ff2' = init_txn_ff
  BY DEF MasterClock
<1>1. /\ axi_awvalid' = FALSE /\ axi_wvalid' = FALSE /\ axi_bready' = FALSE
      /\ last_write' = FALSE /\ writes_done' = FALSE
      /\ write_index' = 0 /\ axi_awaddr' = 0 /\ axi_wdata' = 0
  BY <1>f DEF WriteChannels, SetClear, Sticky, StepIf
<1>2. /\ axi_arvalid' = FALSE /\ axi_rready' = TRUE /\ last_read' = FALSE /\ reads_done' = FALSE
      /\ read_index' = 0 /\ axi_araddr' = 0 /\ expected_rdata' = 0
  BY <1>f DEF ReadChannels, SetClear, Sticky, StepIf
<1>3. read_mismatch' = FALSE /\ error_reg' = FALSE
  BY <1>f DEF Compare, Sticky
<1>4. /\ mst_exec_state' = "INIT_WRITE" /\ compare_done' = FALSE /\ error' = FALSE
      /\ UNCHANGED <<start_single_write, write_issued, start_single_read, read_issued>>
  BY <1>f DEF Execute
<1>5. Starting
  BY DEF Starting
<1>6. /\ m_bvalid' = FALSE /\ m_berr' = m_berr /\ mem' = mem /\ m_addr' = NoWord
      /\ m_word' = NoWord /\ nw' = 0
  <2>1. PICK err : AnswerWrite(awready, wready, answer, err)
    BY <1>f DEF Memory
  <2> QED
    BY <1>r, <1>5, <2>1 DEF AnswerWrite, WriteAccepted
<1>7. /\ m_rvalid' = FALSE /\ m_rerr' = m_rerr /\ m_rdata' = m_rdata /\ m_raddr' = NoWord
      /\ nr' = 0 /\ bad' = FALSE
  <2>1. AnswerRead(arready, FALSE, NoWord, FALSE) /\ Record
    BY <1>f, <1>r DEF Memory
  <2> QED
    BY <1>r, <1>5, <2>1 DEF AnswerRead, Record
<1>8. Fresh'
  BY <1>r, <1>1, <1>2, <1>3, <1>4, <1>6, <1>7 DEF Fresh, WritesMatch, ReadsMatch
<1>9. Flags' \subseteq BOOLEAN /\ mem' \in [0..N - 1 -> Words] /\ m_rdata' \in Words
  BY <1>t, <1>f, <1>1, <1>2, <1>3, <1>4, <1>6, <1>7 DEF Flags, MasterTypeOK
<1>10. Test!Begin
  BY <1>4, <1>6, <1>7 DEF Test!Begin
<1> QED
  BY <1>p, <1>4, <1>8, <1>9, <1>10 DEF MasterInv, StageTypes, TestStep, Test!Next

LEMMA MasterStart == MasterInit => MasterInv /\ Test!Init
<1> SUFFICES ASSUME MasterInit PROVE MasterInv /\ Test!Init
  OBVIOUS
<1>1. Fresh /\ mst_exec_state = "IDLE"
  BY DEF MasterInit, Fresh, WritesMatch, ReadsMatch
<1>2. Flags \subseteq BOOLEAN /\ Test!Init
  BY DEF MasterInit, Flags, Test!Init
<1>n. N \in Nat /\ N > 1
  BY IndexStep
<1>3. mem \in [0..N - 1 -> Words] /\ m_rdata \in Words
  BY <1>n DEF MasterInit, Words
<1> QED
  BY <1>1, <1>2, <1>3, FreshInv, TypeFromStages DEF StageTypes, MasterInv

LEMMA MasterRestart == MasterInv /\ MasterReset => MasterInv' /\ TestStep
<1> SUFFICES ASSUME MasterInv, MasterReset PROVE MasterInv' /\ TestStep
  OBVIOUS
<1>p. (StageTypes => MasterTypeOK)' /\ (Fresh /\ mst_exec_state \in {"IDLE", "INIT_WRITE"} =>
                                          WriteInv /\ ReadInv /\ PhaseInv)'
  BY TypeFromStages, FreshInv, PTL
<1>1. Fresh' /\ mst_exec_state' = "IDLE"
  BY DEF MasterReset, Fresh, WritesMatch, ReadsMatch
<1>2. Flags' \subseteq BOOLEAN /\ Test!Begin
  BY DEF MasterReset, Flags, Test!Begin
<1>n. N \in Nat /\ N > 1
  BY IndexStep
<1>3. mem' \in [0..N - 1 -> Words] /\ m_rdata' \in Words
  BY <1>n DEF MasterReset, Words, MasterInv, MasterTypeOK
<1> QED
  BY <1>p, <1>1, <1>2, <1>3 DEF StageTypes, MasterInv, TestStep, Test!Next

LEMMA MasterRests == MasterInv /\ UNCHANGED masterVars => MasterInv' /\ TestStep
<1> SUFFICES ASSUME MasterInv, UNCHANGED masterVars PROVE MasterInv' /\ TestStep
  OBVIOUS
<1>1. UNCHANGED TestVars
  BY DEF masterVars, controlVars, memVars, TestVars
<1>2. MasterTypeOK'
  BY DEF masterVars, controlVars, mwriteVars, mreadVars, memVars, MasterInv, MasterTypeOK
<1>3. WriteInv'
  BY DEF masterVars, controlVars, mwriteVars, memVars, MasterInv, WriteInv, WriteRest, WriteIssued,
         WriteOffered, WriteAnswered, WritesMatch
<1>4. ReadInv'
  BY DEF masterVars, controlVars, mreadVars, memVars, MasterInv, ReadInv, ReadRest, ReadIssued,
         ReadOffered, ReadAnswered, ReadsMatch
<1>5. PhaseInv'
  BY DEF masterVars, controlVars, mwriteVars, mreadVars, memVars, MasterInv, PhaseInv, Verdict,
         WriteRest, WritesMatch, ReadRest, ReadAnswered, ReadsMatch
<1> QED
  BY <1>1, <1>2, <1>3, <1>4, <1>5 DEF MasterInv, TestStep

LEMMA MasterStep ==
  ASSUME MasterInv, NEW txn \in BOOLEAN, NEW awready \in BOOLEAN, NEW wready \in BOOLEAN,
         NEW arready \in BOOLEAN, NEW answer \in BOOLEAN,
         init_txn_pulse => mst_exec_state = "IDLE",
         MasterClock(txn, awready, wready, arready, answer)
  PROVE  MasterInv' /\ TestStep
BY PhaseClock, PulseClock

\* A master at rest stays there, and the verdict on its last test with it.
LEMMA IdleClock ==
  ASSUME MasterInv, NEW txn \in BOOLEAN, NEW awready \in BOOLEAN, NEW wready \in BOOLEAN,
         NEW arready \in BOOLEAN, NEW answer \in BOOLEAN,
         ~init_txn_pulse, mst_exec_state = "IDLE",
         MasterClock(txn, awready, wready, arready, answer)
  PROVE  mst_exec_state' = "IDLE" /\ bad' = bad
<1>1. MasterTypeOK /\ m_addr = NoWord /\ m_raddr = NoWord /\ bad \in BOOLEAN
  BY DEF MasterInv, MasterTypeOK, PhaseInv, WriteRest, WritesMatch, ReadRest, ReadsMatch
<1>2. ~Commit(answer) /\ ~Return(answer)
  BY <1>1 DEF Commit, Return, WriteAccepted
<1>3. Memory(awready, wready, arready, answer) /\ Execute
  BY DEF MasterClock
<1>4. mst_exec_state' = "IDLE"
  BY <1>3 DEF Execute
<1>5. (bad' <=> bad) /\ bad' \in BOOLEAN
  BY <1>1, <1>2, <1>3, MemoryEffect
<1> QED
  BY <1>1, <1>4, <1>5

-----------------------------------------------------------------------------
(* The software and the start bit *)

LEMMA StartBit == \A w \in {0, 1} : (BitOf(w, 0) <=> w = 1)
<1>1. 2^0 = 1
  OBVIOUS
<1> QED
  BY <1>1 DEF BitOf

LEMMA StatusBits ==
  ASSUME NEW e \in BOOLEAN, NEW d \in BOOLEAN, NEW i \in BOOLEAN
  PROVE  LET w == Numeral(e) + 2 * Numeral(d) + 4 * Numeral(i)
         IN  (BitOf(w, 1) <=> d) /\ (BitOf(w, 0) <=> e)
<1>1. 2^0 = 1 /\ 2^1 = 2
  OBVIOUS
<1>2. \A x, y, z \in {0, 1} : LET w == x + 2 * y + 4 * z
                              IN  ((w \div 2) % 2 = 1 <=> y = 1) /\ ((w \div 1) % 2 = 1 <=> x = 1)
  OBVIOUS
<1>3. /\ Numeral(e) \in {0, 1} /\ Numeral(d) \in {0, 1} /\ Numeral(i) \in {0, 1}
      /\ Numeral(e) = 1 <=> e
      /\ Numeral(d) = 1 <=> d
  BY DEF Numeral
<1> QED
  BY <1>1, <1>2, <1>3 DEF BitOf

\* The ports after an edge.
LEMMA PortClock ==
  ASSUME PortInv, NEW bready \in BOOLEAN, NEW rready \in BOOLEAN, NEW word,
         WriteClock(bready), ReadClock(rready, word), slv_reg3' = Written(12, slv_reg3),
         SoftTypeOK'
  PROVE  PortInv'
<1>1. None \notin Commands /\ None # 8
  BY NoneAssumption DEF Commands
<1>2. Taking => wcmd \in Commands /\ ~axi_bvalid /\ rcmd = None
  BY DEF PortInv, Taking, Offering
<1>3. slv_reg3' \in {0, 1}
  BY <1>2 DEF Written, PortInv, Commands
<1>4. /\ axi_awready' \in BOOLEAN /\ awvalid' \in BOOLEAN /\ wvalid' \in BOOLEAN
      /\ axi_bvalid' \in BOOLEAN
      /\ wcmd' \in Commands \cup {None}
      /\ wcmd' # None <=> awvalid' \/ wvalid' \/ axi_bvalid'
      /\ axi_bvalid' => ~awvalid' /\ ~wvalid'
      /\ wcmd = None => wcmd' = None
  BY <1>1, <1>2 DEF PortInv, WriteClock, NextBvalid, Taking, Offering
<1>5. /\ axi_arready' \in BOOLEAN /\ arvalid' \in BOOLEAN /\ axi_rvalid' \in BOOLEAN
      /\ rcmd' \in {8, None}
      /\ arvalid' \/ axi_rvalid' => rcmd' # None
      /\ axi_rvalid' => ~arvalid'
      /\ rcmd' # None => rcmd # None
  BY <1>1 DEF PortInv, ReadClock, Answered, Reading
<1> QED
  BY <1>3, <1>4, <1>5 DEF PortInv

\* What an edge does to the start bit.
LEMMA LaunchClock ==
  ASSUME PortInv, StartInv, NEW bready \in BOOLEAN, NEW rready \in BOOLEAN, NEW word,
         WriteClock(bready), ReadClock(rready, word), slv_reg3' = Written(12, slv_reg3),
         init_txn_ff \in BOOLEAN, init_txn_ff2 \in BOOLEAN,
         init_txn_ff' = init_txn, init_txn_ff2' = init_txn_ff
  PROVE  /\ ~axi_bvalid' => (init_txn_ff' <=> init_txn')
         /\ wcmd' = Raise /\ ~axi_bvalid' => ~init_txn'
         /\ Launching' => Launching /\ ~init_txn_pulse
         /\ rcmd # None => ~Launching'
<1>0. Raise # None /\ Raise.data = 1 /\ \A w \in Commands : w.data = 1 => w = Raise
  BY NoneAssumption DEF Raise, Commands
<1>b. /\ init_txn' <=> slv_reg3' = 1
      /\ init_txn <=> slv_reg3 = 1
  <2>1. slv_reg3' \in {0, 1} /\ slv_reg3 \in {0, 1}
    BY DEF PortInv, Written, Taking, Offering, Commands
  <2> QED
    BY <2>1, StartBit DEF init_txn
<1>1. Taking => wcmd \in Commands /\ ~axi_bvalid /\ slv_reg3' = wcmd.data
  BY DEF PortInv, Taking, Offering, Written, Commands
<1>2. ~Taking => slv_reg3' = slv_reg3
  BY DEF Written
<1>3. axi_bvalid' <=> Taking \/ (axi_bvalid /\ ~bready)
  BY <1>1 DEF WriteClock, NextBvalid
<1>4. wcmd' = IF axi_bvalid /\ bready THEN None ELSE wcmd
  BY DEF WriteClock
<1>5. ~axi_bvalid => (init_txn_ff <=> init_txn)
  BY DEF StartInv
<1>6. wcmd = Raise /\ ~axi_bvalid => ~init_txn
  BY DEF StartInv
<1>7. rcmd # None => wcmd = None /\ ~axi_bvalid /\ ~Taking
  BY <1>1, NoneAssumption DEF PortInv, Commands
<1>8. Launching' <=> \/ wcmd' = Raise /\ ~axi_bvalid'
                     \/ init_txn' /\ ~init_txn
                     \/ init_txn /\ ~init_txn_ff
  BY DEF Launching, init_txn_pulse, Raise
<1>9. Launching <=> \/ wcmd = Raise /\ ~axi_bvalid
                    \/ init_txn /\ ~init_txn_ff
                    \/ init_txn_pulse
  BY DEF Launching
<1>10. init_txn' /\ ~init_txn => wcmd = Raise /\ ~axi_bvalid
  BY <1>0, <1>1, <1>2, <1>b
<1>11. Launching' => Launching /\ ~init_txn_ff
  BY <1>0, <1>3, <1>4, <1>5, <1>6, <1>8, <1>9, <1>10
<1>12. rcmd # None => ~Launching'
  BY <1>0, <1>4, <1>5, <1>7, <1>8, <1>10
<1>13. wcmd' = Raise /\ ~axi_bvalid' => ~init_txn'
  BY <1>0, <1>2, <1>3, <1>4, <1>6, <1>b
<1>14. ~axi_bvalid' => (init_txn_ff' <=> init_txn')
  BY <1>2, <1>3, <1>b
<1> QED
  BY <1>11, <1>12, <1>13, <1>14 DEF init_txn_pulse

\* An answer that shows the end of a test, taken or not, leaves no test behind it.
LEMMA ShownClock ==
  ASSUME MasterInv, PortInv, StartInv,
         NEW bready \in BOOLEAN, NEW rready \in BOOLEAN, NEW awready \in BOOLEAN,
         NEW wready \in BOOLEAN, NEW arready \in BOOLEAN, NEW answer \in BOOLEAN,
         IpClock(bready, rready, awready, wready, arready, answer),
         axi_rvalid' /\ Done'
  PROVE  mst_exec_state = "IDLE" /\ ~init_txn_pulse /\ (Failed' <=> bad)
<1>1. ReadClock(rready, Word(rcmd, int_counter, error, compare_done))
  BY DEF IpClock, BankClock
<1>2. CASE axi_rvalid
  <2>1. axi_rdata' = axi_rdata
    BY <1>1, <1>2 DEF ReadClock, NextRdata
  <2>2. Done /\ (Failed' <=> Failed)
    BY <2>1 DEF Done, Failed, BitOf
  <2> QED
    BY <1>2, <2>2 DEF StartInv, Launching
<1>3. CASE ~axi_rvalid
  <2>1. axi_arready /\ arvalid /\ axi_rdata' = Word(rcmd, int_counter, error, compare_done)
    BY <1>1, <1>3 DEF ReadClock, NextRdata, Reading
  <2>2. rcmd = 8
    BY <2>1 DEF PortInv
  <2> DEFINE irq == cnt_irq(int_counter)
  <2>3. axi_rdata' = Numeral(error) + 2 * Numeral(compare_done) + 4 * Numeral(irq)
    BY <2>1, <2>2 DEF Word
  <2>4. error \in BOOLEAN /\ compare_done \in BOOLEAN /\ irq \in BOOLEAN
    BY DEF MasterInv, MasterTypeOK, cnt_irq, irq_enable, BitOf
  <2> HIDE DEF irq
  <2>5. (BitOf(axi_rdata', 1) <=> compare_done) /\ (BitOf(axi_rdata', 0) <=> error)
    BY <2>3, <2>4, StatusBits
  <2>6. (Done' <=> compare_done) /\ (Failed' <=> error)
    BY <2>5 DEF Done, Failed, BitOf
  <2>7. mst_exec_state = "IDLE" /\ (error <=> bad)
    BY <2>6 DEF MasterInv, PhaseInv, MasterTypeOK
  <2> QED
    BY <2>1, <2>6, <2>7 DEF StartInv
<1> QED
  BY <1>2, <1>3

\* What the software knows after an edge.
LEMMA LearnClock ==
  ASSUME MasterInv, PortInv, StartInv, NEW rready \in BOOLEAN, Learn(rready)
  PROVE  /\ SoftTypeOK'
         /\ free' => mst_exec_state = "IDLE" /\ ~Launching
         /\ free' /\ report'.done => (report'.error <=> bad)
<1>1. Done \in BOOLEAN /\ Failed \in BOOLEAN
  BY DEF Done, Failed, BitOf
<1>2. free \in BOOLEAN /\ (free => mst_exec_state = "IDLE" /\ ~Launching)
  BY DEF PortInv, StartInv, SoftTypeOK
<1>3. CASE Answered(rready)
  <2>1. report' = [done |-> Done, error |-> Failed] /\ free' = (free \/ report'.done)
    BY <1>3 DEF Learn, Done, Failed
  <2>2. report'.done = Done /\ report'.error = Failed
    BY <2>1
  <2>3. free' <=> free \/ Done
    BY <1>1, <2>1, <2>2
  <2>4. Done => mst_exec_state = "IDLE" /\ ~Launching /\ (Failed <=> bad)
    BY <1>3 DEF Answered, StartInv
  <2>5. SoftTypeOK'
    BY <1>1, <1>2, <2>1, <2>2 DEF SoftTypeOK
  <2> QED
    BY <1>2, <2>2, <2>3, <2>4, <2>5
<1>4. CASE ~Answered(rready)
  <2>1. free' = free /\ report' = report
    BY <1>4 DEF Learn, softVars
  <2> QED
    BY <1>2, <2>1 DEF StartInv, PortInv, SoftTypeOK
<1> QED
  BY <1>3, <1>4

LEMMA SoftClock ==
  ASSUME MasterInv, PortInv, StartInv,
         NEW bready \in BOOLEAN, NEW rready \in BOOLEAN, NEW awready \in BOOLEAN,
         NEW wready \in BOOLEAN, NEW arready \in BOOLEAN, NEW answer \in BOOLEAN,
         IpClock(bready, rready, awready, wready, arready, answer)
  PROVE  MasterInv' /\ TestStep /\ PortInv' /\ StartInv'
<1> DEFINE word == Word(rcmd, int_counter, error, compare_done)
<1>f. /\ WriteClock(bready) /\ ReadClock(rready, word) /\ slv_reg3' = Written(12, slv_reg3)
      /\ MasterClock(init_txn, awready, wready, arready, answer) /\ Learn(rready)
      /\ init_txn_ff' = init_txn /\ init_txn_ff2' = init_txn_ff
  BY DEF IpClock, BankClock, MasterClock
<1>t. /\ init_txn \in BOOLEAN /\ init_txn_ff \in BOOLEAN /\ init_txn_ff2 \in BOOLEAN
      /\ mst_exec_state \in {"IDLE", "INIT_WRITE", "INIT_READ", "INIT_COMPARE"}
  BY DEF init_txn, BitOf, MasterInv, MasterTypeOK
<1>l. /\ SoftTypeOK'
      /\ free' => mst_exec_state = "IDLE" /\ ~Launching
      /\ free' /\ report'.done => (report'.error <=> bad)
  BY <1>f, LearnClock
<1> HIDE DEF word
<1>1. MasterInv' /\ TestStep
  <2>1. init_txn_pulse => mst_exec_state = "IDLE"
    BY DEF StartInv, Launching
  <2> QED
    BY <1>f, <1>t, <2>1, MasterStep
<1>2. PortInv'
  BY <1>f, <1>l, PortClock
<1>3. mst_exec_state = "IDLE" /\ ~init_txn_pulse => mst_exec_state' = "IDLE" /\ bad' = bad
  BY <1>f, <1>t, IdleClock
<1>4. /\ ~axi_bvalid' => (init_txn_ff' <=> init_txn')
      /\ wcmd' = Raise /\ ~axi_bvalid' => ~init_txn'
      /\ Launching' => Launching /\ ~init_txn_pulse
      /\ rcmd # None => ~Launching'
  BY <1>f, <1>t, LaunchClock
<1>5. Launching' => ~free' /\ mst_exec_state' = "IDLE"
  BY <1>l, <1>3, <1>4 DEF StartInv, SoftTypeOK
<1>6. free' => mst_exec_state' = "IDLE" /\ bad' = bad
  BY <1>l, <1>3 DEF Launching
<1>7. axi_arready' => ~init_txn_pulse'
  <2>1. axi_arready' => arvalid
    BY <1>f DEF ReadClock
  <2> QED
    BY <1>4, <2>1 DEF PortInv, Launching
<1>8. axi_rvalid' /\ Done' =>
        mst_exec_state' = "IDLE" /\ ~Launching' /\ (Failed' <=> bad')
  <2> SUFFICES ASSUME axi_rvalid' /\ Done'
               PROVE  mst_exec_state' = "IDLE" /\ ~Launching' /\ (Failed' <=> bad')
    OBVIOUS
  <2>1. mst_exec_state = "IDLE" /\ ~init_txn_pulse /\ (Failed' <=> bad)
    BY ShownClock
  <2>2. rcmd # None
    BY <1>f DEF ReadClock, Reading, PortInv
  <2> QED
    BY <1>3, <1>4, <2>1, <2>2
<1>9. free' /\ report'.done => (report'.error <=> bad')
  BY <1>l, <1>6
<1> QED
  BY <1>1, <1>2, <1>4, <1>5, <1>6, <1>7, <1>8, <1>9 DEF StartInv

LEMMA SoftReset ==
  /\ AxiInit /\ BankInit /\ MasterInit /\ SoftInit => PortInv /\ StartInv
  /\ IpReset => PortInv' /\ StartInv'
<1>0. /\ 0 \in {0, 1} /\ ~BitOf(0, 0) /\ NoReport.done = FALSE /\ Raise # None
  <2>1. Raise # None
    BY NoneAssumption DEF Raise
  <2> QED
    BY StartBit, <2>1 DEF NoReport
<1>1. ASSUME AxiInit, BankInit, MasterInit, SoftInit PROVE PortInv /\ StartInv
  BY <1>0, <1>1 DEF AxiInit, BankInit, MasterInit, SoftInit, SoftTypeOK, NoReport, PortInv, StartInv, Launching,
                    init_txn, init_txn_pulse
<1>2. ASSUME IpReset PROVE PortInv' /\ StartInv'
  <2>1. /\ slv_reg3' = 0 /\ ~init_txn'
    BY <1>0, <1>2 DEF IpReset, BankReset, init_txn, BitOf
  <2>2. PortInv'
    BY <1>2, <2>1 DEF IpReset, AxiReset, PortInv, SoftTypeOK, NoReport
  <2>3. ~Launching' /\ mst_exec_state' = "IDLE" /\ ~init_txn_ff' /\ ~axi_rvalid' /\ ~axi_arready'
        /\ wcmd' # Raise /\ ~init_txn_pulse' /\ ~report'.done
    BY <1>0, <1>2, <2>1 DEF IpReset, AxiReset, MasterReset, Launching, init_txn_pulse, Raise
  <2> QED
    BY <2>1, <2>2, <2>3 DEF StartInv
<1> QED
  BY <1>1, <1>2

LEMMA SoftRequest ==
  ASSUME PortInv, StartInv, UNCHANGED <<bankVars, masterVars>>,
         \/ \E start \in BOOLEAN : Command(start)
         \/ Poll
         \/ OfferRest /\ UNCHANGED softVars
  PROVE  PortInv' /\ StartInv'
<1>u. /\ slv_reg3' = slv_reg3 /\ init_txn_ff' = init_txn_ff /\ init_txn_ff2' = init_txn_ff2
      /\ mst_exec_state' = mst_exec_state /\ bad' = bad
      /\ init_txn' = init_txn /\ init_txn_pulse' = init_txn_pulse
  BY DEF bankVars, masterVars, controlVars, init_txn, init_txn_pulse, BitOf
<1>1. ASSUME NEW start \in BOOLEAN, Command(start) PROVE PortInv' /\ StartInv'
  <2> DEFINE cmd == [addr |-> 12, data |-> IF start THEN 1 ELSE 0]
  <2>1. /\ rcmd = None /\ wcmd = None /\ wcmd' = cmd
        /\ awvalid' \in BOOLEAN /\ wvalid' \in BOOLEAN /\ (awvalid' \/ wvalid')
        /\ axi_awready' = axi_awready /\ axi_bvalid' = axi_bvalid
        /\ rcmd' = rcmd /\ arvalid' = arvalid /\ axi_arready' = axi_arready
        /\ axi_rvalid' = axi_rvalid /\ axi_rdata' = axi_rdata
        /\ free' = (free /\ ~start) /\ report' = report
        /\ start => ~init_txn /\ free
    BY <1>1 DEF Command, StartWrite, readVars
  <2>2. cmd \in Commands /\ cmd # None /\ (cmd = Raise => start)
    BY NoneAssumption DEF Commands, Raise
  <2> HIDE DEF cmd
  <2>3. ~axi_bvalid /\ ~axi_rvalid /\ ~arvalid
    BY <2>1 DEF PortInv
  <2>4. PortInv'
    BY <1>u, <2>1, <2>2, <2>3 DEF PortInv, SoftTypeOK
  <2>5. Launching' => ~free' /\ mst_exec_state = "IDLE"
    BY <1>u, <2>1, <2>2 DEF StartInv, Launching, PortInv, Raise
  <2> QED
    BY <1>u, <2>1, <2>2, <2>3, <2>4, <2>5 DEF StartInv, Raise, PortInv
<1>2. CASE Poll
  <2>1. /\ rcmd = None /\ wcmd = None /\ rcmd' = 8 /\ arvalid' = TRUE
        /\ wcmd' = wcmd /\ awvalid' = awvalid /\ wvalid' = wvalid
        /\ axi_awready' = axi_awready /\ axi_bvalid' = axi_bvalid
        /\ axi_arready' = axi_arready /\ axi_rvalid' = axi_rvalid /\ axi_rdata' = axi_rdata
        /\ free' = free /\ report' = report
    BY <1>2 DEF Poll, StartRead, writeVars, softVars
  <2>2. 8 # None /\ ~axi_rvalid
    BY <2>1, NoneAssumption DEF PortInv
  <2>3. PortInv'
    BY <1>u, <2>1, <2>2 DEF PortInv, SoftTypeOK
  <2>4. Launching' <=> Launching
    BY <1>u, <2>1 DEF Launching, Raise
  <2> QED
    BY <1>u, <2>1, <2>2, <2>3, <2>4 DEF StartInv, Raise
<1>3. CASE OfferRest /\ UNCHANGED softVars
  <2>1. /\ awvalid # wvalid /\ awvalid' = TRUE /\ wvalid' = TRUE
        /\ wcmd' = wcmd /\ axi_awready' = axi_awready /\ axi_bvalid' = axi_bvalid
        /\ rcmd' = rcmd /\ arvalid' = arvalid /\ axi_arready' = axi_arready
        /\ axi_rvalid' = axi_rvalid /\ axi_rdata' = axi_rdata
        /\ free' = free /\ report' = report
    BY <1>3 DEF OfferRest, readVars, softVars
  <2>2. PortInv'
    BY <1>u, <2>1 DEF PortInv, SoftTypeOK
  <2>3. (Launching' <=> Launching) /\ (Done' <=> Done) /\ (Failed' <=> Failed)
    BY <1>u, <2>1 DEF Launching, Raise, Done, Failed, BitOf
  <2> QED
    BY <1>u, <2>1, <2>2, <2>3 DEF StartInv, Raise
<1> QED
  BY <1>1, <1>2, <1>3

IpInv == use \in {"counter", "memory test", "interrupts"} /\ MasterInv /\ SoftInv

LEMMA IpStart == Init => IpInv /\ Test!Init
<1> SUFFICES ASSUME Init PROVE IpInv /\ Test!Init
  OBVIOUS
<1>1. /\ use \in {"counter", "memory test", "interrupts"}
      /\ AxiInit /\ BankInit /\ MasterInit /\ SoftInit
  BY DEF Init
<1>2. MasterInv /\ Test!Init
  BY <1>1, MasterStart
<1>3. PortInv /\ StartInv
  BY <1>1, SoftReset
<1>4. mst_exec_state = "IDLE" /\ ~init_txn_pulse /\ free /\ ~report.done
  BY <1>1 DEF MasterInit, SoftInit, init_txn_pulse, NoReport
<1> QED
  BY <1>1, <1>2, <1>3, <1>4 DEF IpInv, SoftInv

\* While the IP is not used for tests.
LEMMA OtherUse ==
  ASSUME IpInv, use # "memory test", UNCHANGED <<use, masterVars, softVars>>
  PROVE  IpInv' /\ TestStep
<1>1. MasterInv' /\ TestStep
  BY MasterRests DEF IpInv
<1>2. /\ mst_exec_state' = mst_exec_state /\ init_txn_pulse' = init_txn_pulse
      /\ free' = free /\ report' = report /\ use' = use
  BY DEF masterVars, controlVars, softVars, init_txn_pulse
<1> QED
  BY <1>1, <1>2 DEF IpInv, SoftInv

LEMMA TestUse ==
  ASSUME IpInv, use = "memory test", use' = use, TestNext
  PROVE  IpInv' /\ TestStep
<1>i. MasterInv /\ PortInv /\ StartInv
  BY DEF IpInv, SoftInv
<1>1. MasterInv' /\ TestStep /\ PortInv' /\ StartInv'
  <2>1. ASSUME UNCHANGED <<bankVars, masterVars>>,
               \/ \E start \in BOOLEAN : Command(start)
               \/ Poll
               \/ OfferRest /\ UNCHANGED softVars
        PROVE  MasterInv' /\ TestStep /\ PortInv' /\ StartInv'
    BY <1>i, <2>1, MasterRests, SoftRequest
  <2>2. CASE IpReset
    BY <1>i, <2>2, MasterRestart, SoftReset DEF IpReset
  <2>3. ASSUME NEW bready \in When(axi_bvalid), NEW rready \in When(axi_rvalid),
               NEW awready \in BOOLEAN, NEW arready \in BOOLEAN, NEW wready \in When(axi_wvalid),
               NEW answer \in When(WriteAccepted \/ m_raddr # NoWord),
               TestClock(bready, rready, awready, wready, arready, answer)
        PROVE  MasterInv' /\ TestStep /\ PortInv' /\ StartInv'
    <3>1. bready \in BOOLEAN /\ rready \in BOOLEAN /\ wready \in BOOLEAN /\ answer \in BOOLEAN
      BY DEF When
    <3>2. IpClock(bready, rready, awready, wready, arready, answer)
      BY <2>3 DEF TestClock
    <3> QED
      BY <1>i, <3>1, <3>2, SoftClock
  <2> QED
    BY <2>1, <2>2, <2>3 DEF TestNext
<1> QED
  BY <1>1 DEF IpInv, SoftInv

LEMMA IpNext == IpInv /\ [Next]_vars => IpInv' /\ TestStep
<1> SUFFICES ASSUME IpInv, [Next]_vars PROVE IpInv' /\ TestStep
  OBVIOUS
<1>1. CASE use = "memory test" /\ use' = use /\ TestNext
  BY <1>1, TestUse
<1>2. CASE UNCHANGED vars
  <2>1. CASE use # "memory test"
    BY <1>2, <2>1, OtherUse DEF vars, ipVars
  <2>2. CASE use = "memory test"
    <3>1. MasterInv /\ PortInv /\ StartInv
      BY <2>2 DEF IpInv, SoftInv
    <3>2. MasterInv' /\ TestStep
      BY <1>2, <3>1, MasterRests DEF vars, ipVars
    <3>3. /\ use' = use
          /\ UNCHANGED <<wcmd, awvalid, wvalid, axi_bvalid, axi_awready, rcmd, arvalid,
                         axi_arready, axi_rvalid, axi_rdata, slv_reg3, free, report,
                         init_txn_ff, init_txn_ff2, mst_exec_state, bad>>
      BY <1>2 DEF vars, ipVars, axiVars, writeVars, readVars, bankVars, masterVars, controlVars,
                  softVars
    <3>4. PortInv'
      BY <3>1, <3>3 DEF PortInv, SoftTypeOK
    <3>5. StartInv'
      BY <3>1, <3>3 DEF StartInv, Launching, Done, Failed, BitOf, init_txn, init_txn_pulse, Raise
    <3> QED
      BY <2>2, <3>2, <3>3, <3>4, <3>5 DEF IpInv, SoftInv
  <2> QED
    BY <2>1, <2>2
<1>3. CASE use # "memory test" /\ UNCHANGED <<use, masterVars, softVars>>
  BY <1>3, OtherUse
<1> QED
  BY <1>1, <1>2, <1>3
  DEF Next, CounterNext, CounterClock, IntrNext, IntrPortClock

\* The master tests the memory word by word and reports the verdict, whatever the
\* memory answers and in whatever order it takes addresses and words, for any
\* number of words; of a software that raises the start bit only when it knows of
\* no test that runs, as Command does.
THEOREM TestSound == Spec => TestsMemory
<1>1. IpInv /\ [Next]_vars => [Test!Next]_TestVars
  BY IpNext DEF TestStep
<1> QED
  BY IpStart, IpNext, <1>1, PTL DEF Spec, TestsMemory, Test!Spec, TestVars

\* The software never takes the end of one test for the end of the next.
THEOREM ReportSound == Spec => []ReportIsFresh
<1>1. IpInv => ReportIsFresh
  <2> SUFFICES ASSUME IpInv PROVE ReportIsFresh
    OBVIOUS
  <2>1. CASE use = "memory test"
    <3>1. free => mst_exec_state = "IDLE" /\ ~init_txn_pulse
      BY <2>1 DEF IpInv, SoftInv, StartInv, Launching
    <3>2. free /\ report.done => (report.error <=> bad)
      BY <2>1 DEF IpInv, SoftInv, StartInv
    <3>3. free /\ report.done => report.error \in BOOLEAN /\ bad \in BOOLEAN
      BY <2>1 DEF IpInv, SoftInv, PortInv, SoftTypeOK, MasterInv, MasterTypeOK
    <3> QED
      BY <3>1, <3>2, <3>3 DEF ReportIsFresh
  <2>2. CASE use # "memory test"
    BY <2>2 DEF IpInv, SoftInv, ReportIsFresh
  <2> QED
    BY <2>1, <2>2
<1> QED
  BY IpStart, IpNext, <1>1, PTL DEF Spec

-----------------------------------------------------------------------------
(* The register bank as the driver sees it *)

LEMMA BankStart == Init => BankInv
<1> SUFFICES ASSUME Init PROVE BankInv
  OBVIOUS
<1>1. awvalid = FALSE /\ wvalid = FALSE /\ ~axi_bvalid
  BY DEF Init, AxiInit
<1> QED
  BY <1>1 DEF BankInv

LEMMA BankNext == BankInv /\ [Next]_vars => BankInv'
<1> SUFFICES ASSUME BankInv, [Next]_vars, use # "interrupts" PROVE BankInv'
  BY DEF BankInv, Next, vars
<1>0. None \notin BankWrites
  BY NoneAssumption DEF BankWrites, CounterWrites, Commands
<1>i. /\ awvalid \in BOOLEAN /\ wvalid \in BOOLEAN
      /\ awvalid \/ wvalid => wcmd \in BankWrites
      /\ axi_bvalid => wcmd # None /\ ~awvalid /\ ~wvalid
  BY DEF BankInv
<1>q. \/ \E cmd \in BankWrites : StartWrite(cmd)
      \/ UNCHANGED writeVars
      \/ OfferRest
      \/ \E bready : WriteClock(bready)
      \/ AxiReset
  <2>1. CASE UNCHANGED vars
    BY <2>1 DEF vars, ipVars, axiVars
  <2>2. CASE use = "counter" /\ CounterNext
    BY <2>2 DEF CounterNext, CounterClock, BankClock, StartRead, BankWrites
  <2>3. CASE use = "memory test" /\ TestNext
    <3>1. ASSUME NEW start \in BOOLEAN, Command(start)
          PROVE  \E cmd \in BankWrites : StartWrite(cmd)
      BY <3>1 DEF Command, BankWrites, Commands
    <3> QED
      BY <2>3, <3>1 DEF TestNext, TestClock, IpClock, BankClock, Poll, StartRead, IpReset
  <2> QED
    BY <2>1, <2>2, <2>3 DEF Next
<1>1. ASSUME NEW cmd \in BankWrites, StartWrite(cmd) PROVE BankInv'
  BY <1>0, <1>i, <1>1 DEF StartWrite, BankInv
<1>2. CASE UNCHANGED writeVars
  BY <1>i, <1>2 DEF writeVars, BankInv
<1>3. CASE OfferRest
  BY <1>i, <1>3 DEF OfferRest, BankInv
<1>4. ASSUME NEW bready, WriteClock(bready) PROVE BankInv'
  BY <1>0, <1>i, <1>4 DEF WriteClock, NextBvalid, Taking, Offering, BankInv
<1>5. CASE AxiReset
  BY <1>5 DEF AxiReset, BankInv
<1> QED
  BY <1>q, <1>1, <1>2, <1>3, <1>4, <1>5

Shown == IF load_enable THEN StartValue ELSE int_counter
Ctrl == (IF irq_enable THEN {"irq_enable"} ELSE {}) \cup (IF load_enable THEN {"load_enable"} ELSE {})
ViewStep == View!RegNext \/ UNCHANGED View!regVars

LEMMA ViewClock ==
  ASSUME Taking => wcmd \in BankWrites,
         NEW bready, NEW rready, NEW e, NEW d, BankClock(bready, rready, e, d)
  PROVE  ViewStep
<1> DEFINE H == View!Half
<1>b. /\ irq_enable \in BOOLEAN /\ load_enable \in BOOLEAN
      /\ irq_enable' \in BOOLEAN /\ load_enable' \in BOOLEAN
  BY DEF irq_enable, load_enable, BitOf
<1>f. /\ slv_reg0' = Written(0, slv_reg0) /\ slv_reg1' = Written(4, slv_reg1)
      /\ slv_reg3' = Written(12, slv_reg3) /\ int_counter' = Counted
  BY DEF BankClock
<1>c. /\ "irq_enable" \in Ctrl <=> irq_enable
      /\ "load_enable" \in Ctrl <=> load_enable
      /\ Ctrl' \in SUBSET View!Bits
      /\ "load_enable" \in Ctrl' <=> load_enable'
  BY <1>b DEF Ctrl, View!Bits
<1>s. StartValue' = slv_reg1' * View!Half + slv_reg0'
  BY DEF StartValue, View!Half
<1>1. Counted \in {Shown} \cup (IF View!Counting THEN {View!Decremented} ELSE {})
  BY <1>b, <1>c DEF Counted, Shown, Ctrl, View!Counting, View!Decremented
<1>2. Shown' = IF load_enable' THEN slv_reg1' * View!Half + slv_reg0' ELSE Counted
  BY <1>f, <1>s DEF Shown
<1>3. ASSUME View!Store PROVE View!Access
  <2>1. View!LoadedOver(Counted)
    BY <1>2, <1>c DEF View!LoadedOver, Shown, Ctrl
  <2> QED
    BY <1>1, <1>3, <2>1 DEF View!Access, Shown
<1>h. H \in Nat /\ 1 \in 0..H - 1
  BY BankAssumption
<1>4. CASE Taking /\ wcmd.addr = 0
  <2>1. slv_reg0' = 1 /\ slv_reg1' = slv_reg1 /\ slv_reg3' = slv_reg3
    BY <1>f, <1>4 DEF Written, BankWrites, CounterWrites, Commands
  <2>2. Ctrl' = Ctrl
    BY <2>1 DEF Ctrl, irq_enable, load_enable, BitOf
  <2>3. View!Store
    BY <1>h, <2>1, <2>2 DEF View!Store, Ctrl
  <2> QED
    BY <1>3, <2>3 DEF ViewStep, View!RegNext
<1>5. CASE Taking /\ wcmd.addr = 4
  <2>1. slv_reg1' = 1 /\ slv_reg0' = slv_reg0 /\ slv_reg3' = slv_reg3
    BY <1>f, <1>5 DEF Written, BankWrites, CounterWrites, Commands
  <2>2. Ctrl' = Ctrl
    BY <2>1 DEF Ctrl, irq_enable, load_enable, BitOf
  <2>3. View!Store
    BY <1>h, <2>1, <2>2 DEF View!Store, Ctrl
  <2> QED
    BY <1>3, <2>3 DEF ViewStep, View!RegNext
<1>6. CASE Taking /\ wcmd.addr = 12
  <2>1. slv_reg0' = slv_reg0 /\ slv_reg1' = slv_reg1
    BY <1>f, <1>6 DEF Written
  <2>2. View!Store
    BY <1>c, <2>1 DEF View!Store, Ctrl
  <2> QED
    BY <1>3, <2>2 DEF ViewStep, View!RegNext
<1>7. CASE ~Taking
  <2>1. slv_reg0' = slv_reg0 /\ slv_reg1' = slv_reg1 /\ slv_reg3' = slv_reg3
    BY <1>f, <1>7 DEF Written
  <2>2. Ctrl' = Ctrl /\ load_enable' = load_enable /\ StartValue' = StartValue
    BY <2>1 DEF Ctrl, irq_enable, load_enable, BitOf, StartValue
  <2>3. Shown' = Counted
    BY <1>f, <2>2 DEF Shown, Counted
  <2>4. CASE View!Counting /\ Counted = View!Decremented
    BY <2>1, <2>2, <2>3, <2>4 DEF ViewStep, View!RegNext, View!Count, Shown, Ctrl
  <2>5. CASE Counted = Shown
    BY <2>1, <2>2, <2>3, <2>5 DEF ViewStep, View!regVars, Shown, Ctrl
  <2> QED
    BY <1>1, <2>4, <2>5
<1>8. Taking => wcmd.addr \in {0, 4, 12}
  BY DEF BankWrites, CounterWrites, Commands
<1> QED
  BY <1>4, <1>5, <1>6, <1>7, <1>8

LEMMA ViewInit == BankInit => View!RegInit
<1> SUFFICES ASSUME BankInit PROVE View!RegInit
  OBVIOUS
<1>1. 2^1 = 2 /\ 2^2 = 4 /\ (0 \div 2) % 2 = 0 /\ (0 \div 4) % 2 = 0
  OBVIOUS
<1>2. ~irq_enable /\ ~load_enable
  BY <1>1 DEF BankInit, irq_enable, load_enable, BitOf
<1> QED
  BY <1>2 DEF BankInit, View!RegInit

LEMMA ViewReset == BankReset => ViewStep
<1>1. (BankInit => View!RegInit)'
  BY ViewInit, PTL
<1>2. BankReset => BankInit'
  BY DEF BankReset, BankInit
<1> QED
  BY <1>1, <1>2 DEF ViewStep, View!RegNext

\* The bank does to the counter what its driver thinks, for any width of the
\* registers and however accesses and clocks meet.
THEOREM ViewSound == Spec => DriverView
<1>1. Init => View!RegInit
  BY ViewInit DEF Init
<1>2. BankInv /\ [Next]_vars => [View!RegNext]_(View!regVars)
  <2> SUFFICES ASSUME BankInv, [Next]_vars PROVE ViewStep
    BY DEF ViewStep
  <2>1. CASE UNCHANGED bankVars
    BY <2>1 DEF bankVars, ViewStep, View!regVars, irq_enable, load_enable, StartValue, BitOf
  <2>2. CASE BankReset
    BY <2>2, ViewReset
  <2>3. ASSUME use # "interrupts", NEW bready, NEW rready, NEW e, NEW d,
               BankClock(bready, rready, e, d)
        PROVE  ViewStep
    <3>1. Taking => wcmd \in BankWrites
      BY <2>3 DEF BankInv, Taking, Offering
    <3> QED
      BY <2>3, <3>1, ViewClock
  <2>4. CASE UNCHANGED vars
    BY <2>1, <2>4 DEF vars, ipVars
  <2>5. CASE use = "counter" /\ CounterNext
    BY <2>1, <2>2, <2>3, <2>5 DEF CounterNext, CounterClock
  <2>6. CASE use = "memory test" /\ TestNext
    BY <2>1, <2>2, <2>3, <2>6 DEF TestNext, TestClock, IpClock, IpReset
  <2>7. CASE use = "interrupts" /\ IntrNext
    BY <2>1, <2>7 DEF IntrNext, IntrPortClock
  <2> QED
    BY <2>4, <2>5, <2>6, <2>7 DEF Next
<1> QED
  BY BankStart, BankNext, <1>1, <1>2, PTL DEF Spec, DriverView, View!RegSpec

-----------------------------------------------------------------------------
(* Types *)

LEMMA Halved ==
  ASSUME NEW h \in Nat, h > 1, NEW n \in 0..h * h - 1
  PROVE  n % h \in 0..h - 1 /\ n \div h \in 0..h - 1
<1> DEFINE q == n \div h
           r == n % h
<1>1. q \in Nat /\ r \in 0..h - 1 /\ n = h * q + r /\ n < h * h
  OBVIOUS
<1> HIDE DEF q, r
<1>2. ASSUME q >= h PROVE FALSE
  <2>1. h * q >= h * h
    BY ONLY <1>1, <1>2, h \in Nat
  <2> QED
    BY ONLY <1>1, <2>1, h \in Nat
<1>3. q \in 0..h - 1
  BY <1>1, <1>2
<1> QED
  BY <1>1, <1>3 DEF q, r

LEMMA Paired ==
  ASSUME NEW h \in Nat, h > 1, NEW a \in 0..h - 1, NEW b \in 0..h - 1
  PROVE  b * h + a \in 0..h * h - 1
<1>1. b * h <= (h - 1) * h
  OBVIOUS
<1>2. (h - 1) * h = h * h - h /\ b * h \in Nat
  OBVIOUS
<1> QED
  BY <1>1, <1>2

LEMMA Widths ==
  /\ View!Half \in Nat /\ View!Half > 1
  /\ View!Counter = 0..View!Half * View!Half - 1
  /\ View!Top \in Nat /\ 2 * View!Top = View!Half * View!Half /\ 2 * View!Top \in Nat \ {0}
  /\ 2^HALF_BITS = View!Half
<1>1. 2^HALF_BITS = View!Half
  BY Zenon DEF View!Half
<1> DEFINE h == View!Half
           t == View!Top
<1>2. h \in Nat /\ h > 1 /\ t \in Nat /\ 2 * t = h * h
  BY BankAssumption
<1>3. View!Counter = 0..h * h - 1
  BY <1>2 DEF View!Counter
<1> HIDE DEF h, t
<1>4. 2 * t \in Nat \ {0}
  <2>1. h * h > 0
    BY ONLY <1>2
  <2> QED
    BY ONLY <1>2, <2>1
<1> QED
  BY <1>1, <1>2, <1>3, <1>4 DEF h, t

LEMMA BankTypes ==
  ASSUME BankTypeOK, Taking => wcmd \in BankWrites,
         NEW bready, NEW rready, NEW e, NEW d, BankClock(bready, rready, e, d)
  PROVE  BankTypeOK'
<1> DEFINE h == View!Half
           t == View!Top
<1>w. /\ h \in Nat /\ h > 1 /\ t \in Nat /\ 2 * t = h * h /\ 2 * t \in Nat \ {0}
      /\ View!Counter = 0..h * h - 1 /\ 2^HALF_BITS = h
  BY Widths
<1>1. slv_reg0 \in 0..h - 1 /\ slv_reg1 \in 0..h - 1 /\ int_counter \in 0..h * h - 1
      /\ slv_reg3 \in 0..7
  BY <1>w, Zenon DEF BankTypeOK
<1>2. StartValue = slv_reg1 * h + slv_reg0
  BY Zenon DEF StartValue, View!Half
<1>3. int_counter' = IF load_enable THEN StartValue
                     ELSE IF irq_enable /\ int_counter # t THEN (int_counter - 1) % (2 * t)
                     ELSE int_counter
  BY Zenon DEF BankClock, Counted
<1>4. Taking => wcmd.addr \in {0, 4, 12} /\ wcmd.data \in {0, 1, 2, 4, 6}
                /\ (wcmd.addr # 12 => wcmd.data = 1)
  BY DEF BankWrites, CounterWrites, Commands
<1>5. /\ slv_reg0' = Written(0, slv_reg0) /\ slv_reg1' = Written(4, slv_reg1)
      /\ slv_reg3' = Written(12, slv_reg3)
  BY Zenon DEF BankClock
<1> HIDE DEF h, t
<1>6. StartValue \in 0..h * h - 1
  BY <1>w, <1>1, <1>2, Paired
<1>7. (int_counter - 1) % (2 * t) \in 0..h * h - 1
  <2> DEFINE m == 2 * t
  <2>1. m \in Nat \ {0} /\ m = h * h
    BY <1>w
  <2> HIDE DEF m
  <2>2. (int_counter - 1) % m \in 0..m - 1
    BY ONLY <1>1, <2>1
  <2> QED
    BY <2>1, <2>2 DEF m
<1>8. int_counter' \in 0..h * h - 1
  BY <1>1, <1>3, <1>6, <1>7, Zenon
<1>9. slv_reg0' \in 0..h - 1 /\ slv_reg1' \in 0..h - 1 /\ slv_reg3' \in 0..7
  BY <1>w, <1>1, <1>4, <1>5 DEF Written
<1> QED
  BY <1>w, <1>8, <1>9, Zenon DEF BankTypeOK

LEMMA WordTypes ==
  ASSUME BankTypeOK, NEW addr, NEW e \in BOOLEAN, NEW d \in BOOLEAN
  PROVE  Word(addr, int_counter, e, d) \in 0..7 \cup 0..View!Half - 1
<1> DEFINE h == View!Half
           w == Word(addr, int_counter, e, d)
           irq == cnt_irq(int_counter)
<1>w. /\ h \in Nat /\ h > 1 /\ View!Counter = 0..h * h - 1 /\ 2^HALF_BITS = h
  BY Widths
<1>1. int_counter \in 0..h * h - 1 /\ slv_reg3 \in 0..7
  BY <1>w, Zenon DEF BankTypeOK
<1>2. irq \in BOOLEAN
  BY DEF cnt_irq, irq_enable, BitOf
<1> HIDE DEF h, irq
<1>3. int_counter % h \in 0..h - 1 /\ int_counter \div h \in 0..h - 1
  BY <1>w, <1>1, Halved
<1>4. Numeral(e) + 2 * Numeral(d) + 4 * Numeral(irq) \in 0..7
  BY <1>2 DEF Numeral
<1>5. w \in {int_counter % h, int_counter \div h,
             Numeral(e) + 2 * Numeral(d) + 4 * Numeral(irq), slv_reg3, 0}
  BY <1>w, Zenon DEF Word, irq
<1>6. 0 \in 0..7
  OBVIOUS
<1> QED
  BY <1>1, <1>3, <1>4, <1>5, <1>6, Zenon DEF h

LEMMA PortTypes ==
  ASSUME PortTypeOK,
         NEW bready \in BOOLEAN, NEW rready \in BOOLEAN, NEW word \in 0..7 \cup 0..View!Half - 1,
         WriteClock(bready), ReadClock(rready, word)
  PROVE  PortTypeOK'
BY DEF PortTypeOK, WriteClock, ReadClock, NextBvalid, NextRdata, Taking, Offering, Reading, Answered

LEMMA IntrTypes ==
  ASSUME IntrTypeOK, NEW bready, NEW rready, IntrClock(bready, rready)
  PROVE  IntrTypeOK'
<1>1. intr_counter' \in 0..COUNT
  BY PulseAssumption DEF IntrTypeOK, IntrClock, Pulse
<1>2. /\ reg_global_intr_en' = IntrWritten(0, reg_global_intr_en)
      /\ reg_intr_en' = IntrWritten(4, reg_intr_en)
      /\ reg_intr_ack' = (~reg_intr_ack /\ IntrWritten(12, FALSE))
      /\ intr_ack_all_ff' = intr_ack_all
  BY DEF IntrClock, Registers
<1>3. {reg_global_intr_en, reg_intr_en, intr_ack_all} \subseteq BOOLEAN
  BY DEF IntrTypeOK
<1>4. \A addr : \A old \in BOOLEAN : IntrWritten(addr, old) \in BOOLEAN
  BY DEF IntrWritten
<1>5. {reg_global_intr_en', reg_intr_en', reg_intr_ack', intr_ack_all_ff'} \subseteq BOOLEAN
  BY <1>2, <1>3, <1>4
<1>6. {reg_intr_sts', reg_intr_pending', intr', det_intr', intr_all', intr_ack_all', s_irq_lvl',
       owed', missed'} \subseteq BOOLEAN
  BY DEF IntrClock, Registers, Pulse, Detected, Collected
<1> QED
  BY <1>1, <1>5, <1>6 DEF IntrTypeOK

\* A step of the ports and of what is behind them keeps their types, whichever
\* part of the IP is used.
LEMMA TypeNext ==
  ASSUME IpInv, IpInv', BankInv, TypeOK, [Next]_vars
  PROVE  TypeOK'
<1>t. PortTypeOK /\ BankTypeOK /\ MasterTypeOK /\ SoftTypeOK /\ IntrTypeOK
  BY DEF TypeOK
<1>f. \A matters : When(matters) \subseteq BOOLEAN
  BY DEF When
<1>h. /\ 0 \in 0..7 /\ error \in BOOLEAN /\ compare_done \in BOOLEAN
      /\ 0 \in 0..View!Half - 1 /\ 0 \in View!Counter
  <2>1. /\ View!Half \in Nat /\ View!Half > 1
        /\ View!Counter = 0..2 * View!Top - 1 /\ 2 * View!Top \in Nat \ {0}
    BY Widths DEF View!Counter
  <2> HIDE DEF View!Half, View!Top
  <2> QED
    BY <1>t, <2>1 DEF MasterTypeOK
<1>m. MasterTypeOK'
  BY DEF IpInv, MasterInv
<1>s. SoftTypeOK'
  <2>1. CASE use = "memory test"
    BY <2>1 DEF IpInv, SoftInv, PortInv, Next, vars
  <2>2. CASE use # "memory test"
    <3>1. UNCHANGED softVars
      BY <2>2 DEF Next, vars, ipVars, CounterNext, CounterClock, IntrNext, IntrPortClock
    <3> QED
      BY <1>t, <3>1 DEF softVars, SoftTypeOK
  <2> QED
    BY <2>1, <2>2
<1>1. ASSUME NEW bready \in BOOLEAN, NEW rready \in BOOLEAN, NEW e \in BOOLEAN, NEW d \in BOOLEAN,
             use # "interrupts", BankClock(bready, rready, e, d)
      PROVE  PortTypeOK' /\ BankTypeOK'
  <2>1. Taking => wcmd \in BankWrites
    BY <1>1 DEF BankInv, Taking, Offering
  <2>2. Word(rcmd, int_counter, e, d) \in 0..7 \cup 0..View!Half - 1
    BY <1>t, WordTypes
  <2>3. WriteClock(bready) /\ ReadClock(rready, Word(rcmd, int_counter, e, d))
    BY <1>1 DEF BankClock
  <2> QED
    BY <1>1, <1>t, <2>1, <2>2, <2>3, PortTypes, BankTypes
<1>2. ASSUME NEW bready \in BOOLEAN, NEW rready \in BOOLEAN, IntrClock(bready, rready)
      PROVE  PortTypeOK' /\ IntrTypeOK'
  <2>1. IntrWord(rcmd) \in 0..7 \cup 0..View!Half - 1
    <3>1. IntrWord(rcmd) \in {0, 1}
      BY Zenon DEF IntrWord
    <3> QED
      BY <3>1
  <2>2. WriteClock(bready) /\ ReadClock(rready, IntrWord(rcmd))
    BY <1>2 DEF IntrClock
  <2> QED
    BY <1>2, <1>t, <2>1, <2>2, PortTypes, IntrTypes
<1>3. ASSUME UNCHANGED axiVars PROVE PortTypeOK'
  BY <1>t, <1>3 DEF PortTypeOK, axiVars, writeVars, readVars
<1>4. ASSUME NEW cmd, StartWrite(cmd) PROVE PortTypeOK'
  BY <1>t, <1>4 DEF PortTypeOK, StartWrite, readVars
<1>5. ASSUME NEW addr, StartRead(addr) PROVE PortTypeOK'
  BY <1>t, <1>5 DEF PortTypeOK, StartRead, writeVars
<1>6. ASSUME OfferRest PROVE PortTypeOK'
  BY <1>t, <1>6 DEF PortTypeOK, OfferRest, readVars
<1>7. ASSUME AxiReset PROVE PortTypeOK'
  BY <1>h, <1>7 DEF PortTypeOK, AxiReset
<1>8. ASSUME UNCHANGED bankVars PROVE BankTypeOK'
  BY <1>t, <1>8, Zenon DEF bankVars, BankTypeOK
<1>9. ASSUME BankReset PROVE BankTypeOK'
  <2>1. 2^HALF_BITS = View!Half
    BY Widths
  <2> QED
    BY <1>h, <1>9, <2>1, Zenon DEF BankReset, BankTypeOK
<1>10. ASSUME UNCHANGED intrVars PROVE IntrTypeOK'
  BY <1>t, <1>10 DEF intrVars, IntrTypeOK
<1>11. ASSUME IntrReset PROVE IntrTypeOK'
  <2>1. COUNT \in 0..COUNT
    BY PulseAssumption
  <2> QED
    BY <1>11, <2>1, Zenon DEF IntrReset, IntrTypeOK
<1>12. PortTypeOK' /\ BankTypeOK' /\ IntrTypeOK'
  <2>1. CASE UNCHANGED vars
    BY <1>3, <1>8, <1>10, <2>1 DEF vars, ipVars
  <2>2. CASE use = "counter" /\ CounterNext
    <3>1. ASSUME NEW bready \in When(axi_bvalid), NEW rready \in When(axi_rvalid),
                 CounterClock(bready, rready)
          PROVE  PortTypeOK' /\ BankTypeOK' /\ UNCHANGED intrVars
      <4>1. bready \in BOOLEAN /\ rready \in BOOLEAN /\ FALSE \in BOOLEAN
        BY <1>f
      <4>2. BankClock(bready, rready, FALSE, FALSE) /\ UNCHANGED intrVars
        BY <3>1 DEF CounterClock
      <4> QED
        BY <1>1, <2>2, <4>1, <4>2
    <3> QED
      BY <1>4, <1>5, <1>6, <1>7, <1>8, <1>9, <1>10, <2>2, <3>1 DEF CounterNext
  <2>3. CASE use = "memory test" /\ TestNext
    <3>1. ASSUME NEW bready \in When(axi_bvalid), NEW rready \in When(axi_rvalid),
                 NEW awready \in BOOLEAN, NEW arready \in BOOLEAN, NEW wready \in When(axi_wvalid),
                 NEW answer \in When(WriteAccepted \/ m_raddr # NoWord),
                 TestClock(bready, rready, awready, wready, arready, answer)
          PROVE  PortTypeOK' /\ BankTypeOK' /\ UNCHANGED intrVars
      <4>1. bready \in BOOLEAN /\ rready \in BOOLEAN
        BY <1>f
      <4>2. BankClock(bready, rready, error, compare_done) /\ UNCHANGED intrVars
        BY <3>1 DEF TestClock, IpClock
      <4> QED
        BY <1>1, <1>h, <2>3, <4>1, <4>2
    <3>2. ASSUME (\E start \in BOOLEAN : Command(start)) \/ Poll PROVE PortTypeOK'
      BY <1>4, <1>5, <3>2 DEF Command, Poll
    <3>3. ASSUME IpReset PROVE PortTypeOK' /\ BankTypeOK'
      BY <1>7, <1>9, <3>3 DEF IpReset
    <3> QED
      BY <1>6, <1>8, <1>10, <2>3, <3>1, <3>2, <3>3 DEF TestNext
  <2>4. CASE use = "interrupts" /\ IntrNext
    <3>1. ASSUME NEW bready \in When(axi_bvalid), NEW rready \in When(axi_rvalid),
                 IntrPortClock(bready, rready)
          PROVE  PortTypeOK' /\ IntrTypeOK' /\ UNCHANGED bankVars
      BY <1>2, <1>f, <3>1 DEF IntrPortClock
    <3> QED
      BY <1>4, <1>5, <1>6, <1>7, <1>8, <1>10, <1>11, <2>4, <3>1 DEF IntrNext
  <2> QED
    BY <2>1, <2>2, <2>3, <2>4 DEF Next
<1> QED
  BY <1>m, <1>s, <1>12 DEF TypeOK

LEMMA TypeStart == Init => TypeOK
<1> SUFFICES ASSUME Init PROVE TypeOK
  OBVIOUS
<1>1. MasterTypeOK
  BY IpStart DEF IpInv, MasterInv
<1>2. PortTypeOK
  <2>1. 0 \in 0..7
    OBVIOUS
  <2> QED
    BY <2>1, Zenon DEF Init, AxiInit, PortTypeOK
<1>3. SoftTypeOK
  BY DEF Init, SoftInit, NoReport, SoftTypeOK
<1>4. IntrTypeOK
  <2>1. COUNT \in 0..COUNT
    BY PulseAssumption
  <2> QED
    BY <2>1, Zenon DEF Init, IntrInit, IntrTypeOK
<1>5. BankTypeOK
  <2>1. 2^HALF_BITS = View!Half /\ 0 \in 0..View!Half - 1 /\ 0 \in View!Counter /\ 0 \in 0..7
    <3>1. /\ View!Half \in Nat /\ View!Half > 1 /\ 2^HALF_BITS = View!Half
          /\ View!Counter = 0..2 * View!Top - 1 /\ 2 * View!Top \in Nat \ {0}
      BY Widths DEF View!Counter
    <3> HIDE DEF View!Half, View!Top
    <3> QED
      BY <3>1
  <2> QED
    BY <2>1, Zenon DEF Init, BankInit, BankTypeOK
<1> QED
  BY <1>1, <1>2, <1>3, <1>4, <1>5 DEF TypeOK

\* Registers, indices and ports stay in their ranges, whatever the widths, the
\* number of words and the length of the pulse.
THEOREM TypeCorrect == Spec => []TypeOK
<1>1. IpInv /\ BankInv /\ TypeOK /\ IpInv' /\ [Next]_vars => TypeOK'
  BY TypeNext
<1> QED
  BY TypeStart, IpStart, IpNext, BankStart, BankNext, <1>1, PTL DEF Spec
=============================================================================
