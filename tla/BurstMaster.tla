----------------------------- MODULE BurstMaster -----------------------------
(***************************************************************************)
(* The AXI master wzab_ip_ms_v1_0_M00_AXI, clock by clock: a rising edge   *)
(* of INIT_AXI_TXN makes it write N words to consecutive addresses, read   *)
(* them back, and report whether anything went wrong.  The memory at the   *)
(* other end is external: it is ready or not at each edge, answers when it *)
(* likes, may answer with an error and may return a wrong word.            *)
(*                                                                         *)
(* An address is the number of a word from C_M_TARGET_SLAVE_BASE_ADDR, a   *)
(* word its difference from C_M_START_DATA_VALUE; Garbage is any other.    *)
(***************************************************************************)
EXTENDS Integers

CONSTANTS
  N,        \* C_M_TRANSACTIONS_NUM
  Garbage,  \* a word the master did not write
  NoWord    \* none

\* clogb2(N - 1) + 1 bits count to N; for N = 2 they do not.
clogb2(depth) == CHOOSE b \in 0..depth : 2^b >= depth /\ \A c \in 0..depth : 2^c >= depth => b <= c
IndexValues == 2^(clogb2(N - 1) + 1)
ASSUME BurstAssumption ==
  /\ N \in Nat \ {0, 1} /\ N < IndexValues
  /\ IndexValues \in Nat   \* arithmetic, for the provers
ASSUME WordAssumption == Garbage \notin Int /\ NoWord \notin Int

VARIABLES
  init_txn_ff, init_txn_ff2, mst_exec_state,
  start_single_write, write_issued, start_single_read, read_issued,
  compare_done, error,
  axi_awvalid, axi_wvalid, axi_bready, axi_awaddr, axi_wdata, write_index,
  last_write, writes_done,
  axi_arvalid, axi_rready, axi_araddr, expected_rdata, read_index,
  last_read, reads_done, read_mismatch, error_reg,
  mem, m_addr, m_word, m_bvalid, m_berr,  \* the memory: contents, write under way
  m_raddr, m_rvalid, m_rdata, m_rerr,     \* read under way
  nw, nr, bad  \* history of the test: words written, read, anything wrong

controlVars == <<init_txn_ff, init_txn_ff2, mst_exec_state, start_single_write,
                 write_issued, start_single_read, read_issued, compare_done, error>>
mwriteVars == <<axi_awvalid, axi_wvalid, axi_bready, axi_awaddr, axi_wdata, write_index,
                last_write, writes_done>>
mreadVars == <<axi_arvalid, axi_rready, axi_araddr, expected_rdata, read_index,
               last_read, reads_done, read_mismatch, error_reg>>
memVars == <<mem, m_addr, m_word, m_bvalid, m_berr, m_raddr, m_rvalid, m_rdata, m_rerr>>
masterVars == <<controlVars, mwriteVars, mreadVars, memVars, nw, nr, bad>>

Words == 0..N \cup {Garbage}

MasterTypeOK ==
  /\ mst_exec_state \in {"IDLE", "INIT_WRITE", "INIT_READ", "INIT_COMPARE"}
  /\ {init_txn_ff, init_txn_ff2, start_single_write, write_issued, start_single_read,
      read_issued, compare_done, error, axi_awvalid, axi_wvalid, axi_bready, last_write,
      writes_done, axi_arvalid, axi_rready, last_read, reads_done, read_mismatch,
      error_reg, m_bvalid, m_berr, m_rvalid, m_rerr, bad} \subseteq BOOLEAN
  /\ {write_index, read_index} \subseteq 0..N
  /\ {axi_awaddr, axi_araddr, axi_wdata, expected_rdata, nw, nr} \subseteq 0..N
  /\ mem \in [0..N - 1 -> Words]
  /\ m_addr \in 0..N - 1 \cup {NoWord} /\ m_raddr \in 0..N - 1 \cup {NoWord}
  /\ m_word \in 0..N \cup {NoWord} /\ m_rdata \in Words

MasterInit ==
  /\ mem = [i \in 0..N - 1 |-> Garbage]
  /\ init_txn_ff = FALSE /\ init_txn_ff2 = FALSE /\ mst_exec_state = "IDLE"
  /\ start_single_write = FALSE /\ write_issued = FALSE
  /\ start_single_read = FALSE /\ read_issued = FALSE
  /\ compare_done = FALSE /\ error = FALSE
  /\ axi_awvalid = FALSE /\ axi_wvalid = FALSE /\ axi_bready = FALSE
  /\ axi_awaddr = 0 /\ axi_wdata = 0 /\ write_index = 0
  /\ last_write = FALSE /\ writes_done = FALSE
  /\ axi_arvalid = FALSE /\ axi_rready = TRUE /\ axi_araddr = 0
  /\ expected_rdata = 0 /\ read_index = 0
  /\ last_read = FALSE /\ reads_done = FALSE
  /\ read_mismatch = FALSE /\ error_reg = FALSE
  /\ m_addr = NoWord /\ m_word = NoWord /\ m_bvalid = FALSE /\ m_berr = FALSE
  /\ m_raddr = NoWord /\ m_rvalid = FALSE /\ m_rdata = 0 /\ m_rerr = FALSE
  /\ nw = 0 /\ nr = 0 /\ bad = FALSE

\* The memory keeps its contents.
MasterReset ==
  /\ init_txn_ff' = FALSE /\ init_txn_ff2' = FALSE /\ mst_exec_state' = "IDLE"
  /\ start_single_write' = FALSE /\ write_issued' = FALSE
  /\ start_single_read' = FALSE /\ read_issued' = FALSE
  /\ compare_done' = FALSE /\ error' = FALSE
  /\ axi_awvalid' = FALSE /\ axi_wvalid' = FALSE /\ axi_bready' = FALSE
  /\ axi_awaddr' = 0 /\ axi_wdata' = 0 /\ write_index' = 0
  /\ last_write' = FALSE /\ writes_done' = FALSE
  /\ axi_arvalid' = FALSE /\ axi_rready' = TRUE /\ axi_araddr' = 0
  /\ expected_rdata' = 0 /\ read_index' = 0
  /\ last_read' = FALSE /\ reads_done' = FALSE
  /\ read_mismatch' = FALSE /\ error_reg' = FALSE
  /\ m_addr' = NoWord /\ m_word' = NoWord /\ m_bvalid' = FALSE /\ m_berr' = FALSE
  /\ m_raddr' = NoWord /\ m_rvalid' = FALSE /\ m_rdata' = 0 /\ m_rerr' = FALSE
  /\ nw' = 0 /\ nr' = 0 /\ bad' = FALSE
  /\ UNCHANGED mem

init_txn_pulse == init_txn_ff /\ ~init_txn_ff2

-----------------------------------------------------------------------------
(* The master.  Most processes start over at a pulse. *)

\* A register that start sets and finish clears.
SetClear(reg, start, finish) == ~init_txn_pulse /\ (start \/ (reg /\ ~finish))
\* A flag that stays until the next pulse.
Sticky(flag, set) == ~init_txn_pulse /\ (flag \/ set)
\* A counter.
FaultyStepIf(step, value, next) == IF step THEN next ELSE value
StepIf(step, value, next) == IF init_txn_pulse THEN 0 ELSE IF step THEN next ELSE value

BTaken == m_bvalid /\ axi_bready
RTaken == m_rvalid /\ axi_rready

FaultyWritesEnd == last_write
WritesEnd == last_write /\ BTaken

WriteChannels(awready, wready) ==
  /\ axi_awvalid' = SetClear(axi_awvalid, start_single_write, awready)
  /\ axi_wvalid' = SetClear(axi_wvalid, start_single_write, wready)
  /\ axi_bready' = (~init_txn_pulse /\ m_bvalid /\ ~axi_bready)
  /\ write_index' = StepIf(start_single_write, write_index, (write_index + 1) % IndexValues)
  /\ axi_awaddr' = StepIf(awready /\ axi_awvalid, axi_awaddr, axi_awaddr + 1)
  /\ axi_wdata' = StepIf(wready /\ axi_wvalid, axi_wdata, write_index)
  /\ last_write' = Sticky(last_write, write_index = N /\ awready)
  /\ writes_done' = Sticky(writes_done, WritesEnd)

ReadChannels(arready) ==
  /\ axi_arvalid' = SetClear(axi_arvalid, start_single_read, arready)
  /\ axi_rready' = (init_txn_pulse \/ (m_rvalid /\ ~axi_rready))
  /\ read_index' = StepIf(start_single_read, read_index, (read_index + 1) % IndexValues)
  /\ axi_araddr' = StepIf(arready /\ axi_arvalid, axi_araddr, axi_araddr + 1)
  /\ expected_rdata' = StepIf(RTaken, expected_rdata, read_index)
  /\ last_read' = Sticky(last_read, read_index = N /\ arready)
  /\ reads_done' = Sticky(reads_done, last_read /\ RTaken)

\* Data comparison and error register.
FaultyVerdict == read_mismatch
Wrong == read_mismatch \/ (BTaken /\ m_berr) \/ (RTaken /\ m_rerr)
Compare ==
  /\ read_mismatch' = Sticky(read_mismatch, RTaken /\ m_rdata # expected_rdata)
  /\ error_reg' = Sticky(error_reg, Wrong)

\* start_single_... is a pulse, ..._issued lasts until the answer is accepted.
Issue(ready, accept, start, issued) ==
  /\ start' = ((ready /\ ~start /\ ~issued) \/ (start /\ accept))
  /\ issued' = ((ready /\ ~start /\ ~issued) \/ (issued /\ ~accept))

MayWrite == ~axi_awvalid /\ ~axi_wvalid /\ ~m_bvalid /\ ~last_write
MayRead == ~axi_arvalid /\ ~m_rvalid /\ ~last_read

\* MASTER_EXECUTION_PROC
Execute ==
  \/ /\ mst_exec_state = "IDLE"
     /\ IF init_txn_pulse
          THEN mst_exec_state' = "INIT_WRITE" /\ compare_done' = FALSE /\ error' = FALSE
          ELSE UNCHANGED <<mst_exec_state, compare_done, error>>
     /\ UNCHANGED <<start_single_write, write_issued, start_single_read, read_issued>>
  \/ /\ mst_exec_state = "INIT_WRITE"
     /\ IF writes_done
          THEN mst_exec_state' = "INIT_READ" /\ UNCHANGED <<start_single_write, write_issued>>
          ELSE /\ Issue(MayWrite, axi_bready, start_single_write, write_issued)
               /\ UNCHANGED mst_exec_state
     /\ UNCHANGED <<start_single_read, read_issued, compare_done, error>>
  \/ /\ mst_exec_state = "INIT_READ"
     /\ IF reads_done
          THEN mst_exec_state' = "INIT_COMPARE" /\ UNCHANGED <<start_single_read, read_issued>>
          ELSE /\ Issue(MayRead, axi_rready, start_single_read, read_issued)
               /\ UNCHANGED mst_exec_state
     /\ UNCHANGED <<start_single_write, write_issued, compare_done, error>>
  \/ /\ mst_exec_state = "INIT_COMPARE" /\ mst_exec_state' = "IDLE"
     /\ compare_done' = TRUE /\ error' = error_reg
     /\ UNCHANGED <<start_single_write, write_issued, start_single_read, read_issued>>

-----------------------------------------------------------------------------
(* The memory, external *)

WriteAccepted == m_addr # NoWord /\ m_word # NoWord
Starting == mst_exec_state = "IDLE" /\ init_txn_pulse

\* A write is done, and answered, once its address and its word were accepted.
AnswerWrite(awready, wready, answer, err) ==
  LET commit == answer /\ WriteAccepted /\ ~m_bvalid IN
  /\ m_bvalid' = (commit \/ (m_bvalid /\ ~axi_bready))
  /\ m_berr' = IF commit THEN err ELSE m_berr
  /\ mem' = IF commit THEN [mem EXCEPT ![m_addr] = m_word] ELSE mem
  /\ m_addr' = IF axi_awvalid /\ awready THEN axi_awaddr ELSE IF commit THEN NoWord ELSE m_addr
  /\ m_word' = IF axi_wvalid /\ wready THEN axi_wdata ELSE IF commit THEN NoWord ELSE m_word
  /\ nw' = IF Starting THEN 0 ELSE IF commit THEN nw + 1 ELSE nw

AnswerRead(arready, answer, word, err) ==
  LET return == answer /\ m_raddr # NoWord /\ ~m_rvalid IN
  /\ m_rvalid' = (return \/ (m_rvalid /\ ~axi_rready))
  /\ m_rerr' = IF return THEN err ELSE m_rerr
  /\ m_rdata' = IF return THEN word ELSE m_rdata
  /\ m_raddr' = IF axi_arvalid /\ arready THEN axi_araddr ELSE IF return THEN NoWord ELSE m_raddr
  /\ nr' = IF Starting THEN 0 ELSE IF return THEN nr + 1 ELSE nr

\* The history starts over with the test; word number nr has to be nr.
Record ==
  bad' = (~Starting /\ (bad \/ (nw' > nw /\ m_berr')
                            \/ (nr' > nr /\ (m_rerr' \/ m_rdata' # nr))))

\* One of the two is under way at most.
Memory(awready, wready, arready, answer) ==
  /\ \E err \in (IF answer THEN BOOLEAN ELSE {FALSE}) :
       /\ AnswerWrite(awready, wready, answer, err)
       /\ IF m_raddr = NoWord
            THEN AnswerRead(arready, FALSE, NoWord, FALSE)
            ELSE \E word \in {Garbage, mem[m_raddr]} : AnswerRead(arready, answer, word, err)
  /\ Record

MasterClock(INIT_AXI_TXN, awready, wready, arready, answer) ==
  /\ init_txn_ff' = INIT_AXI_TXN /\ init_txn_ff2' = init_txn_ff
  /\ Execute /\ Compare
  /\ WriteChannels(awready, wready) /\ ReadChannels(arready)
  /\ Memory(awready, wready, arready, answer)

-----------------------------------------------------------------------------
(* Properties *)

Test == INSTANCE MemoryTest WITH done <- compare_done

\* The master writes every word once, at its address and in order, reads them
\* back, and reports right after the last answer whether anything was wrong,
\* whenever the memory is ready, answers, fails or returns another word.
TestsMemory == Test!Spec
=============================================================================
