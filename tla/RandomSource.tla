---------------------------- MODULE RandomSource ----------------------------
(***************************************************************************)
(* axi4s_src3 (axi_dma_prj2): while start is high, packets of random       *)
(* length, initial value and step, each led by a header word that tells    *)
(* them.  A timer asks for packets, p0; a state machine sends them, p1.    *)
(* The generator p2 is a choice of the three numbers.                      *)
(***************************************************************************)
EXTENDS AxiStream

CONSTANTS
  PKT_DEL,  \* edges, less one, between two requests of the timer
  LENGTHS,  \* lengths of packets in words, the header included
  STEPS,    \* steps
  INITS     \* initial values

MaxLength == 2^20 - 1   \* the header has 20 bits for it

ASSUME RandomAssumption ==
  /\ PKT_DEL \in Nat /\ INITS \subseteq 0..255 /\ STEPS \subseteq 0..15
  /\ LENGTHS \subseteq 3..MaxLength
\* The shortest packet, 16000 words, outlasts the timer, 100 edges.
ASSUME TimerAssumption == \A n \in LENGTHS : n > PKT_DEL + 1

VARIABLES
  src_state,                     \* state of p1
  pkt_len, pkt_step, init_data,  \* the packet's numbers
  del_cnt, start_pkt,            \* timer and request of p0
  ack_pkt,                       \* p1 has taken the request
  gap,       \* history, up to 4: edges since a packet ended
  steady     \* history: start is high since a header was offered

timerVars == <<del_cnt, start_pkt>>
packetVars == <<pkt_len, pkt_step, init_data>>
randomVars == <<axisVars, start, out, src_state, packetVars, timerVars, ack_pkt,
                gap, steady>>

RandomTypeOK ==
  /\ src_state \in {"ST_IDLE", "ST_START_HEAD", "ST_START_PKT", "ST_SEND_PKT"}
  /\ pkt_len \in LENGTHS \cup {0} /\ pkt_step \in STEPS \cup {0}
  /\ init_data \in INITS \cup {0}
  /\ del_cnt \in 0..PKT_DEL /\ start_pkt \in BOOLEAN /\ ack_pkt \in BOOLEAN
  /\ gap \in 0..4 /\ steady \in BOOLEAN
  /\ tvalid => wrd_count \in 1..pkt_len
  /\ tvalid <=> src_state \in {"ST_START_PKT", "ST_SEND_PKT"}

\* After reset.
RandomInit ==
  /\ src_state = "ST_IDLE" /\ pkt_len = 0 /\ pkt_step = 0 /\ init_data = 0
  /\ del_cnt = 0 /\ start_pkt = FALSE /\ ack_pkt = FALSE
  /\ gap = 4 /\ steady = FALSE

-----------------------------------------------------------------------------
(* p0: a request every PKT_DEL + 1 edges; one that comes with the           *)
(* acknowledge of the previous one stays.                                   *)

Elapsed == del_cnt >= PKT_DEL
NextCount == IF Elapsed \/ ~start' THEN 0 ELSE del_cnt + 1
FaultyBusyTimer ==
  /\ start_pkt' = (start' /\ (Elapsed \/ (start_pkt /\ ~ack_pkt)))
  /\ del_cnt' = IF tvalid THEN 0 ELSE NextCount
FaultyLateTimer ==
  /\ start_pkt' = (start' /\ (del_cnt > PKT_DEL \/ (start_pkt /\ ~ack_pkt)))
  /\ del_cnt' = NextCount
Timer ==
  /\ start_pkt' = (start' /\ (Elapsed \/ (start_pkt /\ ~ack_pkt)))
  /\ del_cnt' = NextCount

(* p2, whose shift register goes on at every edge, and p1 *)

\* The three numbers are parts of the shift register.
Draw == pkt_len' \in LENGTHS /\ pkt_step' \in STEPS /\ init_data' \in INITS

Idle ==
  /\ src_state = "ST_IDLE"
  /\ \/ start_pkt /\ Draw /\ src_state' = "ST_START_HEAD"
     \/ ~start_pkt /\ UNCHANGED <<src_state, packetVars>>
  /\ ack_pkt' = FALSE
  /\ UNCHANGED axisVars

\* The header packs length, step and initial value in one word.
Header(n, step, init) == n * 2^12 + step * 2^8 + init

StartHead ==
  /\ src_state = "ST_START_HEAD" /\ src_state' = "ST_START_PKT"
  /\ s_data' = Header(pkt_len, pkt_step, init_data)
  /\ wrd_count' = 1 /\ tvalid' = TRUE /\ tlast' = FALSE /\ ack_pkt' = TRUE
  /\ UNCHANGED packetVars

SourceStall(tready) ==
  /\ src_state \in {"ST_START_PKT", "ST_SEND_PKT"} /\ ~MayAdvance(tready)
  /\ ack_pkt' = FALSE
  /\ UNCHANGED <<axisVars, src_state, packetVars>>

StartPkt(tready) ==
  /\ src_state = "ST_START_PKT" /\ MayAdvance(tready) /\ src_state' = "ST_SEND_PKT"
  /\ wrd_count' = 2 /\ s_data' = init_data /\ ack_pkt' = FALSE
  /\ UNCHANGED <<tvalid, tlast, packetVars>>

SendPkt(tready) ==
  /\ src_state = "ST_SEND_PKT" /\ MayAdvance(tready)
  /\ \/ NextWord(pkt_len, pkt_step) /\ UNCHANGED src_state
     \/ ~MoreWords(pkt_len) /\ Silent /\ src_state' = "ST_IDLE"
  /\ ack_pkt' = FALSE
  /\ UNCHANGED packetVars

-----------------------------------------------------------------------------
History(tready) ==
  /\ gap' = IF tvalid /\ tready /\ tlast THEN 0 ELSE IF gap < 4 THEN gap + 1 ELSE 4
  /\ steady' = (start' /\ (steady \/ (tvalid' /\ ~tvalid)))

RandomClock(tready) ==
  /\ start' \in BOOLEAN
  /\ Transfer(tready)
  /\ Timer
  /\ Idle \/ StartHead \/ SourceStall(tready) \/ StartPkt(tready) \/ SendPkt(tready)
  /\ History(tready)

\* resetn: the packet's numbers and the word count are not reset.
RandomReset ==
  /\ start' \in BOOLEAN
  /\ src_state' = "ST_IDLE" /\ s_data' = 0 /\ tvalid' = FALSE /\ tlast' = FALSE
  /\ ack_pkt' = FALSE /\ del_cnt' = 0 /\ start_pkt' = FALSE
  /\ out' = Aborted /\ gap' = 4 /\ steady' = FALSE
  /\ UNCHANGED <<wrd_count, packetVars>>

RandomNext == RandomReset \/ \E tready \in BOOLEAN : RandomClock(tready)

-----------------------------------------------------------------------------
(* Properties *)

\* "The delay between packets should not depend on the length of each packet"
\* (axi4s_src3.vhd:85): while start stays high, a packet follows the one before
\* after two edges, however long it was and however often the receiver stalled.
ConstantGap ==
  [][~tvalid /\ tvalid' /\ steady /\ start' => gap' = 2]_randomVars
=============================================================================
