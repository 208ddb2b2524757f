---------------------------- MODULE StreamProofs ----------------------------
(***************************************************************************)
(* The packet sources, for any packets: the receiver gets whole packets,   *)
(* word for word, from either design, an offered word stands until it is   *)
(* taken, and axi4s_src3 pauses equally long after any packet.             *)
(***************************************************************************)
EXTENDS MCStream, TLAPS

-----------------------------------------------------------------------------
(* The fixed packets *)

Numbered(i) == PKT[i].first + (wrd_count - 1) * PKT[i].step

\* The word that is offered is number wrd_count of packet pkt_num.
FixedInv ==
  /\ FixedTypeOK
  /\ tvalid \in BOOLEAN /\ tlast \in BOOLEAN /\ s_data \in Nat /\ wrd_count \in Nat
  /\ pkt_num # 0 => s_data = Numbered(pkt_num) /\ (tlast <=> wrd_count = PKT[pkt_num].len)

LEMMA PktFacts ==
  ASSUME NEW i \in 1..3
  PROVE  /\ PKT[i].first \in Nat /\ PKT[i].step \in Nat
         /\ PKT[i].len \in Nat /\ PKT[i].len > 1
BY FixedAssumption

LEMMA FixedClockInv ==
  ASSUME FixedInv, NEW tready \in BOOLEAN, FixedClock(tready)
  PROVE  FixedInv'
<1>t. /\ pkt_num \in 0..3 /\ wrd_count \in Nat /\ s_data \in Nat /\ tlast \in BOOLEAN
      /\ tuser \in BOOLEAN /\ tvalid \in BOOLEAN /\ (tvalid <=> pkt_num # 0)
      /\ old_start' \in BOOLEAN
  <2>1. old_start' \in BOOLEAN
    BY DEF FixedClock
  <2> QED
    BY <2>1 DEF FixedInv, FixedTypeOK
<1>1. CASE Wait
  BY <1>1, <1>t DEF Wait, FixedInv, FixedTypeOK, Numbered
<1>2. ASSUME NEW i \in 1..3, FirstWord(i) PROVE FixedInv'
  <2>1. /\ PKT[i].first \in Nat /\ PKT[i].step \in Nat /\ PKT[i].len \in Nat /\ PKT[i].len > 1
    BY PktFacts
  <2>2. PKT[i].first + (1 - 1) * PKT[i].step = PKT[i].first
    BY <2>1
  <2>3. /\ pkt_num' = i /\ wrd_count' = 1 /\ s_data' = PKT[i].first
        /\ tvalid' = TRUE /\ tlast' = FALSE /\ tuser' = TRUE
    BY <1>2 DEF FirstWord
  <2>4. FixedTypeOK'
    BY <1>t, <2>1, <2>3 DEF FixedTypeOK
  <2>5. s_data' = Numbered(i)'
    BY <2>2, <2>3 DEF Numbered
  <2>6. (tlast' <=> wrd_count' = PKT[i].len)
    BY <2>1, <2>3
  <2> QED
    BY <2>1, <2>3, <2>4, <2>5, <2>6 DEF FixedInv
<1>3. CASE Stall(tready)
  BY <1>3, <1>t DEF Stall, axisVars, FixedInv, FixedTypeOK, Numbered
<1>4. CASE Word(tready)
  <2> DEFINE i == pkt_num
  <2>1. i \in 1..3 /\ wrd_count \in 1..PKT[i].len /\ wrd_count < PKT[i].len
        /\ s_data = Numbered(i) /\ (tlast <=> wrd_count = PKT[i].len)
    BY <1>4, <1>t, PktFacts DEF Word, NextWord, MoreWords, FixedInv, FixedTypeOK
  <2>2. /\ PKT[i].first \in Nat /\ PKT[i].step \in Nat /\ PKT[i].len \in Nat
    BY <2>1, PktFacts
  <2>3. wrd_count' = wrd_count + 1 /\ s_data' = s_data + PKT[i].step /\ pkt_num' = i
        /\ (tlast' <=> tlast \/ wrd_count = PKT[i].len - 1) /\ tlast' \in BOOLEAN
        /\ tvalid' = tvalid /\ tuser' \in BOOLEAN
    BY <1>4, <1>t DEF Word, NextWord, LastComes
  <2>4. s_data' = Numbered(i)'
    <3> DEFINE f == PKT[i].first
               s == PKT[i].step
               w == wrd_count
    <3>1. f \in Nat /\ s \in Nat /\ w \in Nat
      BY <1>t, <2>2
    <3> HIDE DEF f, s, w
    <3>2. (f + (w - 1) * s) + s = f + ((w + 1) - 1) * s
      BY ONLY <3>1
    <3>3. s_data' = (f + (w - 1) * s) + s
      BY <2>1, <2>3 DEF Numbered, f, s, w
    <3> QED
      BY <2>3, <3>2, <3>3 DEF Numbered, f, s, w
  <2>5. s_data' \in Nat /\ wrd_count' \in 1..PKT[i].len /\ tlast' \in BOOLEAN
        /\ (tlast' <=> wrd_count' = PKT[i].len)
    <3>1. s_data' \in Nat /\ wrd_count' \in 1..PKT[i].len
      BY <1>t, <2>1, <2>2, <2>3
    <3>2. ~tlast
      BY <2>1
    <3>3. (tlast' <=> wrd_count + 1 = PKT[i].len)
      BY <1>t, <2>2, <2>3, <3>2
    <3> QED
      BY <2>3, <3>1, <3>3
  <2> QED
    BY <1>t, <2>1, <2>3, <2>4, <2>5 DEF FixedInv, FixedTypeOK, Numbered
<1>5. CASE NextPacket(tready)
  <2>1. CASE pkt_num < 3 /\ FirstWord(pkt_num + 1)
    <3>1. pkt_num + 1 \in 1..3
      BY <1>t, <2>1
    <3> QED
      BY <1>2, <2>1, <3>1
  <2>2. CASE pkt_num' = 0 /\ Silent /\ UNCHANGED tuser
    <3>1. /\ pkt_num' = 0 /\ wrd_count' = 0 /\ s_data' = 0 /\ tvalid' = FALSE
          /\ tlast' = FALSE /\ tuser' = tuser
      BY <2>2 DEF Silent
    <3>2. FixedTypeOK'
      BY <1>t, <3>1 DEF FixedTypeOK
    <3> QED
      BY <3>1, <3>2 DEF FixedInv
  <2> QED
    BY <1>5, <2>1, <2>2 DEF NextPacket
<1> QED
  BY <1>1, <1>2, <1>3, <1>4, <1>5 DEF FixedClock, Begin

LEMMA FixedResetInv == FixedInv /\ FixedReset => FixedInv'
<1> SUFFICES ASSUME FixedInv, FixedReset PROVE FixedInv'
  OBVIOUS
<1>1. pkt_num' = 0 /\ wrd_count' = wrd_count /\ s_data' = 0 /\ tuser' = tuser
  BY DEF FixedReset
<1>2. ~tvalid' /\ tvalid' \in BOOLEAN /\ tlast' \in BOOLEAN /\ old_start' \in BOOLEAN
  BY DEF FixedReset
<1>3. tuser \in BOOLEAN /\ wrd_count \in Nat
  BY DEF FixedInv, FixedTypeOK
<1>4. FixedTypeOK'
  BY <1>1, <1>2, <1>3 DEF FixedTypeOK
<1> QED
  BY <1>1, <1>2, <1>3, <1>4 DEF FixedInv

LEMMA FixedUnchanged == FixedInv /\ UNCHANGED fixedVars => FixedInv'
BY DEF FixedInv, FixedTypeOK, fixedVars, axisVars, Numbered

-----------------------------------------------------------------------------
(* The random packets *)

RandomWord == init_data + (wrd_count - 2) * pkt_step

\* The word that is offered is the header, or word wrd_count of the packet
\* whose numbers were drawn.
RandomInv ==
  /\ RandomTypeOK
  /\ tvalid \in BOOLEAN /\ tlast \in BOOLEAN /\ start \in BOOLEAN
  /\ s_data \in Nat /\ wrd_count \in Nat
  /\ src_state # "ST_IDLE" =>
       pkt_len \in LENGTHS /\ pkt_step \in STEPS /\ init_data \in INITS
  /\ src_state = "ST_START_PKT" =>
       ~tlast /\ wrd_count = 1 /\ s_data = Header(pkt_len, pkt_step, init_data)
  /\ src_state = "ST_SEND_PKT" =>
       /\ wrd_count >= 2 /\ s_data = RandomWord
       /\ tlast <=> wrd_count = pkt_len

LEMMA DrawFacts ==
  /\ PKT_DEL \in Nat /\ LENGTHS \subseteq Nat /\ STEPS \subseteq Nat /\ INITS \subseteq Nat
  /\ \A n \in LENGTHS : n >= 3 /\ n > PKT_DEL + 1
<1>1. MaxLength \in Int
  BY DEF MaxLength
<1>2. LENGTHS \subseteq Nat /\ \A n \in LENGTHS : n >= 3
  BY <1>1, RandomAssumption
<1>3. PKT_DEL \in Nat /\ STEPS \subseteq Nat /\ INITS \subseteq Nat
  BY RandomAssumption
<1> QED
  BY <1>2, <1>3, TimerAssumption

LEMMA HeaderType ==
  ASSUME NEW n \in Nat, NEW step \in Nat, NEW init \in Nat
  PROVE  Header(n, step, init) \in Nat
<1> DEFINE a == 2^12
           b == 2^8
<1>1. a = 4096 /\ b = 256
  OBVIOUS
<1> QED
  BY <1>1 DEF Header

\* What the registers that the timer and the history own do.
LEMMA TimerInv ==
  ASSUME RandomInv, NEW tready \in BOOLEAN, start' \in BOOLEAN, Timer, History(tready)
  PROVE  /\ del_cnt' \in 0..PKT_DEL /\ start_pkt' \in BOOLEAN
         /\ gap' \in 0..4 /\ steady' \in BOOLEAN
<1>1. del_cnt \in 0..PKT_DEL /\ PKT_DEL \in Nat /\ gap \in 0..4
  BY DrawFacts DEF RandomInv, RandomTypeOK
<1>2. del_cnt' \in 0..PKT_DEL
  BY <1>1 DEF Timer, NextCount, Elapsed
<1>3. gap' \in 0..4
  BY <1>1 DEF History
<1> QED
  BY <1>2, <1>3 DEF Timer, History

LEMMA RandomClockInv ==
  ASSUME RandomInv, NEW tready \in BOOLEAN, RandomClock(tready)
  PROVE  RandomInv'
<1>t. /\ wrd_count \in Nat /\ s_data \in Nat /\ tlast \in BOOLEAN /\ tvalid \in BOOLEAN
      /\ src_state \in {"ST_IDLE", "ST_START_HEAD", "ST_START_PKT", "ST_SEND_PKT"}
      /\ pkt_len \in LENGTHS \cup {0} /\ pkt_step \in STEPS \cup {0} /\ init_data \in INITS \cup {0}
      /\ (tvalid <=> src_state \in {"ST_START_PKT", "ST_SEND_PKT"})
      /\ start' \in BOOLEAN
  <2>1. start' \in BOOLEAN
    BY DEF RandomClock
  <2> QED
    BY <2>1 DEF RandomInv, RandomTypeOK
<1>u. /\ del_cnt' \in 0..PKT_DEL /\ start_pkt' \in BOOLEAN
      /\ gap' \in 0..4 /\ steady' \in BOOLEAN
  BY <1>t, TimerInv DEF RandomClock
<1>1. CASE Idle
  <2>1. CASE Draw /\ src_state' = "ST_START_HEAD"
    BY <1>1, <1>t, <1>u, <2>1 DEF Idle, Draw, axisVars, RandomInv, RandomTypeOK
  <2>2. CASE UNCHANGED <<src_state, packetVars>>
    BY <1>1, <1>t, <1>u, <2>2 DEF Idle, packetVars, axisVars, RandomInv, RandomTypeOK
  <2> QED
    BY <1>1, <2>1, <2>2 DEF Idle
<1>2. CASE StartHead
  <2>1. /\ src_state = "ST_START_HEAD" /\ src_state' = "ST_START_PKT" /\ wrd_count' = 1
        /\ s_data' = Header(pkt_len, pkt_step, init_data)
        /\ tvalid' /\ tvalid' \in BOOLEAN /\ ~tlast' /\ tlast' \in BOOLEAN
        /\ ack_pkt' \in BOOLEAN
        /\ pkt_len' = pkt_len /\ pkt_step' = pkt_step /\ init_data' = init_data
    BY <1>2 DEF StartHead, packetVars
  <2>2. pkt_len \in LENGTHS /\ pkt_step \in STEPS /\ init_data \in INITS
    BY <2>1 DEF RandomInv
  <2>3. s_data' \in Nat /\ 1 \in 1..pkt_len
    BY <2>1, <2>2, DrawFacts, HeaderType
  <2>4. RandomTypeOK'
    <3>1. wrd_count' \in 1..pkt_len'
      BY <2>1, <2>3
    <3>2. tvalid' <=> src_state' \in {"ST_START_PKT", "ST_SEND_PKT"}
      BY <2>1
    <3>3. /\ pkt_len' \in LENGTHS \cup {0} /\ pkt_step' \in STEPS \cup {0}
          /\ init_data' \in INITS \cup {0} /\ ack_pkt' \in BOOLEAN
      BY <2>1, <2>2
    <3>4. src_state' \in {"ST_IDLE", "ST_START_HEAD", "ST_START_PKT", "ST_SEND_PKT"}
      BY <2>1
    <3> QED
      BY <1>u, <3>1, <3>2, <3>3, <3>4 DEF RandomTypeOK
  <2>5. s_data' = Header(pkt_len, pkt_step, init_data)'
    BY <2>1 DEF Header
  <2> QED
    BY <1>t, <2>1, <2>2, <2>3, <2>4, <2>5 DEF RandomInv
<1>3. CASE SourceStall(tready)
  <2>1. UNCHANGED <<tvalid, tlast, s_data, wrd_count, src_state, pkt_len, pkt_step, init_data>>
        /\ ack_pkt' = FALSE
    BY <1>3 DEF SourceStall, axisVars, packetVars
  <2>2. RandomTypeOK'
    BY <1>t, <1>u, <2>1 DEF RandomInv, RandomTypeOK
  <2> QED
    BY <1>t, <2>1, <2>2 DEF RandomInv, RandomWord
<1>4. CASE StartPkt(tready)
  <2>1. /\ src_state = "ST_START_PKT" /\ src_state' = "ST_SEND_PKT" /\ wrd_count' = 2
        /\ s_data' = init_data /\ ack_pkt' = FALSE /\ tvalid' = tvalid /\ tlast' = tlast
        /\ pkt_len' = pkt_len /\ pkt_step' = pkt_step /\ init_data' = init_data
    BY <1>4 DEF StartPkt, packetVars
  <2>2. pkt_len \in LENGTHS /\ pkt_step \in STEPS /\ init_data \in INITS /\ ~tlast
    BY <2>1 DEF RandomInv
  <2>3. /\ pkt_len \in Nat /\ pkt_len >= 3 /\ pkt_step \in Nat /\ init_data \in Nat
    BY <2>2, DrawFacts
  <2>4. RandomTypeOK'
    <3>1. wrd_count' \in 1..pkt_len'
      BY <2>1, <2>3
    <3>2. (tvalid' <=> src_state' \in {"ST_START_PKT", "ST_SEND_PKT"}) /\ ack_pkt' \in BOOLEAN
      BY <1>t, <2>1
    <3>3. /\ pkt_len' \in LENGTHS \cup {0} /\ pkt_step' \in STEPS \cup {0}
          /\ init_data' \in INITS \cup {0}
      BY <2>1, <2>2
    <3>4. src_state' \in {"ST_IDLE", "ST_START_HEAD", "ST_START_PKT", "ST_SEND_PKT"}
      BY <2>1
    <3> QED
      BY <1>u, <3>1, <3>2, <3>3, <3>4 DEF RandomTypeOK
  <2>5. s_data' = RandomWord'
    <3>1. init_data + (2 - 2) * pkt_step = init_data
      BY <2>3
    <3> QED
      BY <2>1, <3>1 DEF RandomWord
  <2> QED
    BY <1>t, <2>1, <2>2, <2>3, <2>4, <2>5 DEF RandomInv
<1>5. CASE SendPkt(tready)
  <2>1. /\ src_state = "ST_SEND_PKT" /\ ack_pkt' = FALSE
        /\ pkt_len' = pkt_len /\ pkt_step' = pkt_step /\ init_data' = init_data
    BY <1>5 DEF SendPkt, packetVars
  <2>2. /\ pkt_len \in LENGTHS /\ pkt_step \in STEPS /\ init_data \in INITS
        /\ wrd_count >= 2 /\ s_data = RandomWord /\ (tlast <=> wrd_count = pkt_len)
    BY <2>1 DEF RandomInv
  <2>3. /\ pkt_len \in Nat /\ pkt_len >= 3 /\ pkt_step \in Nat /\ init_data \in Nat
    BY <2>2, DrawFacts
  <2>4. CASE NextWord(pkt_len, pkt_step) /\ UNCHANGED src_state
    <3>1. /\ wrd_count < pkt_len /\ wrd_count' = wrd_count + 1 /\ s_data' = s_data + pkt_step
          /\ (tlast' <=> tlast \/ wrd_count = pkt_len - 1) /\ tlast' \in BOOLEAN
          /\ tvalid' = tvalid /\ src_state' = src_state
      BY <2>4 DEF NextWord, MoreWords, LastComes
    <3>2. s_data' \in Nat /\ wrd_count' \in 1..pkt_len /\ wrd_count' >= 2
          /\ (tlast' <=> wrd_count' = pkt_len)
      BY <1>t, <2>2, <2>3, <3>1
    <3>3. s_data' = RandomWord'
      <4> DEFINE f == init_data
                 s == pkt_step
                 w == wrd_count
      <4>1. f \in Nat /\ s \in Nat /\ w \in Nat
        BY <1>t, <2>3
      <4> HIDE DEF f, s, w
      <4>2. (f + (w - 2) * s) + s = f + ((w + 1) - 2) * s
        BY ONLY <4>1
      <4>3. s_data' = (f + (w - 2) * s) + s
        BY <2>2, <3>1 DEF RandomWord, f, s, w
      <4> QED
        BY <2>1, <3>1, <4>2, <4>3 DEF RandomWord, f, s, w
    <3>4. RandomTypeOK'
      BY <1>t, <1>u, <2>1, <2>2, <3>1, <3>2 DEF RandomTypeOK
    <3> QED
      BY <1>t, <2>1, <2>2, <3>1, <3>2, <3>3, <3>4 DEF RandomInv
  <2>5. CASE Silent /\ src_state' = "ST_IDLE"
    <3>1. wrd_count' = 0 /\ s_data' = 0 /\ tvalid' = FALSE /\ tlast' = FALSE
      BY <2>5 DEF Silent
    <3>2. RandomTypeOK'
      BY <1>t, <1>u, <2>1, <2>5, <3>1 DEF RandomTypeOK
    <3> QED
      BY <1>t, <2>1, <2>5, <3>1, <3>2 DEF RandomInv
  <2> QED
    BY <1>5, <2>4, <2>5 DEF SendPkt
<1> QED
  BY <1>1, <1>2, <1>3, <1>4, <1>5 DEF RandomClock

LEMMA RandomResetInv == RandomInv /\ RandomReset => RandomInv'
<1> SUFFICES ASSUME RandomInv, RandomReset PROVE RandomInv'
  OBVIOUS
<1>1. /\ src_state' = "ST_IDLE" /\ s_data' = 0 /\ ~tvalid' /\ tvalid' \in BOOLEAN
      /\ tlast' \in BOOLEAN /\ ack_pkt' \in BOOLEAN /\ del_cnt' = 0
      /\ start_pkt' \in BOOLEAN /\ gap' = 4 /\ steady' \in BOOLEAN
      /\ wrd_count' = wrd_count /\ pkt_len' = pkt_len /\ pkt_step' = pkt_step
      /\ init_data' = init_data
  BY DEF RandomReset, packetVars
<1>2. start' \in BOOLEAN
  BY DEF RandomReset
<1>3. RandomTypeOK'
  <2>1. /\ pkt_len \in LENGTHS \cup {0} /\ pkt_step \in STEPS \cup {0}
        /\ init_data \in INITS \cup {0}
    BY DEF RandomInv, RandomTypeOK
  <2> QED
    BY <1>1, <2>1, DrawFacts DEF RandomTypeOK
<1>4. wrd_count \in Nat
  BY DEF RandomInv
<1> QED
  BY <1>1, <1>2, <1>3, <1>4 DEF RandomInv

LEMMA RandomUnchanged == RandomInv /\ UNCHANGED randomVars => RandomInv'
BY DEF RandomInv, RandomTypeOK, randomVars, axisVars, packetVars, timerVars, RandomWord, Header

-----------------------------------------------------------------------------
(* Either design *)

Words == [data : Nat, last : BOOLEAN]

StreamInv ==
  /\ design \in {"fixed", "random"} /\ start \in BOOLEAN
  /\ out \in Words \cup {NoWord, Aborted}
  /\ design = "fixed" => FixedInv
  /\ design = "random" => RandomInv

LEMMA TransferType ==
  ASSUME tvalid \in BOOLEAN, tlast \in BOOLEAN, s_data \in Nat, NEW tready \in BOOLEAN,
         Transfer(tready)
  PROVE  /\ out' \in Words \cup {NoWord}
         /\ out' = NoWord <=> ~(tvalid /\ tready)
         /\ tvalid /\ tready => out' = [data |-> s_data, last |-> tlast]
<1>1. Offered \in Words /\ Offered = [data |-> s_data, last |-> tlast]
  BY DEF Offered, Words
<1>2. Offered # NoWord
  BY <1>1, StreamAssumption DEF Words
<1>3. CASE tvalid /\ tready
  BY <1>1, <1>2, <1>3 DEF Transfer
<1>4. CASE ~(tvalid /\ tready)
  BY <1>4 DEF Transfer
<1> QED
  BY <1>1, <1>3, <1>4

LEMMA StreamInit == Init => StreamInv
<1> SUFFICES ASSUME Init PROVE StreamInv
  OBVIOUS
<1>1. /\ tvalid \in BOOLEAN /\ ~tvalid /\ tlast \in BOOLEAN /\ start \in BOOLEAN
      /\ s_data = 0 /\ wrd_count = 0
  BY DEF Init
<1>2. FixedInv
  <2>1. pkt_num = 0 /\ tuser \in BOOLEAN /\ old_start \in BOOLEAN
    BY DEF Init, FixedInit
  <2>2. FixedTypeOK
    BY <1>1, <2>1 DEF FixedTypeOK
  <2> QED
    BY <1>1, <2>1, <2>2 DEF FixedInv
<1>3. RandomInv
  <2>1. /\ src_state = "ST_IDLE" /\ pkt_len = 0 /\ pkt_step = 0 /\ init_data = 0
        /\ del_cnt = 0 /\ gap = 4
        /\ start_pkt \in BOOLEAN /\ ack_pkt \in BOOLEAN /\ steady \in BOOLEAN
    BY DEF Init, RandomInit
  <2>2. RandomTypeOK
    BY <1>1, <2>1, DrawFacts DEF RandomTypeOK
  <2> QED
    BY <1>1, <2>1, <2>2 DEF RandomInv
<1> QED
  BY <1>1, <1>2, <1>3 DEF Init, StreamInv

LEMMA StreamNext == StreamInv /\ [Next]_vars => StreamInv'
<1> SUFFICES ASSUME StreamInv, [Next]_vars PROVE StreamInv'
  OBVIOUS
<1>1. CASE UNCHANGED vars
  <2>1. UNCHANGED <<design, start, out>> /\ UNCHANGED fixedVars /\ UNCHANGED randomVars
    BY <1>1 DEF vars, fixedVars, randomVars
  <2> QED
    BY <2>1, FixedUnchanged, RandomUnchanged DEF StreamInv
<1>2. CASE Next /\ design = "fixed"
  <2>1. FixedInv /\ design' = "fixed" /\ FixedNext
    BY <1>2 DEF StreamInv, Next
  <2>2. CASE FixedReset
    <3>1. FixedInv'
      BY <2>1, <2>2, FixedResetInv
    <3>2. start' \in BOOLEAN /\ out' = Aborted
      BY <2>2 DEF FixedReset
    <3> QED
      BY <2>1, <3>1, <3>2 DEF StreamInv
  <2>3. ASSUME NEW tready \in BOOLEAN, FixedClock(tready) PROVE StreamInv'
    <3>1. FixedInv'
      BY <2>1, <2>3, FixedClockInv
    <3>2. start' \in BOOLEAN /\ Transfer(tready)
      BY <2>3 DEF FixedClock
    <3>3. out' \in Words \cup {NoWord}
      BY <2>1, <3>2, TransferType DEF FixedInv
    <3> QED
      BY <2>1, <3>1, <3>2, <3>3 DEF StreamInv
  <2> QED
    BY <2>1, <2>2, <2>3 DEF FixedNext
<1>3. CASE Next /\ design = "random"
  <2>1. RandomInv /\ design' = "random" /\ RandomNext
    BY <1>3 DEF StreamInv, Next
  <2>2. CASE RandomReset
    <3>1. RandomInv'
      BY <2>1, <2>2, RandomResetInv
    <3>2. start' \in BOOLEAN /\ out' = Aborted
      BY <2>2 DEF RandomReset
    <3> QED
      BY <2>1, <3>1, <3>2 DEF StreamInv
  <2>3. ASSUME NEW tready \in BOOLEAN, RandomClock(tready) PROVE StreamInv'
    <3>1. RandomInv'
      BY <2>1, <2>3, RandomClockInv
    <3>2. start' \in BOOLEAN /\ Transfer(tready)
      BY <2>3 DEF RandomClock
    <3>3. out' \in Words \cup {NoWord}
      BY <2>1, <3>2, TransferType DEF RandomInv
    <3> QED
      BY <2>1, <3>1, <3>2, <3>3 DEF StreamInv
  <2> QED
    BY <2>1, <2>2, <2>3 DEF RandomNext
<1> QED
  BY <1>1, <1>2, <1>3 DEF StreamInv

LEMMA StreamCorrect == Spec => []StreamInv
BY StreamInit, StreamNext, PTL DEF Spec

\* The registers of both sources keep their types, for any packets.
THEOREM TypeCorrect == Spec => []TypeOK
<1>1. StreamInv => TypeOK
  BY DEF StreamInv, TypeOK, FixedInv, RandomInv, Words
<1> QED
  BY StreamCorrect, <1>1, PTL

\* AXI4-Stream: an edge that transfers no word leaves an offered word as it is.
THEOREM OfferSound == Spec => OfferStands
<1> DEFINE Stands == tvalid /\ out' = NoWord =>
             tvalid' /\ s_data' = s_data /\ tlast' = tlast /\ tuser' = tuser
<1>1. StreamInv /\ [Next]_vars => [Stands]_vars
  <2> SUFFICES ASSUME StreamInv, Next, tvalid, out' = NoWord
               PROVE  tvalid' /\ s_data' = s_data /\ tlast' = tlast /\ tuser' = tuser
    OBVIOUS
  <2>0. NoWord # Aborted
    BY StreamAssumption
  <2>1. ASSUME design = "fixed", NEW tready \in BOOLEAN, FixedClock(tready)
        PROVE  tvalid' /\ s_data' = s_data /\ tlast' = tlast /\ tuser' = tuser
    <3>1. FixedInv /\ Transfer(tready)
      BY <2>1 DEF StreamInv, FixedClock
    <3>2. ~tready /\ pkt_num # 0
      BY <3>1, TransferType DEF FixedInv, FixedTypeOK
    <3>3. Stall(tready)
      BY <2>1, <3>2 DEF FixedClock, Wait, Begin, Word, NextPacket, MayAdvance
    <3> QED
      BY <3>3 DEF Stall, axisVars
  <2>2. ASSUME design = "random", UNCHANGED ownFixedVars,
               NEW tready \in BOOLEAN, RandomClock(tready)
        PROVE  tvalid' /\ s_data' = s_data /\ tlast' = tlast /\ tuser' = tuser
    <3>1. RandomInv /\ Transfer(tready)
      BY <2>2 DEF StreamInv, RandomClock
    <3>2. ~tready /\ src_state \in {"ST_START_PKT", "ST_SEND_PKT"}
      BY <3>1, TransferType DEF RandomInv, RandomTypeOK
    <3>3. SourceStall(tready)
      BY <2>2, <3>2 DEF RandomClock, Idle, StartHead, StartPkt, SendPkt, MayAdvance
    <3> QED
      BY <2>2, <3>3 DEF SourceStall, axisVars, ownFixedVars
  <2>3. ~FixedReset /\ ~RandomReset
    BY <2>0 DEF FixedReset, RandomReset
  <2> QED
    BY <2>1, <2>2, <2>3 DEF Next, FixedNext, RandomNext
<1> QED
  BY StreamCorrect, <1>1, PTL DEF Spec, OfferStands

-----------------------------------------------------------------------------
(* The pause between two packets *)

\* While start is high since a header was offered, the next request is there,
\* or the timer has counted at least as many edges as words were offered; a
\* packet is longer than the timer, so it ends with the request there.
GapInv ==
  /\ steady => design = "random"
  /\ ack_pkt => src_state = "ST_START_PKT"
  /\ steady /\ src_state = "ST_IDLE" => gap = 0 /\ start_pkt /\ ~ack_pkt
  /\ steady /\ src_state = "ST_START_HEAD" => gap = 1
  /\ steady /\ src_state \in {"ST_START_PKT", "ST_SEND_PKT"} =>
       ack_pkt \/ start_pkt \/ del_cnt >= wrd_count - 1

LEMMA SteadyTimer ==
  ASSUME NEW tready \in BOOLEAN, RandomClock(tready), steady'
  PROVE  /\ start' /\ (steady \/ (tvalid' /\ ~tvalid))
         /\ Elapsed \/ (start_pkt /\ ~ack_pkt) => start_pkt'
         /\ ~Elapsed => del_cnt' = del_cnt + 1
BY DEF RandomClock, History, Timer, NextCount

LEMMA GapClock ==
  ASSUME RandomInv, GapInv, design = "random", design' = design,
         NEW tready \in BOOLEAN, RandomClock(tready)
  PROVE  GapInv'
<1>t. /\ wrd_count \in Nat /\ del_cnt \in 0..PKT_DEL /\ PKT_DEL \in Nat /\ gap \in 0..4
      /\ (tvalid <=> src_state \in {"ST_START_PKT", "ST_SEND_PKT"})
  BY DrawFacts DEF RandomInv, RandomTypeOK
<1>s. steady' => /\ steady \/ (tvalid' /\ ~tvalid)
                 /\ Elapsed \/ (start_pkt /\ ~ack_pkt) => start_pkt'
                 /\ ~Elapsed => del_cnt' = del_cnt + 1
  BY SteadyTimer
<1>1. CASE Idle
  <2>1. /\ src_state = "ST_IDLE" /\ ~ack_pkt' /\ tvalid' = tvalid
        /\ \/ start_pkt /\ src_state' = "ST_START_HEAD"
           \/ ~start_pkt /\ src_state' = src_state
    BY <1>1 DEF Idle, axisVars
  <2>2. steady' => steady /\ src_state' = "ST_START_HEAD" /\ gap = 0
    BY <1>t, <1>s, <2>1 DEF GapInv
  <2>3. steady' => gap' = 1
    BY <1>t, <2>1, <2>2 DEF RandomClock, History
  <2> QED
    BY <2>1, <2>2, <2>3 DEF GapInv
<1>2. CASE StartHead
  <2>1. src_state' = "ST_START_PKT" /\ ack_pkt'
    BY <1>2 DEF StartHead
  <2> QED
    BY <2>1 DEF GapInv
<1>3. CASE SourceStall(tready)
  <2>1. /\ src_state \in {"ST_START_PKT", "ST_SEND_PKT"} /\ src_state' = src_state /\ ~ack_pkt'
        /\ wrd_count' = wrd_count /\ tvalid' = tvalid
    BY <1>3 DEF SourceStall, axisVars
  <2>2. ack_pkt => wrd_count = 1
    BY DEF GapInv, RandomInv
  <2>3. steady' => ack_pkt \/ start_pkt \/ del_cnt >= wrd_count - 1
    BY <1>s, <2>1 DEF GapInv
  <2>4. steady' => start_pkt' \/ del_cnt' >= wrd_count - 1
    BY <1>t, <1>s, <2>2, <2>3
  <2> QED
    BY <2>1, <2>4 DEF GapInv
<1>4. CASE StartPkt(tready)
  <2>1. /\ src_state = "ST_START_PKT" /\ src_state' = "ST_SEND_PKT" /\ ~ack_pkt'
        /\ wrd_count' = 2 /\ tvalid' = tvalid
    BY <1>4 DEF StartPkt
  <2>2. steady' => start_pkt' \/ del_cnt' >= 2 - 1
    BY <1>t, <1>s
  <2> QED
    BY <2>1, <2>2 DEF GapInv
<1>5. CASE SendPkt(tready)
  <2>1. src_state = "ST_SEND_PKT" /\ ~ack_pkt' /\ tready /\ tvalid /\ ~ack_pkt
    BY <1>5, <1>t DEF SendPkt, MayAdvance, GapInv
  <2>2. /\ pkt_len \in LENGTHS /\ pkt_len \in Nat /\ pkt_len > PKT_DEL + 1
        /\ (tlast <=> wrd_count = pkt_len) /\ wrd_count \in 1..pkt_len
    BY <2>1, DrawFacts DEF RandomInv, RandomTypeOK
  <2>3. steady' => start_pkt \/ del_cnt >= wrd_count - 1
    BY <1>s, <2>1 DEF GapInv
  <2>4. CASE NextWord(pkt_len, pkt_step) /\ UNCHANGED src_state
    <3>1. wrd_count' = wrd_count + 1
      BY <2>4 DEF NextWord
    <3>2. steady' => start_pkt' \/ del_cnt' >= wrd_count' - 1
      BY <1>t, <1>s, <2>1, <2>3, <3>1
    <3> QED
      BY <2>1, <2>4, <3>2 DEF GapInv
  <2>5. CASE ~MoreWords(pkt_len) /\ src_state' = "ST_IDLE"
    <3>1. wrd_count = pkt_len /\ tlast
      BY <2>2, <2>5 DEF MoreWords
    <3>2. gap' = 0
      BY <2>1, <3>1 DEF RandomClock, History
    <3>3. steady' => start_pkt \/ Elapsed
      BY <1>t, <2>2, <2>3, <3>1 DEF Elapsed
    <3> QED
      BY <1>s, <2>1, <2>5, <3>2, <3>3 DEF GapInv
  <2> QED
    BY <1>5, <2>4, <2>5 DEF SendPkt
<1> QED
  BY <1>1, <1>2, <1>3, <1>4, <1>5 DEF RandomClock

LEMMA GapNext == StreamInv /\ GapInv /\ [Next]_vars => GapInv'
<1> SUFFICES ASSUME StreamInv, GapInv, [Next]_vars PROVE GapInv'
  OBVIOUS
<1>1. CASE UNCHANGED vars
  BY <1>1 DEF vars, fixedVars, randomVars, axisVars, timerVars, GapInv
<1>2. CASE Next /\ design = "fixed"
  <2>1. ~steady' /\ (ack_pkt' <=> ack_pkt) /\ src_state' = src_state
    BY <1>2 DEF Next, ownRandomVars, GapInv
  <2> QED
    BY <2>1 DEF GapInv
<1>3. CASE Next /\ design = "random"
  <2>1. RandomInv /\ design' = design /\ RandomNext
    BY <1>3 DEF StreamInv, Next
  <2>2. CASE RandomReset
    BY <2>2 DEF RandomReset, GapInv
  <2> QED
    BY <1>3, <2>1, <2>2, GapClock DEF RandomNext
<1> QED
  BY <1>1, <1>2, <1>3 DEF StreamInv

\* While start stays high, axi4s_src3 pauses for two edges between packets,
\* whatever their lengths and however often the receiver stalled.
THEOREM GapSound == Spec => ConstantGap
<1> DEFINE Pauses == ~tvalid /\ tvalid' /\ steady /\ start' => gap' = 2
<1>1. Init => GapInv
  BY DEF Init, RandomInit, GapInv
<1>2. StreamInv /\ GapInv /\ [Next]_vars => [Pauses]_randomVars
  <2> SUFFICES ASSUME StreamInv, GapInv, [Next]_vars, ~(UNCHANGED randomVars),
                      ~tvalid, tvalid', steady
               PROVE  gap' = 2
    BY DEF Pauses
  <2>1. Next /\ design = "random"
    BY DEF vars, GapInv
  <2>2. RandomInv /\ RandomNext
    BY <2>1 DEF Next, StreamInv
  <2>3. ~RandomReset
    BY DEF RandomReset
  <2>4. PICK tready \in BOOLEAN : RandomClock(tready)
    BY <2>2, <2>3 DEF RandomNext
  <2>5. src_state \in {"ST_IDLE", "ST_START_HEAD"}
    BY <2>2 DEF RandomInv, RandomTypeOK
  <2>6. StartHead
    BY <2>4, <2>5 DEF RandomClock, Idle, SourceStall, StartPkt, SendPkt, axisVars
  <2>7. gap = 1
    BY <2>6 DEF StartHead, GapInv
  <2> QED
    BY <2>4, <2>7 DEF RandomClock, History
<1> QED
  BY StreamCorrect, <1>1, <1>2, GapNext, PTL DEF Spec, ConstantGap

-----------------------------------------------------------------------------
(* Either design implements PacketStream *)

LEMMA FixedPacketType == \A i \in 1..3 : FixedPacket(i) \in AllPackets
BY PktFacts DEF FixedPacket, AllPackets

LEMMA RandomPacketType ==
  ASSUME pkt_len \in LENGTHS \cup {0}, pkt_step \in STEPS \cup {0}, init_data \in INITS \cup {0}
  PROVE  RandomPacket \in AllPackets
<1>1. pkt_len \in Nat /\ pkt_step \in Nat /\ init_data \in Nat
  BY DrawFacts
<1>2. Header(pkt_len, pkt_step, init_data) \in Nat
  BY <1>1, HeaderType
<1> QED
  BY <1>1, <1>2 DEF RandomPacket, AllPackets

LEMMA PacketType == StreamInv => Packet \in AllPackets
<1> SUFFICES ASSUME StreamInv PROVE Packet \in AllPackets
  OBVIOUS
<1>1. CASE design = "fixed"
  <2>1. (IF pkt_num = 0 THEN 1 ELSE pkt_num) \in 1..3
    BY <1>1 DEF StreamInv, FixedInv, FixedTypeOK
  <2> QED
    BY <1>1, <2>1, FixedPacketType DEF Packet
<1>2. CASE design = "random"
  BY <1>2, RandomPacketType DEF Packet, StreamInv, RandomInv, RandomTypeOK
<1> QED
  BY <1>1, <1>2 DEF StreamInv

\* Word w of the packet under way is delivered, and the next one is offered, or
\* none is left.
LEMMA DeliverStep ==
  ASSUME StreamInv, StreamInv', NEW w \in Nat, NEW data, NEW last \in BOOLEAN,
         Taken = w - 1, out' = [data |-> data, last |-> last],
         data = Stream!Value(Packet, w), last <=> w = Packet.len,
         \/ w < Packet.len /\ Taken' = w /\ Packet' = Packet
         \/ w = Packet.len /\ Taken' = 0
  PROVE  Stream!Deliver
<1>1. Taken + 1 = w
  OBVIOUS
<1>2. last = (w = Packet.len)
  OBVIOUS
<1>3. out' = [data |-> Stream!Value(Packet, Taken + 1), last |-> Taken + 1 = Packet.len]
  BY <1>1, <1>2
<1>4. Packet' \in AllPackets
  <2>1. AllPackets' = AllPackets
    BY DEF AllPackets
  <2>2. (StreamInv => Packet \in AllPackets)'
    BY PacketType, PTL
  <2> QED
    BY <2>1, <2>2
<1> QED
  BY <1>1, <1>3, <1>4 DEF Stream!Deliver

LEMMA FixedStep ==
  ASSUME StreamInv, StreamInv', design = "fixed", design' = design,
         NEW tready \in BOOLEAN, FixedClock(tready)
  PROVE  Stream!Next
<1>t. /\ pkt_num \in 0..3 /\ wrd_count \in Nat /\ s_data \in Nat
      /\ tlast \in BOOLEAN /\ tvalid \in BOOLEAN /\ (tvalid <=> pkt_num # 0)
      /\ (pkt_num # 0 => /\ wrd_count \in 1..PKT[pkt_num].len
                         /\ s_data = Numbered(pkt_num)
                         /\ tlast <=> wrd_count = PKT[pkt_num].len)
      /\ Transfer(tready) /\ design' = "fixed"
  <2>1. Transfer(tready)
    BY DEF FixedClock
  <2> QED
    BY <2>1 DEF StreamInv, FixedInv, FixedTypeOK
<1>p. /\ Packet = FixedPacket(IF pkt_num = 0 THEN 1 ELSE pkt_num)
      /\ Packet' = FixedPacket(IF pkt_num' = 0 THEN 1 ELSE pkt_num')
      /\ Taken = (IF tvalid THEN wrd_count - 1 ELSE 0)
      /\ Taken' = (IF tvalid' THEN wrd_count' - 1 ELSE 0)
  BY DEF Packet, FixedPacket, Taken
<1>1. CASE Wait
  <2>1. pkt_num = 0 /\ pkt_num' = 0 /\ ~tvalid /\ ~tvalid'
    BY <1>1, <1>t DEF Wait
  <2>2. out' = NoWord
    BY <1>t, <2>1, TransferType
  <2> QED
    BY <1>p, <2>1, <2>2 DEF Stream!Next, Stream!Pause
<1>2. CASE Begin
  <2>1. pkt_num = 0 /\ pkt_num' = 1 /\ ~tvalid /\ wrd_count' = 1
    BY <1>2, <1>t DEF Begin, FirstWord
  <2>2. out' = NoWord
    BY <1>t, <2>1, TransferType
  <2> QED
    BY <1>p, <2>1, <2>2 DEF Stream!Next, Stream!Pause
<1>3. CASE Stall(tready)
  <2>1. ~tready /\ pkt_num' = pkt_num /\ wrd_count' = wrd_count /\ tvalid' = tvalid
    BY <1>3 DEF Stall, MayAdvance, axisVars
  <2>2. out' = NoWord
    BY <1>t, <2>1, TransferType
  <2> QED
    BY <1>p, <2>1, <2>2 DEF Stream!Next, Stream!Pause
<1>d. ASSUME pkt_num # 0, tready,
             \/ wrd_count < PKT[pkt_num].len /\ Taken' = wrd_count /\ Packet' = Packet
             \/ wrd_count = PKT[pkt_num].len /\ Taken' = 0
      PROVE  Stream!Next
  <2>1. pkt_num \in 1..3 /\ tvalid
    BY <1>t, <1>d
  <2>2. PKT[pkt_num].len \in Nat
    BY <2>1, PktFacts
  <2>3. /\ Packet = FixedPacket(pkt_num) /\ Packet.len = PKT[pkt_num].len
        /\ Packet.first = PKT[pkt_num].first /\ Packet.step = PKT[pkt_num].step
        /\ Packet.header = None
    BY <1>p, <2>1 DEF FixedPacket
  <2>4. out' = [data |-> s_data, last |-> tlast]
    BY <1>t, <1>d, <2>1, TransferType
  <2>5. s_data = Stream!Value(Packet, wrd_count)
    BY <1>t, <1>d, <2>3 DEF Stream!Value, Numbered
  <2>6. Taken = wrd_count - 1 /\ (tlast <=> wrd_count = Packet.len)
    BY <1>p, <1>t, <1>d, <2>1, <2>3
  <2>7. \/ wrd_count < Packet.len /\ Taken' = wrd_count /\ Packet' = Packet
        \/ wrd_count = Packet.len /\ Taken' = 0
    BY <1>d, <2>3
  <2>8. Stream!Deliver
    BY <1>t, <2>4, <2>5, <2>6, <2>7, DeliverStep
  <2> QED
    BY <2>8 DEF Stream!Next
<1>4. CASE Word(tready)
  <2>1. /\ pkt_num # 0 /\ tready /\ wrd_count < PKT[pkt_num].len
        /\ wrd_count' = wrd_count + 1 /\ tvalid' = tvalid /\ pkt_num' = pkt_num
    BY <1>4 DEF Word, MayAdvance, NextWord, MoreWords
  <2>2. Packet' = Packet /\ Taken' = wrd_count
    BY <1>p, <1>t, <2>1
  <2> QED
    BY <1>d, <2>1, <2>2
<1>5. CASE NextPacket(tready)
  <2>1. /\ pkt_num # 0 /\ tready /\ ~(wrd_count < PKT[pkt_num].len)
        /\ (wrd_count' = 1 \/ ~tvalid')
    BY <1>5 DEF NextPacket, MayAdvance, MoreWords, FirstWord, Silent
  <2>2. wrd_count = PKT[pkt_num].len
    <3>1. pkt_num \in 1..3 /\ wrd_count \in 1..PKT[pkt_num].len
      BY <1>t, <2>1
    <3> QED
      BY <2>1, <3>1, PktFacts
  <2>3. Taken' = 0
    BY <1>p, <2>1
  <2> QED
    BY <1>d, <2>1, <2>2, <2>3
<1> QED
  BY <1>1, <1>2, <1>3, <1>4, <1>5 DEF FixedClock

LEMMA RandomStep ==
  ASSUME StreamInv, StreamInv', design = "random", design' = design,
         NEW tready \in BOOLEAN, RandomClock(tready)
  PROVE  Stream!Next
<1>t. /\ RandomInv /\ wrd_count \in Nat /\ s_data \in Nat
      /\ tlast \in BOOLEAN /\ tvalid \in BOOLEAN
      /\ (tvalid <=> src_state \in {"ST_START_PKT", "ST_SEND_PKT"})
      /\ Transfer(tready) /\ design' = "random"
  <2>1. Transfer(tready)
    BY DEF RandomClock
  <2> QED
    BY <2>1 DEF StreamInv, RandomInv, RandomTypeOK
<1>p. /\ Packet = RandomPacket /\ Packet' = RandomPacket'
      /\ Taken = (IF tvalid THEN wrd_count - 1 ELSE 0)
      /\ Taken' = (IF tvalid' THEN wrd_count' - 1 ELSE 0)
  BY DEF Packet, Taken
<1>q. UNCHANGED packetVars => Packet' = Packet
  BY <1>p DEF packetVars, RandomPacket, Header
<1>1. CASE Idle
  <2>1. ~tvalid /\ tvalid' = tvalid
    BY <1>1, <1>t DEF Idle, axisVars
  <2>2. out' = NoWord /\ Taken = 0 /\ Taken' = 0
    BY <1>p, <1>t, <2>1, TransferType
  <2>3. CASE UNCHANGED packetVars
    BY <1>q, <2>2, <2>3 DEF Stream!Next, Stream!Pause
  <2>4. CASE Draw
    <3>1. Packet' \in AllPackets
      <4>1. AllPackets' = AllPackets
        BY DEF AllPackets
      <4>2. (StreamInv => Packet \in AllPackets)'
        BY PacketType, PTL
      <4> QED
        BY <4>1, <4>2
    <3> QED
      BY <2>2, <3>1 DEF Stream!Next, Stream!Choose
  <2> QED
    BY <1>1, <2>3, <2>4 DEF Idle
<1>2. CASE StartHead
  <2>1. ~tvalid /\ wrd_count' = 1 /\ UNCHANGED packetVars
    BY <1>2, <1>t DEF StartHead
  <2>2. out' = NoWord /\ Taken = 0 /\ Taken' = 0
    BY <1>p, <1>t, <2>1, TransferType
  <2> QED
    BY <1>q, <2>1, <2>2 DEF Stream!Next, Stream!Pause
<1>3. CASE SourceStall(tready)
  <2>1. ~tready /\ wrd_count' = wrd_count /\ tvalid' = tvalid /\ UNCHANGED packetVars
    BY <1>3 DEF SourceStall, MayAdvance, axisVars
  <2>2. out' = NoWord
    BY <1>t, <2>1, TransferType
  <2> QED
    BY <1>p, <1>q, <2>1, <2>2 DEF Stream!Next, Stream!Pause
<1>d. ASSUME tvalid, tready, wrd_count >= 1, s_data = Stream!Value(Packet, wrd_count),
             tlast <=> wrd_count = pkt_len,
             \/ wrd_count < pkt_len /\ Taken' = wrd_count /\ Packet' = Packet
             \/ wrd_count = pkt_len /\ Taken' = 0
      PROVE  Stream!Next
  <2>1. Packet.len = pkt_len
    BY <1>p DEF RandomPacket
  <2>2. out' = [data |-> s_data, last |-> tlast]
    BY <1>t, <1>d, TransferType
  <2>3. Taken = wrd_count - 1 /\ (tlast <=> wrd_count = Packet.len)
    BY <1>p, <1>d, <2>1
  <2>4. \/ wrd_count < Packet.len /\ Taken' = wrd_count /\ Packet' = Packet
        \/ wrd_count = Packet.len /\ Taken' = 0
    BY <1>d, <2>1
  <2>5. Stream!Deliver
    BY <1>t, <1>d, <2>2, <2>3, <2>4, DeliverStep
  <2> QED
    BY <2>5 DEF Stream!Next
<1>v. ASSUME src_state # "ST_IDLE"
      PROVE  /\ pkt_len \in LENGTHS /\ pkt_len \in Nat /\ pkt_len >= 3
             /\ Stream!Value(Packet, 1) = Header(pkt_len, pkt_step, init_data)
             /\ wrd_count >= 2 => Stream!Value(Packet, wrd_count) = RandomWord
  <2>1. pkt_len \in LENGTHS /\ pkt_step \in STEPS /\ init_data \in INITS
    BY <1>v, <1>t DEF RandomInv
  <2>2. pkt_len \in Nat /\ pkt_len >= 3 /\ pkt_step \in Nat /\ init_data \in Nat
    BY <2>1, DrawFacts
  <2>3. Header(pkt_len, pkt_step, init_data) \in Nat
    BY <2>2, HeaderType
  <2>4. Header(pkt_len, pkt_step, init_data) # None
    BY <2>3, NoneAssumption
  <2>5. /\ Packet.header = Header(pkt_len, pkt_step, init_data)
        /\ Packet.first = init_data /\ Packet.step = pkt_step
    BY <1>p DEF RandomPacket
  <2>6. wrd_count >= 2 => wrd_count # 1
    BY <1>t
  <2> QED
    BY <2>1, <2>2, <2>4, <2>5, <2>6 DEF Stream!Value, RandomWord
<1>4. CASE StartPkt(tready)
  <2>1. /\ src_state = "ST_START_PKT" /\ tready /\ tvalid /\ wrd_count' = 2
        /\ tvalid' = tvalid /\ UNCHANGED packetVars
    BY <1>4, <1>t DEF StartPkt, MayAdvance
  <2>2. ~tlast /\ wrd_count = 1 /\ s_data = Header(pkt_len, pkt_step, init_data)
    BY <1>t, <2>1 DEF RandomInv
  <2>3. Packet' = Packet /\ Taken' = wrd_count
    BY <1>p, <1>q, <2>1, <2>2
  <2>4. pkt_len \in Nat /\ pkt_len >= 3 /\ s_data = Stream!Value(Packet, wrd_count)
    BY <1>v, <2>1, <2>2
  <2>5. (tlast <=> wrd_count = pkt_len) /\ wrd_count < pkt_len /\ wrd_count >= 1
    BY <2>2, <2>4
  <2> QED
    BY <1>d, <2>1, <2>3, <2>4, <2>5
<1>5. CASE SendPkt(tready)
  <2>1. src_state = "ST_SEND_PKT" /\ tready /\ tvalid /\ UNCHANGED packetVars
    BY <1>5, <1>t DEF SendPkt, MayAdvance
  <2>2. /\ wrd_count >= 2 /\ s_data = RandomWord /\ (tlast <=> wrd_count = pkt_len)
        /\ wrd_count \in 1..pkt_len
    BY <1>t, <2>1 DEF RandomInv, RandomTypeOK
  <2>3. s_data = Stream!Value(Packet, wrd_count) /\ pkt_len \in Nat
    BY <1>v, <2>1, <2>2
  <2>4. CASE NextWord(pkt_len, pkt_step)
    <3>1. wrd_count < pkt_len /\ wrd_count' = wrd_count + 1 /\ tvalid' = tvalid
      BY <2>4 DEF NextWord, MoreWords
    <3>2. Packet' = Packet /\ Taken' = wrd_count
      BY <1>p, <1>q, <1>t, <2>1, <3>1
    <3> QED
      BY <1>d, <1>t, <2>1, <2>2, <2>3, <3>1, <3>2
  <2>5. CASE ~MoreWords(pkt_len) /\ Silent
    <3>1. wrd_count = pkt_len
      BY <2>2, <2>3, <2>5 DEF MoreWords
    <3>2. Taken' = 0
      BY <1>p, <2>5 DEF Silent
    <3> QED
      BY <1>d, <1>t, <2>1, <2>2, <2>3, <3>1, <3>2
  <2> QED
    BY <1>5, <2>4, <2>5 DEF SendPkt
<1> QED
  BY <1>1, <1>2, <1>3, <1>4, <1>5 DEF RandomClock

LEMMA ResetStep ==
  ASSUME StreamInv', out' = Aborted, ~tvalid'
  PROVE  Stream!Next
<1>1. AllPackets' = AllPackets
  BY DEF AllPackets
<1>2. (StreamInv => Packet \in AllPackets)'
  BY PacketType, PTL
<1>3. Taken' = 0
  BY DEF Taken
<1> QED
  BY <1>1, <1>2, <1>3 DEF Stream!Next, Stream!Abort

\* Either design implements PacketStream, for any packets.
THEOREM WholeSound == Spec => WholePackets
<1>1. Init => Stream!Init
  <2> SUFFICES ASSUME Init PROVE Stream!Init
    OBVIOUS
  <2>1. Packet \in AllPackets
    BY StreamInit, PacketType
  <2>2. Taken = 0 /\ out = NoWord
    BY DEF Init, Taken
  <2> QED
    BY <2>1, <2>2 DEF Stream!Init
<1>2. StreamInv /\ StreamInv' /\ [Next]_vars => [Stream!Next]_<<Packet, Taken, out>>
  <2> SUFFICES ASSUME StreamInv, StreamInv', [Next]_vars
               PROVE  Stream!Next \/ UNCHANGED <<Packet, Taken, out>>
    OBVIOUS
  <2>1. CASE UNCHANGED vars
    <3>1. /\ UNCHANGED <<design, out, pkt_num, tvalid, wrd_count>>
          /\ UNCHANGED <<pkt_len, pkt_step, init_data>>
      BY <2>1 DEF vars, fixedVars, randomVars, axisVars, packetVars
    <3> QED
      BY <3>1 DEF Packet, Taken, FixedPacket, RandomPacket, Header
  <2>2. CASE design = "fixed" /\ FixedNext /\ design' = design
    <3>1. FixedReset => Stream!Next
      BY ResetStep DEF FixedReset
    <3> QED
      BY <2>2, <3>1, FixedStep DEF FixedNext
  <2>3. CASE design = "random" /\ RandomNext /\ design' = design
    <3>1. RandomReset => Stream!Next
      BY ResetStep DEF RandomReset
    <3> QED
      BY <2>3, <3>1, RandomStep DEF RandomNext
  <2> QED
    BY <2>1, <2>2, <2>3 DEF Next
<1> QED
  BY StreamCorrect, <1>1, <1>2, PTL DEF Spec, WholePackets, Stream!Spec
=============================================================================
