----------------------------- MODULE FixedSource -----------------------------
(***************************************************************************)
(* axi4s_src2 (axi_vdma_prj1): a rising edge of start sends three packets  *)
(* of fixed lengths.  axi4s_src1 (axi_dma_prj1, axi_dma_prj2) is the same  *)
(* process without tuser.                                                  *)
(***************************************************************************)
EXTENDS AxiStream

CONSTANT PKT   \* PKT[i]: first word, step and length of packet i, for i in 1..3

\* A packet of one word would never raise tlast.
ASSUME FixedAssumption == PKT \in [1..3 -> [first : Nat, step : Nat, len : Nat \ {0, 1}]]

VARIABLES
  pkt_num,   \* packet that is sent, 0: idle
  tuser,     \* mark of the first word of a packet
  old_start  \* start one edge before

fixedVars == <<axisVars, start, out, pkt_num, tuser, old_start>>

FixedTypeOK ==
  /\ pkt_num \in 0..3 /\ tuser \in BOOLEAN /\ old_start \in BOOLEAN
  /\ pkt_num # 0 => wrd_count \in 1..PKT[pkt_num].len
  /\ tvalid <=> pkt_num # 0

\* After reset.
FixedInit == pkt_num = 0 /\ tuser = FALSE /\ old_start = FALSE

\* Idle until start rises.
Wait ==
  /\ pkt_num = 0 /\ (old_start \/ ~start')
  /\ tvalid' = FALSE /\ tlast' = FALSE /\ tuser' = FALSE
  /\ UNCHANGED <<pkt_num, wrd_count, s_data>>

\* The first word of packet i is offered.
FirstWord(i) ==
  /\ pkt_num' = i
  /\ wrd_count' = 1 /\ s_data' = PKT[i].first
  /\ tvalid' = TRUE /\ tlast' = FALSE /\ tuser' = TRUE

Begin == pkt_num = 0 /\ start' /\ ~old_start /\ FirstWord(1)

Stall(tready) ==
  /\ pkt_num # 0 /\ ~MayAdvance(tready)
  /\ UNCHANGED <<axisVars, pkt_num, tuser>>

\* The third packet keeps tuser.
Word(tready) ==
  /\ pkt_num # 0 /\ MayAdvance(tready)
  /\ NextWord(PKT[pkt_num].len, PKT[pkt_num].step)
  /\ tuser' = (tuser /\ pkt_num = 3)
  /\ UNCHANGED pkt_num

NextPacket(tready) ==
  /\ pkt_num # 0 /\ MayAdvance(tready) /\ ~MoreWords(PKT[pkt_num].len)
  /\ \/ pkt_num < 3 /\ FirstWord(pkt_num + 1)
     \/ pkt_num = 3 /\ pkt_num' = 0 /\ Silent /\ UNCHANGED tuser

FixedClock(tready) ==
  /\ start' \in BOOLEAN /\ old_start' = start'
  /\ Transfer(tready)
  /\ Wait \/ Begin \/ Stall(tready) \/ Word(tready) \/ NextPacket(tready)

\* resetn: the word count and tuser are not reset.
FixedReset ==
  /\ start' \in BOOLEAN /\ old_start' = FALSE
  /\ pkt_num' = 0 /\ s_data' = 0 /\ tvalid' = FALSE /\ tlast' = FALSE
  /\ out' = Aborted
  /\ UNCHANGED <<wrd_count, tuser>>

FixedNext == FixedReset \/ \E tready \in BOOLEAN : FixedClock(tready)
=============================================================================
