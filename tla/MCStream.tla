------------------------------ MODULE MCStream ------------------------------
(***************************************************************************)
(* The sources of packets for TLC: a behaviour is one of either design.    *)
(* Both are shown to implement PacketStream.                               *)
(***************************************************************************)
EXTENDS FixedSource, RandomSource

CONSTANT None  \* no header word

ASSUME NoneAssumption == None \notin Nat

VARIABLE design

ownFixedVars == <<pkt_num, tuser, old_start>>
ownRandomVars == <<src_state, packetVars, timerVars, ack_pkt, gap, steady>>
vars == <<design, fixedVars, randomVars>>

MCPkt == <<[first |-> 10, step |-> 3, len |-> 4],
           [first |-> 1, step |-> 2, len |-> 2],
           [first |-> 8, step |-> 4, len |-> 3]>>

TypeOK ==
  /\ tvalid \in BOOLEAN /\ tlast \in BOOLEAN /\ start \in BOOLEAN
  /\ s_data \in Nat /\ wrd_count \in Nat
  /\ out \in [data : Nat, last : BOOLEAN] \cup {NoWord, Aborted}
  /\ IF design = "fixed" THEN FixedTypeOK ELSE RandomTypeOK

Init ==
  /\ design \in {"fixed", "random"}
  /\ tvalid = FALSE /\ tlast = FALSE /\ s_data = 0 /\ wrd_count = 0
  /\ start = FALSE /\ out = NoWord
  /\ FixedInit /\ RandomInit

Next ==
  /\ UNCHANGED design
  /\ \/ design = "fixed" /\ FixedNext /\ UNCHANGED ownRandomVars
     \/ design = "random" /\ RandomNext /\ UNCHANGED ownFixedVars

Spec == Init /\ [][Next]_vars

\* The logic is clocked, out of reset, and the receiver takes a word in the end.
Fairness ==
  /\ WF_vars(design = "fixed" /\ FixedClock(TRUE) /\ UNCHANGED <<design, ownRandomVars>>)
  /\ WF_vars(design = "random" /\ RandomClock(TRUE) /\ UNCHANGED <<design, ownFixedVars>>)
FairSpec == Spec /\ Fairness
-----------------------------------------------------------------------------
(* Properties *)

\* The packet under way, or chosen for next, and how much of it was taken.
FixedPacket(i) ==
  [len |-> PKT[i].len, first |-> PKT[i].first, step |-> PKT[i].step, header |-> None]
RandomPacket ==
  [len |-> pkt_len, first |-> init_data, step |-> pkt_step,
   header |-> Header(pkt_len, pkt_step, init_data)]
Packet ==
  IF design = "fixed" THEN FixedPacket(IF pkt_num = 0 THEN 1 ELSE pkt_num) ELSE RandomPacket
Taken == IF tvalid THEN wrd_count - 1 ELSE 0
AllPackets == [len : Nat, first : Nat, step : Nat, header : Nat \cup {None}]

Stream == INSTANCE PacketStream WITH Packets <- AllPackets, taken <- Taken, packet <- Packet

\* The receiver gets whole packets, each word in its place and tlast on the last
\* one, wherever it stalls, start changes or timer and state machine meet.
WholePackets == Stream!Spec

\* AXI4-Stream: a word that is offered stays, unchanged, until it is taken.
OfferStands ==
  [][tvalid /\ out' = NoWord =>
       tvalid' /\ s_data' = s_data /\ tlast' = tlast /\ tuser' = tuser]_vars

\* A packet, or the burst of three, that has begun comes to its end; and while
\* start is held high and there is no reset, axi4s_src3 goes on sending: no
\* request of the timer gets lost between p0 and p1.
PacketEnds == tvalid ~> ~tvalid
KeepsSending ==
  <>[](design = "random" /\ start /\ out # Aborted) => []<>tvalid
SendsOn == PacketEnds /\ KeepsSending
=============================================================================
