---------------------------- MODULE PacketStream ----------------------------
(***************************************************************************)
(* What a packet source promises its receiver: whole packets, word for     *)
(* word, the last word of each marked and no other, at the receiver's pace.*)
(* Only a reset cuts a packet off.                                         *)
(***************************************************************************)
EXTENDS Integers

CONSTANTS
  Packets,  \* packets: length, first data word, step, and a header word or None
  None,
  NoWord,   \* no word was transferred
  Aborted   \* a reset

VARIABLES
  packet,  \* packet under way, or chosen for next
  taken,   \* words of it that were transferred
  out      \* what was transferred

\* Word k of packet p.
Value(p, k) ==
  IF p.header = None THEN p.first + (k - 1) * p.step
  ELSE IF k = 1 THEN p.header ELSE p.first + (k - 2) * p.step

Init == packet \in Packets /\ taken = 0 /\ out = NoWord

Deliver ==
  /\ out' = [data |-> Value(packet, taken + 1), last |-> taken + 1 = packet.len]
  /\ \/ taken + 1 < packet.len /\ taken' = taken + 1 /\ UNCHANGED packet
     \/ taken + 1 = packet.len /\ taken' = 0 /\ packet' \in Packets

Choose == taken = 0 /\ packet' \in Packets /\ out' = NoWord /\ UNCHANGED taken

Pause == out' = NoWord /\ UNCHANGED <<packet, taken>>

Abort == out' = Aborted /\ taken' = 0 /\ packet' \in Packets

Next == Deliver \/ Choose \/ Pause \/ Abort

Spec == Init /\ [][Next]_<<packet, taken, out>>
=============================================================================
