------------------------------ MODULE AxiStream ------------------------------
(***************************************************************************)
(* What the packet sources of the DMA projects (axi4s_src1, axi4s_src2,    *)
(* axi4s_src3) have in common: the registers behind an AXI4-Stream output  *)
(* and the counter of the words of a packet.  One step is one rising edge; *)
(* a word is transferred by an edge at which tvalid and tready are high.   *)
(*                                                                         *)
(* Words count from 1; the word the source offers is number wrd_count.     *)
(***************************************************************************)
EXTENDS Integers

CONSTANTS
  NoWord,   \* no word was transferred
  Aborted   \* the last edge was a reset

ASSUME StreamAssumption ==
  /\ NoWord \notin [data : Nat, last : BOOLEAN] /\ Aborted \notin [data : Nat, last : BOOLEAN]
  /\ NoWord # Aborted

VARIABLES
  tvalid, tlast, s_data,  \* registered outputs; s_data drives tdata
  wrd_count,              \* number of the word offered
  start,                  \* the start input at the last edge
  out                     \* history: what the last edge transferred

axisVars == <<tvalid, tlast, s_data, wrd_count>>

\* The receiver takes the offered word at this edge.
Offered == [data |-> s_data, last |-> tlast]
Transfer(tready) == out' = IF tvalid /\ tready THEN Offered ELSE NoWord

\* In a packet of n words: is there a word after this one, and is it the last?
FaultyMoreWords(n) == wrd_count <= n
MoreWords(n) == wrd_count < n
FaultyLastComes(n) == wrd_count = n
LastComes(n) == wrd_count = n - 1

\* The source offers the next word of a packet of n words.
NextWord(n, step) ==
  /\ MoreWords(n)
  /\ wrd_count' = wrd_count + 1
  /\ s_data' = s_data + step
  /\ tlast' = (tlast \/ LastComes(n))
  /\ UNCHANGED tvalid

\* After its last word the source falls silent.
Silent == wrd_count' = 0 /\ s_data' = 0 /\ tvalid' = FALSE /\ tlast' = FALSE

\* The edge may move the source on: it had its word taken.
FaultyMayAdvance(tready) == TRUE
MayAdvance(tready) == tready
=============================================================================
