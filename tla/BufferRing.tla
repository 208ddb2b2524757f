----------------------------- MODULE BufferRing -----------------------------
(***************************************************************************)
(* What the axi4s2dmov driver promises its user: a bounded FIFO of packets. *)
(* Packets of the stream become available in order, at most N at a time;   *)
(* the user takes the oldest one, uses it and confirms it.  A restart      *)
(* begins a new stream.                                                    *)
(***************************************************************************)
EXTENDS Integers, Sequences

CONSTANTS N, PKTS

VARIABLES
  avail,  \* packets available, oldest first
  rd,     \* number of the packet the user gets next
  hold    \* packet the user is looking at; 0: none

ringvars == <<avail, rd, hold>>

\* The packet after p in the cyclic numbering 1..PKTS, and the one to come next.
Following(p) == IF p = PKTS THEN 1 ELSE p + 1
Upcoming == IF avail = <<>> THEN rd ELSE Following(avail[Len(avail)])

Init == avail = <<>> /\ rd = 1 /\ hold = 0

Deliver ==
  /\ Len(avail) < N
  /\ avail' = Append(avail, Upcoming)
  /\ UNCHANGED <<rd, hold>>

Take ==
  /\ avail # <<>>
  /\ hold' = Head(avail)
  /\ UNCHANGED <<avail, rd>>

LetGo == hold # 0 /\ hold' = 0 /\ UNCHANGED <<avail, rd>>

Confirm ==
  /\ avail # <<>> /\ hold = 0
  /\ avail' = Tail(avail) /\ rd' = Following(rd)
  /\ UNCHANGED hold

Restart == avail' = <<>> /\ rd' = 1 /\ hold' = 0

Next == Deliver \/ Take \/ LetGo \/ Confirm \/ Restart

Spec == Init /\ [][Next]_ringvars
=============================================================================
