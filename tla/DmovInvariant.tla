--------------------------- MODULE DmovInvariant ---------------------------
(***************************************************************************)
(* The inductive invariant behind the safety of DmovDriver, for one process *)
(* that keeps to the application's call order.  MCDmov checks it with TLC,  *)
(* DmovProofs proves it for all values of the constants.                   *)
(***************************************************************************)
EXTENDS DmovDriver

SingleUser == (\E u : Threads = {u}) /\ FreeOrder = FALSE

\* Holds for any processes and any order of calls: irq_set stands for a handler
\* that is registered, and a busy DataMover has a command.
Consistent ==
  /\ irq_set => handlers > 0
  /\ dm_busy => cmds # <<>>

TInv == TypeOK /\ Consistent

\* Buffers the hardware or the handler has in its hands.
InHardware(b) ==
  \/ \E i \in DOMAIN cmds : cmds[i] = b
  \/ \E j \in DOMAIN stsq : stsq[j].tag = b
  \/ isr = "store" /\ nbuf = b

Empty == cmds = <<>> /\ stsq = <<>> /\ ~isr_rc

\* Between ADM_RESET and ADM_START the hardware is empty, and from the release
\* of the reset line on the handler is not running either.
Quiet ==
  \A t \in Threads :
    /\ pc[t] = "reset_hold" => Empty
    /\ pc[t] \in {"reset_fifo", "after_reset"} => Empty /\ isr = "idle"

\* While ADM_START submits, only buffers below the loop counter are out.
Starting ==
  \A t \in Threads :
    pc[t] = "start_submit" =>
      \A b \in Buf : InHardware(b) \/ bready[b] = 1 => b < idx[t]

\* From the test of ADM_GET to ADM_CONFIRM the buffer in turn is the caller's.
Confirming ==
  \A t \in Threads :
    /\ pc[t] \in {"get_read", "got", "confirm_clear"} => bready[received_buf] = 1
    /\ pc[t] = "confirm_submit" =>
         bready[received_buf] = 0 /\ ~InHardware(received_buf)

\* Wherever a completed buffer is, its length and its memory agree.
Intact ==
  /\ \A j \in DOMAIN stsq :
       /\ stsq[j].len # 0
       /\ stsq[j].kind = "okay" => mem[stsq[j].tag] = stsq[j].len
  /\ isr = "store" => blen[nbuf] # 0 /\ mem[nbuf] = blen[nbuf]
  /\ \A b \in Buf : bready[b] = 1 => blen[b] # 0 /\ mem[b] = blen[b]
  /\ \A t \in Threads :
       pc[t] = "got" => held[t] = [buf |-> received_buf, len |-> blen[received_buf]]

\* The strengthening of OneOwner and HeldIsIntact that every step preserves.
IInv == TInv /\ OneOwner /\ Quiet /\ Starting /\ Confirming /\ Intact

-----------------------------------------------------------------------------
(* Order: the buffers go round the ring in step with the packets.           *)

\* What the order rests on: transfers end well, and no command is lost.
Lossless == Kinds = {"okay"} /\ FIFO_DEPTH >= BUF_NUM

\* The buffer k places after b in the ring, and the one before it.
Plus(b, k) == IF b + k < BUF_NUM THEN b + k ELSE b + k - BUF_NUM
Pred(b) == IF b = 0 THEN BUF_NUM - 1 ELSE b - 1

\* A buffer is confirmed for the user of the ring when its ready flag falls,
\* two steps before received_buf moves on.
MidConfirm == \E t \in Threads : pc[t] \in {"confirm_submit", "confirm_next"}
Front == IF MidConfirm THEN Succ(received_buf) ELSE received_buf
Wanted == IF MidConfirm THEN SuccPacket(want) ELSE want

\* Ready buffers, from Front up to exp_buf; the place of a buffer after Front.
Place(b) == IF b >= Front THEN b - Front ELSE b - Front + BUF_NUM
ReadyCount ==
  IF exp_buf = Front THEN IF bready[Front] = 1 THEN BUF_NUM ELSE 0 ELSE Place(exp_buf)
ReadyRun == \A b \in Buf : bready[b] = 1 <=> Place(b) < ReadyCount

\* From exp_buf on follow the buffers of the handler, the statuses and the
\* commands, oldest first.
Storing == IF isr = "store" THEN 1 ELSE 0
InHand == Storing + Len(stsq) + Len(cmds)
Tags ==
  /\ InHand <= BUF_NUM
  /\ ExpectedTag
  /\ \A j \in DOMAIN stsq :
       stsq[j].tag = Plus(exp_buf, Storing + j - 1) /\ stsq[j].kind = "okay"
  /\ \A i \in DOMAIN cmds : cmds[i] = Plus(exp_buf, Storing + Len(stsq) + i - 1)

\* From ADM_START on every buffer is either ready or in the hardware's hands, but
\* those not submitted yet and the one being confirmed.
Acquiring == {"start_submit", "start_enable", "start_go", "running", "get_wait",
              "get_sleep", "get_read", "got", "confirm_clear", "confirm_submit",
              "confirm_next", "stopped"}
Submitted(t) ==
  CASE pc[t] = "start_submit" -> idx[t]
    [] pc[t] = "confirm_submit" -> BUF_NUM - 1
    [] OTHER -> BUF_NUM
Supplied ==
  \A t \in Threads :
    /\ pc[t] \in Acquiring => InHand + ReadyCount = Submitted(t)
    /\ pc[t] = "start_submit" => received_buf = 0

Resetting == {"reset_hold", "reset_fifo", "after_reset"}

\* The packet that the next ready buffer has to hold, the one that the next
\* status has to announce, and the one it will announce.
Due == IF ReadyCount = 0 THEN Wanted ELSE SuccPacket(blen[Pred(exp_buf)])
Announced == IF isr = "store" THEN SuccPacket(blen[nbuf]) ELSE Due
Coming == IF stsq = <<>> THEN src ELSE stsq[1].len

Packets ==
  /\ ReadyCount > 0 => blen[Front] = Wanted
  /\ \A b \in Buf : Place(b) + 1 < ReadyCount => blen[Succ(b)] = SuccPacket(blen[b])
  /\ isr = "store" => blen[nbuf] = Due
  /\ \A j \in DOMAIN stsq :
       IF j = Len(stsq) THEN src = SuccPacket(stsq[j].len)
       ELSE stsq[j + 1].len = SuccPacket(stsq[j].len)
  /\ InHand > Storing \/ (\E t \in Threads : pc[t] \in Acquiring) => Coming = Announced
  /\ \A t \in Threads : pc[t] \in Resetting => src = 1

\* The flag, the handler and the interrupt enable go together, for any order of
\* the calls; in the application's order no acquisition runs before ADM_START.
Bookkeeping ==
  /\ handlers = IF irq_set THEN 1 ELSE 0
  /\ ier => is_started \/ \E t \in Threads : pc[t] = "start_go"
  /\ \A t \in Threads :
       /\ pc[t] = "closed" => ~irq_set
       /\ pc[t] \in {"closed", "release_irq"} => ~ier /\ ~is_started
NotStarted ==
  \A t \in Threads :
    pc[t] \in {"opened", "reset_hold", "reset_fifo", "after_reset", "start_submit",
               "start_enable", "start_go"} => ~is_started

\* The strengthening of InOrder and ExpectedTag.
OrderInv ==
  /\ IInv /\ Bookkeeping /\ NotStarted
  /\ ReadyRun /\ Tags /\ Supplied /\ Packets

-----------------------------------------------------------------------------
(* What the user of the ring sees of the driver                              *)

\* The packets of the ready buffers, and the one the user looks at.
Available == [k \in 1..ReadyCount |-> blen[Plus(Front, k - 1)]]
Looking == IF \E t \in Threads : pc[t] = "got"
             THEN held[CHOOSE t \in Threads : pc[t] = "got"].len ELSE 0

Ring == INSTANCE BufferRing WITH
  N <- BUF_NUM, avail <- Available, rd <- Wanted, hold <- Looking

\* With one process the driver implements the bounded FIFO of packets.
RefinesRing == Ring!Spec
=============================================================================
