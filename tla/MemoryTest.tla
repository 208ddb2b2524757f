----------------------------- MODULE MemoryTest -----------------------------
(***************************************************************************)
(* What the AXI master of axi_irq_prj1 promises: N words are written, each *)
(* once and in order, then read back in order, and only then the test is   *)
(* done, with a verdict on all that happened in it.                        *)
(***************************************************************************)
EXTENDS Integers

CONSTANT N

VARIABLES
  mem,         \* memory, words numbered from 0
  nw, nr,      \* words written and read
  bad,         \* something was wrong
  done, error  \* the report

Init == nw = 0 /\ nr = 0 /\ ~bad /\ ~done /\ ~error

Begin == nw' = 0 /\ nr' = 0 /\ ~bad' /\ ~done' /\ ~error' /\ UNCHANGED mem

WriteWord ==
  /\ nw < N /\ nw' = nw + 1
  /\ mem' = [mem EXCEPT ![nw] = nw]
  /\ bad' \in {bad, TRUE}
  /\ UNCHANGED <<nr, done, error>>

ReadWord ==
  /\ nw = N /\ nr < N /\ nr' = nr + 1
  /\ bad' \in {bad, TRUE}
  /\ UNCHANGED <<mem, nw, done, error>>

Report ==
  /\ nr = N /\ ~done
  /\ done' /\ error' = bad
  /\ UNCHANGED <<mem, nw, nr, bad>>

Next == Begin \/ WriteWord \/ ReadWord \/ Report

Spec == Init /\ [][Next]_<<mem, nw, nr, bad, done, error>>
=============================================================================
