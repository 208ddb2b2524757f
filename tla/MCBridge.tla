------------------------------ MODULE MCBridge ------------------------------
(* Instances of Axil2Ipb for TLC. *)
EXTENDS Axil2Ipb

\* Two taps each, as poly 20 and poly 12 have: here bits 0 and 1 of a short word.
MCTaps == [s \in {2, 3} |-> {0, 1}]
=============================================================================
