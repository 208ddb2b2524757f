------------------------------- MODULE MCDmov -------------------------------
(* Instances of DmovDriver for TLC, with the invariants that its proofs use. *)
EXTENDS DmovInvariant
=============================================================================
