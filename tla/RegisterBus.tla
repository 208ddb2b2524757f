----------------------------- MODULE RegisterBus -----------------------------
(***************************************************************************)
(* What the bridge with its slaves promises a master that makes one access *)
(* at a time: a device whose accesses are atomic.  An access acts on the   *)
(* contents once, when it is accepted, and its answer is determined then.  *)
(***************************************************************************)
EXTENDS IpbusSlaves

CONSTANTS
  Addresses,  \* word addresses in use
  None        \* no request

VARIABLES
  dev,   \* contents of the slaves
  req,   \* access accepted and not answered
  last   \* the answer taken in the last cycle

NoAnswer == [kind |-> "none"]
busvars == <<dev, req, last>>

Requests == [kind : {"b"}, addr : Addresses, data : Word, full : BOOLEAN]
              \cup [kind : {"r"}, addr : Addresses]

\* What request r does to the contents, and what it answers.
Effect(d, r) == IF r.kind = "b" /\ r.full THEN Written(d, r.addr, r.data) ELSE d
Answer(d, r) == IF r.kind = "b" THEN IF r.full THEN "okay" ELSE "slverr"
                ELSE Peek(d, r.addr)

Init == dev = Cleared([c \in Cells |-> 0]) /\ req = None /\ last = NoAnswer

Accept ==
  /\ req = None /\ req' \in Requests
  /\ dev' = Effect(dev, req')
  /\ last' = NoAnswer

\* The answer comes later, or in the cycle that accepts the request.
Reply(r) ==
  /\ dev' = IF req = None THEN Effect(dev, r) ELSE dev
  /\ req' = None
  /\ last' = [kind |-> r.kind, addr |-> r.addr, answer |-> Answer(dev, r)]

Forget == last' = NoAnswer /\ UNCHANGED <<dev, req>>

Restart == dev' = Cleared(dev) /\ req' = None /\ last' = NoAnswer

Next ==
  \/ Accept
  \/ \E r \in IF req = None THEN Requests ELSE {req} : Reply(r)
  \/ Forget
  \/ Restart

Spec == Init /\ [][Next]_busvars
=============================================================================
