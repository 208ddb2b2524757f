------------------------------ MODULE Axil2Ipb ------------------------------
(***************************************************************************)
(* The AXI4-Lite to IPbus bridge (axil2ipb.vhd) with its slaves.  AXI has  *)
(* independent channels for writes and reads, IPbus makes one access at a  *)
(* time, so the bridge arbitrates: "write before read".                    *)
(*                                                                         *)
(* One step is one rising edge of S_AXI_ACLK.  The combinational process   *)
(* qq is the operators on the current state; the registers it feeds and    *)
(* the slaves' registers change in Clock.  Between edges the AXI master    *)
(* (external) raises its valid signals, and keeps them up until the bridge *)
(* is ready, as AXI demands.                                               *)
(*                                                                         *)
(* ipb_err is '0' in every slave of the repository, so the branches of qq  *)
(* on ipb_err never run and are left out.                                  *)
(***************************************************************************)
EXTENDS IpbusSlaves

CONSTANTS
  Addrs,      \* byte addresses the master uses
  Data,       \* words it writes
  Strobes,    \* does a write strobe all four bytes? subset of BOOLEAN
  Concurrent, \* TRUE: the master may read and write at the same time
  None        \* no request

ASSUME AddrsAssumption == Addrs \subseteq 0..2^15 - 1 /\ Data \subseteq Word
ASSUME MasterAssumption == Strobes \subseteq BOOLEAN /\ Concurrent \in BOOLEAN
ASSUME NoneAssumption ==
  /\ None \notin Int
  /\ None \notin [data : Int, full : BOOLEAN]
  /\ None \notin [addr : Int, data : Int, full : BOOLEAN]
  /\ None \notin [addr : Int, vals : SUBSET Int]
  /\ None \notin [kind : {"b"}, addr : Int, data : Int, full : BOOLEAN]
  /\ None \notin [kind : {"r"}, addr : Int]

VARIABLES
  aw, w, ar,              \* what the master offers on AW, W and AR
  read_wait, write_wait,  \* an IPbus access is waiting for its acknowledge
  addr, wdata,            \* its address and data
  rdata, bresp,           \* answers kept until the master takes them
  del_bresp, del_rresp,   \* such an answer is waiting (rresp is always OKAY)
  dev,                    \* contents of the slaves
  ack, rq,                \* registered acknowledge and data of the slaves
  wr, rd,                 \* history: write, read accepted and not answered
  last                    \* history: last answer the master took

bridgeVars == <<read_wait, write_wait, addr, wdata, rdata, bresp, del_bresp, del_rresp>>
slaveVars == <<dev, ack, rq>>
historyVars == <<wr, rd, last>>
vars == <<aw, w, ar, bridgeVars, slaveVars, historyVars>>

\* AXI addresses count bytes, IPbus addresses count words.
a_axi2ipb(a) == a \div 4

IpbAddrs == {a_axi2ipb(a) : a \in Addrs}
NoAnswer == [kind |-> "none"]
Answers == {NoAnswer}
  \cup [kind : {"b"}, addr : IpbAddrs, data : Word, full : BOOLEAN, resp : {"okay", "slverr"}]
  \cup [kind : {"r"}, addr : IpbAddrs, vals : SUBSET Word, data : Word]

TypeOK ==
  /\ aw \in Addrs \cup {None} /\ ar \in Addrs \cup {None}
  /\ w \in [data : Data, full : BOOLEAN] \cup {None}
  /\ read_wait \in BOOLEAN /\ write_wait \in BOOLEAN
  /\ addr \in IpbAddrs \cup {0} /\ wdata \in Word /\ rdata \in Word
  /\ bresp \in {"okay", "slverr"}
  /\ del_bresp \in BOOLEAN /\ del_rresp \in BOOLEAN
  /\ dev \in [Cells -> Word]
  /\ ack \in [Registered -> BOOLEAN] /\ rq \in [Registered -> Word]
  /\ wr \in [addr : IpbAddrs, data : Data, full : BOOLEAN] \cup {None}
  /\ rd \in [addr : IpbAddrs, vals : SUBSET Word] \cup {None}
  /\ last \in Answers

\* After power-up and reset; block RAM of an FPGA starts at 0.
Init ==
  /\ aw = None /\ w = None /\ ar = None
  /\ read_wait = FALSE /\ write_wait = FALSE
  /\ addr = 0 /\ wdata = 0 /\ rdata = 0 /\ bresp = "okay"
  /\ del_bresp = FALSE /\ del_rresp = FALSE
  /\ dev = Cleared([c \in Cells |-> 0])
  /\ ack = [s \in Registered |-> FALSE]
  /\ rq = [s \in Registered |-> SlotData(dev, s, 0)]
  /\ wr = None /\ rd = None /\ last = NoAnswer

-----------------------------------------------------------------------------
(* The AXI master, external *)

Writing == aw # None \/ w # None \/ wr # None
Reading == ar # None \/ rd # None

PostAddress(a) ==
  /\ aw = None /\ (Concurrent \/ ~Reading)
  /\ aw' = a
  /\ UNCHANGED <<w, ar, bridgeVars, slaveVars, historyVars>>

PostData(d, full) ==
  /\ w = None /\ (Concurrent \/ ~Reading)
  /\ w' = [data |-> d, full |-> full]
  /\ UNCHANGED <<aw, ar, bridgeVars, slaveVars, historyVars>>

PostRead(a) ==
  /\ ar = None /\ (Concurrent \/ ~Writing)
  /\ ar' = a
  /\ UNCHANGED <<aw, w, bridgeVars, slaveVars, historyVars>>

-----------------------------------------------------------------------------
(* Process qq: what the bridge does with this cycle *)

Free == ~del_bresp /\ ~del_rresp
IsWrite == Free /\ ((aw # None /\ w # None) \/ write_wait)
IsRead == Free /\ ~IsWrite /\ (ar # None \/ read_wait)
NewWrite == IsWrite /\ ~write_wait
NewRead == IsRead /\ ~read_wait
\* WSTRB is checked only when the write is new.
BadStrobe == NewWrite /\ ~w.full

\* The IPbus signals of this cycle.
BusAddr ==
  CASE BadStrobe -> 0
    [] NewWrite -> a_axi2ipb(aw)
    [] NewRead -> a_axi2ipb(ar)
    [] (IsWrite \/ IsRead) /\ ~NewWrite /\ ~NewRead -> addr
    [] OTHER -> 0
BusStrobe == (IsWrite /\ ~BadStrobe) \/ IsRead
BusWrite == IsWrite /\ ~BadStrobe
BusData == IF NewWrite THEN w.data ELSE wdata
Strobed(s) == BusStrobe /\ Sel(BusAddr) = s

\* ipbus_fabric: the acknowledges of all slaves are ORed, selected or not.
FaultyAck == \E s \in Registered : ack[s]
Ack == (\E s \in Registered : ack[s]) \/ (\E s \in Lfsrs : Strobed(s))
\* The data come from the slave the address selects.
BusRdata ==
  LET s == Sel(BusAddr) IN
  CASE s \in Registered -> rq[s]
    [] s \in Lfsrs -> SlotData(dev, s, BusAddr)
    [] OTHER -> 0

\* The answers offered in this cycle.  An acknowledge overrides BRESP.
BValid == del_bresp \/ (IsWrite /\ (BadStrobe \/ Ack))
BResp == IF del_bresp THEN bresp ELSE IF Ack THEN "okay" ELSE "slverr"
RValid == (~del_bresp /\ del_rresp) \/ (IsRead /\ Ack)
RData == IF del_rresp THEN rdata ELSE BusRdata

-----------------------------------------------------------------------------
(* The rising edge *)

\* The request a channel holds after this cycle's handshake.
WrNow == IF NewWrite
           THEN [addr |-> a_axi2ipb(aw), data |-> w.data, full |-> w.full] ELSE wr
RdNow == IF NewRead
           THEN [addr |-> a_axi2ipb(ar), vals |-> {Peek(dev, a_axi2ipb(ar))}] ELSE rd

\* When the bridge stores the address, and when an answer has to be kept.
FaultyNewAddress == NewWrite /\ ~BadStrobe
NewAddress == (NewWrite /\ ~BadStrobe) \/ NewRead
FaultyKeepB(bready) == BValid /\ ~BadStrobe /\ ~bready
KeepB(bready) == BValid /\ ~bready
KeepR(rready) == RValid /\ ~rready

\* Registers of the bridge.
Latch(bready, rready) ==
  /\ write_wait' = IF IsWrite THEN ~Ack /\ ~BadStrobe ELSE write_wait
  /\ read_wait' = IF IsRead THEN ~Ack ELSE read_wait
  /\ addr' = IF NewAddress THEN BusAddr ELSE addr
  /\ wdata' = IF NewWrite /\ ~BadStrobe THEN BusData ELSE wdata
  /\ del_bresp' = KeepB(bready)
  /\ bresp' = IF KeepB(bready) THEN BResp ELSE bresp
  /\ del_rresp' = IF del_bresp THEN del_rresp ELSE KeepR(rready)
  /\ rdata' = IF KeepR(rready) THEN RData ELSE rdata

\* Registers of the slaves: data follow the address, selected or not.
SlavesClock ==
  /\ dev' = IF BusWrite THEN Written(dev, BusAddr, BusData) ELSE dev
  /\ ack' = [s \in Registered |-> Strobed(s) /\ ~ack[s]]
  /\ rq' = [s \in Registered |-> SlotData(dev, s, BusAddr)]

\* One clock; the master takes a write answer if bready, a read answer if rready.
Clock(bready, rready) ==
  /\ Latch(bready, rready)
  /\ SlavesClock
  /\ aw' = (IF NewWrite THEN None ELSE aw) /\ w' = (IF NewWrite THEN None ELSE w)
  /\ ar' = IF NewRead THEN None ELSE ar
  /\ wr' = IF BValid /\ bready THEN None ELSE WrNow
  /\ rd' = CASE RValid /\ rready -> None
             [] read_wait' -> [RdNow EXCEPT !.vals = @ \cup {Peek(dev', RdNow.addr)}]
             [] OTHER -> RdNow
  /\ last' = CASE BValid /\ bready -> [kind |-> "b", addr |-> WrNow.addr,
                       data |-> WrNow.data, full |-> WrNow.full, resp |-> BResp]
               [] RValid /\ rready -> [kind |-> "r", addr |-> RdNow.addr,
                       vals |-> RdNow.vals, data |-> RData]
               [] OTHER -> NoAnswer

\* The reset line, held for several clocks with the master quiet: the slaves'
\* acknowledges, which it does not reset, have fallen when it ends.
Reset ==
  /\ aw' = None /\ w' = None /\ ar' = None
  /\ read_wait' = FALSE /\ write_wait' = FALSE
  /\ addr' = 0 /\ wdata' = 0 /\ rdata' = 0 /\ bresp' = "okay"
  /\ del_bresp' = FALSE /\ del_rresp' = FALSE
  /\ dev' = Cleared(dev)
  /\ ack' = [s \in Registered |-> FALSE]
  /\ rq' = [s \in Registered |-> SlotData(dev', s, 0)]
  /\ wr' = None /\ rd' = None /\ last' = NoAnswer

Master ==
  \/ \E a \in Addrs : PostAddress(a) \/ PostRead(a)
  \/ \E d \in Data, full \in Strobes : PostData(d, full)

Next ==
  \/ Master
  \/ \E bready, rready \in BOOLEAN : Clock(bready, rready)
  \/ Reset

Spec == Init /\ [][Next]_vars

\* The clock runs, and a master that waits for an answer takes it in the end.
Fairness == WF_vars(Clock(TRUE, TRUE))
FairSpec == Spec /\ Fairness
-----------------------------------------------------------------------------
(* Properties *)

\* Every request the bridge has accepted is either being made on IPbus or has
\* its answer kept, and nothing else is: no answer is lost when BREADY or
\* RREADY is low, and none is given twice (del_bresp, del_rresp).
NothingLost ==
  /\ wr # None <=> write_wait \/ del_bresp
  /\ rd # None <=> read_wait \/ del_rresp
  /\ ~(del_bresp /\ del_rresp)

\* A read returns what its address showed at some moment between its
\* acceptance and its answer, whatever slave it went to.
ReadCorrect == last.kind = "r" => last.data \in last.vals

\* "We must avoid duplicated writes": a word written to a slave acts once, in
\* the cycle that accepts it, although the strobe lasts until the acknowledge;
\* in all other cycles the slaves keep their contents.
ActsOnce ==
  [][LET accepted == aw # None /\ aw' = None /\ w.full IN
     \/ Reset
     \/ dev' = IF accepted THEN Written(dev, a_axi2ipb(aw), w.data) ELSE dev]_vars

\* Every accepted access of an address that some slave decodes is answered.
AccessAnswered ==
  /\ wr # None ~> wr = None
  /\ rd # None ~> rd = None

\* The access in progress and the last answer, without their history.
Request ==
  IF wr # None THEN [kind |-> "b", addr |-> wr.addr, data |-> wr.data, full |-> wr.full]
  ELSE IF rd # None THEN [kind |-> "r", addr |-> rd.addr] ELSE None
Answered ==
  CASE last.kind = "b" -> [kind |-> "b", addr |-> last.addr, answer |-> last.resp]
    [] last.kind = "r" -> [kind |-> "r", addr |-> last.addr, answer |-> last.data]
    [] OTHER -> last

Bus == INSTANCE RegisterBus WITH Addresses <- IpbAddrs, req <- Request, last <- Answered

\* For a master that makes one access at a time, bridge and slaves together
\* are a device with atomic accesses (axil2ipb.vhd:41-42).
AtomicAccess == Bus!Spec
=============================================================================
