---------------------------- MODULE BridgeProofs ----------------------------
(***************************************************************************)
(* The AXI4-Lite to IPbus bridge, for any width of a word, any size of the *)
(* RAM and any addresses: no answer is lost, every write acts once, and a  *)
(* master that makes one access at a time has atomic registers.            *)
(***************************************************************************)
EXTENDS Axil2Ipb, FiniteSetTheorems, TLAPS

-----------------------------------------------------------------------------
(* Words, cells and slaves *)

LEMMA WordFacts ==
  /\ 2^WORD_BITS \in Nat /\ 2^WORD_BITS > 1
  /\ 0 \in Word /\ 1 \in Word /\ FIXED \in Word /\ Word \subseteq Int
BY WordAssumption DEF Word

LEMMA CellFacts ==
  /\ 0 \in Cells /\ 2 \in Cells /\ Cells \subseteq Int
  /\ \A s \in Lfsrs : \A i \in 0..2 : Base(s) + i \in Cells
  /\ \A a \in Nat : RAM + (a % RAM_WORDS) \in Cells
<1>1. RAM_WORDS \in Nat \ {0} /\ RAM \in Nat
  BY RamAssumption DEF RAM
<1>2. \A a \in Nat : a % RAM_WORDS \in 0..RAM_WORDS - 1
  BY <1>1
<1> QED
  BY <1>1, <1>2 DEF Cells, Lfsrs, Base

LEMMA SelFacts ==
  ASSUME NEW a \in Nat
  PROVE  Sel(a) \in Slots \cup {NoSlot} /\ NoSlot \notin Slots
<1>1. Sel(a) \in {0, 1, 2, 3, 4, NoSlot}
  BY DEF Sel
<1> QED
  BY <1>1 DEF Slots, NoSlot

\* A slave shows a word.
LEMMA SlotType ==
  ASSUME NEW d \in [Cells -> Word], NEW s \in Slots, NEW a \in Nat
  PROVE  SlotData(d, s, a) \in Word
<1>1. CASE s \in Lfsrs
  <2>1. a % 4 \in 0..2 \/ a % 4 = 3
    OBVIOUS
  <2>2. CASE a % 4 = 3
    BY <1>1, <2>2, WordFacts DEF SlotData, Lfsrs
  <2>3. CASE a % 4 \in 0..2
    <3>1. Base(s) + (a % 4) \in Cells
      BY <1>1, <2>3, CellFacts
    <3>2. SlotData(d, s, a) = d[Base(s) + (a % 4)]
      BY <1>1, <2>3 DEF SlotData, Lfsrs
    <3> QED
      BY <3>1, <3>2
  <2> QED
    BY <2>1, <2>2, <2>3
<1>2. CASE s = 4
  BY <1>2, CellFacts DEF SlotData, Lfsrs
<1>3. CASE s = 0 \/ s = 1
  BY <1>3, CellFacts, WordFacts DEF SlotData, Lfsrs
<1> QED
  BY <1>1, <1>2, <1>3 DEF Slots, Lfsrs

LEMMA PeekType ==
  ASSUME NEW d \in [Cells -> Word], NEW a \in Nat
  PROVE  Peek(d, a) \in Word
BY SelFacts, SlotType, WordFacts DEF Peek

LEMMA ShiftedType ==
  ASSUME NEW s \in Lfsrs, NEW v \in Word
  PROVE  Shifted(s, v) \in Word
<1> DEFINE ones == {i \in Taps[s] : Bit(v, i) = 1}
<1>1. IsFiniteSet(0..WORD_BITS - 1)
  BY WordAssumption, FS_Interval
<1>2. ones \subseteq 0..WORD_BITS - 1
  BY TapsAssumption DEF Lfsrs
<1>3. Cardinality(ones) \in Nat
  BY <1>1, <1>2, FS_Subset, FS_CardinalityType
<1> HIDE DEF ones
<1>4. 2 * v + (Cardinality(ones) % 2) \in Int
  BY <1>3, WordFacts
<1>5. Shifted(s, v) = (2 * v + (Cardinality(ones) % 2)) % 2^WORD_BITS
  BY DEF Shifted, ones
<1> QED
  BY <1>4, <1>5, WordFacts DEF Word

\* A write leaves words in the cells.
LEMMA WrittenType ==
  ASSUME NEW d \in [Cells -> Word], NEW a \in Nat, NEW x \in Word
  PROVE  Written(d, a, x) \in [Cells -> Word]
<1>1. CASE Sel(a) \in Lfsrs
  <2>1. Base(Sel(a)) + 2 \in Cells
    BY <1>1, CellFacts
  <2>2. Shifted(Sel(a), d[Base(Sel(a)) + 2]) \in Word
    BY <1>1, <2>1, ShiftedType
  <2> QED
    BY <1>1, <2>1, <2>2 DEF Written, Lfsrs
<1>2. CASE Sel(a) \notin Lfsrs
  BY <1>2 DEF Written, Lfsrs
<1> QED
  BY <1>1, <1>2

\* Writing a word twice to a register or to the RAM is writing it once.
LEMMA WrittenTwice ==
  ASSUME NEW d \in [Cells -> Word], NEW a \in Nat, NEW x \in Word, Sel(a) \notin Lfsrs
  PROVE  Written(Written(d, a, x), a, x) = Written(d, a, x)
<1>0. \A c \in Cells : [[d EXCEPT ![c] = x] EXCEPT ![c] = x] = [d EXCEPT ![c] = x]
  OBVIOUS
<1>1. CASE Sel(a) \in {0, 1, 4}
  <2>1. CASE Sel(a) = 0
    <3>1. \A e : Written(e, a, x) = [e EXCEPT ![0] = x]
      BY <2>1 DEF Written, Lfsrs
    <3>2. 0 \in Cells
      BY CellFacts
    <3> QED
      BY ONLY <1>0, <3>1, <3>2
  <2>2. CASE Sel(a) = 1
    <3>1. \A e : Written(e, a, x) = [e EXCEPT ![2] = x]
      BY <2>2 DEF Written, Lfsrs
    <3>2. 2 \in Cells
      BY CellFacts
    <3> QED
      BY ONLY <1>0, <3>1, <3>2
  <2>3. CASE Sel(a) = 4
    <3>1. \A e : Written(e, a, x) = [e EXCEPT ![RAM + (a % RAM_WORDS)] = x]
      BY <2>3 DEF Written, Lfsrs
    <3>2. RAM + (a % RAM_WORDS) \in Cells
      BY CellFacts
    <3> QED
      BY ONLY <1>0, <3>1, <3>2
  <2> QED
    BY <1>1, <2>1, <2>2, <2>3
<1>2. CASE Sel(a) \notin {0, 1, 4}
  BY <1>2 DEF Written, Lfsrs
<1> QED
  BY <1>1, <1>2

LEMMA AddrFacts ==
  /\ IpbAddrs \subseteq Nat /\ 0 \in Nat
  /\ \A a \in Addrs : a_axi2ipb(a) \in IpbAddrs
  /\ Data \subseteq Word
<1>0. \A a \in Addrs : a \in Nat
  <2> DEFINE top == 2^15 - 1
  <2>1. top \in Int
    OBVIOUS
  <2>2. Addrs \subseteq 0..top
    BY Zenon, AddrsAssumption
  <2> HIDE DEF top
  <2> QED
    BY <2>1, <2>2
<1>1. \A a \in Addrs : a \in Nat /\ a \div 4 \in Nat
  BY <1>0
<1> QED
  BY <1>1, AddrsAssumption DEF IpbAddrs, a_axi2ipb

-----------------------------------------------------------------------------
(* The bridge: types and requests in progress, whatever the master does *)

\* An access that waits on IPbus has no answer yet.
Apart == ~(write_wait /\ del_bresp) /\ ~(read_wait /\ del_rresp)

LinkInv == TypeOK /\ NothingLost /\ Apart

Writes == [addr : IpbAddrs, data : Data, full : BOOLEAN]
Reads == [addr : IpbAddrs, vals : SUBSET Word]

LEMMA NoneFacts ==
  None \notin Writes /\ None \notin Reads /\ None \notin Addrs
    /\ None \notin [data : Data, full : BOOLEAN]
<1>1. IpbAddrs \subseteq Int /\ Data \subseteq Int /\ Word \subseteq Int /\ Addrs \subseteq Int
  <2>1. Addrs \subseteq Int
    <3> DEFINE top == 2^15 - 1
    <3>1. top \in Int
      OBVIOUS
    <3>2. Addrs \subseteq 0..top
      BY Zenon, AddrsAssumption
    <3> HIDE DEF top
    <3> QED
      BY <3>1, <3>2
  <2> QED
    BY <2>1, AddrFacts, WordFacts
<1>2. None \notin Writes
  BY <1>1, NoneAssumption DEF Writes
<1>3. None \notin Reads
  <2>1. ASSUME NEW v \in Reads PROVE v \in [addr : Int, vals : SUBSET Int]
    BY <1>1, <2>1 DEF Reads
  <2> QED
    BY <2>1, NoneAssumption
<1>4. None \notin [data : Data, full : BOOLEAN]
  BY <1>1, NoneAssumption
<1> QED
  BY <1>1, <1>2, <1>3, <1>4, NoneAssumption

\* What the bridge takes from a channel, and what it shows to the slaves.
LEMMA BusFacts ==
  ASSUME LinkInv
  PROVE  /\ NewWrite => /\ aw \in Addrs /\ aw # None /\ w # None
                        /\ w \in [data : Data, full : BOOLEAN]
                        /\ a_axi2ipb(aw) \in IpbAddrs
         /\ NewRead => ar \in Addrs /\ ar # None /\ a_axi2ipb(ar) \in IpbAddrs
         /\ BusAddr \in IpbAddrs \cup {0} /\ BusAddr \in Nat
         /\ BusData \in Word /\ BusRdata \in Word /\ RData \in Word
         /\ BResp \in {"okay", "slverr"}
<1> USE DEF LinkInv, TypeOK
<1>1. NewWrite => /\ aw \in Addrs /\ aw # None /\ w # None
                  /\ w \in [data : Data, full : BOOLEAN]
                  /\ a_axi2ipb(aw) \in IpbAddrs
  BY AddrFacts DEF NewWrite, IsWrite
<1>2. NewRead => ar \in Addrs /\ ar # None /\ a_axi2ipb(ar) \in IpbAddrs
  BY AddrFacts DEF NewRead, IsRead
<1>3. BusAddr \in IpbAddrs \cup {0} /\ BusAddr \in Nat
  BY <1>1, <1>2, AddrFacts DEF BusAddr
<1>4. BusData \in Word
  BY <1>1, AddrFacts DEF BusData
<1>5. BusRdata \in Word
  <2>1. Registered \subseteq Slots /\ Lfsrs \subseteq Slots /\ Registered \cap Lfsrs = {}
    BY DEF Registered, Lfsrs, Slots
  <2>2. CASE Sel(BusAddr) \in Registered
    <3>1. BusRdata = rq[Sel(BusAddr)]
      BY ONLY <2>2 DEF BusRdata, Registered, Lfsrs
    <3> QED
      BY <2>2, <3>1
  <2>3. CASE Sel(BusAddr) \in Lfsrs
    <3>1. BusRdata = SlotData(dev, Sel(BusAddr), BusAddr)
      BY ONLY <2>3 DEF BusRdata, Registered, Lfsrs
    <3> QED
      BY <1>3, <2>1, <2>3, <3>1, SlotType
  <2>4. CASE Sel(BusAddr) \notin Registered /\ Sel(BusAddr) \notin Lfsrs
    <3>1. BusRdata = 0
      BY ONLY <2>4 DEF BusRdata
    <3> QED
      BY <3>1, WordFacts
  <2> QED
    BY <2>2, <2>3, <2>4
<1> QED
  BY <1>1, <1>2, <1>3, <1>4, <1>5 DEF RData, BResp

\* The request of each channel after the handshakes of this cycle.
LEMMA NowFacts ==
  ASSUME LinkInv
  PROVE  /\ WrNow \in Writes \cup {None} /\ RdNow \in Reads \cup {None}
         /\ WrNow # None <=> NewWrite \/ write_wait \/ del_bresp
         /\ RdNow # None <=> NewRead \/ read_wait \/ del_rresp
<1>1. NewWrite => WrNow \in Writes
  BY BusFacts DEF WrNow, Writes
<1>2. ASSUME NewRead PROVE RdNow \in Reads
  <2>1. a_axi2ipb(ar) \in IpbAddrs /\ a_axi2ipb(ar) \in Nat /\ dev \in [Cells -> Word]
    BY <1>2, BusFacts, AddrFacts DEF LinkInv, TypeOK
  <2>2. Peek(dev, a_axi2ipb(ar)) \in Word
    BY <2>1, PeekType
  <2> QED
    BY <1>2, <2>1, <2>2 DEF RdNow, Reads
<1>3. ~NewWrite => WrNow = wr /\ wr \in Writes \cup {None}
  BY DEF WrNow, LinkInv, TypeOK, Writes
<1>4. ~NewRead => RdNow = rd /\ rd \in Reads \cup {None}
  BY DEF RdNow, LinkInv, TypeOK, Reads
<1> QED
  BY <1>1, <1>2, <1>3, <1>4, NoneFacts DEF LinkInv, NothingLost

\* An answer that is offered belongs to a request.
LEMMA AnswerFacts ==
  ASSUME LinkInv
  PROVE  (BValid => WrNow # None) /\ (RValid => RdNow # None) /\ ~(BValid /\ RValid)
BY NowFacts DEF BValid, RValid, IsWrite, IsRead, NewWrite, NewRead, Free, LinkInv, NothingLost

LEMMA LinkInit == Init => LinkInv
<1> SUFFICES ASSUME Init PROVE LinkInv
  OBVIOUS
<1>1. [c \in Cells |-> 0] \in [Cells -> Word]
  BY WordFacts
<1>2. dev \in [Cells -> Word]
  BY <1>1, WordFacts DEF Init, Cleared
<1>3. rq \in [Registered -> Word]
  <2>1. Registered \subseteq Slots
    BY DEF Registered, Slots
  <2> QED
    BY <1>2, <2>1, SlotType DEF Init
<1> QED
  BY <1>2, <1>3, WordFacts
  DEF Init, LinkInv, TypeOK, NothingLost, Apart, NoAnswer, Answers

LEMMA ClockLink ==
  ASSUME LinkInv, NEW bready \in BOOLEAN, NEW rready \in BOOLEAN, Clock(bready, rready)
  PROVE  LinkInv'
<1>t. TypeOK
  BY DEF LinkInv
<1>1. aw' \in Addrs \cup {None} /\ ar' \in Addrs \cup {None}
      /\ w' \in [data : Data, full : BOOLEAN] \cup {None}
  BY <1>t DEF Clock, TypeOK
<1>2. /\ read_wait' \in BOOLEAN /\ write_wait' \in BOOLEAN
      /\ del_bresp' \in BOOLEAN /\ del_rresp' \in BOOLEAN
  BY <1>t DEF Clock, Latch, TypeOK, KeepB, KeepR
<1>3. /\ addr' \in IpbAddrs \cup {0} /\ wdata' \in Word /\ rdata' \in Word
      /\ bresp' \in {"okay", "slverr"}
  BY <1>t, BusFacts DEF Clock, Latch, TypeOK
<1>4. dev' \in [Cells -> Word]
  BY <1>t, BusFacts, WrittenType DEF Clock, SlavesClock, TypeOK
<1>5. ack' \in [Registered -> BOOLEAN] /\ rq' \in [Registered -> Word]
  <2>1. Registered \subseteq Slots
    BY DEF Registered, Slots
  <2>2. \A s \in Registered : SlotData(dev, s, BusAddr) \in Word
    BY <1>t, <2>1, BusFacts, SlotType DEF TypeOK
  <2> QED
    BY <2>2 DEF Clock, SlavesClock
<1>6. wr' \in Writes \cup {None} /\ (wr' # None <=> WrNow # None /\ ~(BValid /\ bready))
  BY NowFacts DEF Clock
<1>7. read_wait' => RdNow # None
  BY NowFacts DEF Clock, Latch, NewRead
<1>8. rd' \in Reads \cup {None} /\ (rd' # None <=> RdNow # None /\ ~(RValid /\ rready))
  <2>1. CASE RValid /\ rready
    <3>0. ~read_wait'
      BY <2>1 DEF Clock, Latch, RValid, IsRead, Free, LinkInv, Apart
    <3>1. rd' = None
      BY <2>1, <3>0 DEF Clock
    <3> QED
      BY <2>1, <3>1
  <2>2. CASE ~(RValid /\ rready) /\ read_wait'
    <3> DEFINE vals == RdNow.vals \cup {Peek(dev', RdNow.addr)}
    <3>1. rd' = [RdNow EXCEPT !.vals = vals]
      BY <2>2 DEF Clock
    <3>2. RdNow \in Reads
      BY <1>7, <2>2, NowFacts
    <3>3. RdNow.addr \in Nat /\ RdNow.vals \subseteq Word
      BY <3>2, AddrFacts DEF Reads
    <3>4. vals \in SUBSET Word
      BY <1>4, <3>3, PeekType
    <3> HIDE DEF vals
    <3>5. rd' \in Reads
      BY <3>1, <3>2, <3>4 DEF Reads
    <3> QED
      BY <1>7, <2>2, <3>5, NoneFacts
  <2>3. CASE ~(RValid /\ rready) /\ ~read_wait'
    <3>1. rd' = RdNow
      BY <2>3 DEF Clock
    <3> QED
      BY <2>3, <3>1, NowFacts
  <2> QED
    BY <2>1, <2>2, <2>3
<1>9. last' \in Answers
  <2>1. CASE BValid /\ bready
    <3>1. WrNow \in Writes
      BY <2>1, NowFacts, AnswerFacts
    <3>2. last' = [kind |-> "b", addr |-> WrNow.addr, data |-> WrNow.data,
                   full |-> WrNow.full, resp |-> BResp]
      BY <2>1, AnswerFacts DEF Clock
    <3> QED
      BY <3>1, <3>2, BusFacts, AddrFacts DEF Writes, Answers
  <2>2. CASE ~(BValid /\ bready) /\ RValid /\ rready
    <3>1. RdNow \in Reads
      BY <2>2, NowFacts, AnswerFacts
    <3>2. last' = [kind |-> "r", addr |-> RdNow.addr, vals |-> RdNow.vals, data |-> RData]
      BY <2>2 DEF Clock
    <3> QED
      BY <3>1, <3>2, BusFacts DEF Reads, Answers
  <2>3. CASE ~(BValid /\ bready) /\ ~(RValid /\ rready)
    <3>1. last' = NoAnswer
      BY <2>3 DEF Clock
    <3> QED
      BY <3>1 DEF Answers
  <2> QED
    BY <2>1, <2>2, <2>3
<1>10. TypeOK'
  BY <1>1, <1>2, <1>3, <1>4, <1>5, <1>6, <1>8, <1>9 DEF TypeOK, Writes, Reads
<1>11. /\ write_wait \in BOOLEAN /\ read_wait \in BOOLEAN
       /\ del_bresp \in BOOLEAN /\ del_rresp \in BOOLEAN
       /\ ~(del_bresp /\ del_rresp) /\ Apart
  BY DEF LinkInv, TypeOK, NothingLost
<1>12. /\ write_wait' = IF IsWrite THEN ~Ack /\ ~BadStrobe ELSE write_wait
       /\ read_wait' = IF IsRead THEN ~Ack ELSE read_wait
       /\ del_bresp' = (BValid /\ ~bready)
       /\ del_rresp' = IF del_bresp THEN del_rresp ELSE RValid /\ ~rready
  BY DEF Clock, Latch, KeepB, KeepR
<1>13. (wr' # None <=> write_wait' \/ del_bresp') /\ ~(write_wait' /\ del_bresp')
  <2>1. wr' # None <=> (NewWrite \/ write_wait \/ del_bresp) /\ ~(BValid /\ bready)
    BY <1>6, NowFacts
  <2> QED
    BY ONLY <1>11, <1>12, <2>1
    DEF BValid, IsWrite, NewWrite, BadStrobe, Free, Apart
<1>14. (rd' # None <=> read_wait' \/ del_rresp') /\ ~(read_wait' /\ del_rresp')
  <2>1. rd' # None <=> (NewRead \/ read_wait \/ del_rresp) /\ ~(RValid /\ rready)
    BY <1>8, NowFacts
  <2> QED
    BY ONLY <1>11, <1>12, <2>1 DEF RValid, IsRead, NewRead, Free, Apart
<1>15. ~(del_bresp' /\ del_rresp')
  BY ONLY <1>11, <1>12 DEF BValid, RValid, IsWrite, IsRead, Free
<1> QED
  BY <1>10, <1>13, <1>14, <1>15 DEF LinkInv, NothingLost, Apart

LEMMA MasterLink ==
  ASSUME LinkInv, Master
  PROVE  LinkInv'
<1>1. ASSUME NEW a \in Addrs, PostAddress(a) PROVE LinkInv'
  BY <1>1 DEF PostAddress, LinkInv, TypeOK, NothingLost, Apart, bridgeVars, slaveVars, historyVars
<1>2. ASSUME NEW a \in Addrs, PostRead(a) PROVE LinkInv'
  BY <1>2 DEF PostRead, LinkInv, TypeOK, NothingLost, Apart, bridgeVars, slaveVars, historyVars
<1>3. ASSUME NEW d \in Data, NEW full \in Strobes, PostData(d, full) PROVE LinkInv'
  BY <1>3, MasterAssumption
  DEF PostData, LinkInv, TypeOK, NothingLost, Apart, bridgeVars, slaveVars, historyVars
<1> QED
  BY <1>1, <1>2, <1>3 DEF Master

LEMMA ResetLink ==
  ASSUME LinkInv, Reset
  PROVE  LinkInv'
<1>1. dev' \in [Cells -> Word]
  BY WordFacts DEF Reset, Cleared, LinkInv, TypeOK
<1>2. rq' \in [Registered -> Word]
  <2>1. Registered \subseteq Slots
    BY DEF Registered, Slots
  <2> QED
    BY <1>1, <2>1, SlotType DEF Reset
<1> QED
  BY <1>1, <1>2, WordFacts DEF Reset, LinkInv, TypeOK, NothingLost, Apart, NoAnswer, Answers

\* Types and requests hold along every behaviour, whoever reads and writes.
LEMMA LinkCorrect == Spec => []LinkInv
<1>1. LinkInv /\ [Next]_vars => LinkInv'
  <2> SUFFICES ASSUME LinkInv, [Next]_vars PROVE LinkInv'
    OBVIOUS
  <2>1. CASE UNCHANGED vars
    BY <2>1
    DEF vars, LinkInv, TypeOK, NothingLost, Apart, bridgeVars, slaveVars, historyVars
  <2>2. CASE Next
    BY <2>2, MasterLink, ClockLink, ResetLink DEF Next
  <2> QED
    BY <2>1, <2>2
<1> QED
  BY LinkInit, <1>1, PTL DEF Spec

\* Every register of the bridge and of its slaves keeps its type, for any
\* width of a word, size of the RAM and choice of taps.
THEOREM TypeCorrect == Spec => []TypeOK
<1>1. LinkInv => TypeOK
  BY DEF LinkInv
<1> QED
  BY LinkCorrect, <1>1, PTL

\* No answer is lost and none is given twice, whenever the master is ready
\* and whether or not it reads and writes at the same time.
THEOREM LinkSound == Spec => []NothingLost
<1>1. LinkInv => NothingLost
  BY DEF LinkInv
<1> QED
  BY LinkCorrect, <1>1, PTL

-----------------------------------------------------------------------------
(* A write acts once, whatever the master does *)

\* A write that waits went to a slave that stores the word, and it is stored.
Stored == write_wait => Sel(addr) \notin Lfsrs /\ Written(dev, addr, wdata) = dev

ActInv == LinkInv /\ Stored

\* What the clock does to the slaves: a write acts in the cycle that takes it.
LEMMA ClockDev ==
  ASSUME ActInv, NEW bready \in BOOLEAN, NEW rready \in BOOLEAN, Clock(bready, rready)
  PROVE  dev' = IF NewWrite /\ w.full THEN Written(dev, a_axi2ipb(aw), w.data) ELSE dev
<1>1. dev' = IF BusWrite THEN Written(dev, BusAddr, BusData) ELSE dev
  BY DEF Clock, SlavesClock
<1>2. CASE NewWrite /\ w.full
  <2>1. BusWrite /\ BusAddr = a_axi2ipb(aw) /\ BusData = w.data
    BY <1>2 DEF BusWrite, BusAddr, BusData, BadStrobe, NewWrite, NewRead, IsRead
  <2> QED
    BY <1>1, <1>2, <2>1
<1>3. CASE NewWrite /\ ~w.full
  BY <1>1, <1>3 DEF BusWrite, BadStrobe
<1>4. CASE ~NewWrite /\ BusWrite
  <2>1. write_wait /\ BusAddr = addr /\ BusData = wdata
    BY <1>4 DEF BusWrite, BusAddr, BusData, BadStrobe, NewWrite, NewRead, IsRead
  <2> QED
    BY <1>1, <1>4, <2>1 DEF ActInv, Stored
<1>5. CASE ~NewWrite /\ ~BusWrite
  BY <1>1, <1>5
<1> QED
  BY <1>2, <1>3, <1>4, <1>5

\* No registered slave and no LFSR is strobed in a cycle without acknowledge.
LEMMA NoAck ==
  ASSUME ~Ack, BusStrobe
  PROVE  Sel(BusAddr) \notin Lfsrs
BY DEF Ack, Strobed

LEMMA ClockStored ==
  ASSUME ActInv, NEW bready \in BOOLEAN, NEW rready \in BOOLEAN, Clock(bready, rready)
  PROVE  Stored'
<1> SUFFICES ASSUME write_wait' PROVE Sel(addr') \notin Lfsrs /\ Written(dev', addr', wdata') = dev'
  BY DEF Stored
<1>1. /\ write_wait' = IF IsWrite THEN ~Ack /\ ~BadStrobe ELSE write_wait
      /\ addr' = IF NewAddress THEN BusAddr ELSE addr
      /\ wdata' = IF NewWrite /\ ~BadStrobe THEN BusData ELSE wdata
  BY DEF Clock, Latch
<1>2. CASE NewWrite
  <2>1. ~Ack /\ ~BadStrobe /\ w.full
    BY <1>1, <1>2 DEF NewWrite, BadStrobe
  <2>2. BusAddr = a_axi2ipb(aw) /\ BusData = w.data
    BY <1>2, <2>1 DEF BusAddr, BusData, BadStrobe, NewWrite, NewRead, IsRead
  <2>3. addr' = BusAddr /\ wdata' = BusData /\ dev' = Written(dev, BusAddr, BusData)
    BY <1>1, <1>2, <2>1, <2>2, ClockDev DEF NewAddress
  <2>4. Sel(BusAddr) \notin Lfsrs
    BY <1>2, <2>1, NoAck DEF BusStrobe, NewWrite
  <2>5. dev \in [Cells -> Word] /\ BusAddr \in Nat /\ BusData \in Word
    BY BusFacts DEF ActInv, LinkInv, TypeOK
  <2> QED
    BY <2>3, <2>4, <2>5, WrittenTwice
<1>3. CASE ~NewWrite
  <2>1. write_wait
    BY <1>1, <1>3 DEF NewWrite
  <2>2. ~NewRead
    BY <2>1 DEF NewRead, IsRead, IsWrite
  <2>3. addr' = addr /\ wdata' = wdata /\ dev' = dev
    BY <1>1, <1>3, <2>2, ClockDev DEF NewAddress
  <2> QED
    BY <2>1, <2>3 DEF ActInv, Stored
<1> QED
  BY <1>2, <1>3

LEMMA ActCorrect == Spec => []ActInv
<1>1. Init => Stored
  BY DEF Init, Stored
<1>2. ActInv /\ [Next]_vars => Stored'
  <2> SUFFICES ASSUME ActInv, [Next]_vars PROVE Stored'
    OBVIOUS
  <2>1. CASE UNCHANGED vars
    BY <2>1 DEF vars, bridgeVars, slaveVars, ActInv, Stored
  <2>2. CASE Master
    BY <2>2 DEF Master, PostAddress, PostRead, PostData, bridgeVars, slaveVars, ActInv, Stored
  <2>3. ASSUME NEW b \in BOOLEAN, NEW r \in BOOLEAN, Clock(b, r) PROVE Stored'
    BY <2>3, ClockStored
  <2>4. CASE Reset
    BY <2>4 DEF Reset, Stored
  <2> QED
    BY <2>1, <2>2, <2>3, <2>4 DEF Next
<1> QED
  BY LinkCorrect, <1>1, <1>2, PTL DEF Spec, ActInv

\* A word the master writes acts on the slaves in the cycle that takes it and
\* in no other, although the strobe stays up until the slave acknowledges: no
\* shift of an LFSR is made twice or left out (axil2ipb.vhd:41-42).
THEOREM ActSound == Spec => ActsOnce
<1> DEFINE Once == LET accepted == aw # None /\ aw' = None /\ w.full IN
     \/ Reset
     \/ dev' = IF accepted THEN Written(dev, a_axi2ipb(aw), w.data) ELSE dev
<1>1. ActInv /\ [Next]_vars => [Once]_vars
  <2> SUFFICES ASSUME ActInv, Next PROVE Once
    OBVIOUS
  <2>1. CASE Master
    BY <2>1, NoneFacts DEF Master, PostAddress, PostRead, PostData, slaveVars
  <2>2. ASSUME NEW b \in BOOLEAN, NEW r \in BOOLEAN, Clock(b, r) PROVE Once
    <3>1. aw # None /\ aw' = None <=> NewWrite
      BY <2>2, BusFacts DEF Clock, ActInv
    <3> QED
      BY <2>2, <3>1, ClockDev
  <2>3. CASE Reset
    BY <2>3
  <2> QED
    BY <2>1, <2>2, <2>3 DEF Next
<1> QED
  BY ActCorrect, <1>1, PTL DEF Spec, ActsOnce

-----------------------------------------------------------------------------
(* A master that makes one access at a time has atomic registers *)

Alone == Writing => ~Reading

\* Only the slave of the access in progress acknowledges.
AckOwned == \A s \in Registered : ack[s] => (write_wait \/ read_wait) /\ Sel(addr) = s

WriteHeld ==
  /\ write_wait => wr.addr = addr /\ wr.full
  /\ del_bresp => bresp = IF wr.full THEN "okay" ELSE "slverr"

ReadHeld ==
  /\ read_wait => /\ rd.addr = addr /\ Sel(addr) \notin Lfsrs
                  /\ Sel(addr) \in Registered => rq[Sel(addr)] = SlotData(dev, Sel(addr), addr)
  /\ del_rresp => rdata = Peek(dev, rd.addr)

SeqInv == ActInv /\ Alone /\ AckOwned /\ WriteHeld /\ ReadHeld

\* At most one request is in progress, and the bridge starts no second one.
LEMMA SeqFacts ==
  ASSUME SeqInv
  PROVE  /\ NewWrite => /\ wr = None /\ rd = None /\ ar = None
                        /\ ~write_wait /\ ~read_wait /\ ~del_bresp /\ ~del_rresp
                        /\ ~IsRead /\ ~NewRead
         /\ NewRead => /\ wr = None /\ rd = None
                       /\ ~write_wait /\ ~read_wait /\ ~del_bresp /\ ~del_rresp
                       /\ ~IsWrite /\ ~NewWrite
         /\ write_wait => /\ IsWrite /\ ~IsRead /\ ~NewRead /\ ~read_wait
                          /\ ~del_bresp /\ ~del_rresp /\ rd = None
         /\ read_wait => /\ IsRead /\ ~IsWrite /\ ~NewWrite /\ ~write_wait
                         /\ ~del_bresp /\ ~del_rresp /\ wr = None
         /\ del_bresp => ~IsRead /\ ~IsWrite /\ rd = None
         /\ del_rresp => ~IsRead /\ ~IsWrite /\ wr = None
<1>1. /\ write_wait \in BOOLEAN /\ read_wait \in BOOLEAN
      /\ del_bresp \in BOOLEAN /\ del_rresp \in BOOLEAN
      /\ wr # None <=> write_wait \/ del_bresp
      /\ rd # None <=> read_wait \/ del_rresp
      /\ ~(write_wait /\ del_bresp) /\ ~(read_wait /\ del_rresp)
      /\ ~(aw # None \/ w # None \/ wr # None) \/ ~(ar # None \/ rd # None)
  BY DEF SeqInv, ActInv, LinkInv, TypeOK, NothingLost, Apart, Alone, Writing, Reading
<1> QED
  BY ONLY <1>1 DEF IsWrite, IsRead, NewWrite, NewRead, Free

\* The slave of an access in progress acknowledges it; a new one only an LFSR.
LEMMA AckFacts ==
  ASSUME SeqInv
  PROVE  /\ NewWrite /\ Ack => ~BadStrobe
         /\ NewRead /\ Ack => Sel(BusAddr) \in Lfsrs
         /\ read_wait /\ Ack => Sel(addr) \in Registered
<1>1. CASE NewWrite
  <2>1. ~write_wait /\ ~read_wait /\ ~IsRead /\ ~NewRead
    BY <1>1, SeqFacts
  <2>2. \A s \in Registered : ~ack[s]
    BY <2>1 DEF SeqInv, AckOwned
  <2>3. BadStrobe => ~BusStrobe
    BY <2>1 DEF BusStrobe
  <2> QED
    BY <1>1, <2>1, <2>2, <2>3 DEF Ack, Strobed
<1>2. CASE NewRead
  <2>1. ~write_wait /\ ~read_wait /\ ~NewWrite
    BY <1>2, SeqFacts
  <2>2. \A s \in Registered : ~ack[s]
    BY <2>1 DEF SeqInv, AckOwned
  <2> QED
    BY <1>2, <2>1, <2>2 DEF Ack, Strobed
<1>3. CASE read_wait
  <2>1. ~NewRead /\ ~NewWrite /\ IsRead /\ ~IsWrite /\ ~BadStrobe
    BY <1>3, SeqFacts DEF NewRead, BadStrobe
  <2>2. BusAddr = addr
    BY <2>1 DEF BusAddr
  <2>3. Sel(addr) \notin Lfsrs
    BY <1>3 DEF SeqInv, ReadHeld
  <2>4. \A s \in Registered : ack[s] => Sel(addr) = s
    BY DEF SeqInv, AckOwned
  <2> QED
    BY <1>3, <2>1, <2>2, <2>3, <2>4 DEF Ack, Strobed
<1> QED
  BY <1>1, <1>2, <1>3

\* The data of a read that is acknowledged are what its address shows.
LEMMA ReadData ==
  ASSUME SeqInv
  PROVE  /\ NewRead /\ Ack => BusRdata = Peek(dev, a_axi2ipb(ar))
         /\ read_wait /\ Ack => BusRdata = Peek(dev, addr)
<1>0. Registered \cap Lfsrs = {} /\ NoSlot \notin Registered /\ NoSlot \notin Lfsrs
  BY DEF Registered, Lfsrs, NoSlot
<1>1. CASE NewRead /\ Ack
  <2>1. BusAddr = a_axi2ipb(ar)
    BY <1>1, SeqFacts DEF BusAddr, BadStrobe
  <2>2. Sel(BusAddr) \in Lfsrs
    BY <1>1, AckFacts
  <2>3. BusRdata = SlotData(dev, Sel(BusAddr), BusAddr)
    BY ONLY <2>2 DEF BusRdata, Registered, Lfsrs
  <2> QED
    BY <1>0, <1>1, <2>1, <2>2, <2>3, SeqFacts DEF Peek
<1>2. CASE read_wait /\ Ack
  <2>1. BusAddr = addr
    BY <1>2, SeqFacts DEF BusAddr, BadStrobe, NewRead
  <2>2. Sel(addr) \in Registered
    BY <1>2, AckFacts
  <2>3. BusRdata = rq[Sel(addr)]
    BY ONLY <2>1, <2>2 DEF BusRdata, Registered, Lfsrs
  <2>4. rq[Sel(addr)] = SlotData(dev, Sel(addr), addr)
    BY <1>2, <2>2 DEF SeqInv, ReadHeld
  <2> QED
    BY <1>0, <1>2, <2>2, <2>3, <2>4, SeqFacts DEF Peek, NewRead
<1> QED
  BY <1>1, <1>2

\* The answer offered for a write says whether all its bytes were strobed.
LEMMA WriteAnswer ==
  ASSUME SeqInv, BValid
  PROVE  BResp = IF WrNow.full THEN "okay" ELSE "slverr"
<1>1. CASE del_bresp
  BY <1>1, SeqFacts DEF SeqInv, WriteHeld, BResp, WrNow, NewWrite
<1>2. CASE ~del_bresp /\ BadStrobe
  <2>1. NewWrite /\ ~w.full /\ ~Ack
    BY <1>2, AckFacts DEF BadStrobe
  <2>2. WrNow.full = w.full
    BY <2>1 DEF WrNow
  <2> QED
    BY <1>2, <2>1, <2>2 DEF BResp
<1>3. CASE ~del_bresp /\ ~BadStrobe
  <2>1. IsWrite /\ Ack
    BY <1>3 DEF BValid
  <2>2. WrNow.full
    BY <1>3, <2>1 DEF WrNow, BadStrobe, NewWrite, SeqInv, WriteHeld
  <2> QED
    BY <1>3, <2>1, <2>2 DEF BResp
<1> QED
  BY <1>1, <1>2, <1>3

\* The answer offered for a read is what its address shows.
LEMMA ReadAnswer ==
  ASSUME SeqInv, RValid
  PROVE  RData = Peek(dev, RdNow.addr)
<1>1. CASE del_rresp
  BY <1>1, SeqFacts DEF SeqInv, ReadHeld, RData, RdNow, NewRead
<1>2. CASE ~del_rresp
  <2>1. IsRead /\ Ack
    BY <1>2 DEF RValid
  <2>2. CASE NewRead
    <3>1. RdNow.addr = a_axi2ipb(ar)
      BY <2>2 DEF RdNow
    <3> QED
      BY <1>2, <2>1, <2>2, <3>1, ReadData DEF RData
  <2>3. CASE ~NewRead
    <3>1. read_wait /\ RdNow.addr = addr
      BY <2>1, <2>3 DEF NewRead, RdNow, SeqInv, ReadHeld
    <3> QED
      BY <1>2, <2>1, <3>1, ReadData DEF RData
  <2> QED
    BY <2>2, <2>3
<1> QED
  BY <1>1, <1>2

LEMMA ClockSeq ==
  ASSUME SeqInv, NEW bready \in BOOLEAN, NEW rready \in BOOLEAN, Clock(bready, rready)
  PROVE  SeqInv'
<1>0. LinkInv /\ ActInv /\ NothingLost /\ Alone /\ AckOwned /\ WriteHeld /\ ReadHeld
  BY DEF SeqInv, ActInv, LinkInv
<1>1. ActInv' /\ NothingLost' /\ Apart'
  BY <1>0, ClockLink, ClockStored DEF ActInv, LinkInv
<1>2. /\ write_wait' = IF IsWrite THEN ~Ack /\ ~BadStrobe ELSE write_wait
      /\ read_wait' = IF IsRead THEN ~Ack ELSE read_wait
      /\ addr' = IF NewAddress THEN BusAddr ELSE addr
      /\ del_bresp' = (BValid /\ ~bready)
      /\ bresp' = IF KeepB(bready) THEN BResp ELSE bresp
      /\ del_rresp' = IF del_bresp THEN del_rresp ELSE RValid /\ ~rready
      /\ rdata' = IF RValid /\ ~rready THEN RData ELSE rdata
  BY DEF Clock, Latch, KeepB, KeepR
<1>3. ~NewWrite => dev' = dev
  BY <1>0, ClockDev
<1>4. Alone'
  <2>1. /\ aw' # None \/ w' # None => aw # None \/ w # None
        /\ ar' # None => ar # None
    BY DEF Clock
  <2>2. wr' # None => aw # None \/ wr # None
    <3>1. wr' # None => write_wait' \/ del_bresp'
      BY <1>1 DEF NothingLost
    <3> QED
      BY <1>0, <1>2, <3>1 DEF BValid, BadStrobe, NewWrite, IsWrite, NothingLost
  <2>3. rd' # None => ar # None \/ rd # None
    <3>1. rd' # None => read_wait' \/ del_rresp'
      BY <1>1 DEF NothingLost
    <3> QED
      BY <1>0, <1>2, <3>1 DEF RValid, IsRead, NothingLost
  <2> QED
    BY <1>0, <2>1, <2>2, <2>3 DEF Alone, Writing, Reading
<1>5. AckOwned'
  <2> SUFFICES ASSUME NEW s \in Registered, ack'[s]
               PROVE  (write_wait' \/ read_wait') /\ Sel(addr') = s
    BY DEF AckOwned
  <2>1. Strobed(s) /\ ~ack[s]
    BY DEF Clock, SlavesClock
  <2>2. BusStrobe /\ Sel(BusAddr) = s /\ s \notin Lfsrs
    BY <2>1 DEF Strobed, Registered, Lfsrs
  <2>3. ~NewWrite /\ ~NewRead => BusAddr = addr /\ ~BadStrobe
    BY <2>2 DEF BusAddr, BusStrobe, BadStrobe
  <2>4. \A t \in Registered : ~ack[t]
    <3> SUFFICES ASSUME NEW t \in Registered, ack[t] PROVE FALSE
      OBVIOUS
    <3>1. (write_wait \/ read_wait) /\ Sel(addr) = t
      BY <1>0 DEF AckOwned
    <3>2. ~NewWrite /\ ~NewRead
      BY <3>1, SeqFacts
    <3> QED
      BY <2>1, <2>2, <2>3, <3>1, <3>2
  <2>5. ~Ack
    BY <2>2, <2>4 DEF Ack, Strobed
  <2>6. (IsWrite /\ ~BadStrobe) \/ IsRead
    BY <2>2 DEF BusStrobe
  <2>7. addr' = BusAddr
    BY <1>2, <2>3, <2>6, SeqFacts DEF NewAddress, BadStrobe
  <2> QED
    BY <1>2, <2>2, <2>5, <2>6, <2>7
<1>6. WriteHeld'
  <2>1. ASSUME write_wait' PROVE wr'.addr = addr' /\ wr'.full
    <3>1. IsWrite /\ ~Ack /\ ~BadStrobe
      BY <1>2, <2>1, SeqFacts
    <3>2. ~del_bresp /\ ~BValid /\ ~NewRead
      BY <3>1 DEF IsWrite, Free, BValid, NewRead, IsRead
    <3>3. wr' = WrNow
      BY <3>2 DEF Clock
    <3>4. CASE NewWrite
      BY <1>2, <3>1, <3>2, <3>3, <3>4 DEF WrNow, NewAddress, BusAddr, BadStrobe
    <3>5. CASE ~NewWrite
      <4>1. write_wait /\ addr' = addr /\ wr' = wr
        BY <1>2, <3>1, <3>2, <3>3, <3>5 DEF NewWrite, WrNow, NewAddress
      <4> QED
        BY <1>0, <4>1 DEF WriteHeld
    <3> QED
      BY <3>4, <3>5
  <2>2. ASSUME del_bresp' PROVE bresp' = IF wr'.full THEN "okay" ELSE "slverr"
    <3>1. BValid /\ ~bready
      BY <1>2, <2>2
    <3>2. wr' = WrNow /\ bresp' = BResp
      BY <1>2, <3>1 DEF Clock, KeepB
    <3> QED
      BY <3>1, <3>2, WriteAnswer
  <2> QED
    BY <2>1, <2>2 DEF WriteHeld
<1>7. ReadHeld'
  <2>1. ASSUME read_wait'
        PROVE  /\ rd'.addr = addr' /\ Sel(addr') \notin Lfsrs
               /\ Sel(addr') \in Registered => rq'[Sel(addr')] = SlotData(dev', Sel(addr'), addr')
    <3>1. IsRead /\ ~Ack /\ ~IsWrite /\ ~NewWrite
      BY <1>2, <2>1, SeqFacts DEF IsRead, NewWrite
    <3>2. ~del_rresp /\ ~RValid /\ ~BadStrobe
      BY <3>1 DEF IsRead, Free, RValid, BadStrobe
    <3>3. RdNow \in Reads
      BY <1>0, <3>1, NowFacts DEF NewRead
    <3>4. rd'.addr = RdNow.addr
      <4> DEFINE vals == RdNow.vals \cup {Peek(dev', RdNow.addr)}
      <4>1. rd' = [RdNow EXCEPT !.vals = vals]
        BY <2>1, <3>2 DEF Clock
      <4> HIDE DEF vals
      <4> QED
        BY <3>3, <4>1 DEF Reads
    <3>5. RdNow.addr = BusAddr /\ addr' = BusAddr
      <4>1. CASE NewRead
        BY <1>2, <3>2, <3>1, <4>1 DEF RdNow, NewAddress, BusAddr
      <4>2. CASE ~NewRead
        <5>1. read_wait
          BY <3>1, <4>2 DEF NewRead
        <5>2. rd.addr = addr
          BY <1>0, <5>1 DEF ReadHeld
        <5> QED
          BY <1>2, <3>2, <3>1, <4>2, <5>2 DEF RdNow, NewAddress, BusAddr
      <4> QED
        BY <4>1, <4>2
    <3>6. Sel(BusAddr) \notin Lfsrs
      BY <3>1, NoAck DEF BusStrobe
    <3>7. \A s \in Registered : rq'[s] = SlotData(dev', s, BusAddr)
      BY <1>3, <3>1 DEF Clock, SlavesClock
    <3> QED
      BY <3>4, <3>5, <3>6, <3>7
  <2>2. ASSUME del_rresp' PROVE rdata' = Peek(dev', rd'.addr)
    <3>1. RValid /\ ~rready
      BY <1>0, <1>2, <2>2 DEF NothingLost
    <3>2. ~NewWrite /\ rdata' = RData
      BY <1>2, <3>1, SeqFacts DEF RValid
    <3>3. rd' = RdNow
      BY <1>1, <2>2, <3>1 DEF Clock, Apart
    <3> QED
      BY <1>3, <3>1, <3>2, <3>3, ReadAnswer
  <2> QED
    BY <2>1, <2>2 DEF ReadHeld
<1> QED
  BY <1>1, <1>4, <1>5, <1>6, <1>7 DEF SeqInv

LEMMA MasterSeq ==
  ASSUME Concurrent = FALSE, SeqInv, Master, ActInv'
  PROVE  SeqInv'
<1>1. Alone' /\ AckOwned' /\ WriteHeld' /\ ReadHeld'
  <2>1. ASSUME NEW a \in Addrs, PostAddress(a)
        PROVE  Alone' /\ AckOwned' /\ WriteHeld' /\ ReadHeld'
    <3>1. ~Reading /\ UNCHANGED <<w, ar, bridgeVars, slaveVars, historyVars>>
      BY <2>1 DEF PostAddress
    <3> QED
      BY <3>1 DEF SeqInv, Alone, AckOwned, WriteHeld, ReadHeld,
         Writing, Reading, bridgeVars, slaveVars, historyVars
  <2>2. ASSUME NEW a \in Addrs, PostRead(a)
        PROVE  Alone' /\ AckOwned' /\ WriteHeld' /\ ReadHeld'
    <3>1. ~Writing /\ UNCHANGED <<aw, w, bridgeVars, slaveVars, historyVars>>
      BY <2>2 DEF PostRead
    <3> QED
      BY <3>1 DEF SeqInv, Alone, AckOwned, WriteHeld, ReadHeld,
         Writing, Reading, bridgeVars, slaveVars, historyVars
  <2>3. ASSUME NEW d \in Data, NEW full \in Strobes, PostData(d, full)
        PROVE  Alone' /\ AckOwned' /\ WriteHeld' /\ ReadHeld'
    <3>1. ~Reading /\ UNCHANGED <<aw, ar, bridgeVars, slaveVars, historyVars>>
      BY <2>3 DEF PostData
    <3> QED
      BY <3>1 DEF SeqInv, Alone, AckOwned, WriteHeld, ReadHeld,
         Writing, Reading, bridgeVars, slaveVars, historyVars
  <2> QED
    BY <2>1, <2>2, <2>3 DEF Master
<1> QED
  BY <1>1 DEF SeqInv

LEMMA SeqInit == Init => Alone /\ AckOwned /\ WriteHeld /\ ReadHeld
BY DEF Init, Alone, Writing, Reading, AckOwned, WriteHeld, ReadHeld

LEMMA SeqCorrect == Concurrent = FALSE /\ Spec => []SeqInv
<1> SUFFICES ASSUME Concurrent = FALSE PROVE Spec => []SeqInv
  OBVIOUS
<1>1. SeqInv /\ [Next]_vars /\ ActInv' => SeqInv'
  <2> SUFFICES ASSUME SeqInv, [Next]_vars, ActInv' PROVE SeqInv'
    OBVIOUS
  <2>1. CASE UNCHANGED vars
    BY <2>1 DEF vars, bridgeVars, slaveVars, historyVars, SeqInv, Alone, AckOwned,
       WriteHeld, ReadHeld, Writing, Reading
  <2>2. CASE Master
    BY <2>2, MasterSeq
  <2>3. ASSUME NEW b \in BOOLEAN, NEW r \in BOOLEAN, Clock(b, r) PROVE SeqInv'
    BY <2>3, ClockSeq
  <2>4. CASE Reset
    BY <2>4 DEF Reset, SeqInv, Alone, AckOwned, WriteHeld, ReadHeld, Writing, Reading
  <2> QED
    BY <2>1, <2>2, <2>3, <2>4 DEF Next
<1>2. Init /\ ActInv => SeqInv
  BY SeqInit DEF SeqInv
<1> QED
  BY ActCorrect, <1>1, <1>2, PTL DEF Spec

\* The slaves of the abstract bus are those of the bridge.
LEMMA BusSame ==
  /\ Bus!Word = Word /\ Bus!Cells = Cells
  /\ \A d, a, x : Bus!Written(d, a, x) = Written(d, a, x)
  /\ \A d, a : Bus!Peek(d, a) = Peek(d, a)
  /\ \A d : Bus!Cleared(d) = Cleared(d)
<1>1. Bus!Word = Word /\ Bus!RAM = RAM /\ Bus!Lfsrs = Lfsrs /\ Bus!NoSlot = NoSlot
  BY DEF Bus!Word, Word, Bus!RAM, RAM, Bus!Lfsrs, Lfsrs, Bus!NoSlot, NoSlot
<1>2. \A s : Bus!Base(s) = Base(s)
  BY DEF Bus!Base, Base
<1>3. \A a : Bus!Sel(a) = Sel(a)
  BY <1>1 DEF Bus!Sel, Sel
<1>4. \A v, i : Bus!Bit(v, i) = Bit(v, i)
  BY DEF Bus!Bit, Bit
<1>5. \A s, v : Bus!Shifted(s, v) = Shifted(s, v)
  <2>1. \A s, v : {i \in Taps[s] : Bus!Bit(v, i) = 1} = {i \in Taps[s] : Bit(v, i) = 1}
    BY <1>4
  <2>2. \A S : Bus!Cardinality(S) = Cardinality(S)
    BY DEF Bus!Cardinality, Cardinality
  <2> QED
    BY <2>1, <2>2 DEF Bus!Shifted, Shifted
<1>6. \A d, s, a : Bus!SlotData(d, s, a) = SlotData(d, s, a)
  BY <1>1, <1>2 DEF Bus!SlotData, SlotData
<1>7. Bus!Cells = Cells
  BY <1>1, <1>2 DEF Bus!Cells, Cells
<1>8. \A d, a, x : Bus!Written(d, a, x) = Written(d, a, x)
  BY <1>1, <1>2, <1>3, <1>5 DEF Bus!Written, Written
<1>9. \A d, a : Bus!Peek(d, a) = Peek(d, a)
  BY <1>1, <1>3, <1>6 DEF Bus!Peek, Peek
<1>10. \A d : Bus!Cleared(d) = Cleared(d)
  BY <1>1, <1>2, <1>7 DEF Bus!Cleared, Cleared
<1> QED
  BY <1>1, <1>7, <1>8, <1>9, <1>10

\* The access in progress, of the bridge's two channels.
LEMMA RequestFacts ==
  ASSUME SeqInv
  PROVE  /\ Request = None <=> wr = None /\ rd = None
         /\ WrNow # None => [kind |-> "b", addr |-> WrNow.addr, data |-> WrNow.data,
                             full |-> WrNow.full] \in Bus!Requests
         /\ RdNow # None => [kind |-> "r", addr |-> RdNow.addr] \in Bus!Requests
<1>1. LinkInv /\ Data \subseteq Word
  BY AddrFacts DEF SeqInv, ActInv
<1>2. WrNow # None => WrNow \in Writes
  BY <1>1, NowFacts
<1>3. RdNow # None => RdNow \in Reads
  BY <1>1, NowFacts
<1>4. Writes \subseteq [addr : Int, data : Int, full : BOOLEAN]
      /\ Reads \subseteq [addr : Int, vals : SUBSET Int]
  <2>1. IpbAddrs \subseteq Int /\ Data \subseteq Int /\ Word \subseteq Int
    BY AddrFacts, WordFacts
  <2>2. ASSUME NEW v \in Reads PROVE v \in [addr : Int, vals : SUBSET Int]
    BY <2>1, <2>2 DEF Reads
  <2>3. Writes \subseteq [addr : Int, data : Int, full : BOOLEAN]
    BY <2>1 DEF Writes
  <2> QED
    BY <2>2, <2>3
<1>5. wr # None => [kind |-> "b", addr |-> wr.addr, data |-> wr.data, full |-> wr.full] # None
  <2> SUFFICES ASSUME wr # None
      PROVE [kind |-> "b", addr |-> wr.addr, data |-> wr.data, full |-> wr.full] # None
    OBVIOUS
  <2>1. wr \in [addr : Int, data : Int, full : BOOLEAN]
    BY <1>1, <1>4 DEF LinkInv, TypeOK, Writes
  <2>2. [kind |-> "b", addr |-> wr.addr, data |-> wr.data, full |-> wr.full]
          \in [kind : {"b"}, addr : Int, data : Int, full : BOOLEAN]
    BY <2>1
  <2> QED
    BY <2>2, NoneAssumption
<1>6. rd # None => [kind |-> "r", addr |-> rd.addr] # None
  <2> SUFFICES ASSUME rd # None PROVE [kind |-> "r", addr |-> rd.addr] # None
    OBVIOUS
  <2>1. rd \in [addr : Int, vals : SUBSET Int]
    BY <1>1, <1>4 DEF LinkInv, TypeOK, Reads
  <2>2. [kind |-> "r", addr |-> rd.addr] \in [kind : {"r"}, addr : Int]
    BY <2>1
  <2> QED
    BY <2>2, NoneAssumption
<1>7. Request = None <=> wr = None /\ rd = None
  BY <1>5, <1>6 DEF Request
<1>8. WrNow # None => [kind |-> "b", addr |-> WrNow.addr, data |-> WrNow.data,
                       full |-> WrNow.full] \in Bus!Requests
  BY <1>1, <1>2, BusSame DEF Bus!Requests, Writes
<1>9. RdNow # None => [kind |-> "r", addr |-> RdNow.addr] \in Bus!Requests
  BY <1>3 DEF Bus!Requests, Reads
<1> QED
  BY <1>7, <1>8, <1>9

\* What an answer of the abstract bus is.
LEMMA BusAnswer ==
  /\ \A d, a, x, f : Bus!Answer(d, [kind |-> "b", addr |-> a, data |-> x, full |-> f])
                       = IF f THEN "okay" ELSE "slverr"
  /\ \A d, a : Bus!Answer(d, [kind |-> "r", addr |-> a]) = Peek(d, a)
  /\ \A d, a, x, f : Bus!Effect(d, [kind |-> "b", addr |-> a, data |-> x, full |-> f])
                       = IF f THEN Written(d, a, x) ELSE d
  /\ \A d, a : Bus!Effect(d, [kind |-> "r", addr |-> a]) = d
BY BusSame DEF Bus!Answer, Bus!Effect

\* A clock that gives an answer replies to the request, a new one or an old
\* one; a clock that takes a request and gives none accepts it.
LEMMA ClockBus ==
  ASSUME SeqInv, NEW bready \in BOOLEAN, NEW rready \in BOOLEAN, Clock(bready, rready)
  PROVE  Bus!Next
<1> DEFINE wreq == [kind |-> "b", addr |-> WrNow.addr, data |-> WrNow.data, full |-> WrNow.full]
           rreq == [kind |-> "r", addr |-> RdNow.addr]
<1>0. LinkInv /\ ActInv /\ NothingLost
  BY DEF SeqInv, ActInv, LinkInv
<1>1. SeqInv'
  BY ClockSeq
<1>2. dev' = IF NewWrite /\ w.full THEN Written(dev, a_axi2ipb(aw), w.data) ELSE dev
  BY <1>0, ClockDev
<1>3. NewWrite => WrNow = [addr |-> a_axi2ipb(aw), data |-> w.data, full |-> w.full]
  BY DEF WrNow
<1>4. CASE BValid /\ bready
  <2>1. WrNow # None /\ ~RValid
    BY <1>0, <1>4, AnswerFacts
  <2>2. wreq \in Bus!Requests
    BY <2>1, RequestFacts
  <2>3. rd = None /\ ~NewRead
    BY <1>0, <2>1, NowFacts, SeqFacts DEF NothingLost
  <2>4. wr' = None /\ rd' = None
    <3>1. ~read_wait' /\ ~del_rresp'
      BY <1>0, <2>1, <2>3, <1>4, SeqFacts
      DEF Clock, Latch, KeepR, NothingLost, NewRead
    <3>2. NothingLost'
      BY <1>1 DEF SeqInv, ActInv, LinkInv
    <3> QED
      BY <1>4, <3>1, <3>2 DEF Clock, NothingLost
  <2>5. last' = [kind |-> "b", addr |-> WrNow.addr, data |-> WrNow.data,
                 full |-> WrNow.full, resp |-> BResp]
    BY <1>4, <2>1 DEF Clock
  <2>6. BResp = Bus!Answer(dev, wreq)
    BY <1>4, WriteAnswer, BusAnswer
  <2>7. Answered' = [kind |-> wreq.kind, addr |-> wreq.addr, answer |-> Bus!Answer(dev, wreq)]
    BY <2>5, <2>6 DEF Answered
  <2>8. Request' = None
    BY <2>4 DEF Request
  <2>9. CASE NewWrite
    <3>1. Request = None
      BY <2>9, RequestFacts, SeqFacts
    <3>2. dev' = Bus!Effect(dev, wreq)
      BY <1>2, <1>3, <2>9, BusAnswer
    <3>3. Bus!Reply(wreq)
      BY <2>7, <2>8, <3>1, <3>2 DEF Bus!Reply
    <3> QED
      BY <2>2, <3>1, <3>3 DEF Bus!Next
  <2>10. CASE ~NewWrite
    <3>1. WrNow = wr /\ wr # None /\ dev' = dev
      BY <1>2, <2>1, <2>10 DEF WrNow
    <3>2. Request = wreq /\ Request # None
      BY <3>1, RequestFacts DEF Request
    <3>3. Bus!Reply(wreq)
      BY <2>7, <2>8, <3>1, <3>2 DEF Bus!Reply
    <3> QED
      BY <3>2, <3>3 DEF Bus!Next
  <2> QED
    BY <2>9, <2>10
<1>5. CASE RValid /\ rready
  <2>1. RdNow # None /\ ~BValid
    BY <1>0, <1>5, AnswerFacts
  <2>2. rreq \in Bus!Requests
    BY <2>1, RequestFacts
  <2>3. wr = None /\ ~NewWrite /\ ~IsWrite
    BY <1>0, <2>1, NowFacts, SeqFacts DEF NothingLost, NewRead
  <2>4. wr' = None /\ rd' = None
    <3>1. WrNow = None /\ wr' = WrNow
      BY <2>1, <2>3 DEF WrNow, Clock
    <3>2. ~read_wait' /\ ~del_rresp'
      BY <1>0, <1>5, <2>1, <2>3
      DEF Clock, Latch, KeepR, BValid, RValid, NothingLost, Apart, LinkInv, IsRead, Free
    <3>3. NothingLost'
      BY <1>1 DEF SeqInv, ActInv, LinkInv
    <3> QED
      BY <3>1, <3>2, <3>3 DEF NothingLost
  <2>5. last' = [kind |-> "r", addr |-> RdNow.addr, vals |-> RdNow.vals, data |-> RData]
    BY <1>5, <2>1 DEF Clock
  <2>6. RData = Bus!Answer(dev, rreq)
    BY <1>5, ReadAnswer, BusAnswer
  <2>7. Answered' = [kind |-> rreq.kind, addr |-> rreq.addr, answer |-> Bus!Answer(dev, rreq)]
    BY <2>5, <2>6 DEF Answered
  <2>8. Request' = None /\ dev' = dev
    BY <1>2, <2>3, <2>4 DEF Request
  <2>9. CASE NewRead
    <3>1. Request = None
      BY <2>9, RequestFacts, SeqFacts
    <3>2. dev' = Bus!Effect(dev, rreq)
      BY <2>8, BusAnswer
    <3>3. Bus!Reply(rreq)
      BY <2>7, <2>8, <3>1, <3>2 DEF Bus!Reply
    <3> QED
      BY <2>2, <3>1, <3>3 DEF Bus!Next
  <2>10. CASE ~NewRead
    <3>1. RdNow = rd /\ rd # None
      BY <2>1, <2>10 DEF RdNow
    <3>2. Request = rreq /\ Request # None
      BY <2>3, <3>1, RequestFacts DEF Request
    <3>3. Bus!Reply(rreq)
      BY <2>7, <2>8, <3>2 DEF Bus!Reply
    <3> QED
      BY <3>2, <3>3 DEF Bus!Next
  <2> QED
    BY <2>9, <2>10
<1>6. CASE ~(BValid /\ bready) /\ ~(RValid /\ rready)
  <2>1. last' = NoAnswer /\ wr' = WrNow
    BY <1>6 DEF Clock
  <2>2. Answered' = Bus!NoAnswer
    BY <2>1 DEF Answered, NoAnswer, Bus!NoAnswer
  <2>3. rd' # None => rd'.addr = RdNow.addr
    <3>1. CASE read_wait'
      <4> DEFINE vals == RdNow.vals \cup {Peek(dev', RdNow.addr)}
      <4>1. rd' = [RdNow EXCEPT !.vals = vals]
        BY <1>6, <3>1 DEF Clock
      <4>2. RdNow # None
        BY <1>0, <3>1, NowFacts DEF Clock, Latch, NewRead
      <4>3. RdNow \in Reads
        BY <1>0, <4>2, NowFacts
      <4> HIDE DEF vals
      <4> QED
        BY <4>1, <4>3 DEF Reads
    <3>2. CASE ~read_wait'
      BY <1>6, <3>2 DEF Clock
    <3> QED
      BY <3>1, <3>2
  <2>4. rd' = None <=> RdNow = None
    <3>1. NothingLost'
      BY <1>1 DEF SeqInv, ActInv, LinkInv
    <3>2. rd' # None <=> read_wait' \/ del_rresp'
      BY <3>1 DEF NothingLost
    <3>3. RdNow # None <=> NewRead \/ read_wait \/ del_rresp
      BY <1>0, NowFacts
    <3>4. /\ read_wait' = IF IsRead THEN ~Ack ELSE read_wait
          /\ del_rresp' = IF del_bresp THEN del_rresp ELSE RValid /\ ~rready
      BY DEF Clock, Latch, KeepR
    <3>5. read_wait \in BOOLEAN /\ del_rresp \in BOOLEAN /\ del_bresp \in BOOLEAN
      BY <1>0 DEF LinkInv, TypeOK
    <3> QED
      BY ONLY <1>6, <3>2, <3>3, <3>4, <3>5 DEF RValid, IsRead, NewRead, Free
  <2>5. CASE NewWrite
    <3>1. Request = None /\ rd = None /\ ~NewRead
      BY <2>5, RequestFacts, SeqFacts
    <3>2. WrNow # None
      BY <1>0, <2>5, NowFacts
    <3>3. Request' = wreq
      BY <2>1, <3>2 DEF Request
    <3>4. dev' = Bus!Effect(dev, wreq)
      BY <1>2, <1>3, <2>5, BusAnswer
    <3>5. Bus!Accept
      BY <2>2, <3>1, <3>2, <3>3, <3>4, RequestFacts DEF Bus!Accept
    <3> QED
      BY <3>5 DEF Bus!Next
  <2>6. CASE NewRead
    <3>1. Request = None /\ wr = None /\ ~NewWrite
      BY <2>6, RequestFacts, SeqFacts
    <3>2. RdNow # None
      BY <1>0, <2>6, NowFacts
    <3>3. WrNow = None
      BY <3>1 DEF WrNow
    <3>4. Request' = rreq
      BY <2>1, <2>3, <2>4, <3>2, <3>3 DEF Request
    <3>5. dev' = Bus!Effect(dev, rreq)
      BY <1>2, <3>1, BusAnswer
    <3>6. Bus!Accept
      BY <2>2, <3>1, <3>2, <3>4, <3>5, RequestFacts DEF Bus!Accept
    <3> QED
      BY <3>6 DEF Bus!Next
  <2>7. CASE ~NewWrite /\ ~NewRead
    <3>1. wr' = wr /\ (rd' = None <=> rd = None) /\ (rd' # None => rd'.addr = rd.addr)
      BY <2>1, <2>3, <2>4, <2>7 DEF WrNow, RdNow
    <3>2. Request' = Request
      BY <3>1 DEF Request
    <3>3. dev' = dev
      BY <1>2, <2>7
    <3> QED
      BY <2>2, <3>2, <3>3 DEF Bus!Next, Bus!Forget
  <2> QED
    BY <2>5, <2>6, <2>7
<1> QED
  BY <1>4, <1>5, <1>6

\* For a master that makes one access at a time the bridge with its slaves is
\* a device whose accesses are atomic: each acts on the contents once, when it
\* is accepted, and its answer is determined then, for any width of a word,
\* size of the RAM, taps and addresses.
THEOREM AtomicSound == Concurrent = FALSE /\ Spec => AtomicAccess
<1> SUFFICES ASSUME Concurrent = FALSE PROVE Spec => AtomicAccess
  OBVIOUS
<1>1. Init => Bus!Init
  BY BusSame DEF Init, Bus!Init, Request, Answered, NoAnswer, Bus!NoAnswer
<1>2. SeqInv /\ [Next]_vars => [Bus!Next]_Bus!busvars
  <2> SUFFICES ASSUME SeqInv, [Next]_vars PROVE [Bus!Next]_Bus!busvars
    OBVIOUS
  <2>1. CASE UNCHANGED <<dev, wr, rd, last>>
    BY <2>1 DEF Bus!busvars, Request, Answered
  <2>2. CASE UNCHANGED vars
    BY <2>1, <2>2 DEF vars, slaveVars, historyVars
  <2>3. CASE Master
    <3>1. UNCHANGED <<slaveVars, historyVars>>
      BY <2>3 DEF Master, PostAddress, PostRead, PostData
    <3> QED
      BY <2>1, <3>1 DEF slaveVars, historyVars
  <2>4. ASSUME NEW b \in BOOLEAN, NEW r \in BOOLEAN, Clock(b, r) PROVE Bus!Next
    BY <2>4, ClockBus
  <2>5. CASE Reset
    BY <2>5, BusSame
    DEF Reset, Bus!Next, Bus!Restart, Request, Answered, NoAnswer, Bus!NoAnswer
  <2> QED
    BY <2>2, <2>3, <2>4, <2>5 DEF Next
<1> QED
  BY SeqCorrect, <1>1, <1>2, PTL DEF Spec, AtomicAccess, Bus!Spec
=============================================================================
