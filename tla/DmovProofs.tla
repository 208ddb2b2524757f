----------------------------- MODULE DmovProofs -----------------------------
(***************************************************************************)
(* What holds of the axi4s2dmov driver for every ring size, every number   *)
(* of packets and every status the DataMover may return: who owns a buffer *)
(* and, where no command is lost, that the driver implements a FIFO.       *)
(***************************************************************************)
EXTENDS DmovInvariant, TLAPS

-----------------------------------------------------------------------------
(* Queues and constants *)

\* What appending to a queue does to its elements.
LEMMA AppendFacts ==
  ASSUME NEW S, NEW q \in Seq(S), NEW e \in S
  PROVE  /\ Append(q, e) \in Seq(S)
         /\ \A i \in DOMAIN Append(q, e) :
              \/ i \in DOMAIN q /\ Append(q, e)[i] = q[i]
              \/ i = Len(q) + 1 /\ Append(q, e)[i] = e
         /\ Append(q, e) # <<>>
OBVIOUS

\* What removing the head of a queue does to its elements.
LEMMA TailFacts ==
  ASSUME NEW S, NEW q \in Seq(S), q # <<>>
  PROVE  /\ Tail(q) \in Seq(S) /\ Head(q) \in S
         /\ 1 \in DOMAIN q /\ Head(q) = q[1]
         /\ \A i \in DOMAIN Tail(q) :
              i # 0 /\ i \in Int /\ i + 1 \in DOMAIN q /\ Tail(q)[i] = q[i + 1]
OBVIOUS

LEMMA EmptyFacts ==
  /\ \A S : <<>> \in Seq(S)
  /\ DOMAIN <<>> = {}
OBVIOUS

LEMMA ElementType ==
  ASSUME NEW S, NEW q \in Seq(S), NEW i \in DOMAIN q
  PROVE  q[i] \in S
OBVIOUS

LEMMA ConstFacts ==
  /\ 0 \in Buf /\ 0 \in Lens /\ 1 \in Packet
  /\ NoResult \in Result
  /\ \A p \in Packet : p \in Lens /\ p # 0 /\ SuccPacket(p) \in Packet
  /\ \A b \in Buf : b \in Nat /\ b < BUF_NUM /\ Succ(b) \in Buf
  /\ \A n \in 0..BUF_NUM : n < BUF_NUM => n \in Buf /\ n + 1 \in 0..BUF_NUM
  /\ 0 \in 0..BUF_NUM
BY BufNumAssumption, PktsAssumption
DEF Buf, Lens, Packet, NoResult, Result, Succ, SuccPacket

-----------------------------------------------------------------------------
(* Types *)

LEMMA TypeInit == Init => TInv
<1> SUFFICES ASSUME Init PROVE TInv
  OBVIOUS
<1>1. /\ mem \in [Buf -> Lens] /\ blen \in [Buf -> Lens] /\ bready \in [Buf -> {0, 1}]
      /\ cmds \in Seq(Buf) /\ stsq \in Seq(Status)
  BY ConstFacts, EmptyFacts DEF Init
<1>2. /\ pc \in [Threads -> Labels] /\ idx \in [Threads -> 0..BUF_NUM]
      /\ held \in [Threads -> Result]
  BY ConstFacts DEF Init, Labels
<1> QED
  BY <1>1, <1>2, ConstFacts DEF Init, TInv, TypeOK, Consistent, IsrLabels

LEMMA TypeStep == TInv /\ [Next]_vars => TInv'
<1> SUFFICES ASSUME TInv, [Next]_vars PROVE TInv'
  OBVIOUS
<1> USE ConstFacts
    DEF TInv, TypeOK, Consistent, Labels, UserStates, KernelStates, IsrLabels, Goto,
        gpioVars, fifoVars, dmVars, ringVars, irqVars, isrVars, procVars
<1>1. CASE DmBegin
  <2>1. Head(cmds) \in Buf
    BY <1>1, TailFacts DEF DmBegin
  <2> QED
    BY <1>1, <2>1 DEF DmBegin
<1>2. CASE IsrEnter
  BY <1>2 DEF IsrEnter
<1>3. CASE IsrOccupancy
  BY <1>3 DEF IsrOccupancy
<1>4. CASE IsrLength
  BY <1>4 DEF IsrLength
<1>5. CASE IsrStatusBad
  <2>1. CASE stsq = <<>> /\ stsq' = stsq
    BY <1>5, <2>1 DEF IsrStatusBad
  <2>2. CASE stsq # <<>> /\ stsq' = Tail(stsq)
    <3>1. stsq' \in Seq(Status)
      BY <2>2, TailFacts
    <3> QED
      BY <1>5, <3>1 DEF IsrStatusBad
  <2> QED
    BY <1>5, <2>1, <2>2 DEF IsrStatusBad
<1>6. CASE IsrStatusOkay
  <2>1. stsq' \in Seq(Status) /\ Head(stsq) \in Status
    BY <1>6, TailFacts DEF IsrStatusOkay
  <2>2. Head(stsq).tag \in Buf /\ Head(stsq).len \in Lens
    BY <2>1 DEF Status
  <2> QED
    BY <1>6, <2>1, <2>2 DEF IsrStatusOkay
<1>7. CASE IsrReady
  BY <1>7 DEF IsrReady
<1>8. CASE IsrWake
  BY <1>8 DEF IsrWake
<1>9. ASSUME NEW kind \in Kinds, DmComplete(kind) PROVE TInv'
  <2>1. cmds' \in Seq(Buf) /\ Head(cmds) \in Buf
    BY <1>9, TailFacts DEF DmComplete
  <2>2. [tag |-> Head(cmds), kind |-> kind, len |-> src] \in Status
    BY <2>1, KindsAssumption DEF Status
  <2>3. stsq' \in Seq(Status)
    BY <1>9, <2>2, AppendFacts DEF DmComplete
  <2> QED
    BY <1>9, <2>1, <2>3 DEF DmComplete
<1>10. ASSUME NEW t \in Threads, ResetRelease(t) PROVE TInv'
  BY <1>10 DEF ResetRelease
<1>11. ASSUME NEW t \in Threads, ResetFifo(t) PROVE TInv'
  <2>1. cmds' \in Seq(Buf) /\ (dm_busy' => cmds' # <<>>)
    BY <1>11, TailFacts DEF ResetFifo
  <2> QED
    BY <1>11, <2>1 DEF ResetFifo
<1>12. ASSUME NEW t \in Threads, StartSubmit(t) PROVE TInv'
  <2>1. CASE idx[t] < BUF_NUM /\ TransferBuf(idx[t])
    <3>1. idx[t] \in Buf
      BY <2>1
    <3>2. cmds' \in Seq(Buf) /\ (dm_busy => cmds' # <<>>)
      BY <2>1, <3>1, AppendFacts DEF TransferBuf
    <3>3. idx' \in [Threads -> 0..BUF_NUM]
      BY <1>12, <2>1 DEF StartSubmit
    <3> QED
      BY <1>12, <3>2, <3>3 DEF StartSubmit
  <2>2. CASE idx[t] = BUF_NUM /\ cmds' = cmds
    <3>1. idx' = [idx EXCEPT ![t] = 0] /\ pc' = [pc EXCEPT ![t] = "start_enable"]
      <4>1. ~(idx[t] < BUF_NUM)
        BY <2>2, BufNumAssumption
      <4> QED
        BY <1>12, <4>1 DEF StartSubmit
    <3>2. idx' \in [Threads -> 0..BUF_NUM] /\ pc' \in [Threads -> Labels]
      BY <3>1
    <3> QED
      BY <1>12, <2>2, <3>2 DEF StartSubmit
  <2> QED
    BY <1>12, <2>1, <2>2 DEF StartSubmit
<1>13. ASSUME NEW t \in Threads, StartEnable(t) PROVE TInv'
  BY <1>13 DEF StartEnable
<1>14. ASSUME NEW t \in Threads, StartGo(t) PROVE TInv'
  BY <1>14 DEF StartGo
<1>15. ASSUME NEW t \in Threads, GetWait(t) PROVE TInv'
  BY <1>15 DEF GetWait
<1>16. ASSUME NEW t \in Threads, GetRead(t) PROVE TInv'
  BY <1>16 DEF GetRead, Result
<1>17. ASSUME NEW t \in Threads, ConfirmClear(t) PROVE TInv'
  BY <1>17 DEF ConfirmClear
<1>18. ASSUME NEW t \in Threads, ConfirmSubmit(t) PROVE TInv'
  <2>1. cmds' \in Seq(Buf) /\ (dm_busy => cmds' # <<>>)
    BY <1>18, AppendFacts DEF ConfirmSubmit, TransferBuf
  <2> QED
    BY <1>18, <2>1 DEF ConfirmSubmit
<1>19. ASSUME NEW t \in Threads, ConfirmNext(t) PROVE TInv'
  BY <1>19 DEF ConfirmNext
<1>20. ASSUME NEW t \in Threads, ReleaseStop(t) PROVE TInv'
  BY <1>20 DEF ReleaseStop, StopAcquisition
<1>21. ASSUME NEW t \in Threads, ReleaseIrq(t) PROVE TInv'
  <2>1. pc' \in [Threads -> Labels]
    BY <1>21 DEF ReleaseIrq
  <2>2. irq_set' = FALSE /\ handlers' \in Nat
    <3>1. CASE irq_set
      BY <1>21, <3>1 DEF ReleaseIrq
    <3>2. CASE ~irq_set
      BY <1>21, <3>2 DEF ReleaseIrq
    <3> QED
      BY <3>1, <3>2
  <2> QED
    BY <1>21, <2>1, <2>2 DEF ReleaseIrq
<1>22. ASSUME NEW t \in Threads, Open(t) PROVE TInv'
  <2>1. pc' \in [Threads -> Labels]
    BY <1>22 DEF Open
  <2>2. /\ irq_set' \in BOOLEAN /\ handlers' \in Nat
        /\ irq_set' => handlers' > 0
    <3>1. CASE irq_set' = TRUE /\ handlers' = handlers + 1
      BY <3>1
    <3>2. CASE irq_set' = FALSE /\ handlers' = handlers
      BY <3>2
    <3> QED
      BY <1>22, <3>1, <3>2 DEF Open
  <2> QED
    BY <1>22, <2>1, <2>2 DEF Open
<1>23. ASSUME NEW t \in Threads, ResetAssert(t) PROVE TInv'
  <2>1. pc' \in [Threads -> Labels]
    BY <1>23 DEF ResetAssert
  <2>2. cmds' \in Seq(Buf) /\ stsq' \in Seq(Status)
    BY <1>23, EmptyFacts DEF ResetAssert, HardwareReset
  <2> QED
    BY <1>23, <2>1, <2>2 DEF ResetAssert, HardwareReset
<1>24. ASSUME NEW t \in Threads, StartRefused(t) PROVE TInv'
  BY <1>24 DEF StartRefused
<1>25. ASSUME NEW t \in Threads, StartClear(t) PROVE TInv'
  BY <1>25 DEF StartClear, ClearRing
<1>26. ASSUME NEW t \in Threads, Stop(t) PROVE TInv'
  BY <1>26 DEF Stop
<1>27. ASSUME NEW t \in Threads, GetCall(t) PROVE TInv'
  BY <1>27 DEF GetCall
<1>28. ASSUME NEW t \in Threads, GetSignal(t) PROVE TInv'
  BY <1>28 DEF GetSignal
<1>29. ASSUME NEW t \in Threads, ConfirmCall(t) PROVE TInv'
  BY <1>29 DEF ConfirmCall
<1>30. ASSUME NEW t \in Threads, Close(t) PROVE TInv'
  BY <1>30 DEF Close
<1>31. CASE UNCHANGED vars
  BY <1>31 DEF vars
<1> QED
  BY <1>1, <1>2, <1>3, <1>4, <1>5, <1>6, <1>7, <1>8, <1>9, <1>10, <1>11, <1>12, <1>13, <1>14, <1>15, <1>16, <1>17, <1>18, <1>19, <1>20, <1>21, <1>22, <1>23, <1>24, <1>25, <1>26, <1>27, <1>28, <1>29, <1>30, <1>31
  DEF Next, Hardware, Handler, InCall, Call

\* Every variable keeps its type: in particular received_buf and exp_buf stay
\* indices of the ring, for any number of processes and any order of calls.
THEOREM TypeCorrect == Spec => []TypeOK
<1>1. Spec => []TInv
  BY TypeInit, TypeStep, PTL DEF Spec
<1>2. TInv => TypeOK
  BY DEF TInv
<1> QED
  BY <1>1, <1>2, PTL

-----------------------------------------------------------------------------
(* Ownership and integrity, for one process that keeps to the call order *)

LEMMA InvInit == Init => IInv
<1> SUFFICES ASSUME Init PROVE IInv
  OBVIOUS
<1>1. TInv
  BY TypeInit
<1>2. OneOwner /\ Starting /\ Intact
  BY EmptyFacts DEF Init, OneOwner, Starting, Intact
<1>3. Quiet /\ Confirming
  BY DEF Init, Quiet, Confirming
<1> QED
  BY <1>1, <1>2, <1>3 DEF IInv

LEMMA InvStep ==
  ASSUME SingleUser, IInv, [Next]_vars
  PROVE  IInv'
<1>0. PICK u : Threads = {u}
  BY DEF SingleUser
<1>f. FreeOrder = FALSE
  BY DEF SingleUser
<1>t. TInv'
  BY TypeStep DEF IInv
<1> USE <1>0, <1>t, ConstFacts
    DEF IInv, TInv, TypeOK, Consistent, Goto, gpioVars, fifoVars, dmVars, ringVars,
        irqVars, isrVars, procVars
<1>1. CASE DmBegin
  <2>1. OneOwner'
    BY <1>1 DEF OneOwner, DmBegin
  <2>2. Quiet'
    BY <1>1 DEF Quiet, Empty, DmBegin
  <2>3. Starting'
    BY <1>1 DEF Starting, InHardware, DmBegin
  <2>4. Confirming'
    BY <1>1 DEF Confirming, InHardware, DmBegin
  <2>5. Intact'
    <3>1. 1 \in DOMAIN cmds /\ Head(cmds) = cmds[1] /\ Head(cmds) \in Buf
      BY <1>1, TailFacts DEF DmBegin
    <3>2. \A b \in Buf : b # cmds[1] => mem'[b] = mem[b]
      BY <1>1, <3>1 DEF DmBegin
    <3>3. \A j \in DOMAIN stsq : stsq[j].tag \in Buf
      <4>1. \A j \in DOMAIN stsq : stsq[j] \in Status
        BY ElementType
      <4> QED
        BY <4>1 DEF Status
    <3> QED
      BY <1>1, <3>1, <3>2, <3>3 DEF DmBegin, Intact, OneOwner
  <2> QED
    BY <2>1, <2>2, <2>3, <2>4, <2>5
<1>2. CASE IsrEnter
  <2>1. OneOwner'
    BY <1>2 DEF OneOwner, IsrEnter
  <2>2. Quiet'
    BY <1>2 DEF Quiet, Empty, IsrEnter
  <2>3. Starting'
    BY <1>2 DEF Starting, InHardware, IsrEnter
  <2>4. Confirming'
    BY <1>2 DEF Confirming, InHardware, IsrEnter
  <2>5. Intact'
    BY <1>2 DEF Intact, IsrEnter
  <2> QED
    BY <2>1, <2>2, <2>3, <2>4, <2>5
<1>3. CASE IsrOccupancy
  <2>1. OneOwner'
    BY <1>3 DEF OneOwner, IsrOccupancy
  <2>2. Quiet'
    BY <1>3 DEF Quiet, Empty, IsrOccupancy
  <2>3. Starting'
    BY <1>3 DEF Starting, InHardware, IsrOccupancy
  <2>4. Confirming'
    BY <1>3 DEF Confirming, InHardware, IsrOccupancy
  <2>5. Intact'
    BY <1>3 DEF Intact, IsrOccupancy
  <2> QED
    BY <2>1, <2>2, <2>3, <2>4, <2>5
<1>4. CASE IsrLength
  <2>1. OneOwner'
    BY <1>4 DEF OneOwner, IsrLength
  <2>2. Quiet'
    BY <1>4 DEF Quiet, Empty, IsrLength
  <2>3. Starting'
    BY <1>4 DEF Starting, InHardware, IsrLength
  <2>4. Confirming'
    BY <1>4 DEF Confirming, InHardware, IsrLength
  <2>5. Intact'
    BY <1>4 DEF Intact, IsrLength
  <2> QED
    BY <2>1, <2>2, <2>3, <2>4, <2>5
<1>5. CASE IsrStatusBad
  <2>a. \A j \in DOMAIN stsq' : \E k \in DOMAIN stsq : stsq'[j] = stsq[k] /\ j \in Int /\ (k = j \/ (k = j + 1 /\ stsq' = Tail(stsq)))
    <3>1. CASE stsq = <<>> /\ stsq' = stsq
      BY <3>1, EmptyFacts
    <3>2. CASE stsq # <<>> /\ stsq' = Tail(stsq)
      BY <3>2, TailFacts
    <3> QED
      BY <1>5, <3>1, <3>2 DEF IsrStatusBad
  <2>1. OneOwner'
    <3>1. \A i, j \in DOMAIN stsq' : stsq'[i].tag = stsq'[j].tag => i = j
      <4>1. CASE stsq = <<>> /\ stsq' = stsq
        BY <4>1, EmptyFacts
      <4>2. CASE stsq # <<>> /\ stsq' = Tail(stsq)
        <5>1. \A i \in DOMAIN stsq' :
                 i \in Int /\ i + 1 \in DOMAIN stsq /\ stsq'[i] = stsq[i + 1]
          BY <4>2, TailFacts
        <5>2. \A i, j \in DOMAIN stsq : stsq[i].tag = stsq[j].tag => i = j
          BY DEF OneOwner
        <5>3. ASSUME NEW i \in DOMAIN stsq', NEW j \in DOMAIN stsq',
                     stsq'[i].tag = stsq'[j].tag
              PROVE  i = j
          <6>1. i + 1 = j + 1
            BY <5>1, <5>2, <5>3
          <6> QED
            BY <5>1, <6>1
        <5> QED
          BY <5>3
      <4> QED
        BY <1>5, <4>1, <4>2 DEF IsrStatusBad
    <3> QED
      BY <1>5, <2>a, <3>1 DEF IsrStatusBad, OneOwner
  <2>2. Quiet'
    BY <1>5, EmptyFacts DEF Quiet, Empty, IsrStatusBad
  <2>3. Starting'
    BY <1>5, <2>a DEF Starting, InHardware, IsrStatusBad
  <2>4. Confirming'
    BY <1>5, <2>a DEF Confirming, InHardware, IsrStatusBad
  <2>5. Intact'
    BY <1>5, <2>a DEF Intact, IsrStatusBad
  <2> QED
    BY <2>1, <2>2, <2>3, <2>4, <2>5
<1>6. CASE IsrStatusOkay
  <2>1. OneOwner'
    BY <1>6 DEF OneOwner, IsrStatusOkay
  <2>2. Quiet'
    BY <1>6 DEF Quiet, Empty, IsrStatusOkay
  <2>3. Starting'
    BY <1>6 DEF Starting, InHardware, IsrStatusOkay
  <2>4. Confirming'
    BY <1>6 DEF Confirming, InHardware, IsrStatusOkay
  <2>5. Intact'
    <3>1. /\ stsq # <<>> /\ 1 \in DOMAIN stsq /\ Head(stsq) = stsq[1]
          /\ Head(stsq) \in Status
          /\ \A j \in DOMAIN stsq' : j + 1 \in DOMAIN stsq /\ stsq'[j] = stsq[j + 1]
      BY <1>6, TailFacts DEF IsrStatusOkay
    <3>2. nbuf' = stsq[1].tag /\ nbuf' \in Buf /\ bready[nbuf'] = 0
      BY <1>6, <3>1 DEF IsrStatusOkay, OneOwner, Status
    <3>3. blen'[nbuf'] = stsq[1].len /\ \A b \in Buf : b # nbuf' => blen'[b] = blen[b]
      BY <1>6, <3>1, <3>2 DEF IsrStatusOkay
    <3>4. blen'[nbuf'] # 0 /\ mem[nbuf'] = blen'[nbuf']
      BY <1>6, <3>1, <3>2, <3>3 DEF IsrStatusOkay, Intact
    <3>5. \A b \in Buf : bready[b] = 1 => blen'[b] # 0 /\ mem[b] = blen'[b]
      BY <3>2, <3>3 DEF Intact
    <3>6. \A t \in Threads : pc[t] = "got" => received_buf # nbuf'
      BY <3>2 DEF Confirming
    <3> QED
      BY <1>6, <3>1, <3>3, <3>4, <3>5, <3>6 DEF IsrStatusOkay, Intact
  <2> QED
    BY <2>1, <2>2, <2>3, <2>4, <2>5
<1>7. CASE IsrReady
  <2>1. OneOwner'
    BY <1>7 DEF OneOwner, IsrReady
  <2>2. Quiet'
    BY <1>7 DEF Quiet, Empty, IsrReady
  <2>3. Starting'
    BY <1>7 DEF Starting, InHardware, IsrReady
  <2>4. Confirming'
    BY <1>7 DEF Confirming, InHardware, IsrReady
  <2>5. Intact'
    BY <1>7 DEF Intact, IsrReady
  <2> QED
    BY <2>1, <2>2, <2>3, <2>4, <2>5
<1>8. CASE IsrWake
  <2>1. OneOwner'
    BY <1>8 DEF OneOwner, IsrWake
  <2>2. Quiet'
    BY <1>8 DEF Quiet, Empty, IsrWake
  <2>3. Starting'
    BY <1>8 DEF Starting, InHardware, IsrWake
  <2>4. Confirming'
    BY <1>8 DEF Confirming, InHardware, IsrWake
  <2>5. Intact'
    BY <1>8 DEF Intact, IsrWake
  <2> QED
    BY <2>1, <2>2, <2>3, <2>4, <2>5
<1>9. ASSUME NEW kind \in Kinds, DmComplete(kind) PROVE IInv'
  <2>1. OneOwner'
    BY <1>9 DEF OneOwner, DmComplete
  <2>2. Quiet'
    BY <1>9 DEF Quiet, Empty, DmComplete
  <2>3. Starting'
    BY <1>9 DEF Starting, InHardware, DmComplete
  <2>4. Confirming'
    BY <1>9 DEF Confirming, InHardware, DmComplete
  <2>5. Intact'
    <3>1. /\ 1 \in DOMAIN cmds /\ Head(cmds) = cmds[1] /\ Head(cmds) \in Buf
      BY <1>9, TailFacts DEF DmComplete
    <3>2. \A b \in Buf : b # cmds[1] => mem'[b] = mem[b]
      BY <1>9, <3>1 DEF DmComplete
    <3>3. \A j \in DOMAIN stsq : stsq[j].tag \in Buf
      <4>1. \A j \in DOMAIN stsq : stsq[j] \in Status
        BY ElementType
      <4> QED
        BY <4>1 DEF Status
    <3>4. [tag |-> Head(cmds), kind |-> kind, len |-> src] \in Status
      BY <3>1, KindsAssumption DEF Status
    <3>5. \A j \in DOMAIN stsq' :
            \/ j \in DOMAIN stsq /\ stsq'[j] = stsq[j]
            \/ stsq'[j] = [tag |-> cmds[1], kind |-> kind, len |-> src]
      BY <1>9, <3>1, <3>4, AppendFacts DEF DmComplete
    <3>6. kind = "okay" => mem'[cmds[1]] = src
      BY <1>9, <3>1 DEF DmComplete
    <3>7. \A j \in DOMAIN stsq' :
            stsq'[j].len # 0 /\ (stsq'[j].kind = "okay" => mem'[stsq'[j].tag] = stsq'[j].len)
      BY <3>1, <3>2, <3>3, <3>5, <3>6 DEF Intact, OneOwner
    <3> QED
      BY <1>9, <3>1, <3>2, <3>7 DEF DmComplete, Intact, OneOwner
  <2> QED
    BY <2>1, <2>2, <2>3, <2>4, <2>5
<1>10. ASSUME NEW t \in Threads, ResetRelease(t) PROVE IInv'
  <2>1. OneOwner'
    BY <1>10 DEF OneOwner, ResetRelease
  <2>2. Quiet'
    BY <1>10 DEF Quiet, Empty, ResetRelease
  <2>3. Starting'
    BY <1>10 DEF Starting, InHardware, ResetRelease
  <2>4. Confirming'
    BY <1>10 DEF Confirming, InHardware, ResetRelease
  <2>5. Intact'
    BY <1>10 DEF Intact, ResetRelease
  <2> QED
    BY <2>1, <2>2, <2>3, <2>4, <2>5
<1>11. ASSUME NEW t \in Threads, ResetFifo(t) PROVE IInv'
  <2>1. OneOwner'
    BY <1>11 DEF OneOwner, ResetFifo
  <2>2. Quiet'
    BY <1>11 DEF Quiet, Empty, ResetFifo
  <2>3. Starting'
    BY <1>11 DEF Starting, InHardware, ResetFifo
  <2>4. Confirming'
    BY <1>11 DEF Confirming, InHardware, ResetFifo
  <2>5. Intact'
    BY <1>11 DEF Intact, ResetFifo
  <2> QED
    BY <2>1, <2>2, <2>3, <2>4, <2>5
<1>12. ASSUME NEW t \in Threads, StartSubmit(t) PROVE IInv'
  <2>a. CASE idx[t] < BUF_NUM /\ TransferBuf(idx[t]) /\ idx' = [idx EXCEPT ![t] = @ + 1] /\ pc' = pc
    <3>1. idx[t] \in Buf /\ idx[t] \in Nat /\ idx'[t] = idx[t] + 1 /\ t = u
      BY <2>a
    <3>2. ~InHardware(idx[t]) /\ bready[idx[t]] = 0
      BY <1>12, <3>1 DEF StartSubmit, Starting
    <3>3. \A i \in DOMAIN cmds' :
            \/ i \in DOMAIN cmds /\ cmds'[i] = cmds[i]
            \/ i = Len(cmds) + 1 /\ cmds'[i] = idx[t] /\ i \notin DOMAIN cmds
      BY <2>a, <3>1, AppendFacts DEF TransferBuf
    <3>4. OneOwner'
      <4>1. \A i, j \in DOMAIN cmds' : cmds'[i] = cmds'[j] => i = j
        BY <3>1, <3>2, <3>3 DEF OneOwner, InHardware
      <4>2. \A i \in DOMAIN cmds' :
              /\ bready[cmds'[i]] = 0
              /\ isr = "store" => cmds'[i] # nbuf
              /\ \A j \in DOMAIN stsq : cmds'[i] # stsq[j].tag
        BY <3>1, <3>2, <3>3 DEF OneOwner, InHardware
      <4>3. UNCHANGED <<stsq, bready, isr, nbuf>>
        BY <1>12 DEF StartSubmit
      <4> QED
        BY <4>1, <4>2, <4>3 DEF OneOwner
    <3>5. \A b \in Buf : InHardware(b)' => InHardware(b) \/ b = idx[t]
      BY <1>12, <3>3 DEF StartSubmit, InHardware
    <3>6. \A b \in Buf : InHardware(b)' \/ bready'[b] = 1 => b < idx'[t]
      <4>1. pc[t] = "start_submit" /\ bready' = bready
        BY <1>12 DEF StartSubmit
      <4>2. \A b \in Buf : InHardware(b) \/ bready[b] = 1 => b < idx[t]
        BY <3>1, <4>1 DEF Starting
      <4>3. ASSUME NEW b \in Buf, InHardware(b)' \/ bready'[b] = 1 PROVE b < idx'[t]
        <5>1. b < idx[t] \/ b = idx[t]
          BY <4>1, <4>2, <4>3, <3>5
        <5>2. b \in Nat /\ idx[t] \in Nat /\ idx'[t] = idx[t] + 1
          BY <3>1
        <5> QED
          BY ONLY <5>1, <5>2
      <4> QED
        BY <4>3
    <3>7. Quiet' /\ Starting' /\ Confirming' /\ Intact'
      BY <1>12, <2>a, <3>1, <3>6 DEF StartSubmit, Quiet, Starting, Confirming, Intact
    <3> QED
      BY <3>4, <3>7
  <2>b. CASE cmds' = cmds /\ idx' = [idx EXCEPT ![t] = 0] /\ Goto(t, "start_enable")
    BY <1>12, <2>b
    DEF StartSubmit, OneOwner, Quiet, Empty, Starting, InHardware, Confirming, Intact
  <2> QED
    BY <1>12, <2>a, <2>b DEF StartSubmit
<1>13. ASSUME NEW t \in Threads, StartEnable(t) PROVE IInv'
  <2>1. OneOwner'
    BY <1>13 DEF OneOwner, StartEnable
  <2>2. Quiet'
    BY <1>13 DEF Quiet, Empty, StartEnable
  <2>3. Starting'
    BY <1>13 DEF Starting, InHardware, StartEnable
  <2>4. Confirming'
    BY <1>13 DEF Confirming, InHardware, StartEnable
  <2>5. Intact'
    BY <1>13 DEF Intact, StartEnable
  <2> QED
    BY <2>1, <2>2, <2>3, <2>4, <2>5
<1>14. ASSUME NEW t \in Threads, StartGo(t) PROVE IInv'
  <2>1. OneOwner'
    BY <1>14 DEF OneOwner, StartGo
  <2>2. Quiet'
    BY <1>14 DEF Quiet, Empty, StartGo
  <2>3. Starting'
    BY <1>14 DEF Starting, InHardware, StartGo
  <2>4. Confirming'
    BY <1>14 DEF Confirming, InHardware, StartGo
  <2>5. Intact'
    BY <1>14 DEF Intact, StartGo
  <2> QED
    BY <2>1, <2>2, <2>3, <2>4, <2>5
<1>15. ASSUME NEW t \in Threads, GetWait(t) PROVE IInv'
  <2>1. OneOwner'
    BY <1>15 DEF OneOwner, GetWait, BufReady
  <2>2. Quiet'
    BY <1>15 DEF Quiet, Empty, GetWait, BufReady
  <2>3. Starting'
    BY <1>15 DEF Starting, InHardware, GetWait, BufReady
  <2>4. Confirming'
    BY <1>15 DEF Confirming, InHardware, GetWait, BufReady
  <2>5. Intact'
    BY <1>15 DEF Intact, GetWait, BufReady
  <2> QED
    BY <2>1, <2>2, <2>3, <2>4, <2>5
<1>16. ASSUME NEW t \in Threads, GetRead(t) PROVE IInv'
  <2>1. OneOwner'
    BY <1>16 DEF OneOwner, GetRead
  <2>2. Quiet'
    BY <1>16 DEF Quiet, Empty, GetRead
  <2>3. Starting'
    BY <1>16 DEF Starting, InHardware, GetRead
  <2>4. Confirming'
    BY <1>16 DEF Confirming, InHardware, GetRead
  <2>5. Intact'
    BY <1>16 DEF Intact, GetRead
  <2> QED
    BY <2>1, <2>2, <2>3, <2>4, <2>5
<1>17. ASSUME NEW t \in Threads, ConfirmClear(t) PROVE IInv'
  <2>1. OneOwner'
    BY <1>17 DEF OneOwner, ConfirmClear
  <2>2. Quiet'
    BY <1>17 DEF Quiet, Empty, ConfirmClear
  <2>3. Starting'
    BY <1>17 DEF Starting, InHardware, ConfirmClear
  <2>4. Confirming'
    BY <1>17 DEF Confirming, InHardware, ConfirmClear
  <2>5. Intact'
    <3>1. bready' = [bready EXCEPT ![received_buf] = 0] /\ blen' = [blen EXCEPT ![received_buf] = 0]
      BY <1>17 DEF ConfirmClear
    <3>2. bready[received_buf] = 1
      BY <1>17 DEF ConfirmClear, Confirming
    <3>3. isr = "store" => nbuf # received_buf
      BY <3>2 DEF OneOwner
    <3>4. \A b \in Buf : bready'[b] = 1 => b # received_buf /\ bready[b] = 1 /\ blen'[b] = blen[b]
      BY <3>1
    <3>5. pc'[u] # "got" /\ (isr = "store" => blen'[nbuf] = blen[nbuf])
      BY <1>17, <3>1, <3>3 DEF ConfirmClear
    <3> QED
      BY <1>17, <3>4, <3>5 DEF ConfirmClear, Intact
  <2> QED
    BY <2>1, <2>2, <2>3, <2>4, <2>5
<1>18. ASSUME NEW t \in Threads, ConfirmSubmit(t) PROVE IInv'
  <2>1. OneOwner'
    <3>1. bready[received_buf] = 0 /\ ~InHardware(received_buf)
      BY <1>18 DEF ConfirmSubmit, Confirming
    <3>2. \A i \in DOMAIN cmds' :
            \/ i \in DOMAIN cmds /\ cmds'[i] = cmds[i]
            \/ i = Len(cmds) + 1 /\ cmds'[i] = received_buf
      BY <1>18, AppendFacts DEF ConfirmSubmit, TransferBuf
    <3>3. OneOwner'
      <4>1. \A i, j \in DOMAIN cmds' : cmds'[i] = cmds'[j] => i = j
        BY <3>1, <3>2 DEF OneOwner, InHardware
      <4>2. \A i \in DOMAIN cmds' :
              /\ bready[cmds'[i]] = 0
              /\ isr = "store" => cmds'[i] # nbuf
              /\ \A j \in DOMAIN stsq : cmds'[i] # stsq[j].tag
        BY <3>1, <3>2 DEF OneOwner, InHardware
      <4>3. UNCHANGED <<stsq, bready, isr, nbuf>>
        BY <1>18 DEF ConfirmSubmit
      <4> QED
        BY <4>1, <4>2, <4>3 DEF OneOwner
    <3> QED
      BY <3>3
  <2>2. Quiet'
    BY <1>18 DEF Quiet, Empty, ConfirmSubmit, TransferBuf
  <2>3. Starting'
    BY <1>18 DEF Starting, InHardware, ConfirmSubmit, TransferBuf
  <2>4. Confirming'
    BY <1>18 DEF Confirming, InHardware, ConfirmSubmit, TransferBuf
  <2>5. Intact'
    BY <1>18 DEF Intact, ConfirmSubmit, TransferBuf
  <2> QED
    BY <2>1, <2>2, <2>3, <2>4, <2>5
<1>19. ASSUME NEW t \in Threads, ConfirmNext(t) PROVE IInv'
  <2>1. OneOwner'
    BY <1>19 DEF OneOwner, ConfirmNext
  <2>2. Quiet'
    BY <1>19 DEF Quiet, Empty, ConfirmNext
  <2>3. Starting'
    BY <1>19 DEF Starting, InHardware, ConfirmNext
  <2>4. Confirming'
    BY <1>19 DEF Confirming, InHardware, ConfirmNext
  <2>5. Intact'
    BY <1>19 DEF Intact, ConfirmNext
  <2> QED
    BY <2>1, <2>2, <2>3, <2>4, <2>5
<1>20. ASSUME NEW t \in Threads, ReleaseStop(t) PROVE IInv'
  <2>1. OneOwner'
    BY <1>20 DEF OneOwner, ReleaseStop, StopAcquisition
  <2>2. Quiet'
    BY <1>20 DEF Quiet, Empty, ReleaseStop, StopAcquisition
  <2>3. Starting'
    BY <1>20 DEF Starting, InHardware, ReleaseStop, StopAcquisition
  <2>4. Confirming'
    BY <1>20 DEF Confirming, InHardware, ReleaseStop, StopAcquisition
  <2>5. Intact'
    BY <1>20 DEF Intact, ReleaseStop, StopAcquisition
  <2> QED
    BY <2>1, <2>2, <2>3, <2>4, <2>5
<1>21. ASSUME NEW t \in Threads, ReleaseIrq(t) PROVE IInv'
  <2>1. OneOwner'
    BY <1>21 DEF OneOwner, ReleaseIrq
  <2>2. Quiet'
    BY <1>21 DEF Quiet, Empty, ReleaseIrq
  <2>3. Starting'
    BY <1>21 DEF Starting, InHardware, ReleaseIrq
  <2>4. Confirming'
    BY <1>21 DEF Confirming, InHardware, ReleaseIrq
  <2>5. Intact'
    BY <1>21 DEF Intact, ReleaseIrq
  <2> QED
    BY <2>1, <2>2, <2>3, <2>4, <2>5
<1>22. ASSUME NEW t \in Threads, Open(t) PROVE IInv'
  <2>1. OneOwner'
    BY <1>22 DEF OneOwner, Open
  <2>2. Quiet'
    BY <1>22 DEF Quiet, Empty, Open
  <2>3. Starting'
    BY <1>22 DEF Starting, InHardware, Open
  <2>4. Confirming'
    BY <1>22 DEF Confirming, InHardware, Open
  <2>5. Intact'
    BY <1>22 DEF Intact, Open
  <2> QED
    BY <2>1, <2>2, <2>3, <2>4, <2>5
<1>23. ASSUME NEW t \in Threads, ResetAssert(t) PROVE IInv'
  <2>1. OneOwner'
    BY <1>23 DEF OneOwner, ResetAssert, MayCall, HardwareReset
  <2>2. Quiet'
    BY <1>23 DEF Quiet, Empty, ResetAssert, MayCall, HardwareReset
  <2>3. Starting'
    BY <1>23 DEF Starting, InHardware, ResetAssert, MayCall, HardwareReset
  <2>4. Confirming'
    BY <1>23 DEF Confirming, InHardware, ResetAssert, MayCall, HardwareReset
  <2>5. Intact'
    BY <1>23 DEF Intact, ResetAssert, MayCall, HardwareReset
  <2> QED
    BY <2>1, <2>2, <2>3, <2>4, <2>5
<1>24. ASSUME NEW t \in Threads, StartRefused(t) PROVE IInv'
  <2>1. OneOwner'
    BY <1>24 DEF OneOwner, StartRefused, MayCall
  <2>2. Quiet'
    BY <1>24 DEF Quiet, Empty, StartRefused, MayCall
  <2>3. Starting'
    BY <1>24 DEF Starting, InHardware, StartRefused, MayCall
  <2>4. Confirming'
    BY <1>24 DEF Confirming, InHardware, StartRefused, MayCall
  <2>5. Intact'
    BY <1>24 DEF Intact, StartRefused, MayCall
  <2> QED
    BY <2>1, <2>2, <2>3, <2>4, <2>5
<1>25. ASSUME NEW t \in Threads, StartClear(t) PROVE IInv'
  <2>a. pc[t] = "after_reset" /\ Empty /\ isr = "idle"
    BY <1>25, <1>f DEF StartClear, MayCall, Quiet
  <2>b. \A b \in Buf : bready'[b] = 0
    BY <1>25 DEF StartClear, ClearRing
  <2>c. DOMAIN cmds' = {} /\ DOMAIN stsq' = {} /\ isr' = "idle"
    BY <1>25, <2>a, EmptyFacts DEF StartClear, Empty
  <2>1. OneOwner' /\ Starting'
    BY <2>b, <2>c DEF OneOwner, Starting, InHardware
  <2>2. Quiet' /\ Confirming'
    BY <1>25 DEF StartClear, Quiet, Confirming
  <2>3. Intact'
    BY <1>25, <2>b, <2>c DEF StartClear, Intact
  <2> QED
    BY <2>1, <2>2, <2>3
<1>26. ASSUME NEW t \in Threads, Stop(t) PROVE IInv'
  <2>1. OneOwner'
    BY <1>26 DEF OneOwner, Stop, MayCall
  <2>2. Quiet'
    BY <1>26 DEF Quiet, Empty, Stop, MayCall
  <2>3. Starting'
    BY <1>26 DEF Starting, InHardware, Stop, MayCall
  <2>4. Confirming'
    BY <1>26 DEF Confirming, InHardware, Stop, MayCall
  <2>5. Intact'
    BY <1>26 DEF Intact, Stop, MayCall
  <2> QED
    BY <2>1, <2>2, <2>3, <2>4, <2>5
<1>27. ASSUME NEW t \in Threads, GetCall(t) PROVE IInv'
  <2>1. OneOwner'
    BY <1>27 DEF OneOwner, GetCall, MayCall
  <2>2. Quiet'
    BY <1>27 DEF Quiet, Empty, GetCall, MayCall
  <2>3. Starting'
    BY <1>27 DEF Starting, InHardware, GetCall, MayCall
  <2>4. Confirming'
    BY <1>27 DEF Confirming, InHardware, GetCall, MayCall
  <2>5. Intact'
    BY <1>27 DEF Intact, GetCall, MayCall
  <2> QED
    BY <2>1, <2>2, <2>3, <2>4, <2>5
<1>28. ASSUME NEW t \in Threads, GetSignal(t) PROVE IInv'
  <2>1. OneOwner'
    BY <1>28 DEF OneOwner, GetSignal
  <2>2. Quiet'
    BY <1>28 DEF Quiet, Empty, GetSignal
  <2>3. Starting'
    BY <1>28 DEF Starting, InHardware, GetSignal
  <2>4. Confirming'
    BY <1>28 DEF Confirming, InHardware, GetSignal
  <2>5. Intact'
    BY <1>28 DEF Intact, GetSignal
  <2> QED
    BY <2>1, <2>2, <2>3, <2>4, <2>5
<1>29. ASSUME NEW t \in Threads, ConfirmCall(t) PROVE IInv'
  <2>1. OneOwner'
    BY <1>29 DEF OneOwner, ConfirmCall, MayCall, Confirmable
  <2>2. Quiet'
    BY <1>29 DEF Quiet, Empty, ConfirmCall, MayCall, Confirmable
  <2>3. Starting'
    BY <1>29 DEF Starting, InHardware, ConfirmCall, MayCall, Confirmable
  <2>4. Confirming'
    BY <1>29 DEF Confirming, InHardware, ConfirmCall, MayCall, Confirmable
  <2>5. Intact'
    BY <1>29 DEF Intact, ConfirmCall, MayCall, Confirmable
  <2> QED
    BY <2>1, <2>2, <2>3, <2>4, <2>5
<1>30. ASSUME NEW t \in Threads, Close(t) PROVE IInv'
  <2>1. OneOwner'
    BY <1>30 DEF OneOwner, Close, UserStates
  <2>2. Quiet'
    BY <1>30 DEF Quiet, Empty, Close, UserStates
  <2>3. Starting'
    BY <1>30 DEF Starting, InHardware, Close, UserStates
  <2>4. Confirming'
    BY <1>30 DEF Confirming, InHardware, Close, UserStates
  <2>5. Intact'
    BY <1>30 DEF Intact, Close, UserStates
  <2> QED
    BY <2>1, <2>2, <2>3, <2>4, <2>5
<1>31. CASE UNCHANGED vars
  BY <1>31 DEF vars, OneOwner, Quiet, Empty, Starting, InHardware, Confirming, Intact
<1> QED
  BY <1>1, <1>2, <1>3, <1>4, <1>5, <1>6, <1>7, <1>8, <1>9, <1>10, <1>11, <1>12, <1>13, <1>14, <1>15, <1>16, <1>17, <1>18, <1>19, <1>20, <1>21, <1>22, <1>23, <1>24, <1>25, <1>26, <1>27, <1>28, <1>29, <1>30, <1>31
  DEF Next, Hardware, Handler, InCall, Call

LEMMA InvCorrect == SingleUser /\ Spec => []IInv
<1> SUFFICES ASSUME SingleUser PROVE Spec => []IInv
  OBVIOUS
<1>1. IInv /\ [Next]_vars => IInv'
  BY InvStep
<1> QED
  BY InvInit, <1>1, PTL DEF Spec

\* A buffer is never in two hands, for every size of the ring: the order "clear
\* the ready flag, then resubmit" of ADM_CONFIRM and the RESET before START keep
\* commands, statuses and ready buffers apart.
THEOREM Ownership == SingleUser /\ Spec => []OneOwner
<1>1. IInv => OneOwner
  BY DEF IInv
<1> QED
  BY <1>1, InvCorrect, PTL

\* The caller of ADM_GET holds a whole packet of the length it was told, until
\* it confirms the buffer.
THEOREM Integrity == SingleUser /\ Spec => []HeldIsIntact
<1>1. IInv => HeldIsIntact
  BY DEF IInv, TInv, TypeOK, Confirming, Intact, HeldIsIntact
<1> QED
  BY <1>1, InvCorrect, PTL

-----------------------------------------------------------------------------
(* What one process cannot break, in whatever order it makes its calls       *)

\* From a reset on the hardware is empty.
LEMMA FreeStep ==
  ASSUME (\E u : Threads = {u}), TInv, Quiet, [Next]_vars
  PROVE  Quiet'
<1>0. PICK u : Threads = {u}
  OBVIOUS
<1> USE <1>0
    DEF Quiet, Empty, TInv, TypeOK, Consistent, Goto,
        UserStates, gpioVars, fifoVars, dmVars, ringVars, irqVars, isrVars, procVars
<1>1. CASE DmBegin
  BY <1>1 DEF DmBegin
<1>2. ASSUME NEW kind \in Kinds, DmComplete(kind) PROVE Quiet'
  BY <1>2 DEF DmComplete
<1>3. CASE IsrEnter
  BY <1>3 DEF IsrEnter
<1>4. CASE IsrOccupancy
  BY <1>4 DEF IsrOccupancy
<1>5. CASE IsrLength
  BY <1>5 DEF IsrLength
<1>6. CASE IsrStatusBad
  BY <1>6 DEF IsrStatusBad
<1>7. CASE IsrStatusOkay
  BY <1>7 DEF IsrStatusOkay
<1>8. CASE IsrReady
  BY <1>8 DEF IsrReady
<1>9. CASE IsrWake
  BY <1>9 DEF IsrWake
<1>10. ASSUME NEW t \in Threads, ResetRelease(t) PROVE Quiet'
  BY <1>10 DEF ResetRelease
<1>11. ASSUME NEW t \in Threads, ResetFifo(t) PROVE Quiet'
  BY <1>11 DEF ResetFifo
<1>12. ASSUME NEW t \in Threads, StartSubmit(t) PROVE Quiet'
  BY <1>12 DEF StartSubmit, TransferBuf
<1>13. ASSUME NEW t \in Threads, StartEnable(t) PROVE Quiet'
  BY <1>13 DEF StartEnable
<1>14. ASSUME NEW t \in Threads, StartGo(t) PROVE Quiet'
  BY <1>14 DEF StartGo
<1>15. ASSUME NEW t \in Threads, GetWait(t) PROVE Quiet'
  BY <1>15 DEF GetWait, BufReady
<1>16. ASSUME NEW t \in Threads, GetRead(t) PROVE Quiet'
  BY <1>16 DEF GetRead
<1>17. ASSUME NEW t \in Threads, ConfirmClear(t) PROVE Quiet'
  BY <1>17 DEF ConfirmClear
<1>18. ASSUME NEW t \in Threads, ConfirmSubmit(t) PROVE Quiet'
  BY <1>18 DEF ConfirmSubmit, TransferBuf
<1>19. ASSUME NEW t \in Threads, ConfirmNext(t) PROVE Quiet'
  BY <1>19 DEF ConfirmNext
<1>20. ASSUME NEW t \in Threads, ReleaseStop(t) PROVE Quiet'
  BY <1>20 DEF ReleaseStop, StopAcquisition
<1>21. ASSUME NEW t \in Threads, ReleaseIrq(t) PROVE Quiet'
  BY <1>21 DEF ReleaseIrq
<1>22. ASSUME NEW t \in Threads, Open(t) PROVE Quiet'
  BY <1>22 DEF Open
<1>23. ASSUME NEW t \in Threads, ResetAssert(t) PROVE Quiet'
  BY <1>23 DEF ResetAssert, MayCall, HardwareReset
<1>24. ASSUME NEW t \in Threads, StartRefused(t) PROVE Quiet'
  BY <1>24 DEF StartRefused, MayCall
<1>25. ASSUME NEW t \in Threads, StartClear(t) PROVE Quiet'
  BY <1>25 DEF StartClear, MayCall, ClearRing
<1>26. ASSUME NEW t \in Threads, Stop(t) PROVE Quiet'
  BY <1>26 DEF Stop, MayCall
<1>27. ASSUME NEW t \in Threads, GetCall(t) PROVE Quiet'
  BY <1>27 DEF GetCall, MayCall
<1>28. ASSUME NEW t \in Threads, GetSignal(t) PROVE Quiet'
  BY <1>28 DEF GetSignal
<1>29. ASSUME NEW t \in Threads, ConfirmCall(t) PROVE Quiet'
  BY <1>29 DEF ConfirmCall, MayCall, Confirmable
<1>30. ASSUME NEW t \in Threads, Close(t) PROVE Quiet'
  BY <1>30 DEF Close
<1>31. CASE UNCHANGED vars
  BY <1>31 DEF vars
<1> QED
  BY <1>1, <1>2, <1>3, <1>4, <1>5, <1>6, <1>7, <1>8, <1>9, <1>10, <1>11,
     <1>12, <1>13, <1>14, <1>15, <1>16, <1>17, <1>18, <1>19, <1>20, <1>21,
     <1>22, <1>23, <1>24, <1>25, <1>26, <1>27, <1>28, <1>29, <1>30, <1>31
  DEF Next, Hardware, Handler, InCall, Call

LEMMA FreeCorrect == (\E u : Threads = {u}) /\ Spec => []Quiet
<1> SUFFICES ASSUME \E u : Threads = {u} PROVE Spec => []Quiet
  OBVIOUS
<1>1. Init => TInv /\ Quiet
  BY TypeInit DEF Init, Quiet
<1>2. TInv /\ Quiet /\ [Next]_vars => TInv' /\ Quiet'
  BY TypeStep, FreeStep
<1> QED
  BY <1>1, <1>2, PTL DEF Spec

\* Nothing of an earlier acquisition survives ADM_RESET, stopped in the order of
\* the application or not.
THEOREM ResetSound == (\E u : Threads = {u}) /\ Spec => []ResetQuiesces
<1>1. Quiet => ResetQuiesces
  BY DEF Quiet, Empty, ResetQuiesces
<1> QED
  BY <1>1, FreeCorrect, PTL

-----------------------------------------------------------------------------
(* The ring *)

\* Plus and Succ walk round the ring.
LEMMA PlusFacts ==
  ASSUME NEW b \in Buf, NEW k \in 0..BUF_NUM
  PROVE  /\ Plus(b, k) \in Buf
         /\ Plus(b, 0) = b /\ Plus(b, BUF_NUM) = b
         /\ k < BUF_NUM => Succ(Plus(b, k)) = Plus(b, k + 1) /\ Plus(Succ(b), k) = Plus(b, k + 1)
BY BufNumAssumption DEF Buf, Plus, Succ

\* Front and Wanted name a buffer and a packet.
LEMMA FrontFacts ==
  ASSUME TInv
  PROVE  Front \in Buf /\ Wanted \in Packet
BY ConstFacts DEF TInv, TypeOK, Front, Wanted

\* Places after Front number the buffers.
LEMMA PlaceFacts ==
  ASSUME TInv
  PROVE  /\ \A b \in Buf : Place(b) \in 0..BUF_NUM - 1
         /\ \A b, c \in Buf : Place(b) = Place(c) => b = c
         /\ Front \in Buf /\ Place(Front) = 0
<1>1. Front \in 0..BUF_NUM - 1 /\ BUF_NUM \in Nat
  BY FrontFacts, BufNumAssumption DEF Buf
<1> QED
  BY <1>1 DEF Place, Buf

\* Succ goes to the next place, and the last place is followed by the first.
LEMMA SuccFacts ==
  ASSUME TInv
  PROVE  \A b \in Buf :
           /\ Succ(b) \in Buf /\ Pred(Succ(b)) = b
           /\ Place(Succ(b)) = IF Place(b) + 1 = BUF_NUM THEN 0 ELSE Place(b) + 1
<1>1. Front \in 0..BUF_NUM - 1 /\ BUF_NUM \in Nat
  BY FrontFacts, BufNumAssumption DEF Buf
<1>2. \A b \in Buf : Succ(b) \in Buf /\ Pred(Succ(b)) = b
  BY <1>1 DEF Pred, Succ, Buf
<1>3. \A b \in Buf : Place(Succ(b)) = IF Place(b) + 1 = BUF_NUM THEN 0 ELSE Place(b) + 1
  BY <1>1 DEF Place, Succ, Buf
<1> QED
  BY <1>2, <1>3

\* exp_buf ends the ready run.
LEMMA ReadyFacts ==
  ASSUME TInv
  PROVE  /\ BUF_NUM \in Nat \ {0}
         /\ exp_buf \in Buf /\ ReadyCount \in 0..BUF_NUM
         /\ ReadyCount = BUF_NUM => exp_buf = Front
         /\ ReadyCount # BUF_NUM => Place(exp_buf) = ReadyCount
<1>1. Front \in 0..BUF_NUM - 1 /\ exp_buf \in 0..BUF_NUM - 1 /\ BUF_NUM \in Nat \ {0}
  BY FrontFacts, BufNumAssumption DEF TInv, TypeOK, Buf
<1> QED
  BY <1>1 DEF ReadyCount, Place, Buf

\* Lengths and domains of the queues.
LEMMA HandFacts ==
  ASSUME TInv
  PROVE  /\ Storing \in {0, 1} /\ InHand \in Nat
         /\ Len(stsq) \in Nat /\ Len(cmds) \in Nat
         /\ DOMAIN stsq = 1..Len(stsq) /\ DOMAIN cmds = 1..Len(cmds)
         /\ (stsq = <<>> <=> Len(stsq) = 0) /\ (cmds = <<>> <=> Len(cmds) = 0)
         /\ InHand = Storing + Len(stsq) + Len(cmds)
<1>1. stsq \in Seq(Status) /\ cmds \in Seq(Buf)
  BY DEF TInv, TypeOK
<1> QED
  BY <1>1 DEF Storing, InHand

\* What Append and Tail do, position by position.
LEMMA AppendPlaces ==
  ASSUME NEW S, NEW q \in Seq(S), NEW e \in S
  PROVE  /\ Len(Append(q, e)) = Len(q) + 1 /\ DOMAIN Append(q, e) = 1..Len(q) + 1
         /\ \A j \in 1..Len(q) : Append(q, e)[j] = q[j]
         /\ Append(q, e)[Len(q) + 1] = e
OBVIOUS

LEMMA EmptyLen ==
  ASSUME NEW S, NEW q \in Seq(S)
  PROVE  q = <<>> <=> Len(q) = 0
OBVIOUS

LEMMA AsFunction ==
  ASSUME NEW S, NEW q \in Seq(S)
  PROVE  q = [k \in 1..Len(q) |-> q[k]]
OBVIOUS

LEMMA TailPlaces ==
  ASSUME NEW S, NEW q \in Seq(S), q # <<>>
  PROVE  /\ Len(q) \in Nat /\ Len(q) > 0 /\ 1 \in DOMAIN q /\ Head(q) = q[1]
         /\ Len(Tail(q)) = Len(q) - 1 /\ DOMAIN Tail(q) = 1..Len(q) - 1
         /\ \A j \in 1..Len(q) - 1 : Tail(q)[j] = q[j + 1]
OBVIOUS

\* Pred undoes Succ, and Plus adds to the place.
LEMMA PredFacts ==
  ASSUME TInv
  PROVE  \A b \in Buf : Pred(b) \in Buf /\ Succ(Pred(b)) = b
BY BufNumAssumption DEF Pred, Succ, Buf

LEMMA PlacePlus ==
  ASSUME TInv, NEW b \in Buf, NEW k \in Nat, Place(b) + k < BUF_NUM
  PROVE  Plus(b, k) \in Buf /\ Place(Plus(b, k)) = Place(b) + k
<1>1. Front \in 0..BUF_NUM - 1 /\ BUF_NUM \in Nat /\ b \in 0..BUF_NUM - 1
  BY FrontFacts, BufNumAssumption DEF Buf
<1>2. Plus(b, k) \in Buf
  BY <1>1 DEF Plus, Place, Buf
<1>3. Place(Plus(b, k)) = Place(b) + k
  BY <1>1 DEF Plus, Place
<1> QED
  BY <1>2, <1>3

-----------------------------------------------------------------------------
(* Bookkeeping, for one process and any order of its calls *)

LEMMA BookStep ==
  ASSUME (\E u : Threads = {u}), TInv, Bookkeeping, [Next]_vars
  PROVE  Bookkeeping'
<1>0. PICK u : Threads = {u}
  OBVIOUS
<1> USE <1>0
    DEF Bookkeeping, TInv, TypeOK, Goto, UserStates, gpioVars, fifoVars, dmVars, ringVars,
        irqVars, isrVars, procVars
<1>1. CASE DmBegin
  BY <1>1 DEF DmBegin
<1>2. ASSUME NEW kind \in Kinds, DmComplete(kind) PROVE Bookkeeping'
  BY <1>2 DEF DmComplete
<1>3. CASE IsrEnter
  BY <1>3 DEF IsrEnter
<1>4. CASE IsrOccupancy
  BY <1>4 DEF IsrOccupancy
<1>5. CASE IsrLength
  BY <1>5 DEF IsrLength
<1>6. CASE IsrStatusBad
  BY <1>6 DEF IsrStatusBad
<1>7. CASE IsrStatusOkay
  BY <1>7 DEF IsrStatusOkay
<1>8. CASE IsrReady
  BY <1>8 DEF IsrReady
<1>9. CASE IsrWake
  BY <1>9 DEF IsrWake
<1>10. ASSUME NEW t \in Threads, ResetRelease(t) PROVE Bookkeeping'
  BY <1>10 DEF ResetRelease
<1>11. ASSUME NEW t \in Threads, ResetFifo(t) PROVE Bookkeeping'
  BY <1>11 DEF ResetFifo
<1>12. ASSUME NEW t \in Threads, StartSubmit(t) PROVE Bookkeeping'
  BY <1>12 DEF StartSubmit
<1>13. ASSUME NEW t \in Threads, StartEnable(t) PROVE Bookkeeping'
  BY <1>13 DEF StartEnable
<1>14. ASSUME NEW t \in Threads, StartGo(t) PROVE Bookkeeping'
  BY <1>14 DEF StartGo
<1>15. ASSUME NEW t \in Threads, GetWait(t) PROVE Bookkeeping'
  BY <1>15 DEF GetWait, BufReady
<1>16. ASSUME NEW t \in Threads, GetRead(t) PROVE Bookkeeping'
  BY <1>16 DEF GetRead
<1>17. ASSUME NEW t \in Threads, ConfirmClear(t) PROVE Bookkeeping'
  BY <1>17 DEF ConfirmClear
<1>18. ASSUME NEW t \in Threads, ConfirmSubmit(t) PROVE Bookkeeping'
  BY <1>18 DEF ConfirmSubmit
<1>19. ASSUME NEW t \in Threads, ConfirmNext(t) PROVE Bookkeeping'
  BY <1>19 DEF ConfirmNext
<1>20. ASSUME NEW t \in Threads, ReleaseStop(t) PROVE Bookkeeping'
  BY <1>20 DEF ReleaseStop, StopAcquisition
<1>21. ASSUME NEW t \in Threads, ReleaseIrq(t) PROVE Bookkeeping'
  BY <1>21 DEF ReleaseIrq
<1>22. ASSUME NEW t \in Threads, Open(t) PROVE Bookkeeping'
  BY <1>22 DEF Open
<1>23. ASSUME NEW t \in Threads, ResetAssert(t) PROVE Bookkeeping'
  BY <1>23 DEF ResetAssert, MayCall, HardwareReset
<1>24. ASSUME NEW t \in Threads, StartRefused(t) PROVE Bookkeeping'
  BY <1>24 DEF StartRefused, MayCall
<1>25. ASSUME NEW t \in Threads, StartClear(t) PROVE Bookkeeping'
  BY <1>25 DEF StartClear, MayCall, ClearRing
<1>26. ASSUME NEW t \in Threads, Stop(t) PROVE Bookkeeping'
  BY <1>26 DEF Stop, MayCall
<1>27. ASSUME NEW t \in Threads, GetCall(t) PROVE Bookkeeping'
  BY <1>27 DEF GetCall, MayCall
<1>28. ASSUME NEW t \in Threads, GetSignal(t) PROVE Bookkeeping'
  BY <1>28 DEF GetSignal
<1>29. ASSUME NEW t \in Threads, ConfirmCall(t) PROVE Bookkeeping'
  BY <1>29 DEF ConfirmCall, MayCall
<1>30. ASSUME NEW t \in Threads, Close(t) PROVE Bookkeeping'
  BY <1>30 DEF Close
<1>31. CASE UNCHANGED vars
  BY <1>31 DEF vars
<1> QED
  BY <1>1, <1>2, <1>3, <1>4, <1>5, <1>6, <1>7, <1>8, <1>9, <1>10, <1>11,
     <1>12, <1>13, <1>14, <1>15, <1>16, <1>17, <1>18, <1>19, <1>20, <1>21,
     <1>22, <1>23, <1>24, <1>25, <1>26, <1>27, <1>28, <1>29, <1>30, <1>31
  DEF Next, Hardware, Handler, InCall, Call

-----------------------------------------------------------------------------
(* Order, for one process that keeps to the call order *)

RingInv == ReadyRun /\ Tags /\ Supplied /\ Packets

\* A step that leaves the ring, the queues and the owner of every buffer alone.
LEMMA Still ==
  ASSUME TInv, RingInv, TInv',
         UNCHANGED <<bready, blen, exp_buf, stsq, cmds, src, nbuf>>,
         Front' = Front, Wanted' = Wanted, isr' = "store" <=> isr = "store",
         \A t \in Threads :
           /\ pc'[t] \in Acquiring => pc[t] \in Acquiring /\ Submitted(t)' = Submitted(t)
           /\ pc'[t] = "start_submit" => pc[t] = "start_submit" /\ received_buf' = received_buf
           /\ pc'[t] \in Resetting => pc[t] \in Resetting
  PROVE  RingInv'
<1>1. ReadyCount' = ReadyCount /\ \A b \in Buf : Place(b)' = Place(b)
  BY FrontFacts DEF ReadyCount, Place
<1>2. Storing' = Storing /\ InHand' = InHand
  BY DEF Storing, InHand
<1>3. Due' = Due /\ Announced' = Announced /\ Coming' = Coming
  BY <1>1 DEF Due, Announced, Coming
<1>4. ReadyRun'
  BY <1>1 DEF ReadyRun, RingInv
<1>5. Tags'
  BY <1>2 DEF Tags, ExpectedTag, RingInv
<1>6. Supplied'
  BY <1>1, <1>2 DEF Supplied, RingInv
<1>7. Packets'
  BY <1>1, <1>2, <1>3 DEF Packets, RingInv
<1> QED
  BY <1>4, <1>5, <1>6, <1>7 DEF RingInv

\* The handler marks the buffer it expects: the ready run grows at its end.
LEMMA ReadyOrder ==
  ASSUME TInv, RingInv, OneOwner, IsrReady
  PROVE  /\ RingInv'
         /\ Front' = Front /\ Wanted' = Wanted
         /\ ReadyCount < BUF_NUM /\ ReadyCount' = ReadyCount + 1
         /\ Place(exp_buf) = ReadyCount /\ blen' = blen /\ blen[exp_buf] = Due
<1>1. /\ isr = "store" /\ isr' # "store" /\ nbuf = exp_buf /\ bready[exp_buf] = 0
      /\ bready' = [bready EXCEPT ![exp_buf] = 1] /\ exp_buf' = Succ(exp_buf)
      /\ UNCHANGED <<blen, stsq, cmds, src, nbuf, pc, idx, received_buf>>
  BY DEF IsrReady, RingInv, Tags, ExpectedTag, OneOwner, procVars, dmVars, fifoVars
<1>2. Front' = Front /\ Wanted' = Wanted
  BY DEF IsrReady, Front, Wanted, MidConfirm, procVars
<1>3. ReadyCount < BUF_NUM /\ Place(exp_buf) = ReadyCount
  <2>1. ~(Place(exp_buf) < ReadyCount)
    BY <1>1, ReadyFacts DEF RingInv, ReadyRun
  <2> QED
    BY <2>1, ReadyFacts, PlaceFacts
<1>4. \A b \in Buf : Place(b)' = Place(b)
  BY <1>2 DEF Place
<1>5. \A b \in Buf : Place(b) = ReadyCount <=> b = exp_buf
  BY <1>3, PlaceFacts, ReadyFacts
<1>6. ReadyCount' = ReadyCount + 1
  <2>1. Place(Succ(exp_buf)) = IF ReadyCount + 1 = BUF_NUM THEN 0 ELSE ReadyCount + 1
    BY <1>3, SuccFacts, ReadyFacts
  <2>2. Succ(exp_buf) = Front <=> ReadyCount + 1 = BUF_NUM
    BY <2>1, SuccFacts, ReadyFacts, PlaceFacts
  <2>3. ReadyCount + 1 = BUF_NUM => bready'[Front] = 1
    <3>1. CASE Front = exp_buf
      BY <1>1, <3>1, ReadyFacts DEF TInv, TypeOK
    <3>2. CASE Front # exp_buf
      <4>1. Place(Front) < ReadyCount
        BY <1>3, <3>2, PlaceFacts, ReadyFacts
      <4>2. bready[Front] = 1
        BY <4>1, PlaceFacts DEF RingInv, ReadyRun
      <4> QED
        BY <1>1, <3>2, <4>2, PlaceFacts DEF TInv, TypeOK
    <3> QED
      BY <3>1, <3>2
  <2>4. Place(exp_buf)' = Place(Succ(exp_buf))
    BY <1>1, <1>2 DEF Place
  <2> QED
    BY <1>1, <1>2, <2>1, <2>2, <2>3, <2>4, ReadyFacts DEF ReadyCount
<1>7. Storing = 1 /\ Storing' = 0 /\ InHand' = InHand - 1
  BY <1>1, HandFacts DEF Storing, InHand
<1>8. ReadyRun'
  <2>1. ASSUME NEW b \in Buf PROVE bready'[b] = 1 <=> Place(b) < ReadyCount + 1
    <3>1. bready[b] = 1 <=> Place(b) < ReadyCount
      BY DEF RingInv, ReadyRun
    <3>2. bready'[b] = IF b = exp_buf THEN 1 ELSE bready[b]
      BY <1>1 DEF TInv, TypeOK
    <3> QED
      BY <1>5, <3>1, <3>2, PlaceFacts, ReadyFacts
  <2> QED
    BY <1>4, <1>6, <2>1 DEF ReadyRun
<1>9. Tags'
  <2>1. InHand' <= BUF_NUM
    BY <1>7, HandFacts, ReadyFacts DEF RingInv, Tags
  <2>2. ASSUME NEW k \in Nat, k < BUF_NUM PROVE Plus(exp_buf', k) = Plus(exp_buf, k + 1)
    BY <1>1, <2>2, PlusFacts, ReadyFacts
  <2>3. ASSUME NEW j \in DOMAIN stsq PROVE stsq[j].tag = Plus(exp_buf', 0 + j - 1)
    <3>1. j - 1 \in Nat /\ j - 1 < BUF_NUM /\ 1 + j - 1 = (j - 1) + 1 /\ 0 + j - 1 = j - 1
      BY <1>7, HandFacts, ReadyFacts DEF RingInv, Tags
    <3>2. stsq[j].tag = Plus(exp_buf, 1 + j - 1)
      BY <1>7 DEF RingInv, Tags
    <3> QED
      BY <2>2, <3>1, <3>2
  <2>4. ASSUME NEW i \in DOMAIN cmds
        PROVE  cmds[i] = Plus(exp_buf', 0 + Len(stsq) + i - 1)
    <3>1. /\ Len(stsq) + i - 1 \in Nat /\ Len(stsq) + i - 1 < BUF_NUM
          /\ 1 + Len(stsq) + i - 1 = (Len(stsq) + i - 1) + 1
          /\ 0 + Len(stsq) + i - 1 = Len(stsq) + i - 1
      <4>1. i \in 1..Len(cmds) /\ Len(stsq) \in Nat /\ Len(cmds) \in Nat
        BY HandFacts
      <4>2. 1 + Len(stsq) + Len(cmds) <= BUF_NUM /\ BUF_NUM \in Nat
        BY <1>7, HandFacts, ReadyFacts DEF RingInv, Tags
      <4> QED
        BY ONLY <4>1, <4>2
    <3>2. cmds[i] = Plus(exp_buf, 1 + Len(stsq) + i - 1)
      BY <1>7 DEF RingInv, Tags
    <3> QED
      BY <2>2, <3>1, <3>2
  <2>5. \A j \in DOMAIN stsq : stsq[j].kind = "okay"
    BY DEF RingInv, Tags
  <2> QED
    BY <1>1, <1>7, <2>1, <2>3, <2>4, <2>5 DEF Tags, ExpectedTag
<1>10. Supplied'
  <2>1. InHand' + ReadyCount' = InHand + ReadyCount
    BY <1>6, <1>7, HandFacts, ReadyFacts
  <2> QED
    BY <1>1, <2>1 DEF RingInv, Supplied, Submitted
<1>11. blen[exp_buf] = Due
  BY <1>1 DEF RingInv, Packets
<1>12. Due' = Announced /\ Announced' = Announced /\ Coming' = Coming
  <2>1. Due' = SuccPacket(blen[exp_buf])
    BY <1>1, <1>6, SuccFacts, ReadyFacts DEF Due
  <2> QED
    BY <1>1, <2>1 DEF Announced, Coming
<1>13. blen[Front] = Wanted
  <2>1. CASE ReadyCount = 0
    <3>1. exp_buf = Front
      BY <1>3, <2>1, PlaceFacts, ReadyFacts
    <3> QED
      BY <1>11, <2>1, <3>1 DEF Due
  <2>2. CASE ReadyCount > 0
    BY <2>2 DEF RingInv, Packets
  <2> QED
    BY <2>1, <2>2, ReadyFacts
<1>14. ASSUME NEW b \in Buf, Place(b) + 1 < ReadyCount + 1
       PROVE  blen[Succ(b)] = SuccPacket(blen[b])
  <2>1. CASE Place(b) + 1 < ReadyCount
    BY <2>1 DEF RingInv, Packets
  <2>2. CASE Place(b) + 1 = ReadyCount
    <3>1. Succ(b) = exp_buf
      BY <1>3, <1>5, <2>2, SuccFacts, ReadyFacts
    <3>2. Pred(exp_buf) = b /\ ReadyCount # 0
      BY <2>2, <3>1, SuccFacts, PlaceFacts
    <3> QED
      BY <1>11, <3>1, <3>2 DEF Due
  <2> QED
    BY <1>14, <2>1, <2>2, PlaceFacts, ReadyFacts
<1>15. Packets'
  <2>1. InHand' > Storing' => InHand > Storing
    BY <1>7, HandFacts
  <2> QED
    BY <1>1, <1>2, <1>4, <1>6, <1>12, <1>13, <1>14, <2>1 DEF RingInv, Packets
<1> QED
  BY <1>1, <1>2, <1>3, <1>6, <1>8, <1>9, <1>10, <1>11, <1>15 DEF RingInv

\* The DataMover finishes the oldest command: it becomes the newest status.
LEMMA CompleteOrder ==
  ASSUME TInv, RingInv, Quiet, Kinds = {"okay"}, NEW kind \in Kinds, DmComplete(kind)
  PROVE  RingInv'
<1>1. /\ kind = "okay" /\ cmds # <<>> /\ stsq \in Seq(Status) /\ cmds \in Seq(Buf)
      /\ UNCHANGED <<bready, blen, exp_buf, nbuf, isr, pc, idx, received_buf>>
      /\ src' = SuccPacket(src) /\ cmds' = Tail(cmds)
      /\ stsq' = Append(stsq, [tag |-> Head(cmds), kind |-> kind, len |-> src])
  BY DEF DmComplete, TInv, TypeOK, Consistent, ringVars, isrVars, procVars
<1>2. Front' = Front /\ Wanted' = Wanted
  BY DEF DmComplete, Front, Wanted, MidConfirm, procVars, ringVars
<1>3. /\ Len(stsq') = Len(stsq) + 1 /\ DOMAIN stsq' = 1..Len(stsq) + 1 /\ stsq' # <<>>
      /\ \A j \in 1..Len(stsq) : stsq'[j] = stsq[j]
      /\ stsq'[Len(stsq) + 1] = [tag |-> cmds[1], kind |-> "okay", len |-> src]
  <2> DEFINE e == [tag |-> cmds[1], kind |-> "okay", len |-> src]
  <2>1. Head(cmds) = cmds[1] /\ cmds[1] \in Buf
    BY <1>1, TailFacts
  <2>2. stsq' = Append(stsq, e)
    BY <1>1, <2>1
  <2>3. e \in Status
    BY <2>1 DEF Status, Lens, Packet, TInv, TypeOK
  <2> HIDE DEF e
  <2>4. Len(stsq) \in Nat /\ Append(stsq, e) # <<>>
    BY <1>1, <2>3, AppendFacts
  <2>5. /\ Len(stsq') = Len(stsq) + 1 /\ DOMAIN stsq' = 1..Len(stsq) + 1
        /\ \A j \in 1..Len(stsq) : stsq'[j] = stsq[j]
        /\ stsq'[Len(stsq) + 1] = e
    BY <1>1, <2>2, <2>3, AppendPlaces
  <2> QED
    BY <2>2, <2>4, <2>5 DEF e
<1>4. /\ Len(cmds') = Len(cmds) - 1 /\ Len(cmds) > 0 /\ DOMAIN cmds' = 1..Len(cmds) - 1
      /\ \A i \in 1..Len(cmds) - 1 : cmds'[i] = cmds[i + 1]
  BY <1>1, TailPlaces
<1>5. Storing' = Storing /\ InHand' = InHand /\ InHand > Storing
  <2>1. Storing' = Storing
    BY <1>1 DEF Storing
  <2>2. InHand' = Storing + (Len(stsq) + 1) + (Len(cmds) - 1)
    BY <1>3, <1>4, <2>1 DEF InHand
  <2>3. Storing \in Nat /\ Len(stsq) \in Nat /\ Len(cmds) \in Nat
        /\ InHand = Storing + Len(stsq) + Len(cmds)
    BY HandFacts
  <2> QED
    BY <1>4, <2>1, <2>2, <2>3
<1>6. ReadyCount' = ReadyCount /\ \A b \in Buf : Place(b)' = Place(b)
  BY <1>1, <1>2, FrontFacts DEF ReadyCount, Place
<1>7. ReadyRun' /\ Supplied'
  BY <1>1, <1>5, <1>6 DEF RingInv, ReadyRun, Supplied, Submitted
<1>8. Tags'
  <2>1. ASSUME NEW j \in DOMAIN stsq'
        PROVE  stsq'[j].tag = Plus(exp_buf, Storing + j - 1) /\ stsq'[j].kind = "okay"
    <3>1. CASE j = Len(stsq) + 1
      <4>1. cmds[1] = Plus(exp_buf, Storing + Len(stsq) + 1 - 1)
        BY <1>4, HandFacts DEF RingInv, Tags
      <4>2. Storing + Len(stsq) + 1 - 1 = Storing + j - 1
        BY <3>1, HandFacts
      <4> QED
        BY <1>3, <3>1, <4>1, <4>2
    <3>2. CASE j \in DOMAIN stsq
      BY <1>3, <3>2, HandFacts DEF RingInv, Tags
    <3> QED
      BY <1>3, <3>1, <3>2, HandFacts
  <2>2. ASSUME NEW i \in DOMAIN cmds'
        PROVE  cmds'[i] = Plus(exp_buf, Storing + (Len(stsq) + 1) + i - 1)
    <3>1. i + 1 \in DOMAIN cmds /\ cmds'[i] = cmds[i + 1] /\ i \in Nat
      BY <1>4, HandFacts
    <3>2. cmds[i + 1] = Plus(exp_buf, Storing + Len(stsq) + (i + 1) - 1)
      BY <3>1 DEF RingInv, Tags
    <3>3. Storing + Len(stsq) + (i + 1) - 1 = Storing + (Len(stsq) + 1) + i - 1
      BY <3>1, HandFacts
    <3> QED
      BY <3>1, <3>2, <3>3
  <2> QED
    BY <1>1, <1>3, <1>5, <2>1, <2>2 DEF RingInv, Tags, ExpectedTag
<1>9. Due' = Due /\ Announced' = Announced
  BY <1>1, <1>2, <1>6 DEF Due, Announced
<1>10. Coming' = Coming
  <2>1. CASE stsq = <<>>
    BY <1>3, <2>1, HandFacts DEF Coming
  <2>2. CASE stsq # <<>>
    <3>1. 1 \in 1..Len(stsq)
      BY <2>2, HandFacts
    <3> QED
      BY <1>3, <2>2, <3>1 DEF Coming
  <2> QED
    BY <2>1, <2>2
<1>11. Coming = Announced /\ \A t \in Threads : pc[t] \notin Resetting
  BY <1>1, <1>5 DEF RingInv, Packets, Quiet, Empty, Resetting
<1>12. ASSUME NEW j \in DOMAIN stsq'
       PROVE  IF j = Len(stsq') THEN src' = SuccPacket(stsq'[j].len)
              ELSE stsq'[j + 1].len = SuccPacket(stsq'[j].len)
  <2>1. CASE j = Len(stsq) + 1
    BY <1>1, <1>3, <2>1
  <2>2. CASE j \in DOMAIN stsq
    <3>1. IF j = Len(stsq) THEN src = SuccPacket(stsq[j].len)
          ELSE stsq[j + 1].len = SuccPacket(stsq[j].len)
      BY <2>2 DEF RingInv, Packets
    <3>2. j # Len(stsq) + 1 /\ stsq'[j] = stsq[j] /\ (j # Len(stsq) => j + 1 \in 1..Len(stsq))
      BY <1>3, <2>2, HandFacts
    <3> QED
      BY <1>3, <3>1, <3>2
  <2> QED
    BY <1>3, <2>1, <2>2, HandFacts
<1>13. Packets'
  BY <1>1, <1>2, <1>6, <1>9, <1>10, <1>11, <1>12 DEF RingInv, Packets
<1> QED
  BY <1>7, <1>8, <1>13 DEF RingInv

\* The handler takes the oldest status: it is the one it expects.
LEMMA StatusOrder ==
  ASSUME TInv, RingInv, OneOwner, IsrStatusOkay
  PROVE  /\ RingInv'
         /\ Front' = Front /\ Wanted' = Wanted /\ ReadyCount' = ReadyCount
         /\ Place(exp_buf) = ReadyCount
         /\ \A b \in Buf : b # exp_buf => blen'[b] = blen[b]
<1>1. /\ stsq # <<>> /\ stsq' = Tail(stsq) /\ isr # "store" /\ isr' = "store"
      /\ nbuf' = Head(stsq).tag
      /\ blen' = [blen EXCEPT ![Head(stsq).tag] = Head(stsq).len]
      /\ UNCHANGED <<bready, exp_buf, src, cmds, pc, idx, received_buf>>
      /\ stsq \in Seq(Status)
  BY DEF IsrStatusOkay, TInv, TypeOK, dmVars, procVars
<1>2. Front' = Front /\ Wanted' = Wanted
  BY DEF IsrStatusOkay, Front, Wanted, MidConfirm, procVars
<1>3. /\ 1 \in DOMAIN stsq /\ Head(stsq) = stsq[1]
      /\ Len(stsq') = Len(stsq) - 1 /\ Len(stsq) > 0 /\ DOMAIN stsq' = 1..Len(stsq) - 1
      /\ \A j \in 1..Len(stsq) - 1 : stsq'[j] = stsq[j + 1]
      /\ (stsq' = <<>> <=> Len(stsq) = 1)
  <2>1. Len(stsq) \in Nat /\ Len(stsq) > 0 /\ Len(Tail(stsq)) = Len(stsq) - 1
    BY <1>1, TailPlaces
  <2>2. Tail(stsq) \in Seq(Status)
    BY <1>1, TailFacts
  <2>3. Tail(stsq) = <<>> <=> Len(Tail(stsq)) = 0
    BY <2>2, EmptyLen
  <2>4. stsq' = <<>> <=> Len(stsq) = 1
    BY <1>1, <2>1, <2>3
  <2> QED
    BY <1>1, <2>4, TailPlaces
<1>4. Storing = 0 /\ Storing' = 1 /\ InHand' = InHand /\ InHand > Storing
  BY <1>1, <1>3, HandFacts DEF Storing, InHand
<1>5. stsq[1].tag = exp_buf /\ bready[exp_buf] = 0
  <2>1. stsq[1].tag = Plus(exp_buf, 0 + 1 - 1)
    BY <1>3, <1>4 DEF RingInv, Tags
  <2> QED
    BY <1>3, <2>1, PlusFacts, ReadyFacts DEF OneOwner
<1>6. stsq[1].len = Due
  <2>1. Coming = stsq[1].len /\ Announced = Due
    BY <1>1 DEF Coming, Announced
  <2> QED
    BY <1>4, <2>1 DEF RingInv, Packets
<1>7. /\ nbuf' = exp_buf /\ blen'[exp_buf] = Due
      /\ \A b \in Buf : b # exp_buf => blen'[b] = blen[b]
  BY <1>1, <1>3, <1>5, <1>6, ReadyFacts DEF TInv, TypeOK
<1>8. ReadyCount' = ReadyCount /\ \A b \in Buf : Place(b)' = Place(b)
  BY <1>1, <1>2, FrontFacts DEF ReadyCount, Place
<1>9. ReadyCount < BUF_NUM /\ Place(exp_buf) = ReadyCount
  <2>1. ~(Place(exp_buf) < ReadyCount)
    BY <1>5, ReadyFacts DEF RingInv, ReadyRun
  <2> QED
    BY <2>1, ReadyFacts, PlaceFacts
<1>10. ReadyRun' /\ Supplied'
  BY <1>1, <1>4, <1>8 DEF RingInv, ReadyRun, Supplied, Submitted
<1>11. Tags'
  <2>1. ASSUME NEW j \in DOMAIN stsq'
        PROVE  stsq'[j].tag = Plus(exp_buf, 1 + j - 1) /\ stsq'[j].kind = "okay"
    <3>1. j + 1 \in DOMAIN stsq /\ stsq'[j] = stsq[j + 1] /\ 0 + (j + 1) - 1 = 1 + j - 1
      BY <1>3, HandFacts
    <3> QED
      BY <1>4, <3>1 DEF RingInv, Tags
  <2>2. ASSUME NEW i \in DOMAIN cmds
        PROVE  cmds[i] = Plus(exp_buf, 1 + (Len(stsq) - 1) + i - 1)
    <3>1. 1 + (Len(stsq) - 1) + i - 1 = 0 + Len(stsq) + i - 1
      BY HandFacts
    <3> QED
      BY <1>4, <3>1 DEF RingInv, Tags
  <2> QED
    BY <1>1, <1>3, <1>4, <1>7, <2>1, <2>2 DEF RingInv, Tags, ExpectedTag
<1>12. Due' = Due
  <2>1. ASSUME ReadyCount # 0 PROVE Pred(exp_buf) \in Buf /\ Pred(exp_buf) # exp_buf
    <3>1. BUF_NUM > 1 /\ exp_buf \in 0..BUF_NUM - 1
      BY <1>9, <2>1, ReadyFacts DEF Buf
    <3> QED
      BY <3>1, BufNumAssumption DEF Pred, Buf
  <2> QED
    BY <1>1, <1>2, <1>7, <1>8, <2>1 DEF Due
<1>13. Announced' = SuccPacket(Due)
  BY <1>1, <1>7 DEF Announced
<1>14. Coming' = SuccPacket(Due)
  <2>1. IF 1 = Len(stsq) THEN src = SuccPacket(stsq[1].len)
        ELSE stsq[1 + 1].len = SuccPacket(stsq[1].len)
    BY <1>3 DEF RingInv, Packets
  <2>2. Len(stsq) # 1 => 1 \in 1..Len(stsq) - 1
    BY <1>3, HandFacts
  <2> QED
    BY <1>1, <1>3, <1>6, <2>1, <2>2 DEF Coming
<1>15. ASSUME NEW j \in DOMAIN stsq'
       PROVE  IF j = Len(stsq') THEN src' = SuccPacket(stsq'[j].len)
              ELSE stsq'[j + 1].len = SuccPacket(stsq'[j].len)
  <2>1. IF j + 1 = Len(stsq) THEN src = SuccPacket(stsq[j + 1].len)
        ELSE stsq[j + 1 + 1].len = SuccPacket(stsq[j + 1].len)
    <3>1. j + 1 \in DOMAIN stsq
      BY <1>3, HandFacts
    <3> QED
      BY <3>1 DEF RingInv, Packets
  <2>2. j \in 1..Len(stsq) - 1 /\ (j = Len(stsq') <=> j + 1 = Len(stsq))
    BY <1>3, HandFacts
  <2>3. j + 1 # Len(stsq) => j + 1 \in 1..Len(stsq) - 1
    BY <2>2, HandFacts
  <2> QED
    BY <1>1, <1>3, <2>1, <2>2, <2>3
<1>16. ReadyCount > 0 => blen'[Front] = Wanted
  <2>1. ReadyCount > 0 => Front # exp_buf
    BY <1>9, PlaceFacts
  <2> QED
    BY <1>7, <2>1, PlaceFacts DEF RingInv, Packets
<1>17. ASSUME NEW b \in Buf, Place(b) + 1 < ReadyCount
       PROVE  blen'[Succ(b)] = SuccPacket(blen'[b])
  <2>1. b # exp_buf /\ Succ(b) # exp_buf /\ Succ(b) \in Buf
    BY <1>9, <1>17, SuccFacts, PlaceFacts, ReadyFacts
  <2> QED
    BY <1>7, <1>17, <2>1 DEF RingInv, Packets
<1>18. Packets'
  BY <1>1, <1>2, <1>4, <1>7, <1>8, <1>12, <1>13, <1>14, <1>15, <1>16, <1>17
  DEF RingInv, Packets
<1> QED
  BY <1>2, <1>7, <1>8, <1>9, <1>10, <1>11, <1>18 DEF RingInv

\* A transfer command for the buffer that follows those in hand.
LEMMA SubmitOrder ==
  ASSUME TInv, RingInv, FIFO_DEPTH >= BUF_NUM, NEW c \in Buf, TransferBuf(c),
         Place(c) = InHand + ReadyCount, Front' = Front, Wanted' = Wanted,
         UNCHANGED <<bready, blen, exp_buf, stsq, src, nbuf, isr>>,
         \E t \in Threads : pc[t] \in Acquiring, \A t \in Threads : pc'[t] \notin Resetting
  PROVE  /\ ReadyRun' /\ Tags' /\ Packets'
         /\ InHand' = InHand + 1 /\ ReadyCount' = ReadyCount
<1>1. ReadyCount' = ReadyCount /\ \A b \in Buf : Place(b)' = Place(b)
  BY FrontFacts DEF ReadyCount, Place
<1>2. InHand + ReadyCount < BUF_NUM /\ Place(exp_buf) = ReadyCount
  BY PlaceFacts, ReadyFacts, HandFacts
<1>3. Plus(exp_buf, InHand) = c
  <2>1. Place(Plus(exp_buf, InHand)) = Place(c) /\ Plus(exp_buf, InHand) \in Buf
    BY <1>2, PlacePlus, HandFacts, ReadyFacts
  <2> QED
    BY <2>1, PlaceFacts
<1>4. cmds' = Append(cmds, c)
  <2>1. FIFO_DEPTH \in Nat /\ BUF_NUM \in Nat /\ Len(cmds) \in Nat /\ Len(cmds) < BUF_NUM
    BY <1>2, HandFacts, ReadyFacts, BoundsAssumption
  <2>2. Len(cmds) < FIFO_DEPTH
    BY <2>1
  <2> QED
    BY <2>2 DEF TransferBuf
<1>5. /\ Len(cmds') = Len(cmds) + 1 /\ DOMAIN cmds' = 1..Len(cmds) + 1
      /\ \A i \in 1..Len(cmds) : cmds'[i] = cmds[i]
      /\ cmds'[Len(cmds) + 1] = c
  <2>1. cmds \in Seq(Buf)
    BY DEF TInv, TypeOK
  <2> QED
    BY <1>4, <2>1, AppendPlaces
<1>6. Storing' = Storing /\ InHand' = InHand + 1
  <2>1. Storing' = Storing
    BY DEF Storing
  <2>2. InHand' = Storing + Len(stsq) + (Len(cmds) + 1)
    BY <1>5, <2>1 DEF InHand
  <2> QED
    BY <2>1, <2>2, HandFacts
<1>7. ReadyRun'
  BY <1>1 DEF RingInv, ReadyRun
<1>8. Tags'
  <2>1. InHand' <= BUF_NUM
    BY <1>2, <1>6, HandFacts, ReadyFacts
  <2>2. ASSUME NEW i \in DOMAIN cmds'
        PROVE  cmds'[i] = Plus(exp_buf, Storing + Len(stsq) + i - 1)
    <3>1. CASE i = Len(cmds) + 1
      <4>1. Storing + Len(stsq) + i - 1 = InHand
        BY <3>1, HandFacts
      <4> QED
        BY <1>3, <1>5, <3>1, <4>1
    <3>2. CASE i \in DOMAIN cmds
      BY <1>5, <3>2, HandFacts DEF RingInv, Tags
    <3> QED
      BY <1>5, <3>1, <3>2, HandFacts
  <2> QED
    BY <1>6, <2>1, <2>2 DEF RingInv, Tags, ExpectedTag
<1>9. Due' = Due /\ Announced' = Announced /\ Coming' = Coming
  BY <1>1 DEF Due, Announced, Coming
<1>10. Packets'
  BY <1>1, <1>9 DEF RingInv, Packets
<1> QED
  BY <1>1, <1>6, <1>7, <1>8, <1>10

\* ADM_CONFIRM submits the buffer just before Front.
LEMMA ConfirmSubmitOrder ==
  ASSUME TInv, RingInv, FIFO_DEPTH >= BUF_NUM, NEW t, Threads = {t}, ConfirmSubmit(t)
  PROVE  RingInv'
<1>1. /\ pc[t] = "confirm_submit" /\ pc'[t] = "confirm_next" /\ TransferBuf(received_buf)
      /\ UNCHANGED <<bready, blen, exp_buf, stsq, src, nbuf, isr, received_buf, want>>
  <2>1. /\ pc[t] = "confirm_submit" /\ TransferBuf(received_buf)
        /\ UNCHANGED <<bready, blen, exp_buf, stsq, src, nbuf, isr, received_buf, want>>
    BY DEF ConfirmSubmit, ringVars, isrVars, fifoVars
  <2>2. pc'[t] = "confirm_next"
    BY DEF ConfirmSubmit, Goto, TInv, TypeOK
  <2> QED
    BY <2>1, <2>2
<1>2. Front = Succ(received_buf) /\ Front' = Front /\ Wanted' = Wanted
  BY <1>1 DEF Front, Wanted, MidConfirm
<1>3. InHand + ReadyCount = BUF_NUM - 1
  BY <1>1 DEF RingInv, Supplied, Acquiring, Submitted
<1>4. received_buf \in Buf
  BY DEF TInv, TypeOK
<1>5. Place(received_buf) = BUF_NUM - 1
  BY <1>2, <1>4, SuccFacts, PlaceFacts, ReadyFacts
<1>6. /\ ReadyRun' /\ Tags' /\ Packets'
      /\ InHand' = InHand + 1 /\ ReadyCount' = ReadyCount
  BY <1>1, <1>2, <1>3, <1>4, <1>5, SubmitOrder DEF Acquiring, Resetting
<1>7. Supplied'
  <2>0. InHand \in Nat /\ ReadyCount \in Nat /\ BUF_NUM \in Nat
    BY HandFacts, ReadyFacts
  <2>1. InHand' + ReadyCount' = BUF_NUM
    BY <1>3, <1>6, <2>0
  <2> QED
    BY <1>1, <2>1 DEF Supplied, Submitted
<1> QED
  BY <1>6, <1>7 DEF RingInv

\* ADM_START submits the buffers from 0 on.
LEMMA StartSubmitOrder ==
  ASSUME TInv, RingInv, FIFO_DEPTH >= BUF_NUM, NEW t, Threads = {t}, StartSubmit(t),
         idx[t] < BUF_NUM
  PROVE  RingInv'
<1>1. /\ pc[t] = "start_submit" /\ pc' = pc /\ TransferBuf(idx[t])
      /\ idx'[t] = idx[t] + 1 /\ idx[t] \in 0..BUF_NUM
      /\ UNCHANGED <<bready, blen, exp_buf, stsq, src, nbuf, isr, received_buf, want>>
  <2>1. idx \in [Threads -> 0..BUF_NUM] /\ idx[t] # BUF_NUM
    BY BufNumAssumption DEF TInv, TypeOK
  <2>2. /\ pc[t] = "start_submit" /\ pc' = pc /\ TransferBuf(idx[t])
        /\ idx' = [idx EXCEPT ![t] = @ + 1]
        /\ UNCHANGED <<bready, blen, exp_buf, stsq, src, nbuf, isr, received_buf, want>>
    BY <2>1 DEF StartSubmit, ringVars, isrVars, fifoVars
  <2> QED
    BY <2>1, <2>2
<1>2. Front = 0 /\ Front' = Front /\ Wanted' = Wanted
  BY <1>1 DEF Front, Wanted, MidConfirm, RingInv, Supplied
<1>3. InHand + ReadyCount = idx[t]
  BY <1>1 DEF RingInv, Supplied, Acquiring, Submitted
<1>4. idx[t] \in Buf
  BY <1>1, BufNumAssumption DEF Buf
<1>5. Place(idx[t]) = idx[t]
  BY <1>2, <1>4, BufNumAssumption DEF Place, Buf
<1>6. /\ ReadyRun' /\ Tags' /\ Packets'
      /\ InHand' = InHand + 1 /\ ReadyCount' = ReadyCount
  BY <1>1, <1>2, <1>3, <1>4, <1>5, SubmitOrder DEF Acquiring, Resetting
<1>7. Supplied'
  <2>1. InHand' + ReadyCount' = idx'[t]
    BY <1>1, <1>3, <1>6, HandFacts, ReadyFacts
  <2> QED
    BY <1>1, <2>1 DEF RingInv, Supplied, Submitted
<1> QED
  BY <1>6, <1>7 DEF RingInv

\* ADM_RESET empties the queues; a handler at work keeps its buffer.
LEMMA ResetOrder ==
  ASSUME TInv, RingInv, FreeOrder = FALSE, NEW t, Threads = {t}, ResetAssert(t)
  PROVE  RingInv'
<1>1. /\ pc[t] = "opened" /\ pc'[t] = "reset_hold" /\ src' = 1
      /\ cmds' = <<>> /\ stsq' = <<>>
      /\ UNCHANGED <<bready, blen, exp_buf, nbuf, isr, received_buf, want>>
  BY DEF ResetAssert, MayCall, HardwareReset, Goto, TInv, TypeOK, ringVars, isrVars
<1>2. Front' = Front /\ Wanted' = Wanted
  BY <1>1 DEF Front, Wanted, MidConfirm
<1>3. ReadyCount' = ReadyCount /\ \A b \in Buf : Place(b)' = Place(b)
  BY <1>1, <1>2, FrontFacts DEF ReadyCount, Place
<1>4. Storing' = Storing /\ InHand' = Storing
  <2>1. Storing' = Storing
    BY <1>1 DEF Storing
  <2>2. InHand' = Storing + 0 + 0
    BY <1>1, <2>1 DEF InHand
  <2> QED
    BY <2>1, <2>2, HandFacts
<1>5. ReadyRun'
  BY <1>1, <1>3 DEF RingInv, ReadyRun
<1>6. Tags'
  <2>1. InHand' <= BUF_NUM
    BY <1>4, HandFacts, ReadyFacts DEF RingInv, Tags
  <2> QED
    BY <1>1, <2>1 DEF RingInv, Tags, ExpectedTag
<1>7. Supplied'
  BY <1>1 DEF Supplied, Acquiring
<1>8. Due' = Due
  BY <1>1, <1>2, <1>3 DEF Due
<1>9. Packets'
  <2>1. ~(InHand' > Storing') /\ \A v \in Threads : pc'[v] \notin Acquiring
    BY <1>1, <1>4, HandFacts DEF Acquiring
  <2> QED
    BY <1>1, <1>2, <1>3, <1>8, <2>1 DEF RingInv, Packets
<1> QED
  BY <1>5, <1>6, <1>7, <1>9 DEF RingInv

\* ADM_START starts from an empty ring.
LEMMA StartOrder ==
  ASSUME TInv, RingInv, Quiet, FreeOrder = FALSE, NEW t, Threads = {t}, StartClear(t)
  PROVE  RingInv' /\ Wanted' = 1 /\ ReadyCount' = 0
<1>1. /\ pc[t] = "after_reset" /\ pc'[t] = "start_submit" /\ idx'[t] = 0
      /\ received_buf' = 0 /\ exp_buf' = 0 /\ want' = 1
      /\ bready' = [b \in Buf |-> 0]
      /\ UNCHANGED <<stsq, cmds, src, nbuf, isr>>
  BY DEF StartClear, ClearRing, MayCall, Goto, TInv, TypeOK, fifoVars, dmVars, isrVars
<1>2. stsq = <<>> /\ cmds = <<>> /\ isr = "idle" /\ src = 1
  BY <1>1 DEF Quiet, Empty, RingInv, Packets, Resetting
<1>3. Front' = 0 /\ Wanted' = 1
  BY <1>1 DEF Front, Wanted, MidConfirm
<1>4. BUF_NUM \in Nat \ {0} /\ 0 \in Buf
  BY BufNumAssumption DEF Buf
<1>5. \A b \in Buf : Place(b)' = b
  BY <1>3, <1>4 DEF Place, Buf
<1>6. ReadyCount' = 0
  BY <1>1, <1>3, <1>4 DEF ReadyCount
<1>7. Storing' = 0 /\ InHand' = 0
  BY <1>1, <1>2 DEF Storing, InHand
<1>8. ReadyRun'
  BY <1>1, <1>4, <1>5, <1>6 DEF ReadyRun, Buf
<1>9. Tags'
  BY <1>1, <1>2, <1>4, <1>7 DEF Tags, ExpectedTag
<1>10. Supplied'
  BY <1>1, <1>6, <1>7 DEF Supplied, Submitted
<1>11. Coming' = 1 /\ Announced' = 1
  BY <1>1, <1>2, <1>3, <1>6 DEF Coming, Announced, Due
<1>12. Packets'
  <2>1. \A b \in Buf : ~(Place(b)' + 1 < ReadyCount')
    BY <1>4, <1>5, <1>6 DEF Buf
  <2> QED
    BY <1>1, <1>2, <1>6, <1>11, <2>1 DEF Packets
<1> QED
  BY <1>3, <1>6, <1>8, <1>9, <1>10, <1>12 DEF RingInv

\* ADM_CONFIRM takes the flag of the buffer at Front: Front moves on.
LEMMA ConfirmClearOrder ==
  ASSUME TInv, RingInv, Confirming, OneOwner, NEW t, Threads = {t}, ConfirmClear(t)
  PROVE  /\ RingInv'
         /\ Front' = Succ(Front) /\ Wanted' = SuccPacket(Wanted)
         /\ ReadyCount > 0 /\ ReadyCount' = ReadyCount - 1
         /\ \A b \in Buf : b # Front => blen'[b] = blen[b]
<1>1. /\ pc[t] = "confirm_clear" /\ pc'[t] = "confirm_submit"
      /\ bready[received_buf] = 1
      /\ blen' = [blen EXCEPT ![received_buf] = 0]
      /\ bready' = [bready EXCEPT ![received_buf] = 0]
      /\ UNCHANGED <<exp_buf, stsq, cmds, src, nbuf, isr, received_buf, want>>
  <2>1. /\ pc[t] = "confirm_clear"
        /\ blen' = [blen EXCEPT ![received_buf] = 0]
        /\ bready' = [bready EXCEPT ![received_buf] = 0]
        /\ UNCHANGED <<exp_buf, stsq, cmds, src, nbuf, isr, received_buf, want>>
    BY DEF ConfirmClear, dmVars, isrVars, fifoVars
  <2>2. pc'[t] = "confirm_submit"
    BY DEF ConfirmClear, Goto, TInv, TypeOK
  <2>3. bready[received_buf] = 1
    BY <2>1 DEF Confirming
  <2> QED
    BY <2>1, <2>2, <2>3
<1>2. Front = received_buf /\ Front' = Succ(Front) /\ Wanted' = SuccPacket(Wanted)
  BY <1>1 DEF Front, Wanted, MidConfirm
<1>3. /\ blen'[Front] = 0 /\ bready'[Front] = 0 /\ bready[Front] = 1
      /\ \A b \in Buf : b # Front => blen'[b] = blen[b] /\ bready'[b] = bready[b]
  BY <1>1, <1>2, FrontFacts DEF TInv, TypeOK
<1>4. ReadyCount > 0
  BY <1>3, PlaceFacts DEF RingInv, ReadyRun
<1>5. \A b \in Buf : Place(b)' = IF b = Front THEN BUF_NUM - 1 ELSE Place(b) - 1
  <2>1. Front \in 0..BUF_NUM - 1 /\ BUF_NUM \in Nat /\ Front' = Succ(Front)
    BY <1>2, FrontFacts, BufNumAssumption DEF Buf
  <2>2. ASSUME NEW b \in Buf
        PROVE  Place(b)' = IF b >= Front' THEN b - Front' ELSE b - Front' + BUF_NUM
    BY DEF Place
  <2> QED
    BY <2>1, <2>2 DEF Place, Succ, Buf
<1>6. ReadyCount' = ReadyCount - 1
  <2>1. ReadyCount' = IF exp_buf = Front'
                        THEN IF bready'[Front'] = 1 THEN BUF_NUM ELSE 0
                        ELSE IF exp_buf = Front THEN BUF_NUM - 1 ELSE Place(exp_buf) - 1
    BY <1>1, <1>5, ReadyFacts DEF ReadyCount
  <2>2. exp_buf = Front => ReadyCount = BUF_NUM
    BY <1>4, ReadyFacts, PlaceFacts
  <2>3. exp_buf # Front => Place(exp_buf) = ReadyCount
    BY ReadyFacts
  <2>4. ASSUME exp_buf = Front' PROVE ReadyCount = 1 /\ bready'[exp_buf] = 0
    <3>1. CASE exp_buf = Front
      <4>0. Place(Succ(Front)) = 0
        BY <1>2, <2>4, <3>1, PlaceFacts
      <4>1. BUF_NUM = 1
        BY <4>0, SuccFacts, PlaceFacts, ReadyFacts
      <4> QED
        BY <1>3, <2>2, <3>1, <4>1
    <3>2. CASE exp_buf # Front
      <4>1. ReadyCount = 1
        BY <1>2, <2>3, <2>4, <3>2, SuccFacts, PlaceFacts, ReadyFacts
      <4>2. bready[exp_buf] # 1
        BY <2>3, <3>2, ReadyFacts DEF RingInv, ReadyRun
      <4> QED
        BY <1>3, <3>2, <4>1, <4>2, ReadyFacts DEF TInv, TypeOK
    <3> QED
      BY <3>1, <3>2
  <2>5. ReadyCount \in Nat /\ BUF_NUM \in Nat
    BY ReadyFacts
  <2> QED
    BY <2>1, <2>2, <2>3, <2>4, <2>5
<1>7. ReadyRun'
  <2>1. ASSUME NEW b \in Buf PROVE bready'[b] = 1 <=> Place(b)' < ReadyCount - 1
    <3>1. Place(b) \in Nat /\ ReadyCount \in Nat /\ ReadyCount <= BUF_NUM /\ BUF_NUM \in Nat
      BY PlaceFacts, ReadyFacts
    <3>2. bready[b] = 1 <=> Place(b) < ReadyCount
      BY DEF RingInv, ReadyRun
    <3>3. CASE b = Front
      BY <1>3, <1>5, <3>1, <3>3
    <3>4. CASE b # Front
      BY <1>3, <1>5, <3>1, <3>2, <3>4
    <3> QED
      BY <3>3, <3>4
  <2> QED
    BY <1>6, <2>1 DEF ReadyRun
<1>8. Storing' = Storing /\ InHand' = InHand
  BY <1>1 DEF Storing, InHand
<1>9. Tags'
  BY <1>1, <1>8 DEF RingInv, Tags, ExpectedTag
<1>10. Supplied'
  <2>1. InHand + ReadyCount = BUF_NUM
    BY <1>1 DEF RingInv, Supplied, Acquiring, Submitted
  <2>2. InHand' + ReadyCount' = BUF_NUM - 1
    BY <1>6, <1>8, <2>1, HandFacts, ReadyFacts
  <2> QED
    BY <1>1, <2>2 DEF Supplied, Submitted
<1>11. blen[Front] = Wanted
  BY <1>4 DEF RingInv, Packets
<1>12. ReadyCount > 1 => Succ(Front) # Front
  BY SuccFacts, PlaceFacts, ReadyFacts
<1>13. ReadyCount - 1 > 0 => blen'[Front'] = Wanted'
  <2>1. ASSUME ReadyCount > 1 PROVE blen[Succ(Front)] = SuccPacket(blen[Front])
    BY <2>1, PlaceFacts DEF RingInv, Packets
  <2> QED
    BY <1>2, <1>3, <1>11, <1>12, <2>1, SuccFacts, PlaceFacts, ReadyFacts
<1>14. ASSUME NEW b \in Buf, Place(b)' + 1 < ReadyCount - 1
       PROVE  blen'[Succ(b)] = SuccPacket(blen'[b])
  <2>1. b # Front /\ Place(b) + 1 < ReadyCount
    BY <1>5, <1>14, PlaceFacts, ReadyFacts
  <2>2. Succ(b) \in Buf /\ Succ(b) # Front
    BY <2>1, SuccFacts, PlaceFacts, ReadyFacts
  <2>3. blen[Succ(b)] = SuccPacket(blen[b])
    BY <2>1 DEF RingInv, Packets
  <2> QED
    BY <1>3, <2>1, <2>2, <2>3
<1>15. isr = "store" => nbuf \in Buf /\ nbuf # Front
  BY <1>3 DEF OneOwner, TInv, TypeOK
<1>16. Due' = Due
  <2>1. Pred(exp_buf) \in Buf /\ Succ(Pred(exp_buf)) = exp_buf
    BY PredFacts, ReadyFacts
  <2>2. CASE ReadyCount = 1
    <3>1. Place(Succ(Front)) = Place(exp_buf)
      BY <2>2, SuccFacts, PlaceFacts, ReadyFacts
    <3>2. Pred(exp_buf) = Front
      BY <3>1, SuccFacts, PlaceFacts, ReadyFacts
    <3> QED
      BY <1>2, <1>6, <1>11, <2>2, <3>2 DEF Due
  <2>3. CASE ReadyCount > 1
    <3>1. Pred(exp_buf) # Front
      <4>1. Place(exp_buf) # 1
        BY <2>3, ReadyFacts, PlaceFacts
      <4>2. Place(Succ(Front)) = 1
        BY <2>3, SuccFacts, PlaceFacts, ReadyFacts
      <4> QED
        BY <2>1, <4>1, <4>2
    <3>2. ReadyCount' # 0 /\ ReadyCount # 0
      BY <1>6, <2>3, ReadyFacts
    <3>3. blen'[Pred(exp_buf)] = blen[Pred(exp_buf)] /\ exp_buf' = exp_buf
      BY <1>1, <1>3, <2>1, <3>1
    <3>4. Pred(exp_buf)' = Pred(exp_buf)
      BY <3>3 DEF Pred
    <3> QED
      BY <3>2, <3>3, <3>4 DEF Due
  <2> QED
    BY <1>4, <2>2, <2>3, ReadyFacts
<1>17. Announced' = Announced /\ Coming' = Coming
  BY <1>1, <1>3, <1>15, <1>16 DEF Announced, Coming
<1>18. Packets'
  <2>1. isr' = "store" => blen'[nbuf'] = Due'
    BY <1>1, <1>3, <1>15, <1>16 DEF RingInv, Packets
  <2>2. pc[t] \in Acquiring /\ pc'[t] \notin Resetting
    BY <1>1 DEF Acquiring, Resetting
  <2>3. Coming' = Announced'
    BY <1>17, <2>2 DEF RingInv, Packets
  <2>4. ReadyCount' > 0 => blen'[Front'] = Wanted'
    BY <1>6, <1>13
  <2>5. \A b \in Buf : Place(b)' + 1 < ReadyCount' => blen'[Succ(b)] = SuccPacket(blen'[b])
    BY <1>6, <1>14
  <2> QED
    BY <1>1, <2>1, <2>2, <2>3, <2>4, <2>5 DEF RingInv, Packets
<1> QED
  BY <1>2, <1>3, <1>4, <1>6, <1>7, <1>9, <1>10, <1>18 DEF RingInv

\* In the application's order no acquisition runs when ADM_START is called.
LEMMA NotStartedStep ==
  ASSUME SingleUser, TInv, Bookkeeping, NotStarted, [Next]_vars
  PROVE  NotStarted'
<1>0. PICK u : Threads = {u}
  BY DEF SingleUser
<1> USE <1>0
    DEF SingleUser, Bookkeeping, NotStarted, TInv, TypeOK, Goto, UserStates, gpioVars,
        fifoVars, dmVars, ringVars, irqVars, isrVars, procVars
<1>1. CASE DmBegin
  BY <1>1 DEF DmBegin
<1>2. ASSUME NEW kind \in Kinds, DmComplete(kind) PROVE NotStarted'
  BY <1>2 DEF DmComplete
<1>3. CASE IsrEnter
  BY <1>3 DEF IsrEnter
<1>4. CASE IsrOccupancy
  BY <1>4 DEF IsrOccupancy
<1>5. CASE IsrLength
  BY <1>5 DEF IsrLength
<1>6. CASE IsrStatusBad
  BY <1>6 DEF IsrStatusBad
<1>7. CASE IsrStatusOkay
  BY <1>7 DEF IsrStatusOkay
<1>8. CASE IsrReady
  BY <1>8 DEF IsrReady
<1>9. CASE IsrWake
  BY <1>9 DEF IsrWake
<1>10. ASSUME NEW t \in Threads, ResetRelease(t) PROVE NotStarted'
  BY <1>10 DEF ResetRelease
<1>11. ASSUME NEW t \in Threads, ResetFifo(t) PROVE NotStarted'
  BY <1>11 DEF ResetFifo
<1>12. ASSUME NEW t \in Threads, StartSubmit(t) PROVE NotStarted'
  BY <1>12 DEF StartSubmit
<1>13. ASSUME NEW t \in Threads, StartEnable(t) PROVE NotStarted'
  BY <1>13 DEF StartEnable
<1>14. ASSUME NEW t \in Threads, StartGo(t) PROVE NotStarted'
  BY <1>14 DEF StartGo
<1>15. ASSUME NEW t \in Threads, GetWait(t) PROVE NotStarted'
  BY <1>15 DEF GetWait, BufReady
<1>16. ASSUME NEW t \in Threads, GetRead(t) PROVE NotStarted'
  BY <1>16 DEF GetRead
<1>17. ASSUME NEW t \in Threads, ConfirmClear(t) PROVE NotStarted'
  BY <1>17 DEF ConfirmClear
<1>18. ASSUME NEW t \in Threads, ConfirmSubmit(t) PROVE NotStarted'
  BY <1>18 DEF ConfirmSubmit
<1>19. ASSUME NEW t \in Threads, ConfirmNext(t) PROVE NotStarted'
  BY <1>19 DEF ConfirmNext
<1>20. ASSUME NEW t \in Threads, ReleaseStop(t) PROVE NotStarted'
  BY <1>20 DEF ReleaseStop, StopAcquisition
<1>21. ASSUME NEW t \in Threads, ReleaseIrq(t) PROVE NotStarted'
  BY <1>21 DEF ReleaseIrq
<1>22. ASSUME NEW t \in Threads, Open(t) PROVE NotStarted'
  BY <1>22 DEF Open
<1>23. ASSUME NEW t \in Threads, ResetAssert(t) PROVE NotStarted'
  BY <1>23 DEF ResetAssert, MayCall, HardwareReset
<1>24. ASSUME NEW t \in Threads, StartRefused(t) PROVE NotStarted'
  BY <1>24 DEF StartRefused, MayCall
<1>25. ASSUME NEW t \in Threads, StartClear(t) PROVE NotStarted'
  BY <1>25 DEF StartClear, MayCall, ClearRing
<1>26. ASSUME NEW t \in Threads, Stop(t) PROVE NotStarted'
  BY <1>26 DEF Stop, MayCall
<1>27. ASSUME NEW t \in Threads, GetCall(t) PROVE NotStarted'
  BY <1>27 DEF GetCall, MayCall
<1>28. ASSUME NEW t \in Threads, GetSignal(t) PROVE NotStarted'
  BY <1>28 DEF GetSignal
<1>29. ASSUME NEW t \in Threads, ConfirmCall(t) PROVE NotStarted'
  BY <1>29 DEF ConfirmCall, MayCall
<1>30. ASSUME NEW t \in Threads, Close(t) PROVE NotStarted'
  BY <1>30 DEF Close
<1>31. CASE UNCHANGED vars
  BY <1>31 DEF vars
<1> QED
  BY <1>1, <1>2, <1>3, <1>4, <1>5, <1>6, <1>7, <1>8, <1>9, <1>10, <1>11,
     <1>12, <1>13, <1>14, <1>15, <1>16, <1>17, <1>18, <1>19, <1>20, <1>21,
     <1>22, <1>23, <1>24, <1>25, <1>26, <1>27, <1>28, <1>29, <1>30, <1>31
  DEF Next, Hardware, Handler, InCall, Call

LEMMA RingStep ==
  ASSUME SingleUser, Lossless, OrderInv, [Next]_vars
  PROVE  RingInv'
<1>0. PICK u : Threads = {u}
  BY DEF SingleUser
<1>t. TInv /\ TInv' /\ RingInv /\ OneOwner /\ Quiet /\ Confirming
  BY TypeStep DEF OrderInv, IInv, RingInv
<1>c. pc \in [Threads -> Labels] /\ idx \in [Threads -> 0..BUF_NUM] /\ FreeOrder = FALSE
  BY <1>t DEF TInv, TypeOK, SingleUser
<1>k. Kinds = {"okay"} /\ FIFO_DEPTH >= BUF_NUM
  BY DEF Lossless
<1> USE <1>0, <1>c
    DEF Goto, UserStates, gpioVars, fifoVars, dmVars, ringVars, irqVars, isrVars, procVars
<1>1. CASE DmBegin
  <2>1. UNCHANGED <<bready, blen, exp_buf, stsq, cmds, src, nbuf>>
    BY <1>1 DEF DmBegin
  <2>2. Front' = Front /\ Wanted' = Wanted /\ (isr' = "store" <=> isr = "store")
    BY <1>1 DEF DmBegin, Front, Wanted, MidConfirm
  <2>3. \A v \in Threads :
          /\ pc'[v] \in Acquiring => pc[v] \in Acquiring /\ Submitted(v)' = Submitted(v)
          /\ pc'[v] = "start_submit" => pc[v] = "start_submit" /\ received_buf' = received_buf
          /\ pc'[v] \in Resetting => pc[v] \in Resetting
    BY <1>1 DEF DmBegin, Acquiring, Resetting, Submitted
  <2> QED
    BY <1>t, <2>1, <2>2, <2>3, Still
<1>2. ASSUME NEW kind \in Kinds, DmComplete(kind) PROVE RingInv'
  BY <1>t, <1>k, <1>2, CompleteOrder
<1>3. CASE IsrEnter
  <2>1. UNCHANGED <<bready, blen, exp_buf, stsq, cmds, src, nbuf>>
    BY <1>3 DEF IsrEnter
  <2>2. Front' = Front /\ Wanted' = Wanted /\ (isr' = "store" <=> isr = "store")
    BY <1>3 DEF IsrEnter, Front, Wanted, MidConfirm
  <2>3. \A v \in Threads :
          /\ pc'[v] \in Acquiring => pc[v] \in Acquiring /\ Submitted(v)' = Submitted(v)
          /\ pc'[v] = "start_submit" => pc[v] = "start_submit" /\ received_buf' = received_buf
          /\ pc'[v] \in Resetting => pc[v] \in Resetting
    BY <1>3 DEF IsrEnter, Acquiring, Resetting, Submitted
  <2> QED
    BY <1>t, <2>1, <2>2, <2>3, Still
<1>4. CASE IsrOccupancy
  <2>1. UNCHANGED <<bready, blen, exp_buf, stsq, cmds, src, nbuf>>
    BY <1>4 DEF IsrOccupancy
  <2>2. Front' = Front /\ Wanted' = Wanted /\ (isr' = "store" <=> isr = "store")
    BY <1>4 DEF IsrOccupancy, Front, Wanted, MidConfirm
  <2>3. \A v \in Threads :
          /\ pc'[v] \in Acquiring => pc[v] \in Acquiring /\ Submitted(v)' = Submitted(v)
          /\ pc'[v] = "start_submit" => pc[v] = "start_submit" /\ received_buf' = received_buf
          /\ pc'[v] \in Resetting => pc[v] \in Resetting
    BY <1>4 DEF IsrOccupancy, Acquiring, Resetting, Submitted
  <2> QED
    BY <1>t, <2>1, <2>2, <2>3, Still
<1>5. CASE IsrLength
  <2>1. UNCHANGED <<bready, blen, exp_buf, stsq, cmds, src, nbuf>>
    BY <1>5 DEF IsrLength
  <2>2. Front' = Front /\ Wanted' = Wanted /\ (isr' = "store" <=> isr = "store")
    BY <1>5 DEF IsrLength, Front, Wanted, MidConfirm
  <2>3. \A v \in Threads :
          /\ pc'[v] \in Acquiring => pc[v] \in Acquiring /\ Submitted(v)' = Submitted(v)
          /\ pc'[v] = "start_submit" => pc[v] = "start_submit" /\ received_buf' = received_buf
          /\ pc'[v] \in Resetting => pc[v] \in Resetting
    BY <1>5 DEF IsrLength, Acquiring, Resetting, Submitted
  <2> QED
    BY <1>t, <2>1, <2>2, <2>3, Still
<1>6. CASE IsrStatusBad
  <2>0. stsq = <<>>
    <3>1. stsq # <<>> => 1 \in DOMAIN stsq /\ Head(stsq) = stsq[1]
      BY <1>t, TailFacts DEF TInv, TypeOK
    <3> QED
      BY <1>t, <1>6, <3>1 DEF IsrStatusBad, RingInv, Tags
  <2>1. UNCHANGED <<bready, blen, exp_buf, stsq, cmds, src, nbuf>>
    BY <1>6, <2>0 DEF IsrStatusBad
  <2>2. Front' = Front /\ Wanted' = Wanted /\ (isr' = "store" <=> isr = "store")
    BY <1>6 DEF IsrStatusBad, Front, Wanted, MidConfirm
  <2>3. \A v \in Threads :
          /\ pc'[v] \in Acquiring => pc[v] \in Acquiring /\ Submitted(v)' = Submitted(v)
          /\ pc'[v] = "start_submit" => pc[v] = "start_submit" /\ received_buf' = received_buf
          /\ pc'[v] \in Resetting => pc[v] \in Resetting
    BY <1>6 DEF IsrStatusBad, Acquiring, Resetting, Submitted
  <2> QED
    BY <1>t, <2>1, <2>2, <2>3, Still
<1>7. CASE IsrStatusOkay
  BY <1>t, <1>7, StatusOrder
<1>8. CASE IsrReady
  BY <1>t, <1>8, ReadyOrder
<1>9. CASE IsrWake
  <2>1. UNCHANGED <<bready, blen, exp_buf, stsq, cmds, src, nbuf>>
    BY <1>9 DEF IsrWake
  <2>2. Front' = Front /\ Wanted' = Wanted /\ (isr' = "store" <=> isr = "store")
    BY <1>9 DEF IsrWake, Front, Wanted, MidConfirm
  <2>3. \A v \in Threads :
          /\ pc'[v] \in Acquiring => pc[v] \in Acquiring /\ Submitted(v)' = Submitted(v)
          /\ pc'[v] = "start_submit" => pc[v] = "start_submit" /\ received_buf' = received_buf
          /\ pc'[v] \in Resetting => pc[v] \in Resetting
    BY <1>9 DEF IsrWake, Acquiring, Resetting, Submitted
  <2> QED
    BY <1>t, <2>1, <2>2, <2>3, Still
<1>10. ASSUME NEW t \in Threads, ResetRelease(t) PROVE RingInv'
  <2>1. UNCHANGED <<bready, blen, exp_buf, stsq, cmds, src, nbuf>>
    BY <1>10 DEF ResetRelease
  <2>2. Front' = Front /\ Wanted' = Wanted /\ (isr' = "store" <=> isr = "store")
    BY <1>10 DEF ResetRelease, Front, Wanted, MidConfirm
  <2>3. \A v \in Threads :
          /\ pc'[v] \in Acquiring => pc[v] \in Acquiring /\ Submitted(v)' = Submitted(v)
          /\ pc'[v] = "start_submit" => pc[v] = "start_submit" /\ received_buf' = received_buf
          /\ pc'[v] \in Resetting => pc[v] \in Resetting
    BY <1>10 DEF ResetRelease, Acquiring, Resetting, Submitted
  <2> QED
    BY <1>t, <2>1, <2>2, <2>3, Still
<1>11. ASSUME NEW t \in Threads, ResetFifo(t) PROVE RingInv'
  <2>0. cmds = <<>> /\ stsq = <<>> /\ ~dm_busy
    BY <1>t, <1>11 DEF ResetFifo, Quiet, Empty, TInv, Consistent
  <2>1. UNCHANGED <<bready, blen, exp_buf, stsq, cmds, src, nbuf>>
    BY <1>11, <2>0 DEF ResetFifo
  <2>2. Front' = Front /\ Wanted' = Wanted /\ (isr' = "store" <=> isr = "store")
    BY <1>11 DEF ResetFifo, Front, Wanted, MidConfirm
  <2>3. \A v \in Threads :
          /\ pc'[v] \in Acquiring => pc[v] \in Acquiring /\ Submitted(v)' = Submitted(v)
          /\ pc'[v] = "start_submit" => pc[v] = "start_submit" /\ received_buf' = received_buf
          /\ pc'[v] \in Resetting => pc[v] \in Resetting
    BY <1>11 DEF ResetFifo, Acquiring, Resetting, Submitted
  <2> QED
    BY <1>t, <2>1, <2>2, <2>3, Still
<1>12. ASSUME NEW t \in Threads, StartSubmit(t) PROVE RingInv'
  <2>0. CASE idx[t] < BUF_NUM
    BY <1>t, <1>k, <1>12, <2>0, StartSubmitOrder
  <2>n. CASE ~(idx[t] < BUF_NUM)
    <3>1. UNCHANGED <<bready, blen, exp_buf, stsq, cmds, src, nbuf>>
      BY <1>12, <2>n DEF StartSubmit
    <3>2. Front' = Front /\ Wanted' = Wanted /\ (isr' = "store" <=> isr = "store")
      BY <1>12, <2>n DEF StartSubmit, Front, Wanted, MidConfirm
    <3>3. \A v \in Threads :
            /\ pc'[v] \in Acquiring => pc[v] \in Acquiring /\ Submitted(v)' = Submitted(v)
            /\ pc'[v] = "start_submit" => pc[v] = "start_submit" /\ received_buf' = received_buf
            /\ pc'[v] \in Resetting => pc[v] \in Resetting
      BY <1>12, <2>n DEF StartSubmit, Acquiring, Resetting, Submitted
    <3> QED
      BY <1>t, <3>1, <3>2, <3>3, Still
  <2> QED
    BY <2>0, <2>n
<1>13. ASSUME NEW t \in Threads, StartEnable(t) PROVE RingInv'
  <2>1. UNCHANGED <<bready, blen, exp_buf, stsq, cmds, src, nbuf>>
    BY <1>13 DEF StartEnable
  <2>2. Front' = Front /\ Wanted' = Wanted /\ (isr' = "store" <=> isr = "store")
    BY <1>13 DEF StartEnable, Front, Wanted, MidConfirm
  <2>3. \A v \in Threads :
          /\ pc'[v] \in Acquiring => pc[v] \in Acquiring /\ Submitted(v)' = Submitted(v)
          /\ pc'[v] = "start_submit" => pc[v] = "start_submit" /\ received_buf' = received_buf
          /\ pc'[v] \in Resetting => pc[v] \in Resetting
    BY <1>13 DEF StartEnable, Acquiring, Resetting, Submitted
  <2> QED
    BY <1>t, <2>1, <2>2, <2>3, Still
<1>14. ASSUME NEW t \in Threads, StartGo(t) PROVE RingInv'
  <2>1. UNCHANGED <<bready, blen, exp_buf, stsq, cmds, src, nbuf>>
    BY <1>14 DEF StartGo
  <2>2. Front' = Front /\ Wanted' = Wanted /\ (isr' = "store" <=> isr = "store")
    BY <1>14 DEF StartGo, Front, Wanted, MidConfirm
  <2>3. \A v \in Threads :
          /\ pc'[v] \in Acquiring => pc[v] \in Acquiring /\ Submitted(v)' = Submitted(v)
          /\ pc'[v] = "start_submit" => pc[v] = "start_submit" /\ received_buf' = received_buf
          /\ pc'[v] \in Resetting => pc[v] \in Resetting
    BY <1>14 DEF StartGo, Acquiring, Resetting, Submitted
  <2> QED
    BY <1>t, <2>1, <2>2, <2>3, Still
<1>15. ASSUME NEW t \in Threads, GetWait(t) PROVE RingInv'
  <2>1. UNCHANGED <<bready, blen, exp_buf, stsq, cmds, src, nbuf>>
    BY <1>15 DEF GetWait, BufReady
  <2>2. Front' = Front /\ Wanted' = Wanted /\ (isr' = "store" <=> isr = "store")
    BY <1>15 DEF GetWait, BufReady, Front, Wanted, MidConfirm
  <2>3. \A v \in Threads :
          /\ pc'[v] \in Acquiring => pc[v] \in Acquiring /\ Submitted(v)' = Submitted(v)
          /\ pc'[v] = "start_submit" => pc[v] = "start_submit" /\ received_buf' = received_buf
          /\ pc'[v] \in Resetting => pc[v] \in Resetting
    BY <1>15 DEF GetWait, BufReady, Acquiring, Resetting, Submitted
  <2> QED
    BY <1>t, <2>1, <2>2, <2>3, Still
<1>16. ASSUME NEW t \in Threads, GetRead(t) PROVE RingInv'
  <2>1. UNCHANGED <<bready, blen, exp_buf, stsq, cmds, src, nbuf>>
    BY <1>16 DEF GetRead
  <2>2. Front' = Front /\ Wanted' = Wanted /\ (isr' = "store" <=> isr = "store")
    BY <1>16 DEF GetRead, Front, Wanted, MidConfirm
  <2>3. \A v \in Threads :
          /\ pc'[v] \in Acquiring => pc[v] \in Acquiring /\ Submitted(v)' = Submitted(v)
          /\ pc'[v] = "start_submit" => pc[v] = "start_submit" /\ received_buf' = received_buf
          /\ pc'[v] \in Resetting => pc[v] \in Resetting
    BY <1>16 DEF GetRead, Acquiring, Resetting, Submitted
  <2> QED
    BY <1>t, <2>1, <2>2, <2>3, Still
<1>17. ASSUME NEW t \in Threads, ConfirmClear(t) PROVE RingInv'
  BY <1>t, <1>17, ConfirmClearOrder
<1>18. ASSUME NEW t \in Threads, ConfirmSubmit(t) PROVE RingInv'
  BY <1>t, <1>k, <1>18, ConfirmSubmitOrder
<1>19. ASSUME NEW t \in Threads, ConfirmNext(t) PROVE RingInv'
  <2>1. UNCHANGED <<bready, blen, exp_buf, stsq, cmds, src, nbuf>>
    BY <1>19 DEF ConfirmNext
  <2>2. Front' = Front /\ Wanted' = Wanted /\ (isr' = "store" <=> isr = "store")
    BY <1>19 DEF ConfirmNext, Front, Wanted, MidConfirm
  <2>3. \A v \in Threads :
          /\ pc'[v] \in Acquiring => pc[v] \in Acquiring /\ Submitted(v)' = Submitted(v)
          /\ pc'[v] = "start_submit" => pc[v] = "start_submit" /\ received_buf' = received_buf
          /\ pc'[v] \in Resetting => pc[v] \in Resetting
    BY <1>19 DEF ConfirmNext, Acquiring, Resetting, Submitted
  <2> QED
    BY <1>t, <2>1, <2>2, <2>3, Still
<1>20. ASSUME NEW t \in Threads, ReleaseStop(t) PROVE RingInv'
  <2>1. UNCHANGED <<bready, blen, exp_buf, stsq, cmds, src, nbuf>>
    BY <1>20 DEF ReleaseStop, StopAcquisition
  <2>2. Front' = Front /\ Wanted' = Wanted /\ (isr' = "store" <=> isr = "store")
    BY <1>20 DEF ReleaseStop, StopAcquisition, Front, Wanted, MidConfirm
  <2>3. \A v \in Threads :
          /\ pc'[v] \in Acquiring => pc[v] \in Acquiring /\ Submitted(v)' = Submitted(v)
          /\ pc'[v] = "start_submit" => pc[v] = "start_submit" /\ received_buf' = received_buf
          /\ pc'[v] \in Resetting => pc[v] \in Resetting
    BY <1>20 DEF ReleaseStop, StopAcquisition, Acquiring, Resetting, Submitted
  <2> QED
    BY <1>t, <2>1, <2>2, <2>3, Still
<1>21. ASSUME NEW t \in Threads, ReleaseIrq(t) PROVE RingInv'
  <2>1. UNCHANGED <<bready, blen, exp_buf, stsq, cmds, src, nbuf>>
    BY <1>21 DEF ReleaseIrq
  <2>2. Front' = Front /\ Wanted' = Wanted /\ (isr' = "store" <=> isr = "store")
    BY <1>21 DEF ReleaseIrq, Front, Wanted, MidConfirm
  <2>3. \A v \in Threads :
          /\ pc'[v] \in Acquiring => pc[v] \in Acquiring /\ Submitted(v)' = Submitted(v)
          /\ pc'[v] = "start_submit" => pc[v] = "start_submit" /\ received_buf' = received_buf
          /\ pc'[v] \in Resetting => pc[v] \in Resetting
    BY <1>21 DEF ReleaseIrq, Acquiring, Resetting, Submitted
  <2> QED
    BY <1>t, <2>1, <2>2, <2>3, Still
<1>22. ASSUME NEW t \in Threads, Open(t) PROVE RingInv'
  <2>1. UNCHANGED <<bready, blen, exp_buf, stsq, cmds, src, nbuf>>
    BY <1>22 DEF Open
  <2>2. Front' = Front /\ Wanted' = Wanted /\ (isr' = "store" <=> isr = "store")
    BY <1>22 DEF Open, Front, Wanted, MidConfirm
  <2>3. \A v \in Threads :
          /\ pc'[v] \in Acquiring => pc[v] \in Acquiring /\ Submitted(v)' = Submitted(v)
          /\ pc'[v] = "start_submit" => pc[v] = "start_submit" /\ received_buf' = received_buf
          /\ pc'[v] \in Resetting => pc[v] \in Resetting
    BY <1>22 DEF Open, Acquiring, Resetting, Submitted
  <2> QED
    BY <1>t, <2>1, <2>2, <2>3, Still
<1>23. ASSUME NEW t \in Threads, ResetAssert(t) PROVE RingInv'
  BY <1>t, <1>23, ResetOrder
<1>24. ASSUME NEW t \in Threads, StartRefused(t) PROVE RingInv'
  BY <1>24 DEF StartRefused, MayCall, OrderInv, NotStarted
<1>25. ASSUME NEW t \in Threads, StartClear(t) PROVE RingInv'
  BY <1>t, <1>25, StartOrder
<1>26. ASSUME NEW t \in Threads, Stop(t) PROVE RingInv'
  <2>1. UNCHANGED <<bready, blen, exp_buf, stsq, cmds, src, nbuf>>
    BY <1>26 DEF Stop, MayCall
  <2>2. Front' = Front /\ Wanted' = Wanted /\ (isr' = "store" <=> isr = "store")
    BY <1>26 DEF Stop, MayCall, Front, Wanted, MidConfirm
  <2>3. \A v \in Threads :
          /\ pc'[v] \in Acquiring => pc[v] \in Acquiring /\ Submitted(v)' = Submitted(v)
          /\ pc'[v] = "start_submit" => pc[v] = "start_submit" /\ received_buf' = received_buf
          /\ pc'[v] \in Resetting => pc[v] \in Resetting
    BY <1>26 DEF Stop, MayCall, Acquiring, Resetting, Submitted
  <2> QED
    BY <1>t, <2>1, <2>2, <2>3, Still
<1>27. ASSUME NEW t \in Threads, GetCall(t) PROVE RingInv'
  <2>1. UNCHANGED <<bready, blen, exp_buf, stsq, cmds, src, nbuf>>
    BY <1>27 DEF GetCall, MayCall
  <2>2. Front' = Front /\ Wanted' = Wanted /\ (isr' = "store" <=> isr = "store")
    BY <1>27 DEF GetCall, MayCall, Front, Wanted, MidConfirm
  <2>3. \A v \in Threads :
          /\ pc'[v] \in Acquiring => pc[v] \in Acquiring /\ Submitted(v)' = Submitted(v)
          /\ pc'[v] = "start_submit" => pc[v] = "start_submit" /\ received_buf' = received_buf
          /\ pc'[v] \in Resetting => pc[v] \in Resetting
    BY <1>27 DEF GetCall, MayCall, Acquiring, Resetting, Submitted
  <2> QED
    BY <1>t, <2>1, <2>2, <2>3, Still
<1>28. ASSUME NEW t \in Threads, GetSignal(t) PROVE RingInv'
  <2>1. UNCHANGED <<bready, blen, exp_buf, stsq, cmds, src, nbuf>>
    BY <1>28 DEF GetSignal
  <2>2. Front' = Front /\ Wanted' = Wanted /\ (isr' = "store" <=> isr = "store")
    BY <1>28 DEF GetSignal, Front, Wanted, MidConfirm
  <2>3. \A v \in Threads :
          /\ pc'[v] \in Acquiring => pc[v] \in Acquiring /\ Submitted(v)' = Submitted(v)
          /\ pc'[v] = "start_submit" => pc[v] = "start_submit" /\ received_buf' = received_buf
          /\ pc'[v] \in Resetting => pc[v] \in Resetting
    BY <1>28 DEF GetSignal, Acquiring, Resetting, Submitted
  <2> QED
    BY <1>t, <2>1, <2>2, <2>3, Still
<1>29. ASSUME NEW t \in Threads, ConfirmCall(t) PROVE RingInv'
  <2>1. UNCHANGED <<bready, blen, exp_buf, stsq, cmds, src, nbuf>>
    BY <1>29 DEF ConfirmCall, MayCall
  <2>2. Front' = Front /\ Wanted' = Wanted /\ (isr' = "store" <=> isr = "store")
    BY <1>29 DEF ConfirmCall, MayCall, Front, Wanted, MidConfirm
  <2>3. \A v \in Threads :
          /\ pc'[v] \in Acquiring => pc[v] \in Acquiring /\ Submitted(v)' = Submitted(v)
          /\ pc'[v] = "start_submit" => pc[v] = "start_submit" /\ received_buf' = received_buf
          /\ pc'[v] \in Resetting => pc[v] \in Resetting
    BY <1>29 DEF ConfirmCall, MayCall, Acquiring, Resetting, Submitted
  <2> QED
    BY <1>t, <2>1, <2>2, <2>3, Still
<1>30. ASSUME NEW t \in Threads, Close(t) PROVE RingInv'
  <2>1. UNCHANGED <<bready, blen, exp_buf, stsq, cmds, src, nbuf>>
    BY <1>30 DEF Close
  <2>2. Front' = Front /\ Wanted' = Wanted /\ (isr' = "store" <=> isr = "store")
    BY <1>30 DEF Close, Front, Wanted, MidConfirm
  <2>3. \A v \in Threads :
          /\ pc'[v] \in Acquiring => pc[v] \in Acquiring /\ Submitted(v)' = Submitted(v)
          /\ pc'[v] = "start_submit" => pc[v] = "start_submit" /\ received_buf' = received_buf
          /\ pc'[v] \in Resetting => pc[v] \in Resetting
    BY <1>30 DEF Close, Acquiring, Resetting, Submitted
  <2> QED
    BY <1>t, <2>1, <2>2, <2>3, Still
<1>31. CASE UNCHANGED vars
  <2>1. UNCHANGED <<bready, blen, exp_buf, stsq, cmds, src, nbuf>>
    BY <1>31 DEF vars
  <2>2. Front' = Front /\ Wanted' = Wanted /\ (isr' = "store" <=> isr = "store")
    BY <1>31 DEF vars, Front, Wanted, MidConfirm
  <2>3. \A v \in Threads :
          /\ pc'[v] \in Acquiring => pc[v] \in Acquiring /\ Submitted(v)' = Submitted(v)
          /\ pc'[v] = "start_submit" => pc[v] = "start_submit" /\ received_buf' = received_buf
          /\ pc'[v] \in Resetting => pc[v] \in Resetting
    BY <1>31 DEF vars, Acquiring, Resetting, Submitted
  <2> QED
    BY <1>t, <2>1, <2>2, <2>3, Still
<1> QED
  BY <1>1, <1>2, <1>3, <1>4, <1>5, <1>6, <1>7, <1>8, <1>9, <1>10, <1>11,
     <1>12, <1>13, <1>14, <1>15, <1>16, <1>17, <1>18, <1>19, <1>20, <1>21,
     <1>22, <1>23, <1>24, <1>25, <1>26, <1>27, <1>28, <1>29, <1>30, <1>31
  DEF Next, Hardware, Handler, InCall, Call

-----------------------------------------------------------------------------
(* The theorems *)

LEMMA OrderInit == Init => OrderInv
<1> SUFFICES ASSUME Init PROVE OrderInv
  OBVIOUS
<1>1. IInv
  BY InvInit
<1>2. Front = 0 /\ Wanted = 1 /\ 0 \in Buf /\ BUF_NUM \in Nat
  BY BufNumAssumption DEF Init, Front, Wanted, MidConfirm, Buf
<1>3. ReadyCount = 0 /\ Storing = 0 /\ InHand = 0
  BY <1>2 DEF Init, ReadyCount, Storing, InHand
<1>4. \A b \in Buf : ~(Place(b) < 0) /\ ~(Place(b) + 1 < 0)
  BY <1>2 DEF Place, Buf
<1>5. ReadyRun
  BY <1>3, <1>4 DEF Init, ReadyRun
<1>6. Tags
  BY <1>2, <1>3 DEF Init, Tags, ExpectedTag
<1>7. Supplied
  BY DEF Init, Supplied, Acquiring
<1>8. Packets
  BY <1>3, <1>4 DEF Init, Packets, Acquiring
<1>9. Bookkeeping /\ NotStarted
  BY DEF Init, Bookkeeping, NotStarted
<1> QED
  BY <1>1, <1>5, <1>6, <1>7, <1>8, <1>9 DEF OrderInv

LEMMA OrderStep ==
  ASSUME SingleUser, Lossless, OrderInv, [Next]_vars
  PROVE  OrderInv'
<1>1. IInv' /\ TInv
  BY InvStep DEF OrderInv, IInv
<1>2. Bookkeeping' /\ NotStarted'
  BY <1>1, BookStep, NotStartedStep DEF OrderInv, SingleUser
<1> QED
  BY <1>1, <1>2, RingStep DEF OrderInv, RingInv

\* The driver keeps the ring in step with the stream: the ready buffers are a run
\* from the next one to deliver, and statuses and commands follow it in order.
THEOREM OrderCorrect == SingleUser /\ Lossless /\ Spec => []OrderInv
<1> SUFFICES ASSUME SingleUser, Lossless PROVE Spec => []OrderInv
  OBVIOUS
<1>1. OrderInv /\ [Next]_vars => OrderInv'
  BY OrderStep
<1> QED
  BY OrderInit, <1>1, PTL DEF Spec

\* Once its one descriptor is closed, whatever calls were made before and however
\* the holder died, no handler stays registered and the interrupt is disabled.
THEOREM ReleaseSound == (\E u : Threads = {u}) /\ Spec => []Released
<1> SUFFICES ASSUME \E u : Threads = {u} PROVE Spec => []Released
  OBVIOUS
<1> DEFINE BInv == TInv /\ Bookkeeping
<1>1. Init => BInv
  BY TypeInit DEF Init, Bookkeeping
<1>2. BInv /\ [Next]_vars => BInv'
  BY TypeStep, BookStep
<1>3. BInv => Released
  BY DEF Bookkeeping, Released
<1> HIDE DEF BInv
<1> QED
  BY <1>1, <1>2, <1>3, PTL DEF Spec

\* "Incorrect buffer number" is never logged when every transfer ends well.
THEOREM TagSound == SingleUser /\ Lossless /\ Spec => []ExpectedTag
<1>1. OrderInv => ExpectedTag
  BY DEF OrderInv, Tags
<1> QED
  BY <1>1, OrderCorrect, PTL

\* The packets reach the user in stream order, none lost, none repeated.
THEOREM OrderSound == SingleUser /\ Lossless /\ Spec => []InOrder
<1> SUFFICES ASSUME SingleUser, Lossless PROVE Spec => []InOrder
  OBVIOUS
<1>1. ASSUME OrderInv PROVE InOrder
  <2>1. ASSUME NEW t \in Threads, pc[t] = "got" PROVE held[t].len = want
    <3>1. Front = received_buf /\ Wanted = want
      BY <2>1 DEF Front, Wanted, MidConfirm, SingleUser
    <3>2. bready[Front] = 1 /\ held[t].len = blen[Front]
      BY <1>1, <2>1, <3>1 DEF OrderInv, IInv, Confirming, Intact
    <3>3. ReadyCount > 0
      BY <1>1, <3>2, PlaceFacts DEF OrderInv, IInv, ReadyRun
    <3> QED
      BY <1>1, <3>1, <3>2, <3>3 DEF OrderInv, Packets
  <2> QED
    BY <2>1 DEF InOrder
<1> QED
  BY <1>1, OrderCorrect, PTL

-----------------------------------------------------------------------------
(* The driver implements the ring *)

LEMMA AvailableFacts ==
  ASSUME TInv
  PROVE  /\ Available \in Seq(Lens) /\ Len(Available) = ReadyCount
         /\ Available = <<>> <=> ReadyCount = 0
         /\ \A k \in 1..ReadyCount : Available[k] = blen[Plus(Front, k - 1)]
<1>1. ReadyCount \in Nat /\ ReadyCount <= BUF_NUM /\ BUF_NUM \in Nat /\ Front \in Buf
  BY ReadyFacts, FrontFacts
<1>2. \A k \in 1..ReadyCount : Plus(Front, k - 1) \in Buf
  BY <1>1, PlusFacts
<1>3. Available \in [1..ReadyCount -> Lens]
  BY <1>2 DEF Available, TInv, TypeOK
<1>4. Available \in Seq(Lens) /\ Len(Available) = ReadyCount
  BY <1>1, <1>3
<1> QED
  BY <1>4, EmptyLen DEF Available

\* The last packet of the ready run, and the one to come after it.
LEMMA UpcomingFacts ==
  ASSUME TInv
  PROVE  Ring!Upcoming = Due
<1>1. CASE ReadyCount = 0
  BY <1>1, AvailableFacts DEF Ring!Upcoming, Due
<1>2. CASE ReadyCount # 0
  <2>1. Plus(Front, ReadyCount - 1) \in Buf /\ Succ(Plus(Front, ReadyCount - 1)) = exp_buf
    <3>1. ReadyCount - 1 \in 0..BUF_NUM /\ ReadyCount - 1 < BUF_NUM
          /\ (ReadyCount - 1) + 1 = ReadyCount
      BY <1>2, ReadyFacts
    <3>2. Succ(Plus(Front, ReadyCount - 1)) = Plus(Front, ReadyCount)
      BY <3>1, PlusFacts, FrontFacts
    <3>3. Plus(Front, ReadyCount) = exp_buf
      BY ReadyFacts, FrontFacts DEF Plus, ReadyCount, Place, Buf
    <3> QED
      BY <3>1, <3>2, <3>3, PlusFacts, FrontFacts
  <2>2. Plus(Front, ReadyCount - 1) = Pred(exp_buf)
    BY <2>1, SuccFacts
  <2>3. Available[ReadyCount] = blen[Pred(exp_buf)]
    BY <1>2, <2>2, AvailableFacts, ReadyFacts
  <2> QED
    BY <1>2, <2>3, AvailableFacts DEF Ring!Upcoming, Ring!Following, Due, SuccPacket
<1> QED
  BY <1>1, <1>2

LEMMA LookingIs ==
  ASSUME NEW u, Threads = {u}
  PROVE  /\ Looking = IF pc[u] = "got" THEN held[u].len ELSE 0
         /\ Looking' = IF pc'[u] = "got" THEN held'[u].len ELSE 0
BY DEF Looking

\* The buffers of the ready run are those at the places below ReadyCount.
LEMMA SameAvailable ==
  ASSUME TInv, Front' = Front, ReadyCount' = ReadyCount,
         \A b \in Buf : Place(b) < ReadyCount => blen'[b] = blen[b]
  PROVE  Available' = Available
<1>1. ASSUME NEW k \in 1..ReadyCount
      PROVE  blen'[Plus(Front, k - 1)] = blen[Plus(Front, k - 1)]
  <2>1. k - 1 \in Nat /\ 0 + (k - 1) < BUF_NUM /\ k - 1 < ReadyCount
    BY ReadyFacts
  <2>2. Plus(Front, k - 1) \in Buf /\ Place(Plus(Front, k - 1)) = 0 + (k - 1)
    BY <2>1, PlacePlus, PlaceFacts
  <2> QED
    BY <2>1, <2>2
<1> QED
  BY <1>1 DEF Available

\* A step that neither moves the ring nor gives or takes what the user holds.
LEMMA Stutter ==
  ASSUME TInv, NEW u, Threads = {u}, UNCHANGED <<bready, blen, exp_buf>>,
         Front' = Front, Wanted' = Wanted, pc'[u] = "got" <=> pc[u] = "got",
         pc[u] = "got" => held'[u] = held[u]
  PROVE  UNCHANGED <<Available, Wanted, Looking>>
<1>1. ReadyCount' = ReadyCount
  BY FrontFacts DEF ReadyCount, Place
<1> QED
  BY <1>1, SameAvailable, LookingIs

LEMMA RefineStep ==
  ASSUME SingleUser, Lossless, OrderInv, [Next]_vars
  PROVE  [Ring!Next]_Ring!ringvars
<1>0. PICK u : Threads = {u}
  BY DEF SingleUser
<1>t. /\ TInv /\ RingInv /\ OneOwner /\ Quiet /\ Confirming /\ Intact
      /\ FreeOrder = FALSE
  BY DEF OrderInv, IInv, RingInv, SingleUser
<1>c. pc \in [Threads -> Labels] /\ held \in [Threads -> Result]
  BY <1>t DEF TInv, TypeOK
<1>s. UNCHANGED <<Available, Wanted, Looking>> => [Ring!Next]_Ring!ringvars
  BY DEF Ring!ringvars
<1> USE <1>0, <1>c
    DEF Goto, UserStates, gpioVars, fifoVars, dmVars, ringVars, irqVars, isrVars, procVars
<1>1. CASE DmBegin
  <2>1. UNCHANGED <<bready, blen, exp_buf>>
    BY <1>1 DEF DmBegin
  <2>2. Front' = Front /\ Wanted' = Wanted
    BY <1>1 DEF DmBegin, Front, Wanted, MidConfirm
  <2>3. (pc'[u] = "got" <=> pc[u] = "got") /\ (pc[u] = "got" => held'[u] = held[u])
    BY <1>t, <1>1 DEF DmBegin
  <2> QED
    BY <1>t, <1>s, <2>1, <2>2, <2>3, Stutter
<1>2. ASSUME NEW kind \in Kinds, DmComplete(kind) PROVE [Ring!Next]_Ring!ringvars
  <2>1. UNCHANGED <<bready, blen, exp_buf>>
    BY <1>2 DEF DmComplete
  <2>2. Front' = Front /\ Wanted' = Wanted
    BY <1>2 DEF DmComplete, Front, Wanted, MidConfirm
  <2>3. (pc'[u] = "got" <=> pc[u] = "got") /\ (pc[u] = "got" => held'[u] = held[u])
    BY <1>t, <1>2 DEF DmComplete
  <2> QED
    BY <1>t, <1>s, <2>1, <2>2, <2>3, Stutter
<1>3. CASE IsrEnter
  <2>1. UNCHANGED <<bready, blen, exp_buf>>
    BY <1>3 DEF IsrEnter
  <2>2. Front' = Front /\ Wanted' = Wanted
    BY <1>3 DEF IsrEnter, Front, Wanted, MidConfirm
  <2>3. (pc'[u] = "got" <=> pc[u] = "got") /\ (pc[u] = "got" => held'[u] = held[u])
    BY <1>t, <1>3 DEF IsrEnter
  <2> QED
    BY <1>t, <1>s, <2>1, <2>2, <2>3, Stutter
<1>4. CASE IsrOccupancy
  <2>1. UNCHANGED <<bready, blen, exp_buf>>
    BY <1>4 DEF IsrOccupancy
  <2>2. Front' = Front /\ Wanted' = Wanted
    BY <1>4 DEF IsrOccupancy, Front, Wanted, MidConfirm
  <2>3. (pc'[u] = "got" <=> pc[u] = "got") /\ (pc[u] = "got" => held'[u] = held[u])
    BY <1>t, <1>4 DEF IsrOccupancy
  <2> QED
    BY <1>t, <1>s, <2>1, <2>2, <2>3, Stutter
<1>5. CASE IsrLength
  <2>1. UNCHANGED <<bready, blen, exp_buf>>
    BY <1>5 DEF IsrLength
  <2>2. Front' = Front /\ Wanted' = Wanted
    BY <1>5 DEF IsrLength, Front, Wanted, MidConfirm
  <2>3. (pc'[u] = "got" <=> pc[u] = "got") /\ (pc[u] = "got" => held'[u] = held[u])
    BY <1>t, <1>5 DEF IsrLength
  <2> QED
    BY <1>t, <1>s, <2>1, <2>2, <2>3, Stutter
<1>6. CASE IsrStatusBad
  <2>1. UNCHANGED <<bready, blen, exp_buf>>
    BY <1>6 DEF IsrStatusBad
  <2>2. Front' = Front /\ Wanted' = Wanted
    BY <1>6 DEF IsrStatusBad, Front, Wanted, MidConfirm
  <2>3. (pc'[u] = "got" <=> pc[u] = "got") /\ (pc[u] = "got" => held'[u] = held[u])
    BY <1>t, <1>6 DEF IsrStatusBad
  <2> QED
    BY <1>t, <1>s, <2>1, <2>2, <2>3, Stutter
<1>7. CASE IsrStatusOkay
  <2>1. /\ Front' = Front /\ Wanted' = Wanted /\ ReadyCount' = ReadyCount
        /\ Place(exp_buf) = ReadyCount
        /\ \A b \in Buf : b # exp_buf => blen'[b] = blen[b]
    BY <1>t, <1>7, StatusOrder
  <2>2. \A b \in Buf : Place(b) < ReadyCount => b # exp_buf
    BY <1>t, <2>1, ReadyFacts
  <2>3. Available' = Available
    BY <1>t, <2>1, <2>2, SameAvailable
  <2>4. Looking' = Looking
    BY <1>7, LookingIs DEF IsrStatusOkay
  <2> QED
    BY <1>s, <2>1, <2>3, <2>4
<1>8. CASE IsrReady
  <2>1. /\ Front' = Front /\ Wanted' = Wanted
        /\ ReadyCount < BUF_NUM /\ ReadyCount' = ReadyCount + 1
        /\ Place(exp_buf) = ReadyCount /\ blen' = blen /\ blen[exp_buf] = Due
    BY <1>t, <1>8, ReadyOrder
  <2>2. ReadyCount \in Nat /\ Available \in Seq(Lens) /\ Len(Available) = ReadyCount
    BY <1>t, ReadyFacts, AvailableFacts
  <2>3. Plus(Front, ReadyCount) = exp_buf
    <3>1. Plus(Front, ReadyCount) \in Buf /\ Place(Plus(Front, ReadyCount)) = ReadyCount
      BY <1>t, <2>1, <2>2, PlacePlus, PlaceFacts
    <3> QED
      BY <1>t, <2>1, <3>1, PlaceFacts, ReadyFacts
  <2>4. Available' = Append(Available, Due)
    <3>1. Available' = [k \in 1..ReadyCount + 1 |-> blen[Plus(Front, k - 1)]]
      BY <2>1 DEF Available
    <3>2. Due \in Lens
      BY <1>t, <2>1, ReadyFacts DEF TInv, TypeOK
    <3>3. /\ DOMAIN Append(Available, Due) = 1..ReadyCount + 1
          /\ \A k \in 1..ReadyCount : Append(Available, Due)[k] = Available[k]
          /\ Append(Available, Due)[ReadyCount + 1] = Due
          /\ Append(Available, Due) \in Seq(Lens)
      BY <2>2, <3>2, AppendPlaces, AppendFacts
    <3>4. \A k \in 1..ReadyCount + 1 : Append(Available, Due)[k] = blen[Plus(Front, k - 1)]
      <4>1. (ReadyCount + 1) - 1 = ReadyCount
        BY <2>2
      <4>2. \A k \in 1..ReadyCount + 1 : k \in 1..ReadyCount \/ k = ReadyCount + 1
        BY <2>2
      <4> QED
        BY <1>t, <2>1, <2>3, <3>3, <4>1, <4>2, AvailableFacts
    <3>5. Append(Available, Due)
            = [k \in 1..ReadyCount + 1 |-> Append(Available, Due)[k]]
      BY <2>2, <3>2, <3>3, AppendPlaces, AsFunction
    <3> QED
      BY <3>1, <3>4, <3>5
  <2>5. Looking' = Looking
    BY <1>8, LookingIs DEF IsrReady
  <2>6. Ring!Deliver
    BY <1>t, <2>1, <2>2, <2>4, <2>5, UpcomingFacts DEF Ring!Deliver
  <2> QED
    BY <2>6 DEF Ring!Next
<1>9. CASE IsrWake
  <2>1. UNCHANGED <<bready, blen, exp_buf>>
    BY <1>9 DEF IsrWake
  <2>2. Front' = Front /\ Wanted' = Wanted
    BY <1>9 DEF IsrWake, Front, Wanted, MidConfirm
  <2>3. (pc'[u] = "got" <=> pc[u] = "got") /\ (pc[u] = "got" => held'[u] = held[u])
    BY <1>t, <1>9 DEF IsrWake
  <2> QED
    BY <1>t, <1>s, <2>1, <2>2, <2>3, Stutter
<1>10. ASSUME NEW t \in Threads, ResetRelease(t) PROVE [Ring!Next]_Ring!ringvars
  <2>1. UNCHANGED <<bready, blen, exp_buf>>
    BY <1>10 DEF ResetRelease
  <2>2. Front' = Front /\ Wanted' = Wanted
    BY <1>10 DEF ResetRelease, Front, Wanted, MidConfirm
  <2>3. (pc'[u] = "got" <=> pc[u] = "got") /\ (pc[u] = "got" => held'[u] = held[u])
    BY <1>t, <1>10 DEF ResetRelease
  <2> QED
    BY <1>t, <1>s, <2>1, <2>2, <2>3, Stutter
<1>11. ASSUME NEW t \in Threads, ResetFifo(t) PROVE [Ring!Next]_Ring!ringvars
  <2>1. UNCHANGED <<bready, blen, exp_buf>>
    BY <1>11 DEF ResetFifo
  <2>2. Front' = Front /\ Wanted' = Wanted
    BY <1>11 DEF ResetFifo, Front, Wanted, MidConfirm
  <2>3. (pc'[u] = "got" <=> pc[u] = "got") /\ (pc[u] = "got" => held'[u] = held[u])
    BY <1>t, <1>11 DEF ResetFifo
  <2> QED
    BY <1>t, <1>s, <2>1, <2>2, <2>3, Stutter
<1>12. ASSUME NEW t \in Threads, StartSubmit(t) PROVE [Ring!Next]_Ring!ringvars
  <2>1. UNCHANGED <<bready, blen, exp_buf>>
    BY <1>12 DEF StartSubmit
  <2>2. Front' = Front /\ Wanted' = Wanted
    BY <1>12 DEF StartSubmit, Front, Wanted, MidConfirm
  <2>3. (pc'[u] = "got" <=> pc[u] = "got") /\ (pc[u] = "got" => held'[u] = held[u])
    BY <1>t, <1>12 DEF StartSubmit
  <2> QED
    BY <1>t, <1>s, <2>1, <2>2, <2>3, Stutter
<1>13. ASSUME NEW t \in Threads, StartEnable(t) PROVE [Ring!Next]_Ring!ringvars
  <2>1. UNCHANGED <<bready, blen, exp_buf>>
    BY <1>13 DEF StartEnable
  <2>2. Front' = Front /\ Wanted' = Wanted
    BY <1>13 DEF StartEnable, Front, Wanted, MidConfirm
  <2>3. (pc'[u] = "got" <=> pc[u] = "got") /\ (pc[u] = "got" => held'[u] = held[u])
    BY <1>t, <1>13 DEF StartEnable
  <2> QED
    BY <1>t, <1>s, <2>1, <2>2, <2>3, Stutter
<1>14. ASSUME NEW t \in Threads, StartGo(t) PROVE [Ring!Next]_Ring!ringvars
  <2>1. UNCHANGED <<bready, blen, exp_buf>>
    BY <1>14 DEF StartGo
  <2>2. Front' = Front /\ Wanted' = Wanted
    BY <1>14 DEF StartGo, Front, Wanted, MidConfirm
  <2>3. (pc'[u] = "got" <=> pc[u] = "got") /\ (pc[u] = "got" => held'[u] = held[u])
    BY <1>t, <1>14 DEF StartGo
  <2> QED
    BY <1>t, <1>s, <2>1, <2>2, <2>3, Stutter
<1>15. ASSUME NEW t \in Threads, GetWait(t) PROVE [Ring!Next]_Ring!ringvars
  <2>1. UNCHANGED <<bready, blen, exp_buf>>
    BY <1>15 DEF GetWait, BufReady
  <2>2. Front' = Front /\ Wanted' = Wanted
    BY <1>15 DEF GetWait, BufReady, Front, Wanted, MidConfirm
  <2>3. (pc'[u] = "got" <=> pc[u] = "got") /\ (pc[u] = "got" => held'[u] = held[u])
    BY <1>t, <1>15 DEF GetWait, BufReady
  <2> QED
    BY <1>t, <1>s, <2>1, <2>2, <2>3, Stutter
<1>16. ASSUME NEW t \in Threads, GetRead(t) PROVE [Ring!Next]_Ring!ringvars
  <2>1. /\ pc[u] = "get_read" /\ pc'[u] = "got" /\ held'[u].len = blen[received_buf]
        /\ UNCHANGED <<bready, blen, exp_buf>>
    BY <1>16 DEF GetRead
  <2>2. Front' = Front /\ Wanted' = Wanted /\ Front = received_buf
    BY <1>16 DEF GetRead, Front, Wanted, MidConfirm
  <2>3. ReadyCount' = ReadyCount
    BY <1>t, <2>1, <2>2, FrontFacts DEF ReadyCount, Place
  <2>4. Available' = Available
    BY <1>t, <2>1, <2>2, <2>3, SameAvailable
  <2>5. ReadyCount > 0
    BY <1>t, <2>1, <2>2, PlaceFacts DEF Confirming, RingInv, ReadyRun
  <2>6. Available # <<>> /\ Head(Available) = blen[Front]
    <3>0. Plus(Front, 0) = Front /\ 1 - 1 = 0
      BY <1>t, PlusFacts, FrontFacts, ReadyFacts
    <3>1. Plus(Front, 1 - 1) = Front
      BY <3>0
    <3> QED
      BY <1>t, <2>5, <3>1, AvailableFacts, ReadyFacts, TailPlaces
  <2>7. Looking' = Head(Available)
    BY <2>1, <2>2, <2>6, LookingIs
  <2>8. Ring!Take
    BY <2>2, <2>4, <2>6, <2>7 DEF Ring!Take
  <2> QED
    BY <2>8 DEF Ring!Next
<1>17. ASSUME NEW t \in Threads, ConfirmClear(t) PROVE [Ring!Next]_Ring!ringvars
  <2>1. /\ Front' = Succ(Front) /\ Wanted' = SuccPacket(Wanted)
        /\ ReadyCount > 0 /\ ReadyCount' = ReadyCount - 1
        /\ \A b \in Buf : b # Front => blen'[b] = blen[b]
    BY <1>t, <1>17, ConfirmClearOrder
  <2>2. /\ ReadyCount \in Nat /\ ReadyCount <= BUF_NUM /\ BUF_NUM \in Nat
        /\ Available \in Seq(Lens) /\ Available # <<>> /\ Len(Available) = ReadyCount
    BY <1>t, <2>1, ReadyFacts, AvailableFacts
  <2>3. Available' = Tail(Available)
    <3>1. Available' = [k \in 1..ReadyCount - 1 |-> blen'[Plus(Succ(Front), k - 1)]]
      BY <2>1 DEF Available
    <3>2. ASSUME NEW k \in 1..ReadyCount - 1
          PROVE  Tail(Available)[k] = blen'[Plus(Succ(Front), k - 1)]
      <4>1. /\ k - 1 \in 0..BUF_NUM /\ k - 1 < BUF_NUM /\ (k - 1) + 1 = k /\ (k + 1) - 1 = k
            /\ k + 1 \in 1..ReadyCount /\ k \in Nat /\ 0 + k < BUF_NUM /\ k # 0
        BY <2>2
      <4>2. Plus(Succ(Front), k - 1) = Plus(Front, k)
        BY <1>t, <4>1, PlusFacts, FrontFacts
      <4>3. Plus(Front, k) \in Buf /\ Place(Plus(Front, k)) = 0 + k
        BY <1>t, <4>1, PlacePlus, PlaceFacts
      <4>4. Plus(Front, k) # Front
        BY <1>t, <4>1, <4>3, PlaceFacts
      <4>5. Tail(Available)[k] = Available[k + 1]
        BY <2>2, TailPlaces
      <4>6. Available[k + 1] = blen[Plus(Front, k)]
        BY <1>t, <4>1, AvailableFacts
      <4> QED
        BY <2>1, <4>2, <4>3, <4>4, <4>5, <4>6
    <3>3. Tail(Available) = [k \in 1..ReadyCount - 1 |-> Tail(Available)[k]]
      <4>1. Len(Tail(Available)) = ReadyCount - 1 /\ Tail(Available) \in Seq(Lens)
        BY <2>2, TailPlaces, TailFacts
      <4> QED
        BY <4>1, AsFunction
    <3> QED
      BY <3>1, <3>2, <3>3
  <2>4. Looking = 0 /\ Looking' = 0
    BY <1>17, LookingIs DEF ConfirmClear
  <2>5. Ring!Confirm
    BY <2>1, <2>2, <2>3, <2>4 DEF Ring!Confirm, Ring!Following, SuccPacket
  <2> QED
    BY <2>5 DEF Ring!Next
<1>18. ASSUME NEW t \in Threads, ConfirmSubmit(t) PROVE [Ring!Next]_Ring!ringvars
  <2>1. UNCHANGED <<bready, blen, exp_buf>>
    BY <1>18 DEF ConfirmSubmit
  <2>2. Front' = Front /\ Wanted' = Wanted
    BY <1>18 DEF ConfirmSubmit, Front, Wanted, MidConfirm
  <2>3. (pc'[u] = "got" <=> pc[u] = "got") /\ (pc[u] = "got" => held'[u] = held[u])
    BY <1>t, <1>18 DEF ConfirmSubmit
  <2> QED
    BY <1>t, <1>s, <2>1, <2>2, <2>3, Stutter
<1>19. ASSUME NEW t \in Threads, ConfirmNext(t) PROVE [Ring!Next]_Ring!ringvars
  <2>1. UNCHANGED <<bready, blen, exp_buf>>
    BY <1>19 DEF ConfirmNext
  <2>2. Front' = Front /\ Wanted' = Wanted
    BY <1>19 DEF ConfirmNext, Front, Wanted, MidConfirm
  <2>3. (pc'[u] = "got" <=> pc[u] = "got") /\ (pc[u] = "got" => held'[u] = held[u])
    BY <1>t, <1>19 DEF ConfirmNext
  <2> QED
    BY <1>t, <1>s, <2>1, <2>2, <2>3, Stutter
<1>20. ASSUME NEW t \in Threads, ReleaseStop(t) PROVE [Ring!Next]_Ring!ringvars
  <2>1. UNCHANGED <<bready, blen, exp_buf>>
    BY <1>20 DEF ReleaseStop, StopAcquisition
  <2>2. Front' = Front /\ Wanted' = Wanted
    BY <1>20 DEF ReleaseStop, StopAcquisition, Front, Wanted, MidConfirm
  <2>3. (pc'[u] = "got" <=> pc[u] = "got") /\ (pc[u] = "got" => held'[u] = held[u])
    BY <1>t, <1>20 DEF ReleaseStop, StopAcquisition
  <2> QED
    BY <1>t, <1>s, <2>1, <2>2, <2>3, Stutter
<1>21. ASSUME NEW t \in Threads, ReleaseIrq(t) PROVE [Ring!Next]_Ring!ringvars
  <2>1. UNCHANGED <<bready, blen, exp_buf>>
    BY <1>21 DEF ReleaseIrq
  <2>2. Front' = Front /\ Wanted' = Wanted
    BY <1>21 DEF ReleaseIrq, Front, Wanted, MidConfirm
  <2>3. (pc'[u] = "got" <=> pc[u] = "got") /\ (pc[u] = "got" => held'[u] = held[u])
    BY <1>t, <1>21 DEF ReleaseIrq
  <2> QED
    BY <1>t, <1>s, <2>1, <2>2, <2>3, Stutter
<1>22. ASSUME NEW t \in Threads, Open(t) PROVE [Ring!Next]_Ring!ringvars
  <2>1. UNCHANGED <<bready, blen, exp_buf>>
    BY <1>22 DEF Open
  <2>2. Front' = Front /\ Wanted' = Wanted
    BY <1>22 DEF Open, Front, Wanted, MidConfirm
  <2>3. (pc'[u] = "got" <=> pc[u] = "got") /\ (pc[u] = "got" => held'[u] = held[u])
    BY <1>t, <1>22 DEF Open
  <2> QED
    BY <1>t, <1>s, <2>1, <2>2, <2>3, Stutter
<1>23. ASSUME NEW t \in Threads, ResetAssert(t) PROVE [Ring!Next]_Ring!ringvars
  <2>1. UNCHANGED <<bready, blen, exp_buf>>
    BY <1>23 DEF ResetAssert, MayCall, HardwareReset
  <2>2. Front' = Front /\ Wanted' = Wanted
    BY <1>23 DEF ResetAssert, MayCall, HardwareReset, Front, Wanted, MidConfirm
  <2>3. (pc'[u] = "got" <=> pc[u] = "got") /\ (pc[u] = "got" => held'[u] = held[u])
    BY <1>t, <1>23 DEF ResetAssert, MayCall, HardwareReset
  <2> QED
    BY <1>t, <1>s, <2>1, <2>2, <2>3, Stutter
<1>24. ASSUME NEW t \in Threads, StartRefused(t) PROVE [Ring!Next]_Ring!ringvars
  BY <1>24, <1>t DEF StartRefused, MayCall, OrderInv, NotStarted
<1>25. ASSUME NEW t \in Threads, StartClear(t) PROVE [Ring!Next]_Ring!ringvars
  <2>1. Wanted' = 1 /\ ReadyCount' = 0
    BY <1>t, <1>25, StartOrder
  <2>2. Available' = <<>>
    <3>1. Available' = [k \in 1..0 |-> blen'[Plus(Front', k - 1)]]
      BY <2>1 DEF Available
    <3> QED
      BY <3>1
  <2>3. Looking' = 0
    BY <1>25, LookingIs DEF StartClear
  <2>4. Ring!Restart
    BY <2>1, <2>2, <2>3 DEF Ring!Restart
  <2> QED
    BY <2>4 DEF Ring!Next
<1>26. ASSUME NEW t \in Threads, Stop(t) PROVE [Ring!Next]_Ring!ringvars
  <2>1. UNCHANGED <<bready, blen, exp_buf>>
    BY <1>26 DEF Stop, MayCall
  <2>2. Front' = Front /\ Wanted' = Wanted
    BY <1>26 DEF Stop, MayCall, Front, Wanted, MidConfirm
  <2>3. (pc'[u] = "got" <=> pc[u] = "got") /\ (pc[u] = "got" => held'[u] = held[u])
    BY <1>t, <1>26 DEF Stop, MayCall
  <2> QED
    BY <1>t, <1>s, <2>1, <2>2, <2>3, Stutter
<1>27. ASSUME NEW t \in Threads, GetCall(t) PROVE [Ring!Next]_Ring!ringvars
  <2>1. UNCHANGED <<bready, blen, exp_buf>>
    BY <1>27 DEF GetCall, MayCall
  <2>2. Front' = Front /\ Wanted' = Wanted
    BY <1>27 DEF GetCall, MayCall, Front, Wanted, MidConfirm
  <2>3. (pc'[u] = "got" <=> pc[u] = "got") /\ (pc[u] = "got" => held'[u] = held[u])
    BY <1>t, <1>27 DEF GetCall, MayCall
  <2> QED
    BY <1>t, <1>s, <2>1, <2>2, <2>3, Stutter
<1>28. ASSUME NEW t \in Threads, GetSignal(t) PROVE [Ring!Next]_Ring!ringvars
  <2>1. UNCHANGED <<bready, blen, exp_buf>>
    BY <1>28 DEF GetSignal
  <2>2. Front' = Front /\ Wanted' = Wanted
    BY <1>28 DEF GetSignal, Front, Wanted, MidConfirm
  <2>3. (pc'[u] = "got" <=> pc[u] = "got") /\ (pc[u] = "got" => held'[u] = held[u])
    BY <1>t, <1>28 DEF GetSignal
  <2> QED
    BY <1>t, <1>s, <2>1, <2>2, <2>3, Stutter
<1>29. ASSUME NEW t \in Threads, ConfirmCall(t) PROVE [Ring!Next]_Ring!ringvars
  <2>1. pc[u] = "got" /\ pc'[u] # "got" /\ UNCHANGED <<bready, blen, exp_buf>>
    BY <1>t, <1>29 DEF ConfirmCall, MayCall
  <2>2. Front' = Front /\ Wanted' = Wanted
    BY <1>t, <1>29 DEF ConfirmCall, MayCall, Front, Wanted, MidConfirm
  <2>3. ReadyCount' = ReadyCount
    BY <1>t, <2>1, <2>2, FrontFacts DEF ReadyCount, Place
  <2>4. Available' = Available
    BY <1>t, <2>1, <2>2, <2>3, SameAvailable
  <2>5. held[u].len # 0
    BY <1>t, <2>1 DEF Confirming, Intact, TInv, TypeOK
  <2>6. Looking # 0 /\ Looking' = 0
    BY <2>1, <2>5, LookingIs
  <2>7. Ring!LetGo
    BY <2>2, <2>4, <2>6 DEF Ring!LetGo
  <2> QED
    BY <2>7 DEF Ring!Next
<1>30. ASSUME NEW t \in Threads, Close(t) PROVE [Ring!Next]_Ring!ringvars
  <2>a. CASE pc[u] = "got"
    <3>1. pc[u] = "got" /\ pc'[u] # "got" /\ UNCHANGED <<bready, blen, exp_buf>>
      BY <1>t, <1>30, <2>a DEF Close
    <3>2. Front' = Front /\ Wanted' = Wanted
      BY <1>t, <1>30, <2>a DEF Close, Front, Wanted, MidConfirm
    <3>3. ReadyCount' = ReadyCount
      BY <1>t, <3>1, <3>2, FrontFacts DEF ReadyCount, Place
    <3>4. Available' = Available
      BY <1>t, <3>1, <3>2, <3>3, SameAvailable
    <3>5. held[u].len # 0
      BY <1>t, <3>1 DEF Confirming, Intact, TInv, TypeOK
    <3>6. Looking # 0 /\ Looking' = 0
      BY <3>1, <3>5, LookingIs
    <3>7. Ring!LetGo
      BY <3>2, <3>4, <3>6 DEF Ring!LetGo
    <3> QED
      BY <3>7 DEF Ring!Next
  <2>b. CASE pc[u] # "got"
    <3>1. UNCHANGED <<bready, blen, exp_buf>>
      BY <1>30 DEF Close
    <3>2. Front' = Front /\ Wanted' = Wanted
      BY <1>30 DEF Close, Front, Wanted, MidConfirm
    <3>3. (pc'[u] = "got" <=> pc[u] = "got") /\ (pc[u] = "got" => held'[u] = held[u])
      BY <1>t, <1>30, <2>b DEF Close
    <3> QED
      BY <1>t, <1>s, <3>1, <3>2, <3>3, Stutter
  <2> QED
    BY <2>a, <2>b
<1>31. CASE UNCHANGED vars
  <2>1. UNCHANGED <<bready, blen, exp_buf>>
    BY <1>31 DEF vars
  <2>2. Front' = Front /\ Wanted' = Wanted
    BY <1>31 DEF vars, Front, Wanted, MidConfirm
  <2>3. (pc'[u] = "got" <=> pc[u] = "got") /\ (pc[u] = "got" => held'[u] = held[u])
    BY <1>t, <1>31 DEF vars
  <2> QED
    BY <1>t, <1>s, <2>1, <2>2, <2>3, Stutter
<1> QED
  BY <1>1, <1>2, <1>3, <1>4, <1>5, <1>6, <1>7, <1>8, <1>9, <1>10, <1>11,
     <1>12, <1>13, <1>14, <1>15, <1>16, <1>17, <1>18, <1>19, <1>20, <1>21,
     <1>22, <1>23, <1>24, <1>25, <1>26, <1>27, <1>28, <1>29, <1>30, <1>31
  DEF Next, Hardware, Handler, InCall, Call

\* What the user sees of the driver is a bounded FIFO of packets.
THEOREM Refinement == SingleUser /\ Lossless /\ Spec => RefinesRing
<1> SUFFICES ASSUME SingleUser, Lossless PROVE Spec => RefinesRing
  OBVIOUS
<1>1. Init => Ring!Init
  <2> SUFFICES ASSUME Init PROVE Ring!Init
    OBVIOUS
  <2>1. Front = 0 /\ Wanted = 1 /\ Looking = 0 /\ 0 \in Buf
    BY BufNumAssumption DEF Init, Front, Wanted, MidConfirm, Looking, Buf
  <2>2. ReadyCount = 0
    BY <2>1 DEF Init, ReadyCount
  <2>3. TInv
    BY TypeInit
  <2> QED
    BY <2>1, <2>2, <2>3, AvailableFacts DEF Ring!Init
<1>2. OrderInv /\ [Next]_vars => [Ring!Next]_Ring!ringvars
  BY RefineStep
<1> QED
  BY <1>1, <1>2, OrderCorrect, PTL DEF Spec, RefinesRing, Ring!Spec
=============================================================================
