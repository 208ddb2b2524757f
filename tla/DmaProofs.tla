------------------------------ MODULE DmaProofs ------------------------------
(***************************************************************************)
(* The axi4s2dma driver: types for any number of processes, and for one    *)
(* process the two promises of its pinned pages, that the engine writes    *)
(* none that was given back and that closing gives all of them back.       *)
(***************************************************************************)
EXTENDS Axi4sDma, TLAPS

\* A callback at work belongs to a completion, and pages have a length.
TInv ==
  /\ TypeOK
  /\ cb # "idle" => done > 0
  /\ pages # NULL \/ sgl # NULL => len \in LENGTHS

\* The mapping, for one process: the context says what is pinned.
InTransfer == {"running", "stop_check", "stop_sleep"}
Mapping ==
  /\ is_mapped <=> sgl # NULL
  /\ pinned = IF pages = NULL THEN {} ELSE Threads
  /\ is_mapped => pages # NULL
  /\ \A t \in Threads :
       /\ pages # NULL => is_mapped \/ pc[t] = "map_sg"
       /\ pc[t] \in {"closed", "opened", "map_pin", "map_sg", "unmapped"} => ~is_mapped

\* Until a process gives up, a transfer is pending only while its process waits for
\* it, is_running says so, and its pages are those of the mapping.
Transferring ==
  ~broken =>
    /\ Pending \in {0, 1}
    /\ Pending = 1 => is_running /\ \A t \in Threads : pc[t] \in InTransfer
    /\ queue # <<>> /\ Head(queue).buf # NULL => is_mapped
    /\ \A t \in Threads : pc[t] = "start_submit" => is_running

AppInv == TInv /\ Mapping /\ Transferring

-----------------------------------------------------------------------------
(* Types, for any processes *)

Empty == [buf |-> NULL, len |-> 0]
Transfer == [buf : Threads, len : LENGTHS] \cup {Empty}

LEMMA QueueFacts ==
  ASSUME NEW q \in Seq(Transfer)
  PROVE  /\ Len(q) \in Nat /\ (q = <<>> <=> Len(q) = 0)
         /\ q # <<>> => Tail(q) \in Seq(Transfer) /\ Head(q) \in Transfer
                         /\ Len(Tail(q)) = Len(q) - 1
         /\ \A e \in Transfer : Append(q, e) \in Seq(Transfer) /\ Len(Append(q, e)) = Len(q) + 1
                                /\ (q = <<>> => Head(Append(q, e)) = e)
OBVIOUS

\* What START submits is a descriptor of the mapping, or an empty one.
Submitted == [buf |-> sgl, len |-> IF sgl = NULL THEN 0 ELSE len]
LEMMA SubmittedType ==
  ASSUME TInv
  PROVE  Submitted \in Transfer /\ (Submitted.buf # NULL <=> sgl # NULL)
<1>1. CASE sgl = NULL
  BY <1>1 DEF Submitted, Transfer, Empty
<1>2. CASE sgl # NULL
  <2>1. sgl \in Threads /\ len \in LENGTHS
    BY <1>2 DEF TInv, TypeOK
  <2>2. Submitted = [buf |-> sgl, len |-> len]
    BY <1>2 DEF Submitted
  <2> QED
    BY <1>2, <2>1, <2>2 DEF Transfer
<1> QED
  BY <1>1, <1>2

LEMMA LengthFacts ==
  /\ UINT_MAX \in Nat /\ \A l \in LENGTHS : l \in Nat /\ l > 0
  /\ MAX_DESC \in Nat /\ MAX_DESC > 0 /\ NULL \notin Threads
BY LengthsAssumption, BoundAssumption, ThreadsAssumption

LEMMA TypeInit == Init => TInv
<1>1. <<>> \in Seq(Transfer) /\ Len(<<>>) = 0
  OBVIOUS
<1> SUFFICES ASSUME Init PROVE TInv
  OBVIOUS
<1>2. queue \in Seq(Transfer) /\ Len(queue) + done <= MAX_DESC
  BY <1>1, LengthFacts DEF Init
<1>3. transferred \in Uint32
  BY LengthFacts DEF Init, Uint32
<1>4. pc \in [Threads -> Labels] /\ res \in [Threads -> Int] /\ done \in Nat
  BY DEF Init, Labels
<1> QED
  BY <1>2, <1>3, <1>4 DEF Init, TInv, TypeOK, Transfer, Empty

LEMMA TypeStep ==
  ASSUME TInv, [Next]_vars
  PROVE  TInv'
<1> USE LengthFacts
    DEF TInv, TypeOK, Labels, UserStates, Uint32, ENOMEM, EFAULT, EBUSY, EINVAL, Step, Return, ctxVars, engineVars
<1>1. ASSUME NEW r \in 0..(IF queue = <<>> THEN 0 ELSE Head(queue).len), Complete(r) PROVE TInv'
  <2>1. queue \in Seq(Transfer)
    BY DEF Transfer, Empty
  <2>2. /\ queue' \in Seq(Transfer) /\ Len(queue') = Len(queue) - 1 /\ Len(queue) \in Nat
        /\ Head(queue).len \in Nat
    BY <1>1, <2>1, QueueFacts DEF Complete, Transfer, Empty
  <2>3. done' \in Nat /\ done' > 0 /\ Len(queue') + done' <= MAX_DESC
    BY <1>1, <2>2 DEF Complete
  <2>4. residue' \in Nat /\ moved' \in Nat
    BY <1>1, <2>2 DEF Complete
  <2> QED
    BY <1>1, <2>2, <2>3, <2>4 DEF Complete, Transfer, Empty
<1>2. CASE CbClear
  BY <1>2 DEF CbClear
<1>3. CASE CbCount
  <2>1. transferred' \in Uint32
    BY <1>3 DEF CbCount, Count
  <2> QED
    BY <1>3, <2>1 DEF CbCount
<1>4. CASE CbWake
  <2>1. done' \in Nat /\ Len(queue) + done' <= MAX_DESC
    <3>1. Len(queue) \in Nat
      BY QueueFacts DEF Transfer, Empty
    <3> QED
      BY <1>4, <3>1 DEF CbWake
  <2>2. pc' \in [Threads -> Labels]
    BY <1>4 DEF CbWake, Woken
  <2> QED
    BY <1>4, <2>1, <2>2 DEF CbWake
<1>5. ASSUME NEW t \in Threads, NEW l \in LENGTHS, MapPin(t, l) PROVE TInv'
  BY <1>5 DEF MapPin
<1>6. ASSUME NEW t \in Threads, NEW l \in LENGTHS, MapNotPinned(t, l) PROVE TInv'
  <2>1. pc' \in [Threads -> Labels] /\ res' \in [Threads -> Int]
    <3>1. CASE Return(t, "map_pin", "mapped", 0)
      BY <3>1
    <3>2. CASE Return(t, "map_pin", "failed", EFAULT)
      <4>1. -14 \in Int
        OBVIOUS
      <4> QED
        BY <3>2, <4>1
    <3> QED
      BY <1>6, <3>1, <3>2 DEF MapNotPinned
  <2> QED
    BY <1>6, <2>1 DEF MapNotPinned
<1>7. ASSUME NEW t \in Threads, MapSg(t) PROVE TInv'
  BY <1>7 DEF MapSg
<1>8. ASSUME NEW t \in Threads, MapSgFailed(t) PROVE TInv'
  BY <1>8 DEF MapSgFailed
<1>9. ASSUME NEW t \in Threads, StartSubmit(t) PROVE TInv'
  <2>1. queue \in Seq(Transfer) /\ queue' = Append(queue, Submitted) /\ Submitted \in Transfer
    BY <1>9, SubmittedType DEF StartSubmit, Submitted, Transfer, Empty
  <2>2. queue' \in Seq(Transfer) /\ Len(queue') = Len(queue) + 1 /\ Len(queue) \in Nat
    BY <2>1, QueueFacts
  <2> QED
    BY <1>9, <2>2 DEF StartSubmit, Transfer, Empty
<1>10. ASSUME NEW t \in Threads, StartSubmitFailed(t) PROVE TInv'
  BY <1>10 DEF StartSubmitFailed
<1>11. ASSUME NEW t \in Threads, StopCheck(t) PROVE TInv'
  BY <1>11 DEF StopCheck, Finished
<1>12. ASSUME NEW t \in Threads, StopRead(t) PROVE TInv'
  BY <1>12 DEF StopRead
<1>13. ASSUME NEW t \in Threads, Open(t) PROVE TInv'
  BY <1>13 DEF Open
<1>14. ASSUME NEW t \in Threads, MapRefused(t) PROVE TInv'
  BY <1>14 DEF MapRefused
<1>15. ASSUME NEW t \in Threads, MapCall(t) PROVE TInv'
  BY <1>15 DEF MapCall
<1>16. ASSUME NEW t \in Threads, Unmap(t) PROVE TInv'
  <2>1. pc' \in [Threads -> Labels] /\ res' \in [Threads -> Int]
    BY <1>16 DEF Unmap, UnmapBuf
  <2>2. /\ pages' \in Threads \cup {NULL} /\ sgl' \in Threads \cup {NULL}
        /\ pinned' \subseteq Threads /\ is_mapped' \in BOOLEAN
        /\ (pages' # NULL \/ sgl' # NULL => len \in LENGTHS)
    BY <1>16 DEF Unmap, UnmapBuf
  <2> QED
    BY <1>16, <2>1, <2>2 DEF Unmap, UnmapBuf
<1>17. ASSUME NEW t \in Threads, StartNoDescriptor(t) PROVE TInv'
  BY <1>17 DEF StartNoDescriptor
<1>18. ASSUME NEW t \in Threads, StartPrepare(t) PROVE TInv'
  BY <1>18 DEF StartPrepare
<1>19. ASSUME NEW t \in Threads, StopCall(t) PROVE TInv'
  BY <1>19 DEF StopCall
<1>20. ASSUME NEW t \in Threads, StopSignal(t) PROVE TInv'
  BY <1>20 DEF StopSignal
<1>21. ASSUME NEW t \in Threads, Close(t) PROVE TInv'
  <2>1. pc' \in [Threads -> Labels] /\ res' \in [Threads -> Int]
    BY <1>21 DEF Close, UnmapBuf
  <2>2. /\ pages' \in Threads \cup {NULL} /\ sgl' \in Threads \cup {NULL}
        /\ pinned' \subseteq Threads /\ is_mapped' \in BOOLEAN
        /\ (pages' # NULL \/ sgl' # NULL => len \in LENGTHS)
    BY <1>21 DEF Close, UnmapBuf
  <2> QED
    BY <1>21, <2>1, <2>2 DEF Close, UnmapBuf
<1>22. CASE UNCHANGED vars
  BY <1>22 DEF vars
<1>23. ASSUME NEW t \in Threads, NEW l \in LENGTHS, MapNoMemory(t, l) PROVE TInv'
  BY <1>23 DEF MapNoMemory
<1>24. ASSUME NEW t \in Threads, Oops(t) PROVE TInv'
  <2>1. pc' \in [Threads -> Labels] /\ res' \in [Threads -> Int]
    BY <1>24 DEF Oops, UnmapBuf
  <2>2. /\ pages' \in Threads \cup {NULL} /\ sgl' \in Threads \cup {NULL}
        /\ pinned' \subseteq Threads /\ is_mapped' \in BOOLEAN
        /\ (pages' # NULL \/ sgl' # NULL => len \in LENGTHS)
    BY <1>24 DEF Oops, UnmapBuf
  <2> QED
    BY <1>24, <2>1, <2>2 DEF Oops, UnmapBuf
<1> QED
  BY <1>1, <1>2, <1>3, <1>4, <1>5, <1>6, <1>7, <1>8, <1>9, <1>10, <1>11,
     <1>12, <1>13, <1>14, <1>15, <1>16, <1>17, <1>18, <1>19, <1>20, <1>21,
     <1>22, <1>23, <1>24
  DEF Next, Engine, Callback, InCall, Call

\* Types are invariant for any number of processes: bytes are counted modulo the
\* width of transferred, and only a descriptor without pages has the length 0.
THEOREM TypeCorrect == Spec => []TypeOK
<1>1. TInv /\ [Next]_vars => TInv'
  BY TypeStep
<1>2. TInv => TypeOK
  BY DEF TInv
<1> QED
  BY TypeInit, <1>1, <1>2, PTL DEF Spec

-----------------------------------------------------------------------------
(* The mapping and the transfer, for one process *)

LEMMA MappingStep ==
  ASSUME NEW u, Threads = {u}, TInv, Mapping, [Next]_vars
  PROVE  Mapping'
<1>t. /\ pc \in [Threads -> Labels] /\ pages \in Threads \cup {NULL} /\ NULL # u
      /\ sgl \in Threads \cup {NULL}
  BY LengthFacts DEF TInv, TypeOK
<1> USE <1>t DEF Mapping, InTransfer, UserStates, Step, Return, ctxVars, engineVars
<1>1. ASSUME NEW r \in 0..(IF queue = <<>> THEN 0 ELSE Head(queue).len), Complete(r) PROVE Mapping'
  BY <1>1 DEF Complete
<1>2. CASE CbClear
  BY <1>2 DEF CbClear
<1>3. CASE CbCount
  BY <1>3 DEF CbCount, Count
<1>4. CASE CbWake
  BY <1>4 DEF CbWake, Woken
<1>5. ASSUME NEW t \in Threads, NEW l \in LENGTHS, MapPin(t, l) PROVE Mapping'
  BY <1>5 DEF MapPin
<1>6. ASSUME NEW t \in Threads, NEW l \in LENGTHS, MapNotPinned(t, l) PROVE Mapping'
  BY <1>6 DEF MapNotPinned
<1>7. ASSUME NEW t \in Threads, MapSg(t) PROVE Mapping'
  BY <1>7 DEF MapSg
<1>8. ASSUME NEW t \in Threads, MapSgFailed(t) PROVE Mapping'
  BY <1>8 DEF MapSgFailed
<1>9. ASSUME NEW t \in Threads, StartSubmit(t) PROVE Mapping'
  BY <1>9 DEF StartSubmit
<1>10. ASSUME NEW t \in Threads, StartSubmitFailed(t) PROVE Mapping'
  BY <1>10 DEF StartSubmitFailed
<1>11. ASSUME NEW t \in Threads, StopCheck(t) PROVE Mapping'
  BY <1>11 DEF StopCheck, Finished
<1>12. ASSUME NEW t \in Threads, StopRead(t) PROVE Mapping'
  BY <1>12 DEF StopRead
<1>13. ASSUME NEW t \in Threads, Open(t) PROVE Mapping'
  BY <1>13 DEF Open
<1>14. ASSUME NEW t \in Threads, MapRefused(t) PROVE Mapping'
  BY <1>14 DEF MapRefused
<1>15. ASSUME NEW t \in Threads, MapCall(t) PROVE Mapping'
  BY <1>15 DEF MapCall
<1>16. ASSUME NEW t \in Threads, Unmap(t) PROVE Mapping'
  BY <1>16 DEF Unmap, UnmapBuf
<1>17. ASSUME NEW t \in Threads, StartNoDescriptor(t) PROVE Mapping'
  BY <1>17 DEF StartNoDescriptor
<1>18. ASSUME NEW t \in Threads, StartPrepare(t) PROVE Mapping'
  BY <1>18 DEF StartPrepare
<1>19. ASSUME NEW t \in Threads, StopCall(t) PROVE Mapping'
  BY <1>19 DEF StopCall
<1>20. ASSUME NEW t \in Threads, StopSignal(t) PROVE Mapping'
  BY <1>20 DEF StopSignal
<1>21. ASSUME NEW t \in Threads, Close(t) PROVE Mapping'
  BY <1>21 DEF Close, UnmapBuf
<1>22. CASE UNCHANGED vars
  BY <1>22 DEF vars
<1>23. ASSUME NEW t \in Threads, NEW l \in LENGTHS, MapNoMemory(t, l) PROVE Mapping'
  BY <1>23 DEF MapNoMemory
<1>24. ASSUME NEW t \in Threads, Oops(t) PROVE Mapping'
  BY <1>24 DEF Oops, UnmapBuf
<1> QED
  BY <1>1, <1>2, <1>3, <1>4, <1>5, <1>6, <1>7, <1>8, <1>9, <1>10, <1>11,
     <1>12, <1>13, <1>14, <1>15, <1>16, <1>17, <1>18, <1>19, <1>20, <1>21,
     <1>22, <1>23, <1>24
  DEF Next, Engine, Callback, InCall, Call

LEMMA TransferStep ==
  ASSUME NEW u, Threads = {u}, TInv, Mapping, Transferring, [Next]_vars
  PROVE  Transferring'
<1>t. /\ pc \in [Threads -> Labels] /\ done \in Nat /\ cb \in {"idle", "count", "wake"}
      /\ Len(queue) \in Nat /\ (cb # "idle" => done > 0)
      /\ queue \in Seq(Transfer) /\ (queue = <<>> <=> Len(queue) = 0)
  BY QueueFacts DEF TInv, TypeOK, Transfer, Empty
<1>p. Pending \in Nat /\ (Pending = 0 => queue = <<>>)
      /\ (cb = "idle" /\ done > 0 => Pending > 0)
  BY <1>t DEF Pending
<1> USE <1>t, <1>p
    DEF Transferring, InTransfer, UserStates, Step, Return, ctxVars, engineVars
<1>1. ASSUME NEW r \in 0..(IF queue = <<>> THEN 0 ELSE Head(queue).len), Complete(r) PROVE Transferring'
  <2>1. Len(queue') = Len(queue) - 1
    BY <1>1, QueueFacts DEF Complete
  <2>2. Pending' = Pending
    BY <1>1, <2>1 DEF Complete, Pending
  <2>3. ~broken => Len(queue') = 0
    BY <1>1, <2>1 DEF Complete, Pending
  <2>4. ~broken => queue' = <<>>
    BY <1>1, <2>3, QueueFacts DEF Complete
  <2> QED
    BY <1>1, <2>2, <2>4 DEF Complete
<1>2. CASE CbClear
  <2>1. Pending' = Pending - 1 /\ Pending > 0
    BY <1>2 DEF CbClear, Pending
  <2> QED
    BY <1>2, <2>1 DEF CbClear
<1>3. CASE CbCount
  <2>1. Pending' = Pending
    BY <1>3 DEF CbCount, Count, Pending
  <2> QED
    BY <1>3, <2>1 DEF CbCount, Count
<1>4. CASE CbWake
  <2>1. Pending' = Pending
    BY <1>4 DEF CbWake, Woken, Pending
  <2> QED
    BY <1>4, <2>1 DEF CbWake, Woken
<1>5. ASSUME NEW t \in Threads, NEW l \in LENGTHS, MapPin(t, l) PROVE Transferring'
  <2>1. Pending' = Pending
    BY <1>5 DEF MapPin, Pending
  <2> QED
    BY <1>5, <2>1 DEF MapPin
<1>6. ASSUME NEW t \in Threads, NEW l \in LENGTHS, MapNotPinned(t, l) PROVE Transferring'
  <2>1. Pending' = Pending
    BY <1>6 DEF MapNotPinned, Pending
  <2> QED
    BY <1>6, <2>1 DEF MapNotPinned
<1>7. ASSUME NEW t \in Threads, MapSg(t) PROVE Transferring'
  <2>1. Pending' = Pending
    BY <1>7 DEF MapSg, Pending
  <2> QED
    BY <1>7, <2>1 DEF MapSg
<1>8. ASSUME NEW t \in Threads, MapSgFailed(t) PROVE Transferring'
  <2>1. Pending' = Pending
    BY <1>8 DEF MapSgFailed, Pending
  <2> QED
    BY <1>8, <2>1 DEF MapSgFailed
<1>9. ASSUME NEW t \in Threads, StartSubmit(t) PROVE Transferring'
  <2>s. /\ queue' = Append(queue, Submitted) /\ Submitted \in Transfer
        /\ Submitted.buf # NULL <=> sgl # NULL
    BY <1>9, SubmittedType DEF StartSubmit, Submitted
  <2>1. Len(queue') = Len(queue) + 1
    BY <2>s, QueueFacts
  <2>2. Pending' = Pending + 1
    BY <1>9, <2>1 DEF StartSubmit, Pending
  <2>3. ~broken => Pending = 0 /\ queue = <<>> /\ is_running
    BY <1>9 DEF StartSubmit
  <2>4. ~broken => Head(queue') = Submitted
    BY <2>s, <2>3, QueueFacts
  <2>5. ~broken => (Head(queue').buf # NULL => is_mapped)
    BY <2>s, <2>4 DEF Mapping
  <2> QED
    BY <1>9, <2>2, <2>3, <2>5 DEF StartSubmit
<1>10. ASSUME NEW t \in Threads, StartSubmitFailed(t) PROVE Transferring'
  <2>1. Pending' = Pending
    BY <1>10 DEF StartSubmitFailed, Pending
  <2> QED
    BY <1>10, <2>1 DEF StartSubmitFailed
<1>11. ASSUME NEW t \in Threads, StopCheck(t) PROVE Transferring'
  <2>1. Pending' = Pending
    BY <1>11 DEF StopCheck, Finished, Pending
  <2> QED
    BY <1>11, <2>1 DEF StopCheck, Finished
<1>12. ASSUME NEW t \in Threads, StopRead(t) PROVE Transferring'
  <2>1. Pending' = Pending
    BY <1>12 DEF StopRead, Pending
  <2> QED
    BY <1>12, <2>1 DEF StopRead
<1>13. ASSUME NEW t \in Threads, Open(t) PROVE Transferring'
  <2>1. Pending' = Pending
    BY <1>13 DEF Open, Pending
  <2> QED
    BY <1>13, <2>1 DEF Open
<1>14. ASSUME NEW t \in Threads, MapRefused(t) PROVE Transferring'
  <2>1. Pending' = Pending
    BY <1>14 DEF MapRefused, Pending
  <2> QED
    BY <1>14, <2>1 DEF MapRefused
<1>15. ASSUME NEW t \in Threads, MapCall(t) PROVE Transferring'
  <2>1. Pending' = Pending
    BY <1>15 DEF MapCall, Pending
  <2> QED
    BY <1>15, <2>1 DEF MapCall
<1>16. ASSUME NEW t \in Threads, Unmap(t) PROVE Transferring'
  <2>1. Pending' = Pending
    BY <1>16 DEF Unmap, UnmapBuf, Pending
  <2> QED
    BY <1>16, <2>1 DEF Unmap, UnmapBuf
<1>17. ASSUME NEW t \in Threads, StartNoDescriptor(t) PROVE Transferring'
  <2>1. Pending' = Pending
    BY <1>17 DEF StartNoDescriptor, Pending
  <2> QED
    BY <1>17, <2>1 DEF StartNoDescriptor
<1>18. ASSUME NEW t \in Threads, StartPrepare(t) PROVE Transferring'
  <2>1. Pending' = Pending
    BY <1>18 DEF StartPrepare, Pending
  <2> QED
    BY <1>18, <2>1 DEF StartPrepare
<1>19. ASSUME NEW t \in Threads, StopCall(t) PROVE Transferring'
  <2>1. Pending' = Pending
    BY <1>19 DEF StopCall, Pending
  <2> QED
    BY <1>19, <2>1 DEF StopCall
<1>20. ASSUME NEW t \in Threads, StopSignal(t) PROVE Transferring'
  <2>1. Pending' = Pending
    BY <1>20 DEF StopSignal, Pending
  <2> QED
    BY <1>20, <2>1 DEF StopSignal
<1>21. ASSUME NEW t \in Threads, Close(t) PROVE Transferring'
  <2>1. Pending' = Pending
    BY <1>21 DEF Close, UnmapBuf, Pending
  <2> QED
    BY <1>21, <2>1 DEF Close, UnmapBuf
<1>22. CASE UNCHANGED vars
  <2>1. Pending' = Pending
    BY <1>22 DEF vars, Pending
  <2> QED
    BY <1>22, <2>1 DEF vars
<1>23. ASSUME NEW t \in Threads, NEW l \in LENGTHS, MapNoMemory(t, l) PROVE Transferring'
  <2>1. Pending' = Pending
    BY <1>23 DEF MapNoMemory, Pending
  <2> QED
    BY <1>23, <2>1 DEF MapNoMemory
<1>24. ASSUME NEW t \in Threads, Oops(t) PROVE Transferring'
  <2>1. Pending' = Pending
    BY <1>24 DEF Oops, UnmapBuf, Pending
  <2> QED
    BY <1>24, <2>1 DEF Oops, UnmapBuf
<1> QED
  BY <1>1, <1>2, <1>3, <1>4, <1>5, <1>6, <1>7, <1>8, <1>9, <1>10, <1>11,
     <1>12, <1>13, <1>14, <1>15, <1>16, <1>17, <1>18, <1>19, <1>20, <1>21,
     <1>22, <1>23, <1>24
  DEF Next, Engine, Callback, InCall, Call

LEMMA AppCorrect == (\E u : Threads = {u}) /\ Spec => []AppInv
<1> SUFFICES ASSUME NEW u, Threads = {u} PROVE Spec => []AppInv
  OBVIOUS
<1>1. ASSUME Init PROVE AppInv
  <2>1. TInv
    BY <1>1, TypeInit
  <2>2. Mapping
    BY <1>1 DEF Init, Mapping
  <2>3. Pending = 0
    BY <1>1 DEF Init, Pending
  <2>4. Transferring
    BY <1>1, <2>3 DEF Init, Transferring
  <2> QED
    BY <2>1, <2>2, <2>4 DEF AppInv
<1>2. AppInv /\ [Next]_vars => AppInv'
  BY TypeStep, MappingStep, TransferStep DEF AppInv
<1> QED
  BY <1>1, <1>2, PTL DEF Spec

\* The engine never writes pages that the driver has put back, as long as the
\* process was neither interrupted in STOP nor killed while its transfer was running:
\* is_running is still set when a transfer is pending, so STOP, and UNMAP after it, wait.
THEOREM PagesStay == (\E u : Threads = {u}) /\ Spec => []PinnedWhileWritten
<1> SUFFICES ASSUME NEW u, Threads = {u} PROVE Spec => []PinnedWhileWritten
  OBVIOUS
<1>1. ASSUME AppInv PROVE PinnedWhileWritten
  <2>1. ASSUME ~broken, NEW i \in DOMAIN queue, queue[i].buf # NULL PROVE queue[i].buf \in pinned
    <3>1. queue \in Seq(Transfer)
      BY <1>1 DEF AppInv, TInv, TypeOK, Transfer, Empty
    <3>2. Len(queue) \in Nat /\ Len(queue) # 0 /\ queue[i] \in Transfer /\ i \in 1..Len(queue)
      BY <2>1, <3>1
    <3>3. Len(queue) <= 1
      BY <1>1, <2>1, <3>2 DEF AppInv, TInv, TypeOK, Pending, Transferring
    <3>4. queue # <<>> /\ i = 1 /\ Head(queue) = queue[i]
      BY <3>1, <3>2, <3>3
    <3>5. pinned = Threads
      BY <1>1, <2>1, <3>4 DEF AppInv, Transferring, Mapping
    <3> QED
      BY <2>1, <3>2, <3>5 DEF Transfer, Empty
  <2> QED
    BY <2>1 DEF PinnedWhileWritten
<1>2. Spec => []AppInv
  BY AppCorrect
<1> QED
  BY <1>1, <1>2, PTL

\* Closing the device, at the end, after a call that failed, by a kill between calls or
\* when the process dies in one that reads a table it does not have, gives every page
\* back and leaves the context free for a new MAPBUF.  MAPBUF may fail at every call it
\* makes, and go on where the code does: without a list of pages, without a table.
THEOREM PagesReturn == (\E u : Threads = {u}) /\ Spec => []Released
<1> SUFFICES ASSUME NEW u, Threads = {u} PROVE Spec => []Released
  OBVIOUS
<1>1. AppInv => Released
  BY DEF AppInv, Mapping, Released
<1>2. Spec => []AppInv
  BY AppCorrect
<1> QED
  BY <1>1, <1>2, PTL
=============================================================================
