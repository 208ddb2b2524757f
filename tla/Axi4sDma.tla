------------------------------ MODULE Axi4sDma ------------------------------
(***************************************************************************)
(* The axi4s2dma kernel driver (axi_dma_prj1, axi_vdma_prj1): it pins the  *)
(* pages of a user's buffer, hands them to the AXI DMA engine through the  *)
(* dmaengine API, and waits for the completion callback.  One context,     *)
(* tst1_ctx, serves every process that opens the device; tst1_ioctl takes  *)
(* no lock and the callback runs beside it.                                *)
(*                                                                         *)
(* The pages of the buffer of process t are named t, and lengths are small *)
(* numbers.  A scatter table without pages, which a MAPBUF without a list  *)
(* of pages may leave, is none: sgl = NULL.  The engine and the page       *)
(* allocator are external.                                                 *)
(***************************************************************************)
EXTENDS Integers, Sequences

CONSTANTS
  Threads,   \* processes, each runs a4s2d_app.c over and over
  LENGTHS,   \* buffer lengths
  UINT_MAX,  \* the largest uint32_t, scaled down with the lengths
  MAX_DESC,  \* bound on descriptors whose callback has not ended
  NULL

ASSUME ThreadsAssumption == NULL \notin Threads
ASSUME LengthsAssumption == UINT_MAX \in Nat /\ LENGTHS \subseteq 1..UINT_MAX
ASSUME BoundAssumption == MAX_DESC \in Nat \ {0}

VARIABLES
  is_mapped, is_running, len, transferred, pages, sgl, \* tst1_ctx
  pinned,       \* processes whose pages are pinned
  queue,        \* descriptors in the engine: pages and length; NULL and 0: empty
  done, residue,\* completions whose callback has not ended; residue reported
  cb,           \* where the callback is
  pc, res,      \* where each process is; what its last call returned
  moved,        \* history: bytes of the last completed transfer
  broken        \* history: a process gave up while its transfer was running

ctxVars == <<is_mapped, is_running, len, transferred, pages, sgl>>
engineVars == <<queue, done, residue, cb, moved>>
vars == <<ctxVars, pinned, engineVars, pc, res, broken>>

UserStates == {"opened", "mapped", "running", "stopped", "unmapped", "failed"}
Labels == {"closed", "map_pin", "map_sg", "start_submit", "stop_check",
           "stop_sleep", "stop_read"} \cup UserStates
Uint32 == 0..UINT_MAX
ENOMEM == -12
EFAULT == -14
EBUSY == -16
EINVAL == -22

TypeOK ==
  /\ is_mapped \in BOOLEAN /\ is_running \in BOOLEAN
  /\ len \in LENGTHS \cup {0} /\ transferred \in Uint32
  /\ pages \in Threads \cup {NULL} /\ sgl \in Threads \cup {NULL}
  /\ pinned \subseteq Threads
  /\ queue \in Seq([buf : Threads, len : LENGTHS] \cup {[buf |-> NULL, len |-> 0]})
  /\ done \in Nat /\ Len(queue) + done <= MAX_DESC
  /\ residue \in Nat /\ moved \in Nat
  /\ cb \in {"idle", "count", "wake"}
  /\ pc \in [Threads -> Labels] /\ res \in [Threads -> Int]
  /\ broken \in BOOLEAN

Init ==
  /\ is_mapped = FALSE /\ is_running = FALSE /\ len = 0 /\ transferred = 0
  /\ pages = NULL /\ sgl = NULL /\ pinned = {}
  /\ queue = <<>> /\ done = 0 /\ residue = 0 /\ cb = "idle" /\ moved = 0
  /\ pc = [t \in Threads |-> "closed"] /\ res = [t \in Threads |-> 0]
  /\ broken = FALSE

-----------------------------------------------------------------------------
(* The engine, external: it writes the buffer of Head(queue) until the      *)
(* stream's packet ends, and then runs the callback.  A descriptor without  *)
(* pages may complete with nothing written, or never.                       *)
Complete(r) ==
  /\ queue # <<>> /\ (r < Head(queue).len \/ Head(queue).buf = NULL)
  /\ queue' = Tail(queue) /\ done' = done + 1
  /\ residue' = r /\ moved' = Head(queue).len - r
  /\ UNCHANGED <<ctxVars, pinned, cb, pc, res, broken>>

(* a4s2d_callback *)

CbClear ==
  /\ done > 0 /\ cb = "idle" /\ cb' = "count"
  /\ is_running' = FALSE
  /\ UNCHANGED <<is_mapped, len, transferred, pages, sgl, pinned, queue, done,
                 residue, moved, pc, res, broken>>

\* Unsigned: len belongs to the newest mapping, residue to the transfer.
FaultyCount == residue - len
Count == (len - residue) % (UINT_MAX + 1)
CbCount ==
  /\ cb = "count" /\ cb' = "wake"
  /\ transferred' = Count
  /\ UNCHANGED <<is_mapped, is_running, len, pages, sgl, pinned, queue, done,
                 residue, moved, pc, res, broken>>

\* wake_up_interruptible: sleepers test their condition again.
FaultyWoken(t) == pc[t]
Woken(t) == IF pc[t] = "stop_sleep" THEN "stop_check" ELSE pc[t]
CbWake ==
  /\ cb = "wake" /\ cb' = "idle" /\ done' = done - 1
  /\ pc' = [t \in Threads |-> Woken(t)]
  /\ UNCHANGED <<ctxVars, pinned, queue, residue, moved, res, broken>>

-----------------------------------------------------------------------------
(* Calls of a process *)

Step(t, from, to) == pc[t] = from /\ pc' = [pc EXCEPT ![t] = to]
Return(t, from, to, value) == Step(t, from, to) /\ res' = [res EXCEPT ![t] = value]

Open(t) ==
  /\ Return(t, "closed", "opened", 0)
  /\ UNCHANGED <<ctxVars, pinned, engineVars, broken>>

\* MAPBUF tests is_mapped first, then the descriptor it was given; a program may
\* also call it once more after it returned.
MapRefused(t) ==
  /\ \E from \in {"opened", "mapped"}, value \in {EBUSY, EFAULT, EINVAL} :
       (value = EBUSY <=> is_mapped) /\ Return(t, from, "failed", value)
  /\ UNCHANGED <<ctxVars, pinned, engineVars, broken>>

MapCall(t) ==
  /\ ~is_mapped
  /\ \E from \in {"opened", "mapped"} : Step(t, from, "map_pin")
  /\ UNCHANGED <<ctxVars, pinned, engineVars, res, broken>>

\* The list of pages is allocated and the pages pinned.
MapPin(t, l) ==
  /\ Step(t, "map_pin", "map_sg")
  /\ len' = l /\ pages' = t /\ pinned' = pinned \cup {t}
  /\ UNCHANGED <<is_mapped, is_running, transferred, sgl, engineVars, res, broken>>

\* Pinning fails.  get_user_pages_fast returns an error number: the call
\* returns res, still 0.  Fewer pages than asked: they are put back, -EFAULT.
MapNotPinned(t, l) ==
  /\ len' = l /\ pages' = NULL
  /\ \/ Return(t, "map_pin", "mapped", 0)
     \/ Return(t, "map_pin", "failed", EFAULT)
  /\ UNCHANGED <<is_mapped, is_running, transferred, sgl, pinned, engineVars, broken>>

\* There is no memory for the list: nr_pages is set to 0, none of 0 pages is
\* pinned, which is as many as asked, and the call goes on without a list.
MapNoMemory(t, l) ==
  /\ Step(t, "map_pin", "map_sg")
  /\ len' = l /\ pages' = NULL
  /\ UNCHANGED <<is_mapped, is_running, transferred, sgl, pinned, engineVars, res, broken>>

\* The table is built of the pages the context names, and mapped for the engine.
MapSg(t) ==
  /\ pages # NULL /\ Return(t, "map_sg", "mapped", 0)
  /\ sgl' = pages /\ is_mapped' = TRUE
  /\ UNCHANGED <<is_running, len, transferred, pages, pinned, engineVars, broken>>

\* No memory for the table, or no room for it in the mapping.
MapSgFailed(t) ==
  /\ Return(t, "map_sg", "failed", ENOMEM)
  /\ sgl' = NULL /\ pages' = NULL /\ pinned' = pinned \ {pages}
  /\ UNCHANGED <<is_mapped, is_running, len, transferred, engineVars, broken>>

\* tst1_unmap_buf: the engine is not asked whether it still writes.
FaultyUnmapBuf == UNCHANGED <<is_mapped, pages, sgl, pinned>>
UnmapBuf ==
  /\ is_mapped' = FALSE
  /\ pinned' = IF is_mapped THEN pinned \ {pages} ELSE pinned
  /\ pages' = IF is_mapped THEN NULL ELSE pages
  /\ sgl' = IF is_mapped THEN NULL ELSE sgl

Unmap(t) ==
  /\ Return(t, "stopped", "unmapped", 0) /\ UnmapBuf
  /\ UNCHANGED <<is_running, len, transferred, engineVars, broken>>

StartNoDescriptor(t) ==
  /\ Return(t, "mapped", "failed", EFAULT)
  /\ UNCHANGED <<ctxVars, pinned, engineVars, broken>>

\* A descriptor is prepared, whether or not there is a mapping, and the transfer
\* marked as started.
StartPrepare(t) ==
  /\ Step(t, "mapped", "start_submit")
  /\ is_running' = TRUE
  /\ UNCHANGED <<is_mapped, len, transferred, pages, sgl, pinned, engineVars, res, broken>>

StartSubmit(t) ==
  /\ Len(queue) + done < MAX_DESC
  /\ Return(t, "start_submit", "running", 1)
  /\ queue' = Append(queue, [buf |-> sgl, len |-> IF sgl = NULL THEN 0 ELSE len])
  /\ UNCHANGED <<ctxVars, pinned, done, residue, cb, moved, broken>>

\* is_running stays set.
StartSubmitFailed(t) ==
  /\ Return(t, "start_submit", "failed", EFAULT)
  /\ UNCHANGED <<ctxVars, pinned, engineVars, broken>>

\* a4s2d_app exits when START fails; another program may call STOP all the same.
StopCall(t) ==
  /\ \E from \in {"running", "failed"} : Step(t, from, "stop_check")
  /\ UNCHANGED <<ctxVars, pinned, engineVars, res, broken>>

\* wait_event_interruptible: test, sleep, test again after a wake-up.
FaultyFinished == TRUE
Finished == ~is_running
StopCheck(t) ==
  /\ Step(t, "stop_check", IF Finished THEN "stop_read" ELSE "stop_sleep")
  /\ UNCHANGED <<ctxVars, pinned, engineVars, res, broken>>

StopSignal(t) ==
  /\ Step(t, "stop_sleep", "failed")
  /\ broken' = TRUE
  /\ UNCHANGED <<ctxVars, pinned, engineVars, res>>

StopRead(t) ==
  /\ Return(t, "stop_read", "stopped", transferred)
  /\ UNCHANGED <<ctxVars, pinned, engineVars, broken>>

\* Where a table is read, the process dies in the kernel if there is none, and the
\* descriptor is closed: MAPBUF reads pages[0] of no list, START and STOP hand over
\* to the CPU or the engine what they take to be mapped.
Oops(t) ==
  /\ \/ pc[t] = "map_sg" /\ pages = NULL
     \/ pc[t] \in {"mapped", "start_submit", "stop_read"} /\ sgl = NULL
  /\ pc' = [pc EXCEPT ![t] = "closed"] /\ UnmapBuf
  /\ res' = [res EXCEPT ![t] = 0]
  /\ UNCHANGED <<is_running, len, transferred, engineVars, broken>>

\* The descriptor is closed at the end, after a failed call, or by a kill.
Close(t) ==
  /\ pc[t] \in UserStates
  /\ broken' = (broken \/ pc[t] = "running")
  /\ pc' = [pc EXCEPT ![t] = "closed"] /\ UnmapBuf
  /\ res' = [res EXCEPT ![t] = 0]
  /\ UNCHANGED <<is_running, len, transferred, engineVars>>

-----------------------------------------------------------------------------
Engine == \E r \in 0..(IF queue = <<>> THEN 0 ELSE Head(queue).len) : Complete(r)
Callback == CbClear \/ CbCount \/ CbWake

InCall(t) ==
  \/ \E l \in LENGTHS : MapPin(t, l) \/ MapNotPinned(t, l) \/ MapNoMemory(t, l)
  \/ MapSg(t) \/ MapSgFailed(t)
  \/ StartSubmit(t) \/ StartSubmitFailed(t)
  \/ StopCheck(t) \/ StopRead(t) \/ Oops(t)

Call(t) ==
  \/ Open(t) \/ MapRefused(t) \/ MapCall(t) \/ Unmap(t)
  \/ StartNoDescriptor(t) \/ StartPrepare(t)
  \/ StopCall(t) \/ StopSignal(t) \/ Close(t)

Next ==
  \/ Engine
  \/ Callback
  \/ \E t \in Threads : InCall(t) \/ Call(t)

Spec == Init /\ [][Next]_vars

\* The stream fills a descriptor that has pages, softirqs run, and a system call is
\* not abandoned; the user may stop making calls at any time.
Stream == queue # <<>> /\ Head(queue).buf # NULL /\ Engine
Fairness ==
  /\ WF_vars(Stream) /\ WF_vars(Callback)
  /\ \A t \in Threads : WF_vars(InCall(t))
FairSpec == Spec /\ Fairness
-----------------------------------------------------------------------------
(* Properties *)

\* Transfers whose end the callback has not told the driver.
Pending == Len(queue) + done - (IF cb = "idle" THEN 0 ELSE 1)

\* The engine never writes pages that the driver has given back: between
\* START and the last byte the buffer stays pinned (tst1_unmap_buf), as long as
\* no process was interrupted in STOP or killed while its transfer was running.
PinnedWhileWritten ==
  ~broken => \A i \in DOMAIN queue : queue[i].buf # NULL => queue[i].buf \in pinned

\* When no process has the device open, no page stays pinned and the context
\* is ready for a new MAPBUF, wherever the processes were killed or died.
Released ==
  (\A t \in Threads : pc[t] = "closed") => pinned = {} /\ ~is_mapped /\ sgl = NULL

\* "We sleep waiting until transfer is completed" (axi4s2dma.c:330): STOP
\* returns the number of bytes of the transfer it waited for.
StopCount == \A t \in Threads : pc[t] = "stopped" /\ is_mapped => res[t] = moved

\* A process in STOP gets out of it, unless what it waits for was never submitted
\* or has no pages: no completion and no wake-up is lost.
Waiting(t) == pc[t] \in {"stop_check", "stop_sleep"}
EndComes ==
  ~is_running \/ (Pending > 0 /\ \A i \in DOMAIN queue : queue[i].buf # NULL)
StopReturns == \A t \in Threads : Waiting(t) /\ EndComes ~> ~Waiting(t)
=============================================================================
