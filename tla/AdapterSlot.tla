----------------------------- MODULE AdapterSlot -----------------------------
(***************************************************************************)
(* The one-frame write slot every terminal adapter shares                  *)
(* (src/transport/shared/adapter_slot.rs, close_reason.rs) together with   *)
(* the route socket writer that drains it (transport/unix/route_socket.rs).*)
(*                                                                         *)
(* Three kinds of threads meet here and never wait for each other through  *)
(* anything but the slot mutex:                                            *)
(*   - Core, one thread, which only ever try_locks: try_write, close;      *)
(*   - Driver, the transport's writer task, which does wait for the mutex: *)
(*     snapshot_active, socket write, complete_active;                     *)
(*   - Closers, any thread that closes the route from the Hub side.        *)
(* Each atomic load, store, swap or lock operation is one step.            *)
(* Frames are numbered in the order Core offers them.                      *)
(***************************************************************************)
EXTENDS Naturals, Sequences

CONSTANTS Closers,     \* threads that may close the route from the Hub side
          Core, Driver,
          CoreReasons, \* the TerminalRouteCloseReasons Core may give
          MaxFrames    \* bound on the frames Core offers

ASSUME ProcsDistinct == Core # Driver /\ Core \notin Closers /\ Driver \notin Closers
ASSUME CoreReasonsKnown == CoreReasons \subseteq {"worker_lost", "core_other"}
ASSUME MaxFramesNat == MaxFrames \in Nat

Procs == Closers \cup {Core, Driver}

Nobody == "nobody"
ASSUME NobodyIsNoThread == Nobody \notin Procs

NoFrame == 0
Frames == 1..MaxFrames

\* close_reason.rs: OPEN, HOST, CORE_UNSPECIFIED and the Core reasons, of which
\* CloseReport tells only WorkerLinkFailed ("worker_lost") from the others.
OPEN == "open"
HOST == "host"
CORE_UNSPECIFIED == "core"
Causes == {HOST, CORE_UNSPECIFIED} \cup CoreReasons

VARIABLES
  cause,          \* CloseCause.state
  lock,           \* holder of the slot mutex, or Nobody
  slot,           \* the frame in flight, or NoFrame
  occupied,       \* AtomicBool mirror of slot
  would_block,    \* transport backpressure
  writer_waiting, \* Core met a held mutex and waits for that holder's unlock
  wake,           \* AdapterWake: one stored permit for the writer task
  sink,           \* Core installed its TerminalWakeSink
  core_wake,      \* wakes latched at Core's TerminalWakeSink
  closed_woke,    \* emit_closed already ran
  reports,        \* CloseReports handed to the close hook
  parked,         \* Core was refused and waits for a Writable wake
  accepted,       \* number of frames try_write stored
  snap,           \* frame the writer task cloned with snapshot_active
  taken,          \* frame complete_active took out of the slot
  ret,            \* where the writer task continues after an unlock or a notify
  sent,           \* frames wholly written to the socket, in order
  pc              \* per-thread program counter

vars == <<cause, lock, slot, occupied, would_block, writer_waiting, wake, sink,
          core_wake, closed_woke, reports, parked, accepted, snap, taken, ret,
          sent, pc>>

coreVars == <<sink, parked, accepted>>
driverVars == <<snap, taken, ret, sent>>
wakeVars == <<wake, core_wake, closed_woke, reports>>
cell == <<slot, occupied>>
flags == <<would_block, writer_waiting>>
shared == <<cause, lock, cell, flags>>
memory == <<shared, coreVars, driverVars, wakeVars>>

is_closed == cause # OPEN

\* Points of the shared close() procedure, run by any thread.
\* A thread closes once: Core drops the route, a closer's call returns, and
\* the writer task ends with it. Further closes are further Closers.
ClosePcs == {"close_lock", "close_clear", "close_emit", "close_sink",
             "close_hook", "close_wake", "done"}
CorePcs == {"unbound", "b_emit", "b_sink", "idle", "r_occupied", "r_block",
            "w_block", "w_lock", "w_mark", "w_retry", "w_unmark", "w_check",
            "w_occupied", "w_unlock", "w_wake", "w_full"}
DriverPcs == {"s_lock", "s_read", "s_unlock", "branch", "wait", "writing",
              "ending", "c_check", "c_lock", "c_take", "c_occupied",
              "c_unlock", "c_done", "g_swap", "n_emit", "n_sink", "n_wake"}

PcsOf(p) == ClosePcs \cup (IF p = Core THEN CorePcs
                           ELSE IF p = Driver THEN DriverPcs ELSE {"idle"})

Init ==
  /\ cause = OPEN
  /\ lock = Nobody
  /\ slot = NoFrame
  /\ occupied = FALSE
  /\ would_block = FALSE
  /\ writer_waiting = FALSE
  /\ wake = FALSE
  /\ sink = FALSE
  /\ core_wake = {}
  /\ closed_woke = FALSE
  /\ reports = {}
  /\ parked = FALSE
  /\ accepted = 0
  /\ snap = NoFrame
  /\ taken = NoFrame
  /\ ret = "s_lock"
  /\ sent = <<>>
  /\ pc = [p \in Procs |-> IF p = Driver THEN "s_lock"
                           ELSE IF p = Core THEN "unbound" ELSE "idle"]

\* TerminalWakeSink::wake: latched at Core; nothing without an installed sink.
WithWake(kind) == IF sink THEN core_wake \cup {kind} ELSE core_wake

Goto(p, from, to) == pc[p] = from /\ pc' = [pc EXCEPT ![p] = to]

----------------------------------------------------------------------------
(* close(): close_from_host, close_from_core, handle close and Drop.        *)

\* Variant: the later close overwrites the first one's cause.
commit_last(c) == cause' = c

\* commit_first: one compare-exchange from OPEN; a later close changes nothing.
commit_first(c) == cause' = IF cause = OPEN THEN c ELSE cause

\* Where a thread stands when it may start a close: Core between two calls, a
\* closer at any time, the writer task at its await points (the reader side
\* ended) or once its own loop ended.
ClosePoint(p) == IF p = Driver THEN {"wait", "writing", "ending"} ELSE {"idle"}

CausesOf(p) == IF p = Core THEN CoreReasons \cup {CORE_UNSPECIFIED}
               ELSE {HOST, CORE_UNSPECIFIED}

CloseCommit(p) ==
  /\ pc[p] \in ClosePoint(p)
  /\ \E c \in CausesOf(p) : commit_first(c)
  /\ pc' = [pc EXCEPT ![p] = "close_lock"]
  /\ UNCHANGED <<lock, cell, flags, coreVars, driverVars, wakeVars>>

\* slot.try_lock(): a held mutex is skipped, never waited for.
CloseTryLock(p) ==
  /\ \/ lock = Nobody /\ lock' = p /\ Goto(p, "close_lock", "close_clear")
     \/ lock # Nobody /\ UNCHANGED lock /\ Goto(p, "close_lock", "close_emit")
  /\ UNCHANGED <<cause, cell, flags, coreVars, driverVars, wakeVars>>

CloseClear(p) ==
  /\ Goto(p, "close_clear", "close_emit")
  /\ slot' = NoFrame
  /\ occupied' = FALSE
  /\ lock' = Nobody
  /\ UNCHANGED <<cause, flags, coreVars, driverVars, wakeVars>>

\* emit_closed: only the first swap wakes Core's sink.
CloseEmit(p) ==
  /\ Goto(p, "close_emit", IF closed_woke THEN "close_hook" ELSE "close_sink")
  /\ closed_woke' = TRUE
  /\ UNCHANGED <<shared, coreVars, driverVars, wake, core_wake, reports>>

CloseSink(p) ==
  /\ Goto(p, "close_sink", "close_hook")
  /\ core_wake' = WithWake("closed")
  /\ UNCHANGED <<shared, coreVars, driverVars, wake, closed_woke, reports>>

\* CloseCause::report, read when the hook runs.
CloseHook(p) ==
  /\ Goto(p, "close_hook", "close_wake")
  /\ reports' = reports \cup {[host_closed |-> cause = HOST,
                               worker_lost |-> cause = "worker_lost"]}
  /\ UNCHANGED <<shared, coreVars, driverVars, wake, core_wake, closed_woke>>

\* Variant: the close leaves the writer task asleep.
CloseNoWake(p) ==
  /\ Goto(p, "close_wake", "done")
  /\ UNCHANGED memory

CloseWake(p) ==
  /\ Goto(p, "close_wake", "done")
  /\ wake' = TRUE
  /\ UNCHANGED <<shared, coreVars, driverVars, core_wake, closed_woke, reports>>

Close(p) == CloseCommit(p) \/ CloseTryLock(p) \/ CloseClear(p) \/ CloseEmit(p)
            \/ CloseSink(p) \/ CloseHook(p) \/ CloseWake(p)

----------------------------------------------------------------------------
(* Core: try_write, step by step, and its wait for a Writable wake.         *)

\* A refusal parks Core until the next Writable (or Closed) wake.
CoreRefused(from) ==
  /\ Goto(Core, from, "idle")
  /\ parked' = TRUE
  /\ UNCHANGED <<sink, accepted>>

\* set_wake_sink: install the sink, then emit_writable.
SetWakeSink ==
  /\ Goto(Core, "unbound", "b_emit")
  /\ sink' = TRUE
  /\ UNCHANGED <<shared, parked, accepted, driverVars, wakeVars>>

BindEmit ==
  /\ Goto(Core, "b_emit", IF is_closed THEN "idle" ELSE "b_sink")
  /\ UNCHANGED memory

BindSink ==
  /\ Goto(Core, "b_sink", "idle")
  /\ core_wake' = WithWake("writable")
  /\ UNCHANGED <<shared, coreVars, driverVars, wake, closed_woke, reports>>

\* Core takes one latched wake and pumps the route again.
CoreUnpark ==
  /\ pc[Core] = "idle" /\ parked /\ core_wake # {}
  /\ core_wake' = {}
  /\ parked' = FALSE
  /\ UNCHANGED <<shared, sink, accepted, driverVars, wake, closed_woke,
                 reports, pc>>

\* pressure(): closed, then occupancy, then backpressure, each its own load.
\* Full and WouldBlock park Core; Closed and Ready leave it as it was.
PressureStart ==
  /\ ~parked /\ ~is_closed
  /\ Goto(Core, "idle", "r_occupied")
  /\ UNCHANGED memory

PressureOccupied ==
  /\ \/ occupied /\ CoreRefused("r_occupied")
     \/ ~occupied /\ Goto(Core, "r_occupied", "r_block") /\ UNCHANGED coreVars
  /\ UNCHANGED <<shared, driverVars, wakeVars>>

PressureWouldBlock ==
  /\ \/ would_block /\ CoreRefused("r_block")
     \/ ~would_block /\ Goto(Core, "r_block", "idle") /\ UNCHANGED coreVars
  /\ UNCHANGED <<shared, driverVars, wakeVars>>

\* is_closed() at the top of try_write; a closed adapter is not written again.
WriteStart ==
  /\ ~parked /\ accepted < MaxFrames
  /\ ~is_closed
  /\ Goto(Core, "idle", "w_block")
  /\ UNCHANGED memory

WriteWouldBlock ==
  /\ \/ would_block /\ CoreRefused("w_block")
     \/ ~would_block /\ Goto(Core, "w_block", "w_lock") /\ UNCHANGED coreVars
  /\ UNCHANGED <<shared, driverVars, wakeVars>>

WriteTryLock ==
  /\ \/ lock = Nobody /\ lock' = Core /\ Goto(Core, "w_lock", "w_check")
     \/ lock # Nobody /\ UNCHANGED lock /\ Goto(Core, "w_lock", "w_mark")
  /\ UNCHANGED <<cause, cell, flags, coreVars, driverVars, wakeVars>>

\* Variant: a refused try_write leaves no mark for the holder's unlock.
WriteMarkForgotten ==
  /\ Goto(Core, "w_mark", "w_retry")
  /\ UNCHANGED memory

WriteMark ==
  /\ Goto(Core, "w_mark", "w_retry")
  /\ writer_waiting' = TRUE
  /\ UNCHANGED <<cause, lock, cell, would_block, coreVars, driverVars,
                 wakeVars>>

\* The one retry after the mark.
WriteRetry ==
  /\ \/ lock = Nobody /\ lock' = Core /\ Goto(Core, "w_retry", "w_unmark")
        /\ UNCHANGED coreVars
     \/ lock # Nobody /\ UNCHANGED lock /\ CoreRefused("w_retry")
  /\ UNCHANGED <<cause, cell, flags, driverVars, wakeVars>>

WriteUnmark ==
  /\ Goto(Core, "w_unmark", "w_check")
  /\ writer_waiting' = FALSE
  /\ UNCHANGED <<cause, lock, cell, would_block, coreVars, driverVars,
                 wakeVars>>

\* Under the mutex: is_closed again, then the occupancy check, then the store.
WriteStore ==
  /\ pc[Core] = "w_check"
  /\ \/ /\ is_closed
        /\ slot' = NoFrame /\ occupied' = FALSE /\ lock' = Nobody
        /\ pc' = [pc EXCEPT ![Core] = "idle"]
        /\ UNCHANGED accepted
     \/ /\ ~is_closed /\ slot # NoFrame
        /\ pc' = [pc EXCEPT ![Core] = "w_full"]
        /\ UNCHANGED <<cell, lock, accepted>>
     \/ /\ ~is_closed /\ slot = NoFrame
        /\ slot' = accepted + 1 /\ accepted' = accepted + 1
        /\ pc' = [pc EXCEPT ![Core] = "w_occupied"]
        /\ UNCHANGED <<occupied, lock>>
  /\ UNCHANGED <<cause, flags, sink, parked, driverVars, wakeVars>>

\* Err(Full): the guard drops with the return.
WriteFull ==
  /\ CoreRefused("w_full")
  /\ lock' = Nobody
  /\ UNCHANGED <<cause, cell, flags, driverVars, wakeVars>>

WriteOccupied ==
  /\ Goto(Core, "w_occupied", "w_unlock")
  /\ occupied' = TRUE
  /\ UNCHANGED <<cause, lock, slot, flags, coreVars, driverVars, wakeVars>>

WriteUnlock ==
  /\ Goto(Core, "w_unlock", "w_wake")
  /\ lock' = Nobody
  /\ UNCHANGED <<cause, cell, flags, coreVars, driverVars, wakeVars>>

\* Variant: a stored frame does not wake the writer task.
WriteNoWake ==
  /\ Goto(Core, "w_wake", "idle")
  /\ UNCHANGED memory

WriteWake ==
  /\ Goto(Core, "w_wake", "idle")
  /\ wake' = TRUE
  /\ UNCHANGED <<shared, coreVars, driverVars, core_wake, closed_woke, reports>>

CoreStep ==
  \/ SetWakeSink \/ BindEmit \/ BindSink
  \/ CoreUnpark \/ PressureStart \/ PressureOccupied \/ PressureWouldBlock
  \/ WriteStart \/ WriteWouldBlock \/ WriteTryLock \/ WriteMark
  \/ WriteRetry \/ WriteUnmark \/ WriteStore \/ WriteFull \/ WriteOccupied
  \/ WriteUnlock \/ WriteWake

----------------------------------------------------------------------------
(* Driver: the route socket's writer task, write_route_output.              *)

\* lock_for_driver: the writer task waits for the mutex.
DriverLock(from, to) ==
  /\ lock = Nobody
  /\ lock' = Driver
  /\ Goto(Driver, from, to)
  /\ UNCHANGED <<cause, cell, flags, coreVars, driverVars, wakeVars>>

SnapshotLock == DriverLock("s_lock", "s_read")

\* Variant: the snapshot takes the frame instead of cloning it.
SnapshotTake ==
  /\ Goto(Driver, "s_read", "s_unlock")
  /\ slot' = NoFrame /\ occupied' = FALSE
  /\ snap' = IF is_closed THEN NoFrame ELSE slot
  /\ UNCHANGED <<cause, lock, flags, coreVars, taken, ret, sent, wakeVars>>

SnapshotRead ==
  /\ Goto(Driver, "s_read", "s_unlock")
  /\ \/ /\ is_closed
        /\ slot' = NoFrame /\ occupied' = FALSE /\ snap' = NoFrame
     \/ /\ ~is_closed
        /\ snap' = slot
        /\ UNCHANGED <<cell>>
  /\ UNCHANGED <<cause, lock, flags, coreVars, taken, ret, sent, wakeVars>>

\* DriverSlotGuard::drop unlocks first, and only then looks at writer_waiting.
GuardUnlock(from, next) ==
  /\ Goto(Driver, from, "g_swap")
  /\ lock' = Nobody
  /\ ret' = next
  /\ UNCHANGED <<cause, cell, flags, coreVars, snap, taken, sent, wakeVars>>

SnapshotUnlock == GuardUnlock("s_unlock", "branch")

GuardSwap ==
  /\ Goto(Driver, "g_swap", IF writer_waiting THEN "n_emit" ELSE ret)
  /\ writer_waiting' = FALSE
  /\ UNCHANGED <<cause, lock, cell, would_block, coreVars, driverVars,
                 wakeVars>>

\* notify_writable: emit_writable (nothing once closed), then the own wake.
NotifyEmit ==
  /\ Goto(Driver, "n_emit", IF is_closed THEN "n_wake" ELSE "n_sink")
  /\ UNCHANGED memory

NotifySink ==
  /\ Goto(Driver, "n_sink", "n_wake")
  /\ core_wake' = WithWake("writable")
  /\ UNCHANGED <<shared, coreVars, driverVars, wake, closed_woke, reports>>

NotifyWake ==
  /\ Goto(Driver, "n_wake", ret)
  /\ wake' = TRUE
  /\ UNCHANGED <<shared, coreVars, driverVars, core_wake, closed_woke, reports>>

\* No frame: a closed route ends the writer, an open one waits.
Branch ==
  /\ Goto(Driver, "branch", IF snap # NoFrame THEN "writing"
                            ELSE IF is_closed THEN "ending" ELSE "wait")
  /\ UNCHANGED memory

\* AdapterWake::wait consumes the stored permit.
WaitForWrite ==
  /\ wake
  /\ wake' = FALSE
  /\ Goto(Driver, "wait", "s_lock")
  /\ UNCHANGED <<shared, coreVars, driverVars, core_wake, closed_woke, reports>>

\* While the socket write is pending, the select also polls handle.closed(),
\* which consumes wakes whether or not the route is still open.
WatchClosed ==
  /\ pc[Driver] = "writing" /\ wake
  /\ wake' = FALSE
  /\ UNCHANGED <<shared, coreVars, driverVars, core_wake, closed_woke,
                 reports, pc>>

\* The whole frame reached the socket, before or after a close.
WriteDone ==
  /\ Goto(Driver, "writing", "c_check")
  /\ sent' = Append(sent, snap)
  /\ UNCHANGED <<shared, coreVars, snap, taken, ret, wakeVars>>

\* The socket failed, or the write deadline after a close elapsed.
WriteFailed ==
  /\ Goto(Driver, "writing", "ending")
  /\ UNCHANGED memory

\* complete_active returns at once on a closed route.
CompleteCheck ==
  /\ Goto(Driver, "c_check", IF is_closed THEN "s_lock" ELSE "c_lock")
  /\ UNCHANGED memory

CompleteLock == DriverLock("c_lock", "c_take")

\* Variant: a channel under pressure keeps its frame, as a closed one loses it.
CompletePressured ==
  /\ \/ /\ is_closed \/ would_block
        /\ slot' = (IF is_closed THEN NoFrame ELSE slot)
        /\ occupied' = (IF is_closed THEN FALSE ELSE occupied)
        /\ taken' = NoFrame
        /\ Goto(Driver, "c_take", "c_unlock")
     \/ /\ ~is_closed /\ ~would_block
        /\ slot' = NoFrame
        /\ taken' = slot
        /\ UNCHANGED occupied
        /\ Goto(Driver, "c_take", "c_occupied")
  /\ UNCHANGED <<cause, lock, flags, coreVars, snap, ret, sent, wakeVars>>

CompleteTake ==
  /\ slot' = NoFrame
  /\ \/ /\ is_closed
        /\ occupied' = FALSE /\ taken' = NoFrame
        /\ Goto(Driver, "c_take", "c_unlock")
     \/ /\ ~is_closed
        /\ taken' = slot
        /\ UNCHANGED occupied
        /\ Goto(Driver, "c_take", "c_occupied")
  /\ UNCHANGED <<cause, lock, flags, coreVars, snap, ret, sent, wakeVars>>

CompleteOccupied ==
  /\ Goto(Driver, "c_occupied", "c_unlock")
  /\ occupied' = FALSE
  /\ UNCHANGED <<cause, lock, slot, flags, coreVars, driverVars, wakeVars>>

CompleteUnlock == GuardUnlock("c_unlock", "c_done")

\* emit_writable only for a taken frame; the own wake in every case.
CompleteDone ==
  /\ Goto(Driver, "c_done", IF taken # NoFrame THEN "n_emit" ELSE "n_wake")
  /\ ret' = "s_lock"
  /\ UNCHANGED <<shared, coreVars, snap, taken, sent, wakeVars>>

\* set_would_block, from the WebRTC channel's buffered-amount events, which the
\* biased select takes only without a stored permit: raising it only stores;
\* clearing it stores, then emits Writable and wakes. The loop then starts over.
\* The two events alternate: each fires when the amount crosses its threshold.
BufferedAmountHigh ==
  /\ ~wake /\ ~would_block
  /\ would_block' = TRUE
  /\ Goto(Driver, "wait", "s_lock")
  /\ UNCHANGED <<cause, lock, cell, writer_waiting, coreVars, driverVars,
                 wakeVars>>

BufferedAmountLow ==
  /\ ~wake /\ would_block
  /\ would_block' = FALSE
  /\ Goto(Driver, "wait", "n_emit")
  /\ ret' = "s_lock"
  /\ UNCHANGED <<cause, lock, cell, writer_waiting, coreVars, snap, taken,
                 sent, wakeVars>>

\* Every step of the writer task except the environment's choices.
DriverStep ==
  \/ SnapshotLock \/ SnapshotRead \/ SnapshotUnlock \/ GuardSwap \/ NotifyEmit
  \/ NotifySink \/ NotifyWake \/ Branch \/ WaitForWrite \/ WriteDone
  \/ CompleteCheck \/ CompleteLock \/ CompleteTake \/ CompleteOccupied
  \/ CompleteUnlock \/ CompleteDone

\* The writer task ended: only the other threads' calls are left.
Ended == pc[Driver] = "done" /\ UNCHANGED vars

Next ==
  \/ CoreStep
  \/ DriverStep
  \/ WatchClosed \/ WriteFailed \/ BufferedAmountHigh \/ BufferedAmountLow
  \/ \E p \in Procs : Close(p)
  \/ Ended

Spec == Init /\ [][Next]_vars

\* The threads keep running; the client keeps reading (WriteDone) and the
\* channel's buffer keeps draining (BufferedAmountLow). Nobody has to close,
\* but a close that began, or whose writer loop ended, finishes.
CloseRest(p) == CloseTryLock(p) \/ CloseClear(p) \/ CloseEmit(p) \/ CloseSink(p)
                \/ CloseHook(p) \/ CloseWake(p)

Fairness ==
  /\ WF_vars(CoreStep)
  /\ WF_vars(DriverStep)
  /\ WF_vars(BufferedAmountLow)
  /\ WF_vars(pc[Driver] = "ending" /\ CloseCommit(Driver))
  /\ \A p \in Procs : WF_vars(CloseRest(p))

FairSpec == Spec /\ Fairness

----------------------------------------------------------------------------
(* Properties.                                                              *)

FlagsOK ==
  /\ occupied \in BOOLEAN /\ would_block \in BOOLEAN /\ writer_waiting \in BOOLEAN
  /\ wake \in BOOLEAN /\ sink \in BOOLEAN /\ closed_woke \in BOOLEAN
  /\ parked \in BOOLEAN

PcsOK ==
  /\ pc \in [Procs -> ClosePcs \cup CorePcs \cup DriverPcs]
  /\ \A p \in Procs : pc[p] \in PcsOf(p)

\* Every variable has its declared shape and every thread stands at a point of
\* its own code; in particular the writer task ends with its close.
TypeOK ==
  /\ cause \in Causes \cup {OPEN}
  /\ lock \in Procs \cup {Nobody}
  /\ slot \in Frames \cup {NoFrame}
  /\ snap \in Frames \cup {NoFrame}
  /\ taken \in Frames \cup {NoFrame}
  /\ FlagsOK
  /\ core_wake \subseteq {"writable", "closed"}
  /\ reports \subseteq [host_closed : BOOLEAN, worker_lost : BOOLEAN]
  /\ accepted \in 0..MaxFrames
  /\ ret \in {"s_lock", "branch", "c_done"}
  /\ sent \in Seq(Frames)
  /\ PcsOK

\* The lock-free occupancy mirror that pressure() reads agrees with the slot
\* whenever nobody holds the slot mutex (DriverSlotGuard: "Every store keeps
\* `occupied` in step").
OccupiedInStep == lock = Nobody => (occupied <=> slot # NoFrame)

\* Frames leave in the order try_write accepted them, each once, and while the
\* route is open none is lost: at most the newest is still in the slot. A
\* completion the writer skipped would repeat a frame, a racing one lose it.
FramesInOrder ==
  /\ \A i \in DOMAIN sent : sent[i] = i
  /\ Len(sent) <= accepted
  /\ ~is_closed => accepted <= Len(sent) + 1

\* complete_active takes out exactly the frame the writer has just written: an
\* open route never reaches the flush loop's CompletionLost exit, and no newer
\* frame is dropped in place of the written one.
CompletesWhatItWrote == pc[Driver] = "c_done" => taken = snap \/ is_closed

\* No lost Writable: once try_write or pressure() has refused Core, a writer task
\* that went to sleep over an empty, unpressured, open slot has left a wake at
\* Core's sink. Contended try_write against the unlock of DriverSlotGuard is the
\* hard case.
CoreNotStranded ==
  /\ parked /\ pc[Core] = "idle" /\ ~is_closed
  /\ pc[Driver] = "wait" /\ slot = NoFrame /\ ~would_block
  => core_wake # {}

\* No lost frame wake: the writer task never sleeps without a permit while an
\* accepted frame is in the slot, unless the try_write that stored it has still
\* to wake it; a pending socket write may have consumed earlier permits.
WriterNotStranded ==
  /\ pc[Driver] = "wait" /\ ~wake /\ slot # NoFrame
  => pc[Core] \in {"w_occupied", "w_unlock", "w_wake"} \/ is_closed

\* The first close fixes the cause, so every run of the close hook, by whichever
\* racing closer, reports the same thing.
OneReport == \A r1, r2 \in reports : r1 = r2

\* A close by anybody ends the writer task.
CloseEndsWriter == is_closed ~> (pc[Driver] = "done")
=============================================================================
