------------------------- MODULE AdapterSlotProofs -------------------------
(***************************************************************************)
(* Safety of AdapterSlot for every set of closers and every number of      *)
(* frames. The inductive invariant IInv says who may hold the mutex, when   *)
(* the occupancy mirror may lag, which frame the writer task works on, and  *)
(* who owes the wake that a parked Core or a sleeping writer waits for.     *)
(***************************************************************************)
EXTENDS AdapterSlot, TLAPS

\* Where a thread holds the slot mutex.
LockPcs == {"w_unmark", "w_check", "w_full", "w_occupied", "w_unlock",
            "s_read", "s_unlock", "c_take", "c_occupied", "c_unlock",
            "close_clear"}

MutexInv == \A p \in Procs : lock = p <=> pc[p] \in LockPcs

\* Only a committed close lets a thread into the rest of close().
ClosedInv == \A p \in Procs : pc[p] \in ClosePcs => is_closed

\* The mirror lags the slot only between a store or take and its own store.
MirrorInv ==
  /\ pc[Core] = "w_occupied" => slot # NoFrame
  /\ pc[Driver] = "c_occupied" => slot = NoFrame
  /\ pc[Core] # "w_occupied" /\ pc[Driver] # "c_occupied"
       => (occupied <=> slot # NoFrame)

\* The writer task between snapshot_active's read and the end of its socket
\* write or wait.
Looked ==
  \/ pc[Driver] \in {"s_unlock", "branch", "wait", "writing"}
  \/ pc[Driver] \in {"g_swap", "n_emit", "n_sink", "n_wake"} /\ ret = "branch"

\* A wholly written frame that complete_active has not yet taken out.
Written == pc[Driver] \in {"c_check", "c_lock", "c_take"}

\* complete_active between its take and its notification.
Taken ==
  \/ pc[Driver] \in {"c_occupied", "c_unlock", "c_done"}
  \/ pc[Driver] \in {"g_swap", "n_emit", "n_sink", "n_wake"} /\ ret = "c_done"

FrameInv ==
  /\ \A i \in 1..Len(sent) : sent[i] = i
  /\ Len(sent) <= accepted
  /\ pc[Driver] = "writing" => snap # NoFrame
  /\ pc[Driver] = "wait" => snap = NoFrame
  /\ Looked /\ snap # NoFrame => snap = Len(sent) + 1 /\ snap <= accepted
  /\ ~is_closed =>
       /\ slot # NoFrame => slot = accepted
       /\ Looked /\ snap # NoFrame => slot = snap
       /\ Written => slot = snap /\ snap # NoFrame /\ Len(sent) = accepted
       /\ ~Written => IF slot = NoFrame THEN accepted = Len(sent)
                                        ELSE accepted = Len(sent) + 1
       /\ Taken => taken = snap /\ taken # NoFrame

\* Somebody still owes a refused Core its wake, or already latched it.
WakeOwed ==
  \/ core_wake # {} \/ is_closed \/ would_block \/ slot # NoFrame
  \/ pc[Driver] \in {"n_emit", "n_sink", "c_occupied"}
  \/ /\ taken # NoFrame
     /\ \/ pc[Driver] \in {"c_unlock", "c_done"}
        \/ pc[Driver] = "g_swap" /\ ret = "c_done"
  \/ writer_waiting /\ (lock = Driver \/ pc[Driver] = "g_swap")

ParkInv ==
  /\ sink <=> pc[Core] # "unbound"
  /\ parked => pc[Core] \in {"idle"} \cup ClosePcs
  /\ parked => WakeOwed
  /\ pc[Core] = "w_full" => slot # NoFrame
  /\ pc[Core] = "w_retry" => \/ writer_waiting \/ core_wake # {} \/ is_closed
                             \/ pc[Driver] \in {"n_emit", "n_sink"}

\* A frame stored after the writer task looked has a wake stored or coming.
WriterInv ==
  Looked /\ snap = NoFrame /\ slot # NoFrame /\ ~is_closed
    => wake \/ pc[Core] \in {"w_occupied", "w_unlock", "w_wake"}

ReportInv ==
  \A r \in reports : /\ is_closed
                     /\ r = [host_closed |-> cause = HOST,
                             worker_lost |-> cause = "worker_lost"]

\* The bound WriteStart checked still holds when the frame is stored.
OfferInv ==
  pc[Core] \in {"w_block", "w_lock", "w_mark", "w_retry", "w_unmark",
      "w_check"}
    => accepted < MaxFrames

IInv == /\ TypeOK /\ MutexInv /\ ClosedInv /\ MirrorInv /\ FrameInv /\ ParkInv
        /\ WriterInv /\ ReportInv /\ OfferInv
----------------------------------------------------------------------------
(* The steps, grouped by the procedure they belong to.                      *)

\* Core: set_wake_sink, pressure() and taking a wake.
BindOrProbe ==
  \/ SetWakeSink \/ BindEmit \/ BindSink \/ CoreUnpark \/ PressureStart
  \/ PressureOccupied \/ PressureWouldBlock

\* Core: try_write up to the mutex.
WriteAdmission ==
  \/ WriteStart \/ WriteWouldBlock \/ WriteTryLock \/ WriteMark \/ WriteRetry
  \/ WriteUnmark

\* Core: try_write from the mutex on.
WriteUnderLock ==
  \/ WriteStore \/ WriteFull \/ WriteOccupied \/ WriteUnlock \/ WriteWake

\* The writer task: snapshot_active and what a guard drop notifies.
Snapshot ==
  \/ SnapshotLock \/ SnapshotRead \/ SnapshotUnlock \/ GuardSwap
  \/ NotifyEmit \/ NotifySink \/ NotifyWake \/ Branch

\* The writer task: its waits, socket writes and pressure events.
Socket ==
  \/ WaitForWrite \/ WatchClosed \/ WriteDone \/ WriteFailed
  \/ BufferedAmountHigh \/ BufferedAmountLow

\* The writer task: complete_active.
Completion ==
  \/ CompleteCheck \/ CompleteLock \/ CompleteTake \/ CompleteOccupied
  \/ CompleteUnlock \/ CompleteDone

LEMMA ProcFacts ==
  /\ Core \in Procs /\ Driver \in Procs /\ Core # Driver /\ Nobody \notin Procs
  /\ \A p \in Closers : p # Core /\ p # Driver
BY ProcsDistinct, NobodyIsNoThread DEF Procs

LEMMA BindOrProbeKeeps ==
  ASSUME IInv, BindOrProbe
  PROVE  IInv'
<1> USE DEF IInv, BindOrProbe, SetWakeSink, BindEmit, BindSink, CoreUnpark,
      PressureStart, PressureOccupied, PressureWouldBlock, CoreRefused, Goto,
      memory, shared, cell, flags,
      coreVars, driverVars, wakeVars
<1>1. FlagsOK'
    BY Zenon DEF TypeOK, FlagsOK
<1>2. PcsOK'
    BY ProcFacts DEF TypeOK, FlagsOK, PcsOK, PcsOf, ClosePcs, CorePcs,
       DriverPcs
<1>3. TypeOK'
    BY <1>1, <1>2, ProcFacts, MaxFramesNat, CoreReasonsKnown DEF TypeOK,
       Frames, NoFrame, Nobody, Causes, OPEN, HOST, CORE_UNSPECIFIED,
       WithWake
<1>4. MutexInv'
    BY ProcFacts DEF TypeOK, FlagsOK, PcsOK, MutexInv, LockPcs, PcsOf,
       ClosePcs, CorePcs, DriverPcs
<1>5. ClosedInv'
    BY ProcFacts, CoreReasonsKnown DEF TypeOK, FlagsOK, PcsOK, ClosedInv,
       PcsOf, ClosePcs, CorePcs, DriverPcs, is_closed, OPEN, HOST,
       CORE_UNSPECIFIED, Causes
<1>6. MirrorInv'
    BY ProcFacts DEF TypeOK, FlagsOK, PcsOK, MutexInv, LockPcs, MirrorInv,
       PcsOf, ClosePcs, CorePcs, DriverPcs, NoFrame, Frames
<1>7. FrameInv'
    BY ProcFacts, MaxFramesNat DEF TypeOK, FlagsOK, PcsOK, MutexInv, LockPcs,
       ClosedInv, MirrorInv, FrameInv, Looked, Written, Taken, PcsOf,
       ClosePcs, CorePcs, DriverPcs, is_closed, OPEN, HOST, CORE_UNSPECIFIED,
       Frames, NoFrame
<1>8. ParkInv'
    BY ProcFacts DEF TypeOK, FlagsOK, PcsOK, MutexInv, LockPcs, ClosedInv,
       MirrorInv, FrameInv, Looked, Written, Taken, ParkInv, WakeOwed,
       WithWake, PcsOf, ClosePcs, CorePcs, DriverPcs, is_closed, OPEN, HOST,
       CORE_UNSPECIFIED, Causes, Frames, NoFrame
<1>9. WriterInv'
    BY ProcFacts DEF TypeOK, FlagsOK, PcsOK, MutexInv, LockPcs, ClosedInv,
       FrameInv, WriterInv, Looked, Written, PcsOf, ClosePcs, CorePcs,
       DriverPcs, is_closed, OPEN, HOST, CORE_UNSPECIFIED, NoFrame
<1>10. ReportInv'
    BY ProcFacts DEF TypeOK, FlagsOK, PcsOK, ClosedInv, ReportInv, PcsOf,
       ClosePcs, CorePcs, DriverPcs, is_closed, OPEN, HOST, CORE_UNSPECIFIED
<1>11. OfferInv'
    BY ProcFacts DEF TypeOK, FlagsOK, PcsOK, OfferInv, PcsOf, ClosePcs,
       CorePcs, DriverPcs
<1> QED BY <1>3, <1>4, <1>5, <1>6, <1>7, <1>8, <1>9, <1>10, <1>11

LEMMA WriteAdmissionKeeps ==
  ASSUME IInv, WriteAdmission
  PROVE  IInv'
<1> USE DEF IInv, WriteAdmission, WriteStart, WriteWouldBlock, WriteTryLock,
      WriteMark, WriteRetry, WriteUnmark, CoreRefused, Goto, memory, shared, cell, flags,
      coreVars, driverVars, wakeVars
<1>1. FlagsOK'
    BY Zenon DEF TypeOK, FlagsOK
<1>2. PcsOK'
    BY ProcFacts DEF TypeOK, FlagsOK, PcsOK, PcsOf, ClosePcs, CorePcs,
       DriverPcs
<1>3. TypeOK'
    BY <1>1, <1>2, ProcFacts, MaxFramesNat, CoreReasonsKnown DEF TypeOK,
       Frames, NoFrame, Nobody, Causes, OPEN, HOST, CORE_UNSPECIFIED,
       WithWake
<1>4. MutexInv'
    BY ProcFacts DEF TypeOK, FlagsOK, PcsOK, MutexInv, LockPcs, PcsOf,
       ClosePcs, CorePcs, DriverPcs
<1>5. ClosedInv'
    BY ProcFacts, CoreReasonsKnown DEF TypeOK, FlagsOK, PcsOK, ClosedInv,
       PcsOf, ClosePcs, CorePcs, DriverPcs, is_closed, OPEN, HOST,
       CORE_UNSPECIFIED, Causes
<1>6. MirrorInv'
    BY ProcFacts DEF TypeOK, FlagsOK, PcsOK, MutexInv, LockPcs, MirrorInv,
       PcsOf, ClosePcs, CorePcs, DriverPcs, NoFrame, Frames
<1>7. FrameInv'
    BY ProcFacts, MaxFramesNat DEF TypeOK, FlagsOK, PcsOK, MutexInv, LockPcs,
       ClosedInv, MirrorInv, FrameInv, Looked, Written, Taken, PcsOf,
       ClosePcs, CorePcs, DriverPcs, is_closed, OPEN, HOST, CORE_UNSPECIFIED,
       Frames, NoFrame
<1>8. ParkInv'
    BY ProcFacts DEF TypeOK, FlagsOK, PcsOK, MutexInv, LockPcs, ClosedInv,
       MirrorInv, FrameInv, Looked, Written, Taken, ParkInv, WakeOwed,
       WithWake, PcsOf, ClosePcs, CorePcs, DriverPcs, is_closed, OPEN, HOST,
       CORE_UNSPECIFIED, Causes, Frames, NoFrame
<1>9. WriterInv'
    BY ProcFacts DEF TypeOK, FlagsOK, PcsOK, MutexInv, LockPcs, ClosedInv,
       FrameInv, WriterInv, Looked, Written, PcsOf, ClosePcs, CorePcs,
       DriverPcs, is_closed, OPEN, HOST, CORE_UNSPECIFIED, NoFrame
<1>10. ReportInv'
    BY ProcFacts DEF TypeOK, FlagsOK, PcsOK, ClosedInv, ReportInv, PcsOf,
       ClosePcs, CorePcs, DriverPcs, is_closed, OPEN, HOST, CORE_UNSPECIFIED
<1>11. OfferInv'
    BY ProcFacts DEF TypeOK, FlagsOK, PcsOK, OfferInv, PcsOf, ClosePcs,
       CorePcs, DriverPcs
<1> QED BY <1>3, <1>4, <1>5, <1>6, <1>7, <1>8, <1>9, <1>10, <1>11

LEMMA WriteUnderLockKeeps ==
  ASSUME IInv, WriteUnderLock
  PROVE  IInv'
<1> USE DEF IInv, WriteUnderLock, WriteStore, WriteFull, WriteOccupied,
      WriteUnlock, WriteWake, CoreRefused, Goto, memory, shared, cell, flags,
      coreVars, driverVars, wakeVars
<1>1. FlagsOK'
    BY Zenon DEF TypeOK, FlagsOK
<1>2. PcsOK'
    BY ProcFacts DEF TypeOK, FlagsOK, PcsOK, PcsOf, ClosePcs, CorePcs,
       DriverPcs
<1>3. TypeOK'
  <2>1. slot' \in Frames \cup {NoFrame} /\ accepted' \in 0..MaxFrames
      BY MaxFramesNat DEF TypeOK, OfferInv, Frames, NoFrame
  <2>2. lock' \in Procs \cup {Nobody}
      BY DEF TypeOK
  <2> QED
      BY <1>1, <1>2, <2>1, <2>2 DEF TypeOK
<1>4. MutexInv'
    BY ProcFacts DEF TypeOK, FlagsOK, PcsOK, MutexInv, LockPcs, PcsOf,
       ClosePcs, CorePcs, DriverPcs
<1>5. ClosedInv'
    BY ProcFacts, CoreReasonsKnown DEF TypeOK, FlagsOK, PcsOK, ClosedInv,
       PcsOf, ClosePcs, CorePcs, DriverPcs, is_closed, OPEN, HOST,
       CORE_UNSPECIFIED, Causes
<1>6. MirrorInv'
    BY ProcFacts DEF TypeOK, FlagsOK, PcsOK, MutexInv, LockPcs, MirrorInv,
       PcsOf, ClosePcs, CorePcs, DriverPcs, NoFrame, Frames
<1>7. FrameInv'
    BY ProcFacts, MaxFramesNat DEF TypeOK, FlagsOK, PcsOK, MutexInv, LockPcs,
       ClosedInv, MirrorInv, FrameInv, Looked, Written, Taken, PcsOf,
       ClosePcs, CorePcs, DriverPcs, is_closed, OPEN, HOST, CORE_UNSPECIFIED,
       Frames, NoFrame
<1>8. ParkInv'
    BY ProcFacts DEF TypeOK, FlagsOK, PcsOK, MutexInv, LockPcs, ClosedInv,
       MirrorInv, FrameInv, Looked, Written, Taken, ParkInv, WakeOwed,
       WithWake, PcsOf, ClosePcs, CorePcs, DriverPcs, is_closed, OPEN, HOST,
       CORE_UNSPECIFIED, Causes, Frames, NoFrame
<1>9. WriterInv'
    BY ProcFacts DEF TypeOK, FlagsOK, PcsOK, MutexInv, LockPcs, ClosedInv,
       FrameInv, WriterInv, Looked, Written, PcsOf, ClosePcs, CorePcs,
       DriverPcs, is_closed, OPEN, HOST, CORE_UNSPECIFIED, NoFrame
<1>10. ReportInv'
    BY ProcFacts DEF TypeOK, FlagsOK, PcsOK, ClosedInv, ReportInv, PcsOf,
       ClosePcs, CorePcs, DriverPcs, is_closed, OPEN, HOST, CORE_UNSPECIFIED
<1>11. OfferInv'
    BY ProcFacts DEF TypeOK, FlagsOK, PcsOK, OfferInv, PcsOf, ClosePcs,
       CorePcs, DriverPcs
<1> QED BY <1>3, <1>4, <1>5, <1>6, <1>7, <1>8, <1>9, <1>10, <1>11

LEMMA SnapshotKeeps ==
  ASSUME IInv, Snapshot
  PROVE  IInv'
<1> USE DEF IInv, Snapshot, SnapshotLock, SnapshotRead, SnapshotUnlock,
      GuardSwap, NotifyEmit, NotifySink, NotifyWake, Branch, DriverLock,
      GuardUnlock, Goto, memory, shared, cell, flags,
      coreVars, driverVars, wakeVars
<1>1. FlagsOK'
    BY Zenon DEF TypeOK, FlagsOK
<1>2. PcsOK'
    BY ProcFacts DEF TypeOK, FlagsOK, PcsOK, PcsOf, ClosePcs, CorePcs,
       DriverPcs
<1>3. TypeOK'
    BY <1>1, <1>2, ProcFacts, MaxFramesNat, CoreReasonsKnown DEF TypeOK,
       Frames, NoFrame, Nobody, Causes, OPEN, HOST, CORE_UNSPECIFIED,
       WithWake
<1>4. MutexInv'
    BY ProcFacts DEF TypeOK, FlagsOK, PcsOK, MutexInv, LockPcs, PcsOf,
       ClosePcs, CorePcs, DriverPcs
<1>5. ClosedInv'
    BY SMTT(40), ProcFacts, CoreReasonsKnown DEF TypeOK, FlagsOK, PcsOK, ClosedInv,
       PcsOf, ClosePcs, CorePcs, DriverPcs, is_closed, OPEN, HOST,
       CORE_UNSPECIFIED, Causes
<1>6. MirrorInv'
    BY SMTT(40), ProcFacts DEF TypeOK, FlagsOK, PcsOK, MutexInv, LockPcs, MirrorInv,
       PcsOf, ClosePcs, CorePcs, DriverPcs, NoFrame, Frames
<1>7. FrameInv'
    BY SMTT(40), ProcFacts, MaxFramesNat DEF TypeOK, FlagsOK, PcsOK, MutexInv, LockPcs,
       ClosedInv, MirrorInv, FrameInv, Looked, Written, Taken, PcsOf,
       ClosePcs, CorePcs, DriverPcs, is_closed, OPEN, HOST, CORE_UNSPECIFIED,
       Frames, NoFrame
<1>8. ParkInv'
    BY SMTT(40), ProcFacts DEF TypeOK, FlagsOK, PcsOK, MutexInv, LockPcs, ClosedInv,
       MirrorInv, FrameInv, Looked, Written, Taken, ParkInv, WakeOwed,
       WithWake, PcsOf, ClosePcs, CorePcs, DriverPcs, is_closed, OPEN, HOST,
       CORE_UNSPECIFIED, Causes, Frames, NoFrame
<1>9. WriterInv'
    BY SMTT(40), ProcFacts DEF TypeOK, FlagsOK, PcsOK, MutexInv, LockPcs, ClosedInv,
       FrameInv, WriterInv, Looked, Written, PcsOf, ClosePcs, CorePcs,
       DriverPcs, is_closed, OPEN, HOST, CORE_UNSPECIFIED, NoFrame
<1>10. ReportInv'
    BY ProcFacts DEF TypeOK, FlagsOK, PcsOK, ClosedInv, ReportInv, PcsOf,
       ClosePcs, CorePcs, DriverPcs, is_closed, OPEN, HOST, CORE_UNSPECIFIED
<1>11. OfferInv'
    BY ProcFacts DEF TypeOK, FlagsOK, PcsOK, OfferInv, PcsOf, ClosePcs,
       CorePcs, DriverPcs
<1> QED BY <1>3, <1>4, <1>5, <1>6, <1>7, <1>8, <1>9, <1>10, <1>11

LEMMA SocketKeeps ==
  ASSUME IInv, Socket
  PROVE  IInv'
<1> USE DEF IInv, Socket, WaitForWrite, WatchClosed, WriteDone, WriteFailed,
      BufferedAmountHigh, BufferedAmountLow, Goto, memory, shared, cell, flags,
      coreVars, driverVars, wakeVars
<1>1. FlagsOK'
    BY Zenon DEF TypeOK, FlagsOK
<1>2. PcsOK'
    BY ProcFacts DEF TypeOK, FlagsOK, PcsOK, PcsOf, ClosePcs, CorePcs,
       DriverPcs
<1>3. TypeOK'
  <2>1. sent' \in Seq(Frames)
    <3>1. WriteDone => snap \in Frames
        BY DEF TypeOK, FrameInv
    <3>2. sent' = sent \/ (WriteDone /\ sent' = Append(sent, snap))
        OBVIOUS
    <3>3. sent \in Seq(Frames)
        BY DEF TypeOK
    <3> QED
        BY <3>1, <3>2, <3>3
  <2>2. ret' \in {"s_lock", "branch", "c_done"}
      BY DEF TypeOK
  <2> QED
      BY <1>1, <1>2, <2>1, <2>2 DEF TypeOK
<1>4. MutexInv'
    BY ProcFacts DEF TypeOK, FlagsOK, PcsOK, MutexInv, LockPcs, PcsOf,
       ClosePcs, CorePcs, DriverPcs
<1>5. ClosedInv'
    BY ProcFacts, CoreReasonsKnown DEF TypeOK, FlagsOK, PcsOK, ClosedInv,
       PcsOf, ClosePcs, CorePcs, DriverPcs, is_closed, OPEN, HOST,
       CORE_UNSPECIFIED, Causes
<1>6. MirrorInv'
    BY ProcFacts DEF TypeOK, FlagsOK, PcsOK, MutexInv, LockPcs, MirrorInv,
       PcsOf, ClosePcs, CorePcs, DriverPcs, NoFrame, Frames
<1>7. FrameInv'
  <2>1. CASE WriteDone
    <3>1. sent' = Append(sent, Len(sent) + 1) /\ Len(sent) + 1 <= accepted
        BY <2>1 DEF FrameInv, Looked
    <3>2. Len(sent') = Len(sent) + 1 /\ \A i \in 1..Len(sent') : sent'[i] = i
        BY SMTT(40), <3>1 DEF TypeOK, FrameInv
    <3> QED
        BY <2>1, <3>1, <3>2, ProcFacts, MaxFramesNat
           DEF TypeOK, PcsOK, FrameInv, Looked, Written, Taken, is_closed,
               Frames, NoFrame
  <2>2. CASE ~WriteDone
      BY <2>2, ProcFacts, MaxFramesNat
         DEF TypeOK, PcsOK, FrameInv, Looked, Written, Taken, is_closed,
             Frames, NoFrame
  <2> QED
      BY <2>1, <2>2
<1>8. ParkInv'
    BY SMTT(40), ProcFacts DEF TypeOK, FlagsOK, PcsOK, MutexInv, LockPcs, ClosedInv,
       MirrorInv, FrameInv, Looked, Written, Taken, ParkInv, WakeOwed,
       WithWake, PcsOf, ClosePcs, CorePcs, DriverPcs, is_closed, OPEN, HOST,
       CORE_UNSPECIFIED, Causes, Frames, NoFrame
<1>9. WriterInv'
    BY ProcFacts DEF TypeOK, FlagsOK, PcsOK, MutexInv, LockPcs, ClosedInv,
       FrameInv, WriterInv, Looked, Written, PcsOf, ClosePcs, CorePcs,
       DriverPcs, is_closed, OPEN, HOST, CORE_UNSPECIFIED, NoFrame
<1>10. ReportInv'
    BY ProcFacts DEF TypeOK, FlagsOK, PcsOK, ClosedInv, ReportInv, PcsOf,
       ClosePcs, CorePcs, DriverPcs, is_closed, OPEN, HOST, CORE_UNSPECIFIED
<1>11. OfferInv'
    BY ProcFacts DEF TypeOK, FlagsOK, PcsOK, OfferInv, PcsOf, ClosePcs,
       CorePcs, DriverPcs
<1> QED BY <1>3, <1>4, <1>5, <1>6, <1>7, <1>8, <1>9, <1>10, <1>11

LEMMA CompletionKeeps ==
  ASSUME IInv, Completion
  PROVE  IInv'
<1> USE DEF IInv, Completion, CompleteCheck, CompleteLock, CompleteTake,
      CompleteOccupied, CompleteUnlock, CompleteDone, DriverLock,
      GuardUnlock, Goto, memory, shared, cell, flags,
      coreVars, driverVars, wakeVars
<1>1. FlagsOK'
    BY Zenon DEF TypeOK, FlagsOK
<1>2. PcsOK'
    BY ProcFacts DEF TypeOK, FlagsOK, PcsOK, PcsOf, ClosePcs, CorePcs,
       DriverPcs
<1>3. TypeOK'
    BY <1>1, <1>2, ProcFacts, MaxFramesNat, CoreReasonsKnown DEF TypeOK,
       Frames, NoFrame, Nobody, Causes, OPEN, HOST, CORE_UNSPECIFIED,
       WithWake
<1>4. MutexInv'
    BY ProcFacts DEF TypeOK, FlagsOK, PcsOK, MutexInv, LockPcs, PcsOf,
       ClosePcs, CorePcs, DriverPcs
<1>5. ClosedInv'
    BY ProcFacts, CoreReasonsKnown DEF TypeOK, FlagsOK, PcsOK, ClosedInv,
       PcsOf, ClosePcs, CorePcs, DriverPcs, is_closed, OPEN, HOST,
       CORE_UNSPECIFIED, Causes
<1>6. MirrorInv'
    BY ProcFacts DEF TypeOK, FlagsOK, PcsOK, MutexInv, LockPcs, MirrorInv,
       PcsOf, ClosePcs, CorePcs, DriverPcs, NoFrame, Frames
<1>7. FrameInv'
    BY SMTT(40), ProcFacts, MaxFramesNat DEF TypeOK, FlagsOK, PcsOK, MutexInv, LockPcs,
       ClosedInv, MirrorInv, FrameInv, Looked, Written, Taken, PcsOf,
       ClosePcs, CorePcs, DriverPcs, is_closed, OPEN, HOST, CORE_UNSPECIFIED,
       Frames, NoFrame
<1>8. ParkInv'
    BY ProcFacts DEF TypeOK, FlagsOK, PcsOK, MutexInv, LockPcs, ClosedInv,
       MirrorInv, FrameInv, Looked, Written, Taken, ParkInv, WakeOwed,
       WithWake, PcsOf, ClosePcs, CorePcs, DriverPcs, is_closed, OPEN, HOST,
       CORE_UNSPECIFIED, Causes, Frames, NoFrame
<1>9. WriterInv'
    BY ProcFacts DEF TypeOK, FlagsOK, PcsOK, MutexInv, LockPcs, ClosedInv,
       FrameInv, WriterInv, Looked, Written, PcsOf, ClosePcs, CorePcs,
       DriverPcs, is_closed, OPEN, HOST, CORE_UNSPECIFIED, NoFrame
<1>10. ReportInv'
    BY ProcFacts DEF TypeOK, FlagsOK, PcsOK, ClosedInv, ReportInv, PcsOf,
       ClosePcs, CorePcs, DriverPcs, is_closed, OPEN, HOST, CORE_UNSPECIFIED
<1>11. OfferInv'
    BY ProcFacts DEF TypeOK, FlagsOK, PcsOK, OfferInv, PcsOf, ClosePcs,
       CorePcs, DriverPcs
<1> QED BY <1>3, <1>4, <1>5, <1>6, <1>7, <1>8, <1>9, <1>10, <1>11

LEMMA CloseKeeps ==
  ASSUME IInv, NEW p \in Procs, Close(p)
  PROVE  IInv'
<1> USE DEF IInv, Close, CloseCommit, CloseTryLock, CloseClear, CloseEmit,
      CloseSink, CloseHook, CloseWake, commit_first, ClosePoint, CausesOf,
      Goto, memory, shared, cell, flags,
      coreVars, driverVars, wakeVars
<1>1. FlagsOK'
    BY Zenon DEF TypeOK, FlagsOK
<1>2. PcsOK'
    BY SMTT(40), ProcFacts DEF TypeOK, FlagsOK, PcsOK, PcsOf, ClosePcs, CorePcs,
       DriverPcs
<1>3. TypeOK'
  <2>1. cause' \in Causes \cup {OPEN}
      BY CoreReasonsKnown DEF TypeOK, Causes
  <2>2. lock' \in Procs \cup {Nobody} /\ slot' \in Frames \cup {NoFrame}
      BY DEF TypeOK
  <2>3. core_wake' \subseteq {"writable", "closed"}
      BY DEF TypeOK, WithWake
  <2>4. reports' \subseteq [host_closed : BOOLEAN, worker_lost : BOOLEAN]
    <3>1. [host_closed |-> cause = HOST, worker_lost |-> cause = "worker_lost"]
            \in [host_closed : BOOLEAN, worker_lost : BOOLEAN]
        BY ONLY Zenon
    <3>2. \/ reports' = reports
          \/ reports' = reports \cup {[host_closed |-> cause = HOST,
                                       worker_lost |-> cause = "worker_lost"]}
        BY Zenon
    <3> QED
        BY <3>1, <3>2, Zenon DEF TypeOK
  <2> QED
      BY <1>1, <1>2, <2>1, <2>2, <2>3, <2>4 DEF TypeOK
<1>4. MutexInv'
    BY SMTT(40), ProcFacts DEF TypeOK, FlagsOK, PcsOK, MutexInv, LockPcs, PcsOf,
       ClosePcs, CorePcs, DriverPcs
<1>5. ClosedInv'
    BY ProcFacts, CoreReasonsKnown DEF TypeOK, FlagsOK, PcsOK, ClosedInv,
       PcsOf, ClosePcs, CorePcs, DriverPcs, is_closed, OPEN, HOST,
       CORE_UNSPECIFIED, Causes
<1>6. MirrorInv'
    BY SMTT(40), ProcFacts DEF TypeOK, FlagsOK, PcsOK, MutexInv, LockPcs, MirrorInv,
       PcsOf, ClosePcs, CorePcs, DriverPcs, NoFrame, Frames
<1>7. FrameInv'
    BY SMTT(40), ProcFacts, MaxFramesNat DEF TypeOK, FlagsOK, PcsOK, MutexInv, LockPcs,
       ClosedInv, MirrorInv, FrameInv, Looked, Written, Taken, PcsOf,
       ClosePcs, CorePcs, DriverPcs, is_closed, OPEN, HOST, CORE_UNSPECIFIED,
       Frames, NoFrame
<1>8. ParkInv'
    BY SMTT(40), ProcFacts DEF TypeOK, FlagsOK, PcsOK, MutexInv, LockPcs, ClosedInv,
       MirrorInv, FrameInv, Looked, Written, Taken, ParkInv, WakeOwed,
       WithWake, PcsOf, ClosePcs, CorePcs, DriverPcs, is_closed, OPEN, HOST,
       CORE_UNSPECIFIED, Causes, Frames, NoFrame
<1>9. WriterInv'
    BY ProcFacts DEF TypeOK, FlagsOK, PcsOK, MutexInv, LockPcs, ClosedInv,
       FrameInv, WriterInv, Looked, Written, PcsOf, ClosePcs, CorePcs,
       DriverPcs, is_closed, OPEN, HOST, CORE_UNSPECIFIED, NoFrame
<1>10. ReportInv'
  <2>1. CASE CloseHook(p)
      BY <2>1 DEF ReportInv, ClosedInv, ClosePcs, is_closed
  <2>2. CASE CloseCommit(p)
    <3>1. reports' = reports /\ (is_closed => cause' = cause)
        BY <2>2 DEF is_closed
    <3> QED
        BY <3>1 DEF ReportInv, is_closed
  <2>3. CASE ~CloseHook(p) /\ ~CloseCommit(p)
    <3>1. reports' = reports /\ cause' = cause
        BY <2>3
    <3> QED
        BY <3>1 DEF ReportInv, is_closed
  <2> QED
      BY <2>1, <2>2, <2>3
<1>11. OfferInv'
    BY SMTT(40), ProcFacts DEF TypeOK, FlagsOK, PcsOK, OfferInv, PcsOf, ClosePcs,
       CorePcs, DriverPcs
<1> QED BY <1>3, <1>4, <1>5, <1>6, <1>7, <1>8, <1>9, <1>10, <1>11

LEMMA InitKeeps == Init => IInv
<1> SUFFICES ASSUME Init PROVE IInv
    OBVIOUS
<1> USE ProcFacts, MaxFramesNat DEF Init, NoFrame, Nobody, OPEN
<1>1. FlagsOK
    BY DEF FlagsOK
<1>2. PcsOK
    BY DEF PcsOK, PcsOf, ClosePcs, CorePcs, DriverPcs
<1>3. TypeOK
    BY <1>1, <1>2 DEF TypeOK, Causes
<1>4. MutexInv /\ ClosedInv
    BY <1>2 DEF MutexInv, ClosedInv, LockPcs, ClosePcs, PcsOK
<1>5. MirrorInv /\ FrameInv
    BY <1>2 DEF MirrorInv, FrameInv, Looked, Written, Taken, is_closed
<1>6. ParkInv /\ WriterInv /\ ReportInv /\ OfferInv
    BY <1>2 DEF ParkInv, WriterInv, Looked, ReportInv, OfferInv
<1> QED BY <1>3, <1>4, <1>5, <1>6 DEF IInv

LEMMA StutterKeeps == IInv /\ UNCHANGED vars => IInv'
<1> SUFFICES ASSUME IInv, UNCHANGED vars PROVE IInv'
    OBVIOUS
<1> USE DEF vars
<1>1. TypeOK'
    BY DEF IInv, TypeOK, FlagsOK, PcsOK
<1>2. MutexInv' /\ ClosedInv'
    BY DEF IInv, MutexInv, ClosedInv, is_closed
<1>3. MirrorInv'
    BY Zenon DEF IInv, MirrorInv, Looked, Written, Taken, is_closed
<1>4. FrameInv'
    BY Zenon DEF IInv, FrameInv, Looked, Written, Taken, is_closed
<1>5. ParkInv'
    BY Zenon DEF IInv, ParkInv, WakeOwed, Looked, is_closed
<1>6. WriterInv'
    BY Zenon DEF IInv, WriterInv, Looked, is_closed
<1>7. ReportInv' /\ OfferInv'
    BY Zenon DEF IInv, ReportInv, OfferInv, is_closed
<1> QED BY <1>1, <1>2, <1>3, <1>4, <1>5, <1>6, <1>7, Zenon DEF IInv

LEMMA NextKeeps == IInv /\ [Next]_vars => IInv'
<1> SUFFICES ASSUME IInv, [Next]_vars PROVE IInv'
    OBVIOUS
<1>1. CASE CoreStep
    BY <1>1, BindOrProbeKeeps, WriteAdmissionKeeps, WriteUnderLockKeeps
       DEF CoreStep, BindOrProbe, WriteAdmission, WriteUnderLock
<1>2. CASE DriverStep
    BY <1>2, SnapshotKeeps, SocketKeeps, CompletionKeeps
       DEF DriverStep, Snapshot, Socket, Completion
<1>3. CASE WatchClosed \/ WriteFailed \/ BufferedAmountHigh \/ BufferedAmountLow
    BY <1>3, SocketKeeps DEF Socket
<1>4. CASE \E p \in Procs : Close(p)
    BY <1>4, CloseKeeps
<1>5. CASE Ended \/ UNCHANGED vars
    BY <1>5, StutterKeeps DEF Ended
<1> QED BY <1>1, <1>2, <1>3, <1>4, <1>5 DEF Next

\* The inductive invariant holds in every reachable state.
THEOREM Invariance == Spec => []IInv
BY InitKeeps, NextKeeps, PTL DEF Spec

\* Type correctness of the slot, its flags and every thread's position.
THEOREM TypeCorrect == Spec => []TypeOK
<1>1. IInv => TypeOK
    BY DEF IInv
<1> QED BY <1>1, Invariance, PTL

\* pressure()'s lock-free mirror is exact whenever the slot mutex is free.
THEOREM OccupancyExact == Spec => []OccupiedInStep
<1>1. IInv => OccupiedInStep
    BY ProcFacts DEF IInv, OccupiedInStep, MirrorInv, MutexInv, LockPcs
<1> QED BY <1>1, Invariance, PTL

\* The socket receives the accepted frames in order, each once, none skipped.
THEOREM FrameOrder == Spec => []FramesInOrder
<1>1. IInv => FramesInOrder
    BY DEF IInv, FramesInOrder, FrameInv, TypeOK, NoFrame
<1> QED BY <1>1, Invariance, PTL

\* complete_active removes the frame the writer task wrote, and no other.
THEOREM CompletionExact == Spec => []CompletesWhatItWrote
<1>1. IInv => CompletesWhatItWrote
    BY DEF IInv, CompletesWhatItWrote, FrameInv, Taken
<1> QED BY <1>1, Invariance, PTL

\* A Core that try_write or pressure() refused is never left without its wake.
THEOREM NoLostWritable == Spec => []CoreNotStranded
<1>1. IInv => CoreNotStranded
    BY ProcFacts DEF IInv, CoreNotStranded, ParkInv, WakeOwed, MutexInv, LockPcs
<1> QED BY <1>1, Invariance, PTL

\* The writer task never sleeps over an accepted frame.
THEOREM NoSleepingWriter == Spec => []WriterNotStranded
<1>1. IInv => WriterNotStranded
    BY DEF IInv, WriterNotStranded, WriterInv, FrameInv, Looked
<1> QED BY <1>1, Invariance, PTL

\* All runs of the close hook report the same cause.
THEOREM SingleReport == Spec => []OneReport
<1>1. IInv => OneReport
    BY DEF IInv, OneReport, ReportInv
<1> QED BY <1>1, Invariance, PTL
=============================================================================
