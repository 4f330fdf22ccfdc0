------------------------- MODULE SessionProjection -------------------------
(***************************************************************************)
(* The Hub's session projection: the owner's maintenance slices that read   *)
(* Core's lifecycle journal and baseline, apply them to one table of rows   *)
(* and decide when that table is current (daemon_maintenance.rs,            *)
(* session_projection.rs), on the owner's round-robin ready queues          *)
(* (daemon/owner_schedule.rs).                                              *)
(*                                                                         *)
(* Core is outside the Hub: a journal of changes whose oldest entries       *)
(* expire, and a thread that answers reads.  The value of a row is the      *)
(* sequence of the change that wrote it, 0 when there is no row.            *)
(***************************************************************************)
EXTENDS Integers, Sequences, FiniteSets, SequencesExt, FiniteSetsExt

CONSTANTS
  Sessions,     \* session ids, numbers in the order of the BTreeMap
  JournalKeep,  \* entries Core retains
  PageMax,      \* JOURNAL_PAGE_MAX_CHANGES and APPLY_MAX_CHANGES
  FanoutMax,    \* FANOUT_QUEUE_MAX_ITEMS
  Scenarios     \* records that fix a behaviour's page size and bound
                \* its journal entries and faults

None == -1
NoRead == [at |-> "none"]
NoRows == [s \in Sessions |-> 0]

\* Ready classes in queue order; unmodelled classes lie before and after the
\* five maintenance slices.
Control == 1
CoreWork == 2
PluginWork == 3
JournalPull == 4
ProjectionApply == 5
Baseline == 6
HostBridge == 7
SubscriberDelivery == 8
Classes == Control .. SubscriberDelivery
AllMarks == {HostBridge, SubscriberDelivery}  \* the slices that marks drive

VARIABLES
  scen,      \* the scenario, fixed
  log,       \* Core's journal: entries [id, live]
  latch,     \* Core's coalesced journal-advanced bit
  spawning,  \* sessions this Hub spawned whose reply is not returned yet
  faults,    \* bounded: faults that have happened
  m,         \* MaintenanceState
  reads,     \* MaintenanceCoreReads
  queued,    \* classes with a queued waiter
  next       \* the round-robin class cursor

coreVars == <<log, latch, spawning, faults>>
projectionVars == <<scen, coreVars, m, reads, queued, next>>
-----------------------------------------------------------------------------
(* Core.                                                                    *)

\* The rows after the first n changes.
RowsAt(n) ==
  [s \in Sessions |->
     LET of == {i \in 1 .. n : log[i].id = s}
     IN IF of # {} /\ log[Max(of)].live THEN Max(of) ELSE 0]

Expired(cursor) == cursor < Len(log) - JournalKeep
Known(s) == \E i \in DOMAIN log : log[i].id = s

Append1(s, live) ==
  /\ Len(log) < scen.changes
  /\ log' = Append(log, [id |-> s, live |-> live])
  /\ latch' = TRUE

\* A session is spawned once, through this Hub; its rows change until it is
\* removed.  Only a scenario with "quick" removes one whose spawn the
\* projection has not retired.
Spawn(s) ==
  /\ ~Known(s) /\ Append1(s, TRUE)
  /\ spawning' = spawning \cup {s}
  /\ UNCHANGED <<scen, faults, m, reads, queued, next>>

Change(s) ==
  /\ RowsAt(Len(log))[s] # 0
  /\ \E live \in BOOLEAN :
       /\ Append1(s, live)
       /\ ~live => "quick" \in scen.faults \/ s \notin spawning \cup m.acks
  /\ UNCHANGED <<scen, spawning, faults, m, reads, queued, next>>

\* Core's thread answers reads in the order they were submitted.
JournalPage(from) ==
  [resync |-> Expired(from), from |-> from, watermark |-> Len(log),
   upto |-> Min({from + PageMax, Len(log)})]

BaselinePage(snapshot, after) ==
  LET at == IF snapshot = None THEN Len(log) ELSE snapshot
      left == {s \in Sessions : s > after /\ RowsAt(at)[s] # 0}
      page == {s \in left : Cardinality({t \in left : t <= s}) <= scen.pageRows}
  IN [resync |-> snapshot # None /\ Expired(snapshot), snapshot |-> at,
      rows |-> [s \in page |-> RowsAt(at)[s]], complete |-> page = left,
      last |-> IF page = {} THEN after ELSE Max(page)]

CoreAnswers ==
  /\ \/ /\ reads.journal.at = "core"
        /\ reads' = [reads EXCEPT !.journal =
                       [at |-> "done", woke |-> @.woke, page |-> JournalPage(@.from)]]
     \/ /\ reads.journal.at # "core" /\ reads.baseline.at = "core"
        /\ reads' = [reads EXCEPT !.baseline =
                       [at |-> "done", page |-> BaselinePage(@.snapshot, @.after)]]
  /\ UNCHANGED <<scen, coreVars, m, queued, next>>
-----------------------------------------------------------------------------
(* The maintenance state.                                                   *)

NoRecovery == [stage |-> "none", snapshot |-> None, after |-> 0]
Paging == [NoRecovery EXCEPT !.stage = "pages"]

\* Rows and everything queued from them are dropped; the gap pass of the next
\* HostBridge slice opens the baseline.  A read in flight stays.
StartBaselineRecovery(s) ==
  [s EXCEPT !.complete = FALSE, !.rows = NoRows, !.cursor = None,
            !.pending = <<>>, !.watermark = None, !.confirmed = FALSE,
            !.recoverAt = None, !.fanout = <<>>, !.startSeq = None,
            !.recovery = [NoRecovery EXCEPT !.stage = "gap"], !.marks = AllMarks]

DefaultState ==
  [rows |-> NoRows, cursor |-> None, complete |-> FALSE, pending |-> <<>>,
   recovery |-> NoRecovery, watermark |-> None, confirmed |-> FALSE,
   recoverAt |-> None, acks |-> {}, dirty |-> FALSE, wake |-> FALSE, parked |-> {},
   fanout |-> <<>>, startSeq |-> None, marks |-> {}]

RetireProjectedAcks(s) == [s EXCEPT !.acks = {a \in @ : s.rows[a] = 0}]
AcksMissing(s) == \E a \in s.acks : s.rows[a] = 0

ConsumedToWatermark(s) ==
  \/ s.confirmed
  \/ s.cursor # None /\ s.watermark # None /\ s.cursor >= s.watermark

\* An acknowledged spawn the projection lacks is looked for once per watermark
\* by reading the journal again from its start.
StartOmittedRowRecover(s) ==
  LET key == IF s.watermark # None THEN s.watermark ELSE 0
  IN IF s.recoverAt = key THEN s
     ELSE [s EXCEPT !.recoverAt = key, !.cursor = 0, !.confirmed = FALSE]

ProjectionCaughtUp(s) ==
  /\ s.complete /\ s.recovery.stage # "pages" /\ s.pending = <<>>
  /\ s.cursor # None /\ s.watermark # None
  /\ s.confirmed /\ s.cursor >= s.watermark
  /\ ~AcksMissing(s)

\* refresh_projection_if_inventory_ahead: the state it leaves and its verdict.
Recovers(s) == AcksMissing(s) /\ ConsumedToWatermark(s)
Refreshed(s) ==
  LET t == RetireProjectedAcks(s)
  IN IF Recovers(t) THEN StartOmittedRowRecover(t) ELSE t
CaughtUp(s) ==
  LET t == RetireProjectedAcks(s) IN ~Recovers(t) /\ ProjectionCaughtUp(t)
-----------------------------------------------------------------------------
(* The owner's turns.                                                       *)

Derived(class) ==
  CASE class = JournalPull ->
         /\ class \notin m.parked /\ reads.journal.at = "none"
         /\ \/ m.wake
            \/ ~m.confirmed /\ m.complete /\ m.recovery.stage # "pages"
                 /\ m.cursor # None
    [] class = ProjectionApply -> m.pending # <<>>
    [] class = Baseline -> class \notin m.parked /\ m.recovery.stage = "pages"
                             /\ reads.baseline.at = "none"
    [] class = CoreWork -> latch \/ \E kind \in DOMAIN reads : reads[kind].at = "done"
    [] OTHER -> FALSE

Ready == queued \cup {c \in Classes : Derived(c)}
Distance(class) == (class - next) % Cardinality(Classes)

\* pop_next: the first class from the cursor on that has a waiter.
IsNext(class) == \A c \in Ready : Distance(class) <= Distance(c)

\* The end of a turn of the class that left the maintenance state s.
Turn(class, s) ==
  /\ class \in Ready \cup {Control} /\ IsNext(class)
  /\ m' = [s EXCEPT !.marks = {}]
  /\ queued' = (Ready \ {class, CoreWork}) \cup s.marks
  /\ next' = (class % Cardinality(Classes)) + 1

\* record_data_plane_progress takes Core's latch for the journal pull.
Progress ==
  LET s == [m EXCEPT !.wake = TRUE, !.confirmed = FALSE,
                     !.marks = IF reads.journal.at # "none" \/ reads.baseline.at # "none"
                               THEN AllMarks ELSE {}]
  IN /\ latch /\ latch' = FALSE
     /\ Turn(CoreWork, s)
     /\ UNCHANGED <<scen, log, spawning, faults, reads>>

\* The collector queues the slice whose read is answered, one at a time.
Completions ==
  \E kind \in {"journal", "baseline"} :
    /\ reads[kind].at = "done"
    /\ reads' = [reads EXCEPT ![kind].at = "ready"]
    /\ Turn(CoreWork, [m EXCEPT !.marks = {IF kind = "journal" THEN JournalPull ELSE Baseline}])
    /\ UNCHANGED <<scen, coreVars>>

InFlight(read) == read.at \notin {"none", "ready"}

Fault(kind) ==
  /\ kind \in scen.faults /\ faults < scen.maxFaults
  /\ faults' = faults + 1

\* An observe pass that Core ended with a resync.  One that meets a baseline
\* read is a fault of its own kind.
ObserveResync ==
  /\ Fault(IF reads.baseline.at = "none" THEN "observe" ELSE "observe_reading")
  /\ \E unavailable \in BOOLEAN :
       Turn(Control, IF unavailable /\ m.complete /\ m.recovery.stage # "pages"
                     THEN m ELSE StartBaselineRecovery(m))
  /\ UNCHANGED <<scen, log, latch, spawning, reads>>

\* The reply of a Spawn is returned to its client.
AcknowledgeSpawn(s) ==
  /\ s \in spawning /\ spawning' = spawning \ {s}
  /\ Turn(Control, [m EXCEPT !.acks = @ \cup {s}, !.confirmed = FALSE])
  /\ UNCHANGED <<scen, log, latch, faults, reads>>
-----------------------------------------------------------------------------
(* JournalPull.                                                             *)

\* A pull without a read takes the wake and submits one, unless a baseline is
\* being read.  A read that Core's full queue refuses parks the slice, which
\* keeps the wake.
SubmitJournal ==
  LET taken == [m EXCEPT !.wake = FALSE]
      idle == m.recovery.stage = "pages" \/ ~m.complete
  IN /\ reads.journal.at = "none" /\ JournalPull \notin m.parked
     /\ \/ /\ idle
           /\ Turn(JournalPull, IF m.wake /\ m.recovery.stage = "none"
                                THEN StartBaselineRecovery(taken) ELSE taken)
           /\ UNCHANGED <<faults, reads>>
        \/ /\ ~idle
           /\ Turn(JournalPull, taken)
           /\ reads' = [reads EXCEPT !.journal =
                          [at |-> "core", woke |-> m.wake, from |-> m.cursor]]
           /\ UNCHANGED faults
        \/ /\ ~idle /\ Fault("refuse")
           /\ Turn(JournalPull, [m EXCEPT !.parked = @ \cup {JournalPull}])
           /\ UNCHANGED reads
     /\ UNCHANGED <<scen, log, latch, spawning>>

ForgetsWake(s, page, woke) ==
  LET received == page.upto > page.from
  IN IF page.resync THEN StartBaselineRecovery(s)
     ELSE [s EXCEPT !.watermark = page.watermark, !.wake = FALSE,
                    !.confirmed = ~received /\ page.upto = page.watermark,
                    !.pending = @ \o [i \in 1 .. page.upto - page.from |-> page.from + i],
                    !.marks = IF s.dirty THEN {SubscriberDelivery} ELSE {}]

\* The page as the input of ProjectionApply.  The table is confirmed current
\* only by an empty page at the watermark with no wake since the submission.
AppliedJournalPage(s, page, woke) ==
  LET received == page.upto > page.from
      advanced == woke \/ s.wake
      confirmed == ~received /\ page.upto = page.watermark /\ ~advanced
  IN IF page.resync THEN StartBaselineRecovery(s)
     ELSE [s EXCEPT !.watermark = page.watermark, !.confirmed = confirmed,
                    !.wake = woke /\ @,
                    !.pending = @ \o [i \in 1 .. page.upto - page.from |-> page.from + i],
                    !.marks = IF confirmed /\ s.dirty THEN {SubscriberDelivery} ELSE {}]

CollectJournal ==
  /\ reads.journal.at # "none"
  /\ IF InFlight(reads.journal) THEN Turn(JournalPull, m) /\ UNCHANGED reads
     ELSE /\ Turn(JournalPull,
                  AppliedJournalPage(m, reads.journal.page, reads.journal.woke))
          /\ reads' = [reads EXCEPT !.journal = NoRead]
  /\ UNCHANGED <<scen, coreVars>>
-----------------------------------------------------------------------------
(* ProjectionApply.                                                         *)

AppliedRow(rows, n) == [rows EXCEPT ![log[n].id] = IF log[n].live THEN n ELSE 0]

\* A change also becomes a job of the session-family fan-out, whose full queue
\* starts a new baseline.
ApplyChange(s) ==
  LET n == Head(s.pending)
      t == [s EXCEPT !.pending = Tail(@), !.cursor = n, !.rows = AppliedRow(@, n)]
  IN IF Len(t.fanout) >= FanoutMax THEN StartBaselineRecovery(t)
     ELSE [t EXCEPT !.fanout = Append(@, n), !.marks = AllMarks]

ApplySlice ==
  LET step(s, i) == IF s.pending = <<>> THEN s ELSE ApplyChange(s)
      applied == RetireProjectedAcks(FoldLeft(step, m, [i \in 1 .. PageMax |-> i]))
  IN /\ Turn(ProjectionApply,
             IF ~m.complete THEN [m EXCEPT !.pending = <<>>]
             ELSE IF m.pending = <<>> THEN RetireProjectedAcks(m)
             ELSE [applied EXCEPT !.dirty = TRUE, !.marks = @ \cup {SubscriberDelivery}])
     /\ UNCHANGED <<scen, coreVars, reads>>
-----------------------------------------------------------------------------
(* Baseline.                                                                *)

SubmitBaseline ==
  /\ reads.baseline.at = "none" /\ Baseline \notin m.parked
  /\ \/ /\ Turn(Baseline, m)
        /\ reads' = IF m.recovery.stage # "pages" THEN reads
                    ELSE [reads EXCEPT !.baseline =
                            [at |-> "core", snapshot |-> m.recovery.snapshot,
                             after |-> m.recovery.after]]
        /\ UNCHANGED faults
     \/ /\ m.recovery.stage = "pages" /\ Fault("refuse")
        /\ Turn(Baseline, [m EXCEPT !.parked = @ \cup {Baseline}])
        /\ UNCHANGED reads
  /\ UNCHANGED <<scen, log, latch, spawning>>

\* The last page seals the table at the snapshot's sequence and starts the
\* family snapshots.
Sealed(s, snapshot) ==
  LET t == RetireProjectedAcks(
             [s EXCEPT !.recovery = IF @.stage = "pages" THEN NoRecovery ELSE @,
                       !.cursor = snapshot, !.complete = TRUE, !.confirmed = FALSE])
      u == IF AcksMissing(t) THEN StartOmittedRowRecover(t) ELSE t
  IN [u EXCEPT !.dirty = TRUE, !.startSeq = snapshot, !.marks = AllMarks]

\* Rows are only inserted: what the page lacks stays.
Ingested(rows, page) ==
  [s \in Sessions |-> IF s \in DOMAIN page THEN page[s] ELSE rows[s]]

AppliedBaselinePage(s, page) ==
  LET paged == [s EXCEPT
        !.recovery = IF @.stage = "pages"
                     THEN [@ EXCEPT !.snapshot = page.snapshot, !.after = page.last]
                     ELSE @,
        !.rows = Ingested(@, page.rows)]
  IN IF page.resync THEN StartBaselineRecovery(s)
     ELSE IF page.complete THEN Sealed(paged, page.snapshot)
     ELSE paged

CollectBaseline ==
  /\ reads.baseline.at # "none"
  /\ IF InFlight(reads.baseline) THEN Turn(Baseline, m) /\ UNCHANGED reads
     ELSE /\ Turn(Baseline, AppliedBaselinePage(m, reads.baseline.page))
          /\ reads' = [reads EXCEPT !.baseline = NoRead]
  /\ UNCHANGED <<scen, coreVars>>

\* Core took a request from its queue: the owner's next pass sees the epoch.
\* Until then a parked slice has no waiter.
QueueRoom ==
  /\ m.parked # {}
  /\ m' = [m EXCEPT !.parked = {}]
  /\ UNCHANGED <<scen, coreVars, reads, queued, next>>

ProjectionInit ==
  /\ scen \in Scenarios
  /\ log = [i \in 1 .. scen.history |-> [id |-> i, live |-> TRUE]]
  /\ latch = FALSE /\ spawning = {} /\ faults = 0
  /\ m = [StartBaselineRecovery(DefaultState) EXCEPT !.marks = {}]
  /\ reads = [journal |-> NoRead, baseline |-> NoRead]
  /\ queued = AllMarks
  /\ next = Control
=============================================================================
