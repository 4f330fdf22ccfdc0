---------------------------- MODULE SessionFeed ----------------------------
(***************************************************************************)
(* Session entity subscriptions: the SubscriberDelivery slice               *)
(* (subscription/entity.rs) assembles the projection's rows into one        *)
(* snapshot for a subscriber, then sends what differs from what it sent     *)
(* before, over a bounded queue whose overflow takes a new snapshot.        *)
(* The module composes it with the projection and the session family.       *)
(*                                                                         *)
(* The subscriber's connection and client are outside this code: the        *)
(* connection takes queued frames, and each one it takes publishes          *)
(* EntitySubscriptionCapacityReleased, which marks the delivery slice.      *)
(***************************************************************************)
EXTENDS SessionFamily

CONSTANTS
  DeliveryMax,  \* SESSION_DELIVERY_MAX_ITEMS
  QueueMax      \* capacity of the subscriber's frame queue

VARIABLES
  sub,    \* EntitySubscriptionState
  queue,  \* frames in the subscriber's queue
  client  \* external: what the client holds and the last sequence it saw

feedVars == <<sub, queue, client>>
vars == <<projectionVars, familyVars, feedVars>>

NoSub == [phase |-> "none"]

\* register_builtin_entity_subscription.  The mark of JournalPull is replaced
\* by the slice's derived readiness.
Register ==
  LET seq == Sequence(m)
  IN /\ sub.phase = "none" /\ scen.client
     /\ sub' = [phase |-> "assembling", source |-> seq, after |-> 0, seq |-> seq,
                entities |-> NoRows, items |-> NoRows, resync |-> FALSE]
     /\ queue' = <<>> /\ client' = [rows |-> NoRows, seq |-> None]
     /\ Turn(Control, [m EXCEPT !.dirty = TRUE, !.confirmed = FALSE])
     /\ UNCHANGED <<scen, coreVars, reads, familyVars>>
-----------------------------------------------------------------------------
(* A pass of the slice works on b: the subscription, its queue, the frames  *)
(* sent, the ids visited, and whether the page was cut or overflowed.       *)

Full(b) == Len(b.queue) >= QueueMax
RowIds == {s \in Sessions : m.rows[s] # 0}
After(ids, after) == SetToSortSeq({s \in ids : s > after}, <)

ResetAssembly(u, seq) ==
  [u EXCEPT !.phase = "assembling", !.source = seq, !.entities = NoRows,
            !.items = NoRows, !.after = 0]

\* take_snapshot_item_page: the rows of a page whose time ends after k of them.
SnapshotPage(ids, k) ==
  [s \in Range(SubSeq(ids, 1, Min({DeliveryMax, k, Len(ids)}))) |-> m.rows[s]]

Stored(u, page) ==
  [u EXCEPT !.items = Ingested(@, page), !.entities = Ingested(@, page),
            !.after = IF page = <<>> THEN @ ELSE Max(DOMAIN page)]

AssembledAcross(b, caughtUp, k) ==
  LET left == After(RowIds, b.sub.after)
      paged == Stored(b.sub, SnapshotPage(left, k))
      frame == [kind |-> "snapshot", seq |-> b.sub.seq, rows |-> paged.items]
  IN IF ~caughtUp THEN [b EXCEPT !.more = TRUE]
     ELSE IF Len(left) > Min({DeliveryMax, k}) \/ Full(b) THEN [b EXCEPT !.sub = paged, !.more = TRUE]
     ELSE [b EXCEPT !.queue = Append(@, frame),
                    !.sub = [paged EXCEPT !.phase = "removes", !.after = 0,
                                          !.items = NoRows, !.resync = FALSE]]

\* continue_session_snapshot_assembly, whose time ends after k rows.
Assembled(b, caughtUp, k) ==
  LET u == IF b.sub.source = Sequence(m) THEN b.sub ELSE ResetAssembly(b.sub, Sequence(m))
      left == After(RowIds, u.after)
      paged == Stored(u, SnapshotPage(left, k))
      frame == [kind |-> "snapshot", seq |-> u.seq, rows |-> paged.items]
  IN IF ~caughtUp THEN [b EXCEPT !.more = TRUE]
     ELSE IF Len(left) > Min({DeliveryMax, k}) \/ Full(b) THEN [b EXCEPT !.sub = paged, !.more = TRUE]
     ELSE [b EXCEPT !.queue = Append(@, frame),
                    !.sub = [paged EXCEPT !.phase = "removes", !.after = 0,
                                          !.items = NoRows, !.resync = FALSE]]

\* try_resync_from_projection.
Resynced(b, caughtUp, k) ==
  Assembled([b EXCEPT !.sub = [@ EXCEPT !.seq = @ + 1, !.entities = NoRows, !.after = 0,
                                        !.phase = "assembling", !.source = Sequence(m)]],
            caughtUp, k)

SendsOrDrops(b, id, value) ==
  LET u == [b.sub EXCEPT !.seq = @ + 1, !.entities[id] = value]
      frame == [kind |-> "delta", seq |-> u.seq, id |-> id, value |-> value]
  IN IF Full(b) THEN [b EXCEPT !.sub = u, !.last = id]
     ELSE [b EXCEPT !.queue = Append(@, frame), !.frames = @ + 1, !.last = id, !.sub = u]

SendsCurrentSequence(b, id, value) ==
  LET frame == [kind |-> "delta", seq |-> b.sub.seq, id |-> id, value |-> value]
  IN IF Full(b) THEN [b EXCEPT !.sub.resync = TRUE, !.over = TRUE]
     ELSE [b EXCEPT !.queue = Append(@, frame), !.frames = @ + 1, !.last = id,
                    !.sub = [@ EXCEPT !.entities[id] = value, !.seq = @ + 1]]

\* send_session_delta: the row of id becomes value.  A full queue takes a
\* resync and ends the page.
SendDelta(b, id, value) ==
  LET u == [b.sub EXCEPT !.seq = @ + 1]
      frame == [kind |-> "delta", seq |-> u.seq, id |-> id, value |-> value]
  IN IF Full(b) THEN [b EXCEPT !.sub = [u EXCEPT !.resync = TRUE], !.over = TRUE]
     ELSE [b EXCEPT !.queue = Append(@, frame), !.frames = @ + 1, !.last = id,
                    !.sub = [u EXCEPT !.entities[id] = value]]

\* One id of a page, whose time ends after k ids.
PageStep(b, id, k, differs) ==
  LET c == [b EXCEPT !.visits = @ + 1]
  IN IF b.over \/ b.more THEN b
     ELSE IF b.frames >= DeliveryMax \/ b.visits >= k THEN [b EXCEPT !.more = TRUE]
     ELSE IF differs THEN SendDelta(c, id, m.rows[id])
     ELSE [c EXCEPT !.last = id]

\* F(b) for the value of b, which a fold passes unevaluated.
Once(b, F(_)) == CHOOSE c \in {F(d) : d \in {b}} : TRUE

\* The removals of a page, then its rows.
RemovesPage(b, k) ==
  LET ids == After({s \in Sessions : b.sub.entities[s] # 0}, b.sub.after)
      visited == SubSeq(ids, 1, Min({DeliveryMax + 1, Len(ids)}))
      step(c, id) == Once(c, LAMBDA d : PageStep(d, id, k, m.rows[id] = 0))
      ends(c) ==
        IF c.over THEN c
        ELSE IF c.more \/ Len(ids) > Len(visited)
          THEN [c EXCEPT !.more = TRUE, !.sub.after = c.last]
        ELSE [c EXCEPT !.sub.phase = "rows", !.sub.after = 0]
  IN Once(FoldLeft(step, [b EXCEPT !.last = b.sub.after], visited), ends)

RowsPage(b, k) ==
  LET step(c, id) ==
        Once(c, LAMBDA d : PageStep(d, id, k, m.rows[id] # d.sub.entities[id]))
      ends(c) ==
        IF c.over THEN c
        ELSE IF c.more THEN [c EXCEPT !.sub.after = c.last]
        ELSE [c EXCEPT !.sub.phase = "removes", !.sub.after = 0]
  IN Once(FoldLeft(step, [b EXCEPT !.last = b.sub.after], After(RowIds, b.sub.after)), ends)

\* deliver_projection_delta_page.
DeltaPage(b, k) ==
  Once(IF b.sub.phase = "removes" THEN RemovesPage(b, k) ELSE b,
       LAMBDA c : IF c.over \/ c.more THEN c ELSE RowsPage(c, k))

\* drive_entity_subscriptions; SESSION_DELIVERY_MAX_ELAPSED may cut a page
\* after any number of ids.
DeliverSlice ==
  LET s == Refreshed(m)
      start == [sub |-> sub, queue |-> queue, frames |-> 0, visits |-> 0, last |-> 0,
                more |-> FALSE, over |-> FALSE]
      resync == sub.phase # "assembling" /\ sub.resync
      page(k) == IF resync THEN Resynced(start, CaughtUp(m), k)
                 ELSE IF sub.phase = "assembling" THEN Assembled(start, CaughtUp(m), k)
                 ELSE DeltaPage(start, k)
      Delivers(k) ==
        \E b \in {page(k)} :
           /\ sub' = b.sub /\ queue' = b.queue
           /\ Turn(SubscriberDelivery,
                   IF resync \/ b.more THEN [s EXCEPT !.marks = AllMarks]
                   ELSE [s EXCEPT !.dirty = FALSE])
  IN /\ UNCHANGED <<scen, log, latch, spawning, reads, familyVars, client>>
     /\ \/ /\ sub.phase = "none" /\ Turn(SubscriberDelivery, m)
           /\ UNCHANGED <<faults, sub, queue>>
        \/ /\ sub.phase # "none" /\ ~s.complete /\ Turn(SubscriberDelivery, s)
           /\ UNCHANGED <<faults, sub, queue>>
        \/ /\ sub.phase # "none" /\ s.complete /\ Delivers(2 * Cardinality(Sessions))
           /\ UNCHANGED faults
        \/ /\ sub.phase # "none" /\ s.complete /\ Fault("slow")
           /\ \E k \in 0 .. 2 * Cardinality(Sessions) - 1 : Delivers(k)
-----------------------------------------------------------------------------
(* The connection and its client, external.                                 *)

Received(c, frame) ==
  [rows |-> IF frame.kind = "snapshot" THEN frame.rows
            ELSE [c.rows EXCEPT ![frame.id] = frame.value],
   seq |-> frame.seq]

ClientTakes ==
  /\ queue # <<>>
  /\ client' = Received(client, Head(queue))
  /\ queue' = Tail(queue)
  /\ queued' = queued \cup {SubscriberDelivery}
  /\ UNCHANGED <<scen, coreVars, m, reads, next, familyVars, sub>>

\* The connection ends; the owner releases the subscription.
Disconnect ==
  /\ sub.phase # "none" /\ Fault("disconnect")
  /\ sub' = NoSub /\ queue' = <<>> /\ client' = [rows |-> NoRows, seq |-> None]
  /\ Turn(Control, m)
  /\ UNCHANGED <<scen, log, latch, spawning, reads, familyVars>>

Init ==
  /\ ProjectionInit /\ FamilyInit
  /\ sub = NoSub /\ queue = <<>> /\ client = [rows |-> NoRows, seq |-> None]
-----------------------------------------------------------------------------
ProjectionTurn ==
  \/ Progress \/ Completions
  \/ SubmitJournal \/ CollectJournal \/ ApplySlice
  \/ SubmitBaseline \/ CollectBaseline

OwnerTurn ==
  \/ ProjectionTurn /\ UNCHANGED <<familyVars, feedVars>>
  \/ (HostBridgeSlice \/ PluginCompletion) /\ UNCHANGED feedVars
  \/ DeliverSlice

Requests ==
  \/ (ObserveResync \/ \E s \in Sessions : AcknowledgeSpawn(s))
       /\ UNCHANGED <<familyVars, feedVars>>
  \/ Register \/ Disconnect

CoreStep ==
  (CoreAnswers \/ QueueRoom) /\ UNCHANGED <<familyVars, feedVars>>

Environment ==
  \/ (\E s \in Sessions : Spawn(s) \/ Change(s)) /\ UNCHANGED <<familyVars, feedVars>>
  \/ Unload /\ UNCHANGED feedVars

EngineStep == (RunFrame \/ EngineReleases) /\ UNCHANGED feedVars

Next ==
  \/ OwnerTurn \/ Requests \/ CoreStep \/ EngineStep \/ Environment \/ ClientTakes

\* The owner runs while a class is ready, Core answers and frees its queue,
\* the engine runs its frames, and the connection drains its queue.
Spec ==
  /\ Init /\ [][Next]_vars
  /\ WF_vars(OwnerTurn) /\ WF_vars(CoreStep) /\ WF_vars(EngineStep)
  /\ WF_vars(ClientTakes)
  /\ SF_vars((\E s \in Sessions : AcknowledgeSpawn(s)) /\ UNCHANGED <<familyVars, feedVars>>)
-----------------------------------------------------------------------------
(* Properties.                                                              *)

\* A baseline read that a restarted recovery inherits may seal a table that
\* never was Core's; a page cut by its time limit may pass a row before it
\* changes; and a session that ends before its row is projected leaves its
\* acknowledgement behind.  What is stated below of a scenario with one of
\* these is what still holds of it.
ReadsAreFresh == "observe_reading" \notin scen.faults
Steady == scen.faults \cap {"observe_reading", "slow", "quick"} = {}

\* The sequence of the change that spawned s.
SpawnedAt(s) == Min({i \in DOMAIN log : log[i].id = s})

\* A snapshot is the whole session table as it was at one point of Core's
\* journal, and holds every session whose Spawn this Hub had answered, or
\* what became of it (projection_caught_up, continue_session_snapshot_assembly).
SnapshotAuthoritative ==
  [][ReadsAreFresh /\ Len(queue') > Len(queue) /\ Last(queue').kind = "snapshot" =>
       \E n \in 0 .. Len(log) :
         /\ Last(queue').rows = RowsAt(n)
         /\ \A s \in Sessions : Known(s) /\ s \notin spawning => SpawnedAt(s) <= n]_vars

\* What the Hub remembers having sent is what the client holds once it has
\* taken the queued frames: a sparse patch is computed against the client's
\* own row (send_session_delta), unless a snapshot is to replace it.
MirrorsClient ==
  sub.phase \in {"removes", "rows"} /\ ~sub.resync =>
    FoldLeft(Received, client, queue).rows = sub.entities

\* Frames of one subscription carry strictly increasing sequences, over
\* overflows, resyncs and rewinds of the projection's cursor.
SequenceIncreases ==
  \A i \in DOMAIN queue :
    queue[i].seq > (IF i = 1 THEN client.seq ELSE queue[i - 1].seq)

\* A failure the Hub is about to hear of.
FrameFailed == \E i \in DOMAIN engine : engine[i].live /\ engine[i].state = "failed"

\* Once the session family's snapshot is delivered, the frames still to be
\* handled bring the plugin to the projection's rows: no change is lost or
\* applied twice between the chunks, the held deltas and the fan-out.
FamilyMirrors ==
  LET todo == SelectSeq(engine, LAMBDA e : e.state = "queued")
      frames == [i \in DOMAIN todo |-> todo[i].frame] \o fam.pend
                  \o [i \in DOMAIN m.fanout |-> [kind |-> "delta", at |-> m.fanout[i]]]
  IN ReadsAreFresh /\ fam.exists /\ m.complete /\ m.recovery.stage # "gap" /\ m.startSeq = None
     /\ fam.done /\ ~FrameFailed => FoldLeft(Handled, plugin, frames).held = m.rows

\* When Core falls quiet, a subscriber comes to hold Core's table.
Converges ==
  <>[](~Steady \/ sub.phase = "none" \/ client.rows = RowsAt(Len(log)))

\* When Core falls quiet, a loaded plugin comes to hold Core's table, whatever
\* frames failed or were refused on the way.
FamilyConverges ==
  <>[](~ReadsAreFresh \/ ~loaded \/ plugin.held = RowsAt(Len(log)))
=============================================================================
