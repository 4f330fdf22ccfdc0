--------------------------- MODULE SessionFamily ---------------------------
(***************************************************************************)
(* The session family: the HostBridge slice of daemon_maintenance.rs sends  *)
(* the projection's rows to a plugin as one snapshot, frame by frame, and   *)
(* then as deltas.  At most one frame of a plugin is in flight; its         *)
(* completion admits the next.                                              *)
(*                                                                         *)
(* The plugin and Core's plugin engine are outside the Hub: the engine runs *)
(* a plugin's frames in order, and reports each as completed or failed.     *)
(***************************************************************************)
EXTENDS SessionProjection

CONSTANTS
  FamilyMax,  \* FAMILY_QUEUE_MAX_ITEMS
  ChunkMax,   \* SESSION_CHUNK_MAX_ITEMS
  EngineMax   \* Background slots of the plugin engine

VARIABLES
  loaded,  \* the plugin's handler is in the registry
  fam,     \* its SessionFamilyConsumer
  engine,  \* admitted frames, each "queued", then "ok" or "failed"
  plugin   \* external: what the plugin holds

familyVars == <<loaded, fam, engine, plugin>>

NoConsumer == [exists |-> FALSE, flight |-> "none", parked |-> FALSE]
Consumer ==
  [exists |-> TRUE, seq |-> 0, flight |-> "none", pend |-> <<>>, held |-> <<>>,
   done |-> FALSE, gap |-> TRUE, chunks |-> FALSE, after |-> 0, parked |-> FALSE]

MarkGap(f) == [Consumer EXCEPT !.seq = f.seq]

BeginSnapshot(f, seq) ==
  [f EXCEPT !.seq = seq, !.done = FALSE, !.gap = FALSE, !.chunks = TRUE,
            !.after = 0, !.pend = <<[kind |-> "begin"]>>, !.held = <<>>,
            !.parked = FALSE]

Sequence(s) == IF s.cursor = None THEN 0 ELSE s.cursor

QueueUnheld(f, n, s) ==
  IF f.gap THEN f ELSE [f EXCEPT !.pend = Append(@, [kind |-> "delta", at |-> n])]

\* A delta is held until the snapshot has been delivered; one that does not
\* fit starts the consumer over.
QueueDelta(f, n, s) ==
  LET frame == [kind |-> "delta", at |-> n]
  IN IF f.gap THEN f
     ELSE IF Len(f.pend) + Len(f.held) >= FamilyMax
       THEN IF s.complete THEN BeginSnapshot(MarkGap(f), Sequence(s)) ELSE MarkGap(f)
     ELSE IF f.done THEN [f EXCEPT !.pend = Append(@, frame)]
     ELSE [f EXCEPT !.held = Append(@, frame)]

\* The steps of a slice before its admission, for the plugin's consumer.
RefreshConsumer(f) ==
  IF ~loaded \/ f.exists THEN f
  ELSE IF m.complete THEN BeginSnapshot(Consumer, Sequence(m)) ELSE Consumer

GapPass(f) == IF f.exists /\ m.recovery.stage = "gap" THEN MarkGap(f) ELSE f
SnapshotStart(f) == IF f.exists /\ m.startSeq # None THEN BeginSnapshot(f, m.startSeq) ELSE f
Fanout(f) ==
  LET step(g, n) == QueueDelta(g, n, m)
  IN IF f.exists THEN FoldLeft(step, f, m.fanout) ELSE f
Prune(f) == IF loaded THEN f ELSE NoConsumer

BridgedConsumer == Prune(Fanout(SnapshotStart(GapPass(RefreshConsumer(fam)))))
BridgedState ==
  [m EXCEPT !.recovery = IF @.stage = "gap" THEN Paging ELSE @,
            !.marks = IF m.recovery.stage = "gap" THEN AllMarks ELSE @,
            !.startSeq = None, !.fanout = <<>>]

\* A consumer that forgot its frame no longer knows the request.
Forgotten(frames) == [i \in DOMAIN frames |-> [frames[i] EXCEPT !.live = FALSE]]
EngineFor(f) == IF fam.flight # "none" /\ f.flight = "none" THEN Forgotten(engine) ELSE engine

Admittable(f) ==
  f.exists /\ f.flight = "none" /\ ~f.parked /\ (f.pend # <<>> \/ f.chunks)

\* The next frame; a chunk holds the rows as they are now.
PeekFrame(f) ==
  LET left == {s \in Sessions : s > f.after /\ m.rows[s] # 0}
      chunk == {s \in left : Cardinality({t \in left : t <= s}) <= ChunkMax}
  IN IF f.pend # <<>> THEN Head(f.pend)
     ELSE IF chunk # {} THEN [kind |-> "chunk", rows |-> [s \in chunk |-> m.rows[s]]]
     ELSE [kind |-> "end"]

Committed(f, frame) ==
  LET sent == [f EXCEPT !.flight = frame.kind]
  IN IF f.pend # <<>> THEN [sent EXCEPT !.pend = Tail(@)]
     ELSE IF frame.kind = "chunk" THEN [sent EXCEPT !.after = Max(DOMAIN frame.rows)]
     ELSE [sent EXCEPT !.chunks = FALSE]

EngineRoom(frames) ==
  Cardinality({i \in DOMAIN frames : frames[i].state = "queued"}) < EngineMax

\* One HostBridge slice.  A full or contended engine parks the consumer; any
\* other refusal is a gap, and a gap takes a new baseline.
HostBridgeSlice ==
  LET f == BridgedConsumer
      frames == EngineFor(f)
      frame == PeekFrame(f)
  IN /\ UNCHANGED <<scen, log, latch, spawning, reads, loaded, plugin>>
     /\ \/ /\ ~Admittable(f)
           /\ fam' = f /\ engine' = frames /\ Turn(HostBridge, BridgedState)
           /\ UNCHANGED faults
        \/ /\ Admittable(f) /\ EngineRoom(frames)
           /\ fam' = Committed(f, frame)
           /\ engine' = Append(frames, [frame |-> frame, seq |-> f.seq, live |-> TRUE,
                                       state |-> "queued"])
           /\ Turn(HostBridge, BridgedState)
           /\ UNCHANGED faults
        \/ /\ Admittable(f)
           /\ IF EngineRoom(frames) THEN Fault("busy") ELSE UNCHANGED faults
           /\ fam' = [f EXCEPT !.parked = TRUE] /\ engine' = frames
           /\ Turn(HostBridge, BridgedState)
        \/ /\ Admittable(f) /\ Fault("reject")
           /\ fam' = MarkGap(f) /\ engine' = frames
           /\ Turn(HostBridge, StartBaselineRecovery(BridgedState))

ReleasesUnmarked ==
  /\ fam.parked /\ EngineRoom(engine)
  /\ fam' = [fam EXCEPT !.parked = FALSE]
  /\ UNCHANGED <<scen, coreVars, m, reads, queued, next, loaded, engine, plugin>>

\* mark_signaled_waits: the engine released state after the refusal.
EngineReleases ==
  /\ fam.parked /\ EngineRoom(engine)
  /\ fam' = [fam EXCEPT !.parked = FALSE]
  /\ queued' = queued \cup {HostBridge}
  /\ UNCHANGED <<scen, coreVars, m, reads, next, loaded, engine, plugin>>

\* The completion drain takes a bounded number of completions, here one, and
\* queues itself again when more remain.  A failed frame takes a new baseline.
PluginCompletion ==
  LET done == Head(engine)
      ok == done.state = "ok"
      settled == [fam EXCEPT !.flight = "none"]
      ended == [settled EXCEPT !.done = TRUE, !.pend = @ \o fam.held, !.held = <<>>]
      more == Len(engine) > 1 /\ engine[2].state # "queued"
      again(s) == IF more THEN [s EXCEPT !.marks = @ \cup {PluginWork}] ELSE s
  IN /\ engine # <<>> /\ done.state # "queued"
     /\ fam' = IF ~done.live THEN fam
               ELSE IF ~ok THEN MarkGap(fam)
               ELSE IF done.frame.kind = "end" /\ done.seq = fam.seq THEN ended ELSE settled
     /\ Turn(PluginWork, again(IF ~done.live THEN m
                               ELSE IF ok THEN [m EXCEPT !.marks = AllMarks]
                               ELSE StartBaselineRecovery(m)))
     /\ engine' = Tail(engine)
     /\ UNCHANGED <<scen, coreVars, reads, loaded, plugin>>

Unload ==
  /\ loaded /\ Fault("unload")
  /\ loaded' = FALSE
  /\ UNCHANGED <<scen, log, latch, spawning, m, reads, queued, next, fam, engine, plugin>>
-----------------------------------------------------------------------------
(* The plugin, external: it replaces what it holds at the end of a          *)
(* snapshot and applies deltas to it.                                       *)

NoPlugin == [held |-> NoRows, staged |-> NoRows]

Handled(p, frame) ==
  CASE frame.kind = "begin" -> [p EXCEPT !.staged = NoRows]
    [] frame.kind = "chunk" ->
         [p EXCEPT !.staged = Ingested(@, frame.rows)]
    [] frame.kind = "end" -> [p EXCEPT !.held = p.staged]
    [] frame.kind = "delta" ->
         [p EXCEPT !.held = AppliedRow(@, frame.at)]

RunFrame ==
  \E i \in DOMAIN engine :
    /\ engine[i].state = "queued" /\ \A j \in 1 .. i - 1 : engine[j].state # "queued"
    /\ \/ /\ engine' = [engine EXCEPT ![i].state = "ok"]
          /\ plugin' = Handled(plugin, engine[i].frame)
          /\ UNCHANGED faults
       \/ /\ Fault("fail")
          /\ engine' = [engine EXCEPT ![i].state = "failed"]
          /\ UNCHANGED plugin
    /\ queued' = queued \cup {PluginWork}
    /\ UNCHANGED <<scen, log, latch, spawning, m, reads, next, loaded, fam>>

FamilyInit ==
  /\ loaded = scen.plugin
  /\ fam = NoConsumer /\ engine = <<>> /\ plugin = NoPlugin
=============================================================================
