--------------------------- MODULE MCSessionFeed ---------------------------
(* SessionFeed under the scenarios that TLC explores, two sessions each.    *)
EXTENDS SessionFeed

\* The Hub starts beside two sessions, which then change twice; one more
\* change than Core's journal keeps when the owner is slow to read it.
Changes == [history |-> 2, changes |-> 4, pageRows |-> 2, client |-> TRUE,
            plugin |-> FALSE, faults |-> {}, maxFaults |-> 0]
ChangesPlugin == [Changes EXCEPT !.client = FALSE, !.plugin = TRUE]

\* A second session is spawned beside the first.
Spawns == [Changes EXCEPT !.history = 1, !.changes = 3]

\* One fault and one change, with baseline pages of one row.
Faulty(kinds) ==
  [Changes EXCEPT !.changes = 3, !.pageRows = 1, !.faults = kinds, !.maxFaults = 1]
Interrupted == Faulty({"refuse", "observe", "disconnect"})
PluginFaults ==
  [Faulty({"busy", "reject", "fail", "unload"}) EXCEPT !.client = FALSE, !.plugin = TRUE]

\* Scenarios in which a subscriber may be left behind.
Cut == [Changes EXCEPT !.faults = {"slow"}, !.maxFaults = 1]
Restarted == Faulty({"observe_reading"})
ShortLived == [Spawns EXCEPT !.history = 0, !.changes = 2, !.faults = {"quick"}]

MCScenarios ==
  {Changes, ChangesPlugin, Spawns, Interrupted, PluginFaults, Cut, Restarted, ShortLived}
=============================================================================
