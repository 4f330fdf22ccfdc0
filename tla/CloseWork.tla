------------------------------ MODULE CloseWork ------------------------------
(***************************************************************************)
(* The close-report pipeline: how the closing of a bound terminal adapter  *)
(* becomes at most one TerminalSubscriptionClosed event on the client's    *)
(* control connection.                                                     *)
(*                                                                         *)
(*   closers     whichever thread commits the close of an adapter runs its *)
(*               hook (CloseWorkHook::notify_closed).  Core's closes run   *)
(*               on the data-plane thread, host closes on any other;       *)
(*   data plane  one turn of run_loop: pump Core, then drain close work;   *)
(*   owner       registers bound routes, and suppresses the reports of     *)
(*               routes that Detach, ShutdownSession or RemoveSession end. *)
(*                                                                         *)
(* A route is one (session, subscription, generation) key.  One client     *)
(* connection owns all the routes.  The state of AdapterSlot is reduced to *)
(* adapter[r]: open, or the cause that committed its close; each adapter   *)
(* runs its hook once (AdapterSlot's OneReport).                           *)
(***************************************************************************)
EXTENDS Naturals, Sequences, FiniteSets

CONSTANTS
    Routes, Sessions,
    SessionOf,      \* the session of each route
    Capacity,       \* CLOSE_WORK_QUEUE_CAPACITY
    MaxKeys,        \* DATA_PLANE_MAX_CLOSE_KEYS
    MaxErrs         \* bound: failing registry lookups explored

ASSUME CloseWorkAssumption ==
    /\ SessionOf \in [Routes -> Sessions]
    /\ Capacity \in Nat \ {0} /\ MaxKeys \in Nat \ {0} /\ MaxErrs \in Nat

VARIABLES
    adapter,    \* "none", "bound", or what closed it
    session,    \* Core's registry: "running", "ended", "absent"
    hook,       \* routes whose close hook is attached
    dying,      \* the connection's close_all ran
    routes,     \* the connection's route map
    registry,   \* CloseWorkInner::registry
    queued, retired, reported,      \* RouteCloseState, as sets of routes
    recorded,   \* host_closed / worker_lost as the hook stored them
    channel, overflow,
    suppressed, events,             \* ClosedEventLedger
    cpc,        \* the closer of each route
    dpc, batch, seen, walk,         \* the data plane's turn
    errs,
    opc, oarg,  \* the owner's handler
    detach,     \* the Detach request of each route
    muted       \* history: routes a session suppression found open

coreVars == <<adapter, session, hook, dying, cpc>>
stateVars == <<queued, retired, reported, recorded>>
sourceVars == <<registry, channel, overflow>>
ledger == <<suppressed, events>>
planeVars == <<dpc, batch, seen, walk, errs>>
ownerVars == <<routes, opc, oarg, detach, muted>>
vars == <<coreVars, stateVars, sourceVars, ledger, planeVars, ownerVars>>

Causes == {"host", "core", "lost", "detach"}

\* host_closed, neither flag, worker_lost
Reasons == {"host", "core", "lost"}
Reason(c) == IF c = "detach" THEN "core" ELSE c

Init ==
    /\ adapter = [r \in Routes |-> "none"]
    /\ session = [s \in Sessions |-> "running"]
    /\ hook = {} /\ dying = FALSE /\ routes = {} /\ registry = {}
    /\ queued = {} /\ retired = {} /\ reported = {}
    /\ recorded = [r \in Routes |-> "core"]
    /\ channel = <<>> /\ overflow = FALSE
    /\ suppressed = {} /\ events = <<>>
    /\ cpc = [r \in Routes |-> "idle"]
    /\ dpc = "pump" /\ batch = <<>> /\ seen = {} /\ walk = {} /\ errs = 0
    /\ opc = "idle" /\ oarg = {}
    /\ detach = [r \in Routes |-> "none"] /\ muted = {}

-----------------------------------------------------------------------------
(* Closing an adapter, and the hook it runs.                               *)

\* The one commit of an adapter's close; a hook not yet attached is not run.
Commit(r, c) ==
    /\ adapter' = [adapter EXCEPT ![r] = c]
    /\ cpc' = [cpc EXCEPT ![r] = IF r \in hook THEN "check" ELSE "done"]
    /\ UNCHANGED <<session, hook, dying>>

CloseHost(r) ==
    /\ adapter[r] = "bound"
    /\ Commit(r, "host")
    /\ UNCHANGED <<stateVars, sourceVars, ledger, planeVars, ownerVars>>

\* close_all: the connection dies; every registered adapter is closed.
CloseAll ==
    /\ ~dying
    /\ dying' = TRUE
    /\ routes' = {}
    /\ LET open == {r \in routes : adapter[r] = "bound"} IN
          /\ adapter' = [r \in Routes |-> IF r \in open THEN "host" ELSE adapter[r]]
          /\ cpc' = [r \in Routes |->
                        IF r \in open
                        THEN IF r \in hook THEN "check" ELSE "done"
                        ELSE cpc[r]]
    /\ UNCHANGED <<session, hook, stateVars, sourceVars, ledger, planeVars,
                   opc, oarg, detach, muted>>

NotifyRetired(r) ==
    /\ cpc[r] = "check"
    /\ cpc' = [cpc EXCEPT ![r] = IF r \in retired THEN "done" ELSE "mark"]
    /\ UNCHANGED <<adapter, session, hook, dying, stateVars, sourceVars,
                   ledger, planeVars, ownerVars>>

\* The cause is not stored before the route is queued.
NotifyMarkUnrecorded(r) ==
    /\ cpc[r] = "mark"
    /\ queued' = queued \cup {r}
    /\ cpc' = [cpc EXCEPT ![r] = IF r \in queued THEN "done" ELSE "send"]
    /\ UNCHANGED <<recorded, adapter, session, hook, dying, retired, reported,
                   sourceVars, ledger, planeVars, ownerVars>>

\* record(report), then the compare_exchange on queued.
NotifyMark(r) ==
    /\ cpc[r] = "mark"
    /\ recorded' = [recorded EXCEPT ![r] = Reason(adapter[r])]
    /\ queued' = queued \cup {r}
    /\ cpc' = [cpc EXCEPT ![r] = IF r \in queued THEN "done" ELSE "send"]
    /\ UNCHANGED <<adapter, session, hook, dying, retired, reported,
                   sourceVars, ledger, planeVars, ownerVars>>

\* try_send, or the overflow mark when the bounded channel is full.
TrySend(r) ==
    IF Len(channel) < Capacity
    THEN channel' = Append(channel, r) /\ UNCHANGED <<registry, overflow>>
    ELSE overflow' = TRUE /\ UNCHANGED <<registry, channel>>

NotifySend(r) ==
    /\ cpc[r] = "send"
    /\ TrySend(r)
    /\ cpc' = [cpc EXCEPT ![r] = "done"]
    /\ UNCHANGED <<adapter, session, hook, dying, stateVars, ledger,
                   planeVars, ownerVars>>

Notify(r) == NotifyRetired(r) \/ NotifyMark(r) \/ NotifySend(r)

-----------------------------------------------------------------------------
(* The data-plane thread.  In "pump" Core runs: it binds and closes         *)
(* adapters and changes session states on this thread, so the turn goes on *)
(* only when the hook of a Core close returned.                            *)

CoreIdle ==
    \A r \in Routes : adapter[r] \in {"core", "lost", "detach"}
                        => cpc[r] \in {"idle", "done"}

InCore == dpc = "pump" /\ CoreIdle

\* attach_and_bind: Core owns the adapter before the owner registers it.
CoreBind(r) ==
    /\ InCore /\ adapter[r] = "none" /\ session[SessionOf[r]] = "running"
    /\ adapter' = [adapter EXCEPT ![r] = "bound"]
    /\ UNCHANGED <<session, hook, dying, cpc, stateVars, sourceVars, ledger,
                   planeVars, ownerVars>>

CoreClose(r, c) ==
    /\ InCore /\ adapter[r] = "bound"
    /\ Commit(r, c)
    /\ UNCHANGED <<stateVars, sourceVars, ledger, planeVars, ownerVars>>

\* A session ends, and later its ended record may be removed.
CoreSession(s) ==
    /\ InCore
    /\ \/ session[s] = "running" /\ session' = [session EXCEPT ![s] = "ended"]
       \/ session[s] = "ended" /\ session' = [session EXCEPT ![s] = "absent"]
    /\ UNCHANGED <<adapter, hook, dying, cpc, stateVars, sourceVars, ledger,
                   planeVars, ownerVars>>

\* Core runs a Detach request: it closes the adapter, or fails.
CoreDetach(r) ==
    /\ InCore /\ detach[r] = "asked"
    /\ \/ /\ detach' = [detach EXCEPT ![r] = "ok"]
          /\ IF adapter[r] = "bound" THEN Commit(r, "detach")
                                     ELSE UNCHANGED coreVars
       \/ /\ detach' = [detach EXCEPT ![r] = "err"]
          /\ UNCHANGED coreVars
    /\ UNCHANGED <<stateVars, sourceVars, ledger, planeVars, routes, opc, oarg,
                   muted>>

CoreDone ==
    /\ InCore
    /\ dpc' = "recv" /\ batch' = <<>> /\ seen' = {}
    /\ UNCHANGED <<walk, errs, coreVars, stateVars, sourceVars, ledger, ownerVars>>

-----------------------------------------------------------------------------
(* take_batch                                                              *)

Admit(r) ==
    IF r \notin retired /\ r \notin seen
    THEN batch' = Append(batch, r) /\ seen' = seen \cup {r}
    ELSE UNCHANGED <<batch, seen>>

TakeRecv ==
    /\ dpc = "recv"
    /\ IF Len(batch) < MaxKeys /\ channel # <<>>
       THEN /\ channel' = Tail(channel)
            /\ Admit(Head(channel))
            /\ dpc' = dpc
       ELSE dpc' = "swap" /\ UNCHANGED <<channel, batch, seen>>
    /\ UNCHANGED <<walk, errs, coreVars, stateVars, registry, overflow, ledger,
                   ownerVars>>

\* overflow.swap(false), then the registry lock: register and retire wait.
TakeSwap ==
    /\ dpc = "swap"
    /\ overflow' = FALSE
    /\ dpc' = IF overflow THEN "walk" ELSE "next"
    /\ walk' = IF overflow THEN registry ELSE {}
    /\ UNCHANGED <<batch, seen, errs, coreVars, stateVars, registry, channel,
                   ledger, ownerVars>>

TakeWalk ==
    /\ dpc = "walk"
    /\ \/ \E r \in walk :
            /\ walk' = walk \ {r}
            /\ IF Len(batch) < MaxKeys /\ r \in queued
               THEN Admit(r)
               ELSE UNCHANGED <<batch, seen>>
            /\ dpc' = dpc
       \/ walk = {} /\ walk' = registry /\ dpc' = "any" /\ UNCHANGED <<batch, seen>>
    /\ UNCHANGED <<errs, coreVars, stateVars, sourceVars, ledger, ownerVars>>

\* The second pass is left out.
TakeAnyDropped ==
    /\ dpc = "any"
    /\ dpc' = "next" /\ walk' = {}
    /\ UNCHANGED <<overflow, batch, seen, errs, coreVars, stateVars, registry,
                   channel, ledger, ownerVars>>

\* Queued routes that did not fit raise the overflow mark again.
TakeAny ==
    /\ dpc = "any"
    /\ \/ \E r \in walk :
            IF r \in queued /\ r \notin retired /\ r \notin seen
            THEN overflow' = TRUE /\ walk' = {} /\ dpc' = "next"
            ELSE walk' = walk \ {r} /\ UNCHANGED <<overflow, dpc>>
       \/ walk = {} /\ dpc' = "next" /\ UNCHANGED <<walk, overflow>>
    /\ UNCHANGED <<batch, seen, errs, coreVars, stateVars, registry, channel,
                   ledger, ownerVars>>

RegistryLocked == dpc \in {"walk", "any"}

-----------------------------------------------------------------------------
(* The close batch of run_loop, route by route.                            *)

cur == Head(batch)

\* The lost worker is not told apart from another ended session.
DecisionNoLost(r) ==
    IF session[SessionOf[r]] = "running" THEN "emit"
    ELSE IF session[SessionOf[r]] = "ended" THEN "quiet" ELSE "requeue"

\* session_close_event_decision on what Core's registry answers.
Decision(r) ==
    IF recorded[r] = "lost" \/ session[SessionOf[r]] = "running" THEN "emit"
    ELSE IF session[SessionOf[r]] = "ended" THEN "quiet" ELSE "requeue"

BatchDone ==
    /\ dpc = "next" /\ batch = <<>>
    /\ dpc' = "pump" /\ seen' = {}
    /\ UNCHANGED <<batch, walk, errs, coreVars, stateVars, sourceVars, ledger,
                   ownerVars>>

BatchDecide ==
    /\ dpc = "next" /\ batch # <<>>
    /\ \/ dpc' = Decision(cur) /\ UNCHANGED errs
       \/ /\ recorded[cur] # "lost" /\ errs < MaxErrs
          /\ errs' = errs + 1 /\ dpc' = "requeue"
    /\ UNCHANGED <<batch, seen, walk, coreVars, stateVars, sourceVars, ledger,
                   ownerVars>>

\* requeue: an undecided route goes back to the channel.
BatchRequeue ==
    /\ dpc = "requeue"
    /\ IF cur \in retired \/ cur \notin queued
       THEN UNCHANGED sourceVars
       ELSE TrySend(cur)
    /\ batch' = Tail(batch) /\ dpc' = "next"
    /\ UNCHANGED <<seen, walk, errs, coreVars, stateVars, ledger, ownerVars>>

\* report_if_live: its early returns, take_queued, and the quiet report.
ReportIfLive ==
    /\ dpc \in {"emit", "quiet"}
    /\ IF cur \in retired
       THEN UNCHANGED <<queued, reported>> /\ dpc' = "retire"
       ELSE /\ queued' = queued \ {cur}
            /\ IF cur \notin queued /\ cur \in reported
               THEN dpc' = "retire" /\ UNCHANGED reported
               ELSE IF dpc = "emit"
                    THEN dpc' = "ledger" /\ UNCHANGED reported
                    ELSE dpc' = "retire" /\ reported' = reported \cup {cur}
    /\ UNCHANGED <<batch, seen, walk, errs, coreVars, retired, recorded,
                   sourceVars, ledger, ownerVars>>

\* The suppression check is left out.
EnqueueUnchecked ==
    /\ dpc = "ledger"
    /\ dpc' = "push"
    /\ UNCHANGED <<reported, batch, seen, walk, errs, coreVars, queued, retired,
                   recorded, sourceVars, ledger, ownerVars>>

\* enqueue_closed_event: the suppression check ...
EnqueueCheck ==
    /\ dpc = "ledger"
    /\ IF cur \in suppressed
       THEN reported' = reported \cup {cur} /\ dpc' = "retire"
       ELSE dpc' = "push" /\ UNCHANGED reported
    /\ UNCHANGED <<batch, seen, walk, errs, coreVars, queued, retired, recorded,
                   sourceVars, ledger, ownerVars>>

\* ... then reported.swap, the reason and push_event.
EnqueuePush ==
    /\ dpc = "push"
    /\ reported' = reported \cup {cur}
    /\ events' = IF cur \in reported THEN events
                 ELSE Append(events, [route |-> cur, reason |-> recorded[cur]])
    /\ dpc' = "retire"
    /\ UNCHANGED <<batch, seen, walk, errs, coreVars, queued, retired, recorded,
                   sourceVars, suppressed, ownerVars>>

Retire(rs) ==
    /\ ~RegistryLocked
    /\ retired' = retired \cup (rs \cap registry)
    /\ registry' = registry \ rs

BatchRetire ==
    /\ dpc = "retire"
    /\ Retire({cur})
    /\ batch' = Tail(batch) /\ dpc' = "next"
    /\ UNCHANGED <<seen, walk, errs, coreVars, queued, reported, recorded,
                   channel, overflow, ledger, ownerVars>>

DataPlane ==
    \/ CoreDone \/ TakeRecv \/ TakeSwap \/ TakeWalk \/ TakeAny
    \/ BatchDone \/ BatchDecide \/ BatchRequeue \/ ReportIfLive
    \/ EnqueueCheck \/ EnqueuePush \/ BatchRetire

-----------------------------------------------------------------------------
(* The owner thread: one handler at a time.                                *)

\* register: refused once the connection is dying (the caller then closes
\* the adapter it could not register), otherwise into both maps ...
Register(r) ==
    /\ opc = "idle" /\ ~RegistryLocked
    /\ adapter[r] # "none" /\ r \notin routes \cup hook /\ detach[r] = "none"
    /\ IF dying
       THEN /\ adapter[r] = "bound" /\ Commit(r, "core")
            /\ UNCHANGED <<ownerVars, registry>>
       ELSE /\ routes' = routes \cup {r} /\ registry' = registry \cup {r}
            /\ opc' = "hook" /\ oarg' = {r}
            /\ UNCHANGED <<coreVars, detach, muted>>
    /\ UNCHANGED <<stateVars, channel, overflow, ledger, planeVars>>

\* ... and then attach_close_hook, which does not look whether the adapter
\* closed in the meantime.
AttachHook ==
    /\ opc = "hook"
    /\ hook' = hook \cup oarg
    /\ opc' = "idle" /\ oarg' = {}
    /\ UNCHANGED <<adapter, session, dying, cpc, stateVars, sourceVars, ledger,
                   planeVars, routes, detach, muted>>

\* Detach: the generation is suppressed before Core is asked.
DetachAsk(r) ==
    /\ opc = "idle" /\ r \in hook /\ detach[r] \in {"none", "refused"}
    /\ suppressed' = suppressed \cup {r}
    /\ detach' = [detach EXCEPT ![r] = "asked"]
    /\ UNCHANGED <<coreVars, stateVars, sourceVars, events, planeVars, routes,
                   opc, oarg, muted>>

\* commit_generation_suppression on success, unsuppress_generation on error.
DetachAnswered(r) ==
    /\ opc = "idle"
    /\ \/ /\ detach[r] = "ok" /\ Retire({r})
          /\ detach' = [detach EXCEPT ![r] = "ended"]
          /\ UNCHANGED suppressed
       \/ /\ detach[r] = "err"
          /\ suppressed' = suppressed \ {r}
          /\ detach' = [detach EXCEPT ![r] = "refused"]
          /\ UNCHANGED <<retired, registry>>
    /\ UNCHANGED <<coreVars, queued, reported, recorded, channel, overflow,
                   events, planeVars, routes, opc, oarg, muted>>

SessionRoutes(s) == {r \in routes : SessionOf[r] = s}

\* suppress_session_route_generations (ShutdownSession, RemoveSession):
\* retire the close work of every registered route of the session (a call
\* that would change nothing is left out) ...
SuppressSession(s) ==
    /\ opc = "idle"
    /\ ~(SessionRoutes(s) \subseteq suppressed \cap retired)
    /\ Retire(SessionRoutes(s))
    /\ opc' = "suppress" /\ oarg' = SessionRoutes(s)
    /\ UNCHANGED <<coreVars, queued, reported, recorded, channel, overflow,
                   ledger, planeVars, routes, detach, muted>>

\* ... then suppress_session_keys.
SuppressKeys ==
    /\ opc = "suppress"
    /\ suppressed' = suppressed \cup oarg
    /\ muted' = muted \cup {r \in oarg : adapter[r] = "bound"}
    /\ opc' = "idle" /\ oarg' = {}
    /\ UNCHANGED <<coreVars, stateVars, sourceVars, events, planeVars, routes,
                   detach>>

Next ==
    \/ DataPlane \/ CloseAll \/ AttachHook \/ SuppressKeys
    \/ \E r \in Routes :
          \/ CloseHost(r) \/ Notify(r) \/ CoreBind(r) \/ CoreDetach(r)
          \/ \E c \in {"core", "lost"} : CoreClose(r, c)
          \/ Register(r) \/ DetachAsk(r) \/ DetachAnswered(r)
    \/ \E s \in Sessions : CoreSession(s) \/ SuppressSession(s)

Spec == Init /\ [][Next]_vars

-----------------------------------------------------------------------------
(* Properties.                                                             *)

TypeOK ==
    /\ adapter \in [Routes -> {"none", "bound"} \cup Causes]
    /\ session \in [Sessions -> {"running", "ended", "absent"}]
    /\ hook \subseteq Routes /\ routes \subseteq Routes /\ registry \subseteq Routes
    /\ queued \subseteq Routes /\ retired \subseteq Routes /\ reported \subseteq Routes
    /\ suppressed \subseteq Routes /\ muted \subseteq Routes /\ oarg \subseteq Routes
    /\ seen \subseteq Routes /\ walk \subseteq Routes
    /\ dying \in BOOLEAN /\ overflow \in BOOLEAN
    /\ recorded \in [Routes -> Reasons]
    /\ channel \in Seq(Routes) /\ Len(channel) <= Capacity
    /\ batch \in Seq(Routes) /\ Len(batch) <= MaxKeys
    /\ events \in Seq([route : Routes, reason : Reasons])
    /\ cpc \in [Routes -> {"idle", "check", "mark", "send", "done"}]
    /\ dpc \in {"pump", "recv", "swap", "walk", "any", "next", "requeue", "emit",
                "quiet", "ledger", "push", "retire"}
    /\ errs \in 0..MaxErrs
    /\ opc \in {"idle", "hook", "suppress"}
    /\ detach \in [Routes -> {"none", "asked", "ok", "err", "ended", "refused"}]

InSeq(r, q) == \E i \in 1..Len(q) : q[i] = r

\* A close that won the queued flag is never dropped between the bounded
\* channel, the overflow mark and the registry walk that clears the mark: at
\* every moment some later step of a closer or of the data plane finds it.
CloseNotDropped ==
    \A r \in queued \ retired :
        \/ cpc[r] = "send"
        \/ InSeq(r, channel) \/ InSeq(r, batch)
        \/ overflow
        \/ dpc = "walk" /\ r \in registry
        \/ dpc = "any" /\ r \in walk

\* "Detach and ShutdownSession never produce one of these events for the
\* generation they end": no event names a route that Core closed for a Detach,
\* or that was still open when its session's routes were suppressed.
EndedInSilence ==
    \A i \in 1..Len(events) :
        /\ adapter[events[i].route] # "detach"
        /\ events[i].route \notin muted

\* An event carries the cause that really closed the adapter, and unless the
\* worker was lost it is pushed only while the registry has the session
\* running (the lookup and the push are one data-plane turn).
ReportedAsClosed ==
    [][events' # events =>
        LET e == events'[Len(events')] IN
            /\ e.reason = adapter[e.route]
            /\ e.reason = "lost" \/ session[SessionOf[e.route]] = "running"]_vars

HasEvent(r) == \E i \in 1..Len(events) : events[i].route = r
Reporting(r) == batch # <<>> /\ cur = r /\ dpc \in {"ledger", "push"}

\* A lost worker is reported whatever the registry says of its session: a
\* close with that cause that left the queue is an event, unless the route was
\* suppressed before (a refused Detach lifts its suppression later).
LostWorkerReported ==
    \A r \in Routes :
        recorded[r] = "lost" /\ r \notin queued /\ ~Reporting(r)
            => HasEvent(r) \/ r \in suppressed \/ detach[r] = "refused"

\* What docs/client-protocol.md says of a host-side close of a live session's
\* route: it is reported.  Stated for a route whose Detach was refused, which
\* therefore was not ended by it, once the close work of the route is done.
RefusedDetachStillReports ==
    \A r \in Routes :
        (/\ adapter[r] = "host" /\ r \in reported /\ detach[r] = "refused"
         /\ session[SessionOf[r]] = "running" /\ r \notin suppressed /\ ~dying)
        => HasEvent(r)
=============================================================================
