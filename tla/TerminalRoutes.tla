--------------------------- MODULE TerminalRoutes ---------------------------
(***************************************************************************)
(* Who owns a terminal route.  Unix connections and WebRTC peers attach    *)
(* (session, subscription) routes; the Hub's owner thread keeps one stream *)
(* per route, sends work to Core over one FIFO, and applies each answer in *)
(* a later turn, when the stream may have been replaced, its connection    *)
(* may have closed, or its reservation may have expired.                   *)
(*                                                                         *)
(* An attachment is identified by its epoch; the adapter an attach created *)
(* and the label a WebRTC reservation was given are named by that epoch    *)
(* too, since each attach makes at most one of either.                     *)
(***************************************************************************)
EXTENDS Integers, Sequences, FiniteSets, SequencesExt

CONSTANTS
    Clients,      \* Unix connections
    Grants,       \* WebRTC peers
    Routes,       \* (session, subscription) pairs
    RouteLimit,   \* MAX_ATTACH_ROUTES_PER_OWNER
    ChannelLimit, \* MAX_SUBSCRIPTION_CHANNELS
    MaxAttaches,  \* bound: attach requests in a behaviour
    MaxAsks,      \* bound: detach requests and inventory reads together
    MaxEvents,    \* bound: refusals, failures, ends of sessions and channels and
                  \*   times that run out, together
    Present       \* the sets of owners a behaviour may start with

ASSUME LimitsPositive == RouteLimit \in Nat \ {0} /\ ChannelLimit \in Nat \ {0}

VARIABLES
    reg,       \* AttachStreamRegistry, with the adapter handles it has closed
    conn,      \* connection: open or gone (its end has reached the owner)
    told,      \* routes each connection has been sent an attach reply for
    resv,      \* admission.reservations
    channels,  \* labels in each peer's ConnectionBudget
    drivers,   \* labels whose channel driver is running
    retiring,  \* labels whose driver has sent RetireReservedSubscription
    session,   \* each route's session: live or ended
    core,      \* Core's route table
    gen,       \* Core's last route generation
    queue,     \* the Core request queue
    answers,   \* answers of Core to requests, in order
    todo,      \* owner obligations that have still to submit their Core work
    duties,    \* answers of Core to obligations, in order
    read,      \* the one inventory read: its epoch, routes asked and rows
    asked,     \* number of attaches, of other requests and of events so far
    kept,      \* history: acknowledged attachments nobody has ended
    overtaken  \* history: attachments ended in Core by work of an older one

vars == <<reg, conn, told, resv, channels, drivers, retiring, session, core,
          gen, queue, answers, todo, duties, read, asked, kept, overtaken>>

hubVars == <<conn, told, resv, channels, drivers, retiring>>
coreVars == <<core, gen, session, overtaken>>

Owners == Clients \cup Grants
None == "none"
Epochs == 1 .. MaxAttaches

\* The Core client id of an owner: a Unix connection has its own, every
\* WebRTC peer on a subscription shares one.
runtime_client_id(o) == IF o \in Grants THEN "subscription" ELSE o

NoStream == [owner |-> None, epoch |-> 0, gen |-> 0, bound |-> FALSE]
NoRoute == [client |-> None, gen |-> 0, adapter |-> 0]
NoRead == [epoch |-> 0, ask |-> {}, rows |-> [r \in Routes |-> 0], st |-> "idle"]

-----------------------------------------------------------------------------
(* The registry's operations, as functions of the registry.                *)

CloseAdapter(g, r) ==
    IF g.streams[r].bound
    THEN [g EXCEPT !.shut = @ \cup {g.streams[r].epoch}]
    ELSE g

cancel_stream(g, r) == [CloseAdapter(g, r) EXCEPT !.streams[r] = NoStream]

stream_matches(g, r, e) == e # 0 /\ g.streams[r].epoch = e

\* Variant: the stream on the route is cancelled whoever owns it.
CancelUnfenced(g, r, e) == cancel_stream(g, r)

cancel_stream_if(g, r, e) ==
    IF stream_matches(g, r, e) THEN cancel_stream(g, r) ELSE g

start_attach(g, o, r) ==
    [cancel_stream(g, r) EXCEPT
        !.epoch = @ + 1,
        !.streams[r] = [owner |-> o, epoch |-> g.epoch + 1, gen |-> 0, bound |-> FALSE]]

mark_adapter_bound(g, r, n) ==
    [g EXCEPT !.streams[r].gen = n, !.streams[r].bound = TRUE]

reserve_route(g, o, r) ==
    IF r \in g.held[o] THEN "held"
    ELSE IF Cardinality(g.held[o]) >= RouteLimit THEN "full" ELSE "inserted"

Hold(g, o, r) == [g EXCEPT !.held[o] = @ \cup {r}]

release_route(g, o, r) == [g EXCEPT !.held[o] = @ \ {r}]

\* Variant: a failed reattach also drops a key the owner already held.
ReleaseAlways(g, o, r, rr) == release_route(g, o, r)

release_failed_attach_route(g, o, r, rr) ==
    IF rr = "inserted" /\ g.streams[r].owner # o THEN release_route(g, o, r) ELSE g

RecordAttach(g, r) == [g EXCEPT !.live = @ \cup {r}]
RecordDetach(g, r) == [g EXCEPT !.live = @ \ {r}]

abandon_unbound_terminal(g, o, r, e, rr) ==
    release_failed_attach_route(cancel_stream_if(g, r, e), o, r, rr)

-----------------------------------------------------------------------------
Init ==
    /\ reg = [streams |-> [r \in Routes |-> NoStream], epoch |-> 0,
              held |-> [o \in Owners |-> {}], live |-> {}, shut |-> {}]
    /\ \E here \in Present : conn = [o \in Owners |-> IF o \in here THEN "open" ELSE "gone"]
    /\ told = [o \in Owners |-> {}]
    /\ resv = {}
    /\ channels = [g \in Grants |-> {}]
    /\ drivers = {}
    /\ retiring = {}
    /\ session = [r \in Routes |-> "live"]
    /\ core = [r \in Routes |-> NoRoute]
    /\ gen = 0
    /\ queue = <<>>
    /\ answers = <<>>
    /\ todo = <<>>
    /\ duties = <<>>
    /\ read = NoRead
    /\ asked = [attach |-> 0, other |-> 0, event |-> 0]
    /\ kept = {}
    /\ overtaken = {}

-----------------------------------------------------------------------------
(* Requests to Core and their answers.                                     *)

Job(k, o, r, e, n, rr) ==
    [kind |-> k, owner |-> o, route |-> r, epoch |-> e, gen |-> n, rr |-> rr]

Answer(j, ok) == [job |-> j, ok |-> ok]

\* One of the few events a behaviour is bounded to.
Event(count) ==
    count.event < MaxEvents /\ asked' = [count EXCEPT !.event = @ + 1]

\* submit_for_owner: the job joins the queue, or a full queue refuses it and
\* the request's next poll reads the refusal as a failure.
Submit(j, count) ==
    \/ queue' = Append(queue, j) /\ asked' = count /\ UNCHANGED answers
    \/ /\ answers' = Append(answers, Answer(j, FALSE))
       /\ Event(count)
       /\ UNCHANGED queue

Reply(o, r) == told' = [told EXCEPT ![o] = @ \cup {r}]

Undo(r) == kept \ {reg.streams[r].epoch}

HasLive(g, r) ==
    \E x \in resv : x.owner = g /\ x.route = r /\ x.state = "live"

\* handle_attach on a Unix connection.  A full route set or an exhausted
\* owner budget refuses the request and changes nothing.
handle_attach(o, r) ==
    LET rr == reserve_route(reg, o, r)
        g  == start_attach(Hold(reg, o, r), o, r)
    IN  /\ conn[o] = "open" /\ asked.attach < MaxAttaches /\ rr # "full"
        /\ reg' = g
        /\ kept' = Undo(r)
        /\ Submit(Job("attach", o, r, g.epoch, 0, rr), [asked EXCEPT !.attach = @ + 1])
        /\ UNCHANGED <<hubVars, coreVars, todo, duties, read>>

\* handle_attach on a WebRTC peer: one read-only query, nothing reserved yet.
handle_attach_webrtc(g, r) ==
    /\ conn[g] = "open" /\ asked.attach < MaxAttaches /\ ~HasLive(g, r)
    /\ Submit(Job("query", g, r, 0, 0, None),
              [asked EXCEPT !.attach = @ + 1])
    /\ UNCHANGED <<reg, hubVars, coreVars, todo, duties, read, kept>>

\* Detach captures the identity and generation of the route's stream now.
handle_detach(o, r) ==
    /\ conn[o] = "open" /\ asked.other < MaxAsks
    /\ Submit(Job("detach", o, r, reg.streams[r].epoch, reg.streams[r].gen, None),
              [asked EXCEPT !.other = @ + 1])
    /\ kept' = Undo(r)
    /\ UNCHANGED <<reg, hubVars, coreVars, todo, duties, read>>

ExactDetach(j, n) == Job("exact", j.owner, j.route, j.epoch, n, None)

\* An attachment is acknowledged: from here on nothing may end it but its own
\* client, a newer attach, a detach somebody has asked for, or its session.
Acknowledge(j) ==
    IF /\ conn[j.owner] = "open" /\ session[j.route] # "ended"
       /\ \A i \in 1 .. Len(queue) : ~(queue[i].kind = "detach" /\ queue[i].epoch = j.epoch)
       /\ \A i \in 1 .. Len(answers) :
            ~(answers[i].job.kind = "detach" /\ answers[i].job.epoch = j.epoch)
    THEN kept \cup {j.epoch} ELSE kept

\* Variant: a late success leaves the generation it created in Core.
AttachDoneNoDetach ==
    LET a == Head(answers)  j == a.job  r == j.route
        live == stream_matches(reg, r, j.epoch) /\ conn[j.owner] = "open"
        closed == [reg EXCEPT !.shut = @ \cup {j.epoch}]
    IN  /\ answers # <<>> /\ j.kind = "attach"
        /\ answers' = Tail(answers)
        /\ reg' = CASE a.ok /\ live  -> RecordAttach(mark_adapter_bound(reg, r, j.gen), r)
                    [] a.ok /\ ~live -> release_failed_attach_route(reg, j.owner, r, j.rr)
                    [] ~a.ok -> abandon_unbound_terminal(closed, j.owner, r, j.epoch, j.rr)
        /\ UNCHANGED <<hubVars, coreVars, queue, asked, todo, duties, read, kept>>

\* The continuation of a Unix attach.
attach_done ==
    LET a == Head(answers)  j == a.job  r == j.route  o == j.owner
        live == stream_matches(reg, r, j.epoch) /\ conn[o] = "open"
        closed == [reg EXCEPT !.shut = @ \cup {j.epoch}]
    IN  /\ answers # <<>> /\ j.kind = "attach"
        /\ answers' = Tail(answers)
        /\ \/ /\ a.ok /\ live
              /\ reg' = RecordAttach(mark_adapter_bound(reg, r, j.gen), r)
              /\ Reply(o, r)
              /\ kept' = Acknowledge(j)
              /\ UNCHANGED todo
           \/ /\ a.ok /\ ~live
              /\ reg' = release_failed_attach_route(closed, o, r, j.rr)
              /\ todo' = Append(todo, ExactDetach(j, j.gen))
              /\ UNCHANGED <<told, kept>>
           \/ /\ ~a.ok
              /\ reg' = abandon_unbound_terminal(closed, o, r, j.epoch, j.rr)
              /\ UNCHANGED <<todo, told, kept>>
        /\ UNCHANGED <<conn, resv, channels, drivers, retiring, coreVars, queue,
                       asked, duties, read>>

\* The continuation of a WebRTC attach: reserve_webrtc_terminal rechecks what
\* the query's wait could have changed, then reserves a label and a slot.
reserve_webrtc_terminal ==
    LET a == Head(answers)  j == a.job  r == j.route  o == j.owner
        rr == reserve_route(reg, o, r)
        g  == start_attach(Hold(reg, o, r), o, r)
        go == a.ok /\ conn[o] = "open" /\ ~HasLive(o, r) /\ rr # "full"
        row == [label |-> g.epoch, owner |-> o, route |-> r, rr |-> rr, state |-> "live"]
    IN  /\ answers # <<>> /\ j.kind = "query"
        /\ answers' = Tail(answers)
        /\ \/ ~go /\ UNCHANGED <<reg, hubVars, kept>>
           \/ /\ go /\ Cardinality(channels[o]) >= ChannelLimit
              /\ reg' = abandon_unbound_terminal(g, o, r, g.epoch, rr)
              /\ kept' = Undo(r)
              /\ UNCHANGED hubVars
           \/ /\ go /\ Cardinality(channels[o]) < ChannelLimit
              /\ reg' = RecordAttach(g, r)
              /\ kept' = Undo(r)
              /\ resv' = resv \cup {row}
              /\ channels' = [channels EXCEPT ![o] = @ \cup {g.epoch}]
              /\ Reply(o, r)
              /\ UNCHANGED <<conn, drivers, retiring>>
        /\ UNCHANGED <<coreVars, queue, asked, todo, duties, read>>

\* The continuation of a detach, and the bookkeeping of its reply: the route
\* key and the live count are left alone when a stream holds the route now.
detach_done ==
    LET a == Head(answers)  j == a.job  r == j.route  o == j.owner
        owned == stream_matches(reg, r, j.epoch)
        g == cancel_stream_if(reg, r, j.epoch)
    IN  /\ answers # <<>> /\ j.kind = "detach"
        /\ answers' = Tail(answers)
        /\ \/ ~a.ok /\ UNCHANGED <<reg, resv>>
           \/ /\ a.ok
              /\ reg' = IF g.streams[r] = NoStream
                        THEN RecordDetach(release_route(g, o, r), r) ELSE g
              /\ resv' = IF owned THEN {x \in resv : x.route # r} ELSE resv
        /\ UNCHANGED <<conn, told, channels, drivers, retiring, coreVars, queue, asked,
                       todo, duties, read, kept>>

-----------------------------------------------------------------------------
(* WebRTC reservations.                                                    *)

\* retire_reserved_subscription: the row is forgotten, and with it its slot.
Forget(x) ==
    /\ resv' = resv \ {x}
    /\ channels' = [channels EXCEPT ![x.owner] = @ \ {x.label}]

ForgetLabel(l) ==
    \/ \E x \in resv : x.label = l /\ Forget(x)
    \/ (\A x \in resv : x.label # l) /\ UNCHANGED <<resv, channels>>

Elapse(x) ==
    /\ x \in resv /\ x.state = "live"
    /\ resv' = (resv \ {x}) \cup {[x EXCEPT !.state = "due"]}
    /\ Event(asked)
    /\ UNCHANGED <<reg, conn, told, channels, drivers, retiring, coreVars, queue,
                   answers, todo, duties, read, kept>>

\* emit_reservation_expired, from the deadline or from a late channel open.
emit_reservation_expired(x) ==
    /\ x \in resv /\ x.state = "due"
    /\ resv' = (resv \ {x}) \cup {[x EXCEPT !.state = "expired"]}
    /\ channels' = [channels EXCEPT ![x.owner] = @ \ {x.label}]
    /\ reg' = abandon_unbound_terminal(reg, x.owner, x.route, x.label, x.rr)
    /\ UNCHANGED <<conn, told, drivers, retiring, coreVars, queue, answers, todo,
                   duties, read, asked, kept>>

\* Variant: the label is claimed only once Core has answered.
BindUnclaimed(x) ==
    /\ x \in resv /\ x.state = "live" /\ stream_matches(reg, x.route, x.label)
    /\ Len(SelectSeq(todo, LAMBDA j : j.kind = "bind")) < 2
    /\ todo' = Append(todo, Job("bind", x.owner, x.route, x.label, 0, x.rr))
    /\ UNCHANGED <<reg, hubVars, coreVars, queue, answers, duties, read, asked, kept>>

\* A reserved channel's Hello: claim the label, then attach in Core.  A stream
\* that is no longer this attachment, or a full owner budget, retires it.
bind_reserved_subscription(x) ==
    /\ x \in resv /\ x.state = "live"
    /\ \/ /\ IF stream_matches(reg, x.route, x.label) THEN Event(asked) ELSE UNCHANGED asked
          /\ Forget(x)
          /\ reg' = abandon_unbound_terminal(reg, x.owner, x.route, x.label, x.rr)
          /\ UNCHANGED todo
       \/ /\ stream_matches(reg, x.route, x.label)
          /\ resv' = (resv \ {x}) \cup {[x EXCEPT !.state = "bound"]}
          /\ todo' = Append(todo, Job("bind", x.owner, x.route, x.label, 0, x.rr))
          /\ UNCHANGED <<reg, channels, asked>>
    /\ UNCHANGED <<conn, told, drivers, retiring, coreVars, queue, answers, duties,
                   read, kept>>

\* The obligation's next poll, once Core has answered the attach.
bind_done ==
    LET a == Head(duties)  j == a.job  r == j.route  o == j.owner  e == j.epoch
        mine == stream_matches(reg, r, e)
        claimed == mine /\ \E x \in resv : x.label = e /\ x.state = "bound"
        closed == [reg EXCEPT !.shut = @ \cup {e}]
    IN  /\ duties # <<>> /\ j.kind = "bind"
        /\ duties' = Tail(duties)
        /\ \/ /\ a.ok /\ claimed
              /\ reg' = mark_adapter_bound(reg, r, j.gen)
              /\ drivers' = drivers \cup {[label |-> e, owner |-> o]}
              /\ kept' = Acknowledge(j)
              /\ UNCHANGED <<resv, channels, todo, asked>>
           \/ /\ a.ok /\ claimed \* the channel gave up waiting
              /\ reg' = cancel_stream_if(mark_adapter_bound(reg, r, j.gen), r, e)
              /\ ForgetLabel(e)
              /\ todo' = Append(todo, ExactDetach(j, j.gen))
              /\ Event(asked)
              /\ UNCHANGED <<drivers, kept>>
           \/ /\ a.ok /\ ~claimed
              /\ reg' = abandon_unbound_terminal(closed, o, r, e, j.rr)
              /\ ForgetLabel(e)
              /\ todo' = Append(todo, ExactDetach(j, j.gen))
              /\ UNCHANGED <<drivers, kept, asked>>
           \/ /\ ~a.ok
              /\ reg' = abandon_unbound_terminal(closed, o, r, e, j.rr)
              /\ ForgetLabel(e)
              /\ UNCHANGED <<drivers, todo, kept, asked>>
        /\ UNCHANGED <<conn, told, retiring, coreVars, queue, answers, read>>

\* run_bound_subscription_channel_and_retire: the driver closes the adapter
\* and tells the owner, unless the peer's own close has been sent.
channel_ends(d) ==
    /\ d \in drivers
    /\ drivers' = drivers \ {d}
    /\ reg' = [reg EXCEPT !.shut = @ \cup {d.label}]
    /\ kept' = kept \ {d.label}
    /\ \/ conn[d.owner] = "open" /\ retiring' = retiring \cup {d.label}
       \/ UNCHANGED retiring
    /\ Event(asked)
    /\ UNCHANGED <<conn, told, resv, channels, coreVars, queue, answers, todo,
                   duties, read>>

retire_reserved_subscription(l) ==
    /\ l \in retiring
    /\ retiring' = retiring \ {l}
    /\ ForgetLabel(l)
    /\ UNCHANGED <<reg, conn, told, drivers, coreVars, queue, answers, todo, duties,
                   read, asked, kept>>

-----------------------------------------------------------------------------
(* Departing owners.                                                       *)

StreamsOf(o) == {r \in Routes : reg.streams[r].owner = o}

\* candidate_for_departing_owner: the identity and generation of the route's
\* stream when it is still this owner's, otherwise only the Core client id.
Candidate(o, r) ==
    LET s == reg.streams[r]
        owned == s.owner = o
    IN  [route |-> r, client |-> runtime_client_id(o), outcome |-> None,
         epoch |-> IF owned THEN s.epoch ELSE 0,
         gen   |-> IF owned THEN s.gen ELSE 0]

\* retain_route_cleanup.  An obligation with no route has no effect on any.
Cleanup(o, cands) ==
    IF cands = {} THEN <<>> ELSE <<[kind |-> "cleanup", owner |-> o, cands |-> cands]>>

Gone(o) ==
    /\ conn[o] = "open"
    /\ kept' = kept \ {reg.streams[r].epoch : r \in StreamsOf(o)}
    /\ conn' = [conn EXCEPT ![o] = "gone"]
    /\ told' = [told EXCEPT ![o] = {}]

\* Variant: only the routes the connection knows of are cleaned up.
ConnectionCleanupTold(o, snapshot) ==
    /\ Gone(o)
    /\ todo' = todo \o Cleanup(o, {Candidate(o, r) : r \in snapshot})
    /\ reg' = [reg EXCEPT !.held[o] = {}]
    /\ UNCHANGED <<resv, channels, drivers, retiring, coreVars, queue, answers,
                   duties, read, asked>>

\* A Unix connection: streams that never bound are cancelled now and the mux
\* closes every registered adapter; the obligation does the rest.  The snapshot
\* is what the connection's task had recorded of its replies when it ended.
handle_connection_cleanup(o, snapshot) ==
    LET mine == StreamsOf(o)
        keys == snapshot \cup reg.held[o] \cup mine
    IN  /\ Gone(o)
        /\ reg' = [reg EXCEPT
                    !.held[o] = {},
                    !.shut = @ \cup {reg.streams[r].epoch : r \in
                                        {q \in mine : reg.streams[q].bound}},
                    !.streams = [r \in Routes |-> IF r \in mine /\ ~reg.streams[r].bound
                                                  THEN NoStream ELSE @[r]]]
        /\ todo' = todo \o Cleanup(o, {Candidate(o, r) : r \in keys})
        /\ UNCHANGED <<resv, channels, drivers, retiring, coreVars, queue, answers,
                       duties, read, asked>>

\* A WebRTC peer: departing_routes_for_grants leaves out every key whose stream
\* belongs to somebody else; the others are released here and now.
handle_peer_closed(o, snapshot) ==
    LET keys == {r \in snapshot \cup reg.held[o] \cup StreamsOf(o) :
                    reg.streams[r].owner \in {o, None}}
    IN  /\ Gone(o)
        /\ reg' = [reg EXCEPT
                    !.held[o] = {},
                    !.live = @ \ keys,
                    !.shut = @ \cup {reg.streams[r].epoch : r \in
                                        {q \in keys : reg.streams[q].bound}},
                    !.streams = [r \in Routes |-> IF r \in keys THEN NoStream ELSE @[r]]]
        /\ resv' = {x \in resv : x.owner # o}
        /\ channels' = [channels EXCEPT ![o] = {}]
        /\ todo' = todo \o Cleanup(o, {Candidate(o, r) : r \in keys})
        /\ UNCHANGED <<drivers, retiring, coreVars, queue, answers, duties, read, asked>>

\* One report of apply_cleanup_reports.
ApplyReport(g, c) ==
    LET owned == stream_matches(g, c.route, c.epoch)
        replaced == g.streams[c.route] # NoStream /\ ~owned
    IN  IF c.outcome \in {"foreign", "failed"} \/ replaced
        THEN g
        ELSE RecordDetach(cancel_stream_if(g, c.route, c.epoch), c.route)

apply_cleanup_reports ==
    LET a == Head(duties)
    IN  /\ duties # <<>> /\ a.job.kind = "cleanup"
        /\ duties' = Tail(duties)
        /\ reg' = FoldSet(LAMBDA c, g : ApplyReport(g, c), reg, a.job.cands)
        /\ UNCHANGED <<hubVars, coreVars, queue, answers, todo, read, asked, kept>>

\* retain_exact_detach ends with Core's answer, whatever it is.
exact_detach_done ==
    /\ duties # <<>> /\ Head(duties).job.kind = "exact"
    /\ duties' = Tail(duties)
    /\ UNCHANGED <<reg, hubVars, coreVars, queue, answers, todo, read, asked, kept>>

\* drive_core_slot: an obligation's poll submits its work.  A refused bind is a
\* failed one; any other refused obligation waits for room behind the rest.
submit_obligation ==
    LET j == Head(todo)
    IN  /\ todo # <<>>
        /\ \/ /\ queue' = Append(queue, j)
              /\ todo' = Tail(todo)
              /\ UNCHANGED <<duties, asked>>
           \/ /\ j.kind = "bind"
              /\ duties' = Append(duties, Answer(j, FALSE))
              /\ todo' = Tail(todo)
              /\ Event(asked)
              /\ UNCHANGED queue
           \/ /\ j.kind # "bind"
              /\ todo' = Append(Tail(todo), j)
              /\ Event(asked)
              /\ UNCHANGED <<queue, duties>>
        /\ UNCHANGED <<reg, hubVars, coreVars, answers, read, kept>>

-----------------------------------------------------------------------------
(* Core, one job at a time from the queue.                                 *)

\* terminal_subscription_owner and the detaches: a route is removed only under
\* its client, and under its generation when one is given (0: none is).
Detachable(c, client, n) == c.client = client /\ n \in {0, c.gen}

CoreAnswers(j, ok) ==
    /\ queue' = Tail(queue)
    /\ IF j.kind \in {"attach", "query", "detach"}
       THEN answers' = Append(answers, Answer(j, ok)) /\ UNCHANGED duties
       ELSE duties' = Append(duties, Answer(j, ok)) /\ UNCHANGED answers
    /\ UNCHANGED <<hubVars, session, todo, read, kept>>

Overtake(j, a) == IF a > j.epoch THEN overtaken \cup {a} ELSE overtaken

\* attach_and_bind_on_core.  A route of the same client is detached first; a
\* successful attach takes the route over; a failed bind detaches it again.
attach_and_bind_on_core ==
    LET j == Head(queue)  r == j.route
        client == runtime_client_id(j.owner)
        old == core[r]
    IN  /\ queue # <<>> /\ j.kind \in {"attach", "bind"}
        /\ \/ /\ session[r] # "ended"
              /\ gen' = gen + 1
              /\ core' = [core EXCEPT ![r] =
                            [client |-> client, gen |-> gen + 1, adapter |-> j.epoch]]
              /\ reg' = [reg EXCEPT !.shut = @ \cup ({old.adapter} \ {0})]
              /\ overtaken' = Overtake(j, old.adapter)
              /\ CoreAnswers([j EXCEPT !.gen = gen + 1], TRUE)
              /\ UNCHANGED asked
           \/ /\ session[r] # "ended"  \* the attach took the route, the bind failed
              /\ gen' = gen + 1
              /\ core' = [core EXCEPT ![r] = NoRoute]
              /\ reg' = [reg EXCEPT !.shut = @ \cup ({old.adapter, j.epoch} \ {0})]
              /\ CoreAnswers(j, FALSE)
              /\ overtaken' = Overtake(j, old.adapter)
              /\ Event(asked)
           \/ LET lost == IF old.client = client THEN old.adapter ELSE 0
              IN  /\ core' = IF lost # 0 THEN [core EXCEPT ![r] = NoRoute] ELSE core
                  /\ reg' = [reg EXCEPT !.shut = @ \cup ({lost, j.epoch} \ {0})]
                  /\ CoreAnswers(j, FALSE)
                  /\ IF session[r] = "ended" THEN UNCHANGED asked ELSE Event(asked)
                  /\ overtaken' = Overtake(j, lost)
                  /\ UNCHANGED gen

session_registry_state ==
    LET j == Head(queue)
    IN  /\ queue # <<>> /\ j.kind = "query"
        /\ CoreAnswers(j, session[j.route] # "ended")
        /\ UNCHANGED <<reg, core, gen, overtaken, asked>>

detach_route_exact_or_owned ==
    LET j == Head(queue)  r == j.route
    IN  /\ queue # <<>> /\ j.kind \in {"detach", "exact"}
        /\ \/ /\ IF Detachable(core[r], runtime_client_id(j.owner), j.gen)
                 THEN /\ core' = [core EXCEPT ![r] = NoRoute]
                      /\ reg' = [reg EXCEPT !.shut = @ \cup {core[r].adapter}]
                 ELSE UNCHANGED <<core, reg>>
              /\ CoreAnswers(j, TRUE)
              /\ UNCHANGED asked
           \/ CoreAnswers(j, FALSE) /\ Event(asked) /\ UNCHANGED <<core, reg>>
        /\ UNCHANGED <<gen, overtaken>>

\* cleanup_core_turn: a candidate without a generation takes the one of the
\* route Core holds under the candidate's client id.
Outcome(c, failing) ==
    LET at == core[c.route]
        known == c.gen # 0 \/ at.client = c.client
    IN  CASE ~known /\ at # NoRoute -> "foreign"
          [] ~known /\ at = NoRoute -> "no_generation"
          [] known /\ c \in failing -> "failed"
          [] known /\ c \notin failing -> "detached"

cleanup_core_turn ==
    LET j == Head(queue)
    IN  /\ queue # <<>> /\ j.kind = "cleanup"
        /\ \E failing \in {{}} \cup (IF asked.event < MaxEvents THEN {{c} : c \in j.cands}
                                                              ELSE {}) :
             LET out == {[c EXCEPT !.outcome = Outcome(c, failing)] : c \in j.cands}
                 dead == {c.route : c \in {x \in out :
                            x.outcome = "detached" /\ Detachable(core[x.route], x.client, x.gen)}}
             IN  /\ core' = [r \in Routes |-> IF r \in dead THEN NoRoute ELSE core[r]]
                 /\ reg' = [reg EXCEPT !.shut = @ \cup {core[r].adapter : r \in dead}]
                 /\ CoreAnswers([j EXCEPT !.cands = out], TRUE)
                 /\ overtaken' = overtaken \cup {core[c.route].adapter : c \in
                                     {x \in out : x.route \in dead /\ x.gen = 0}}
                 /\ IF failing = {} THEN UNCHANGED asked ELSE Event(asked)
        /\ UNCHANGED gen

\* Core drops a route whose adapter reports that it is closed.
CoreDropsClosed(r) ==
    /\ core[r].adapter \in reg.shut
    /\ core' = [core EXCEPT ![r] = NoRoute]
    /\ UNCHANGED <<reg, hubVars, session, gen, queue, answers, todo, duties, read,
                   asked, kept, overtaken>>

SessionEnds(r) ==
    /\ session[r] # "ended"
    /\ session' = [session EXCEPT ![r] = "ended"]
    /\ core' = [core EXCEPT ![r] = NoRoute]
    /\ reg' = [reg EXCEPT !.shut = @ \cup ({core[r].adapter} \ {0})]
    /\ kept' = Undo(r)
    /\ Event(asked)
    /\ UNCHANGED <<hubVars, gen, queue, answers, todo, duties, read, overtaken>>

-----------------------------------------------------------------------------
(* The two sweeps of the owner loop.                                       *)

\* A complete projection without the session's row ends its streams: the
\* session has ended, or its journal entry has not been read yet.
retain_sessions_present_in(r) ==
    /\ reg.streams[r] # NoStream
    /\ IF session[r] = "ended" THEN UNCHANGED asked ELSE Event(asked)
    /\ reg' = cancel_stream(reg, r)
    /\ kept' = Undo(r)
    /\ UNCHANGED <<hubVars, coreVars, queue, answers, todo, duties, read>>

\* The first half of run_inventory_reconcile_phase_progress: the epoch and the
\* bound routes are captured when the read is submitted.
SubmitRead ==
    /\ read.st = "idle" /\ asked.other < MaxAsks
    /\ read' = [NoRead EXCEPT !.st = "queued", !.epoch = reg.epoch,
                              !.ask = {r \in Routes : reg.streams[r].bound}]
    /\ queue' = Append(queue, [kind |-> "read"])
    /\ asked' = [asked EXCEPT !.other = @ + 1]
    /\ UNCHANGED <<reg, hubVars, coreVars, answers, todo, duties, kept>>

terminal_subscription_generations ==
    /\ queue # <<>> /\ Head(queue).kind = "read"
    /\ queue' = Tail(queue)
    /\ read' = [read EXCEPT !.st = "ready", !.rows = [r \in Routes |-> core[r].gen]]
    /\ UNCHANGED <<reg, hubVars, coreVars, answers, todo, duties, asked, kept>>

\* The streams the rows prove stale: Core has no owner or another generation.
StaleAgainstRead(r) ==
    LET s == reg.streams[r]
    IN  /\ s.bound /\ s.epoch <= read.epoch /\ r \in read.ask
        /\ read.rows[r] # s.gen

reconcile_inventory_slice ==
    LET stale == {r \in Routes : StaleAgainstRead(r)}
    IN  /\ read.st = "ready"
        /\ read' = NoRead
        /\ reg' = FoldSet(LAMBDA r, g : RecordDetach(cancel_stream(g, r), r), reg, stale)
        /\ UNCHANGED <<hubVars, coreVars, queue, answers, todo, duties, asked, kept>>

-----------------------------------------------------------------------------
OwnerStep ==
    \/ \E o \in Clients, r \in Routes : handle_attach(o, r)
    \/ \E g \in Grants, r \in Routes : handle_attach_webrtc(g, r)
    \/ \E o \in Owners, r \in Routes : handle_detach(o, r)
    \/ attach_done \/ reserve_webrtc_terminal \/ detach_done
    \/ \E x \in resv : \/ Elapse(x)
                       \/ emit_reservation_expired(x)
                       \/ bind_reserved_subscription(x)
    \/ bind_done
    \/ \E d \in drivers : channel_ends(d)
    \/ \E l \in retiring : retire_reserved_subscription(l)
    \/ \E o \in Clients : \E snapshot \in SUBSET told[o] : handle_connection_cleanup(o, snapshot)
    \/ \E g \in Grants : \E snapshot \in SUBSET told[g] : handle_peer_closed(g, snapshot)
    \/ apply_cleanup_reports \/ exact_detach_done
    \/ submit_obligation
    \/ \E r \in Routes : retain_sessions_present_in(r)
    \/ SubmitRead \/ reconcile_inventory_slice

CoreStep ==
    \/ attach_and_bind_on_core \/ session_registry_state
    \/ detach_route_exact_or_owned \/ cleanup_core_turn
    \/ terminal_subscription_generations
    \/ \E r \in Routes : CoreDropsClosed(r) \/ SessionEnds(r)

Next == OwnerStep \/ CoreStep

Spec == Init /\ [][Next]_vars

-----------------------------------------------------------------------------
StreamType == [owner : Owners \cup {None}, epoch : 0 .. MaxAttaches, gen : Nat,
               bound : BOOLEAN]

\* The registry, the admission tables and Core's route table keep their shape.
TypeOK ==
    /\ reg.streams \in [Routes -> StreamType]
    /\ reg.held \in [Owners -> SUBSET Routes]
    /\ reg.live \subseteq Routes
    /\ reg.shut \subseteq Epochs
    /\ conn \in [Owners -> {"open", "gone"}]
    /\ told \in [Owners -> SUBSET Routes]
    /\ \A g \in Grants : channels[g] \subseteq Epochs /\ Cardinality(channels[g]) <= ChannelLimit
    /\ \A r \in Routes : core[r].adapter \in 0 .. MaxAttaches

\* An acknowledged attachment works until somebody ends it.  A late attach,
\* detach or cleanup of an earlier attachment on the same route, another
\* owner's departure and an inventory read that was already under way all
\* leave its stream, its adapter and its Core route alone.
AttachmentKept ==
    \A e \in kept \ overtaken : \E r \in Routes :
        /\ reg.streams[r].epoch = e /\ reg.streams[r].bound
        /\ e \notin reg.shut
        /\ core[r].adapter = e /\ core[r].gen = reg.streams[r].gen

\* No work of the Hub is in flight.
Quiet == queue = <<>> /\ answers = <<>> /\ todo = <<>> /\ duties = <<>>

\* Core serves no route the Hub has forgotten: once all work is done, a route
\* with an open adapter is the one its stream is bound to.
NoOrphanRoute ==
    Quiet => \A r \in Routes :
        (core[r] # NoRoute /\ core[r].adapter \notin reg.shut) =>
            /\ reg.streams[r].bound
            /\ reg.streams[r].epoch = core[r].adapter
            /\ reg.streams[r].gen = core[r].gen

\* The route set of a connection covers every stream it owns, so the limit
\* counts them and the connection's cleanup finds them, in whatever order its
\* attaches, reattaches and detaches were answered.
RoutesHeld ==
    \A r \in Routes, o \in Owners :
        (reg.streams[r].owner = o /\ conn[o] = "open") => r \in reg.held[o]

\* When every connection has gone and the work is done nothing is left but
\* streams Core could not detach, which are closed and bound, so that the next
\* inventory read retires them.
OwnersLeaveNothing ==
    (Quiet /\ \A o \in Owners : conn[o] = "gone") =>
        /\ \A o \in Owners : reg.held[o] = {}
        /\ resv = {} /\ \A g \in Grants : channels[g] = {}
        /\ \A r \in Routes : reg.streams[r] # NoStream =>
                reg.streams[r].bound /\ reg.streams[r].epoch \in reg.shut

Binds(jobs, l) == Len(SelectSeq(jobs, LAMBDA j : j.kind = "bind" /\ j.epoch = l))

\* "A second channel for this label now finds it bound": a reservation is bound
\* at most once, so no channel's attach replaces the route of another channel
\* of the same label, whether the first bind is waiting, running or driven.
BoundOnce ==
    \A l \in Epochs :
        Binds(todo, l) + Binds(queue, l)
          + Binds([i \in 1 .. Len(duties) |-> duties[i].job], l)
          + Cardinality({d \in drivers : d.label = l}) <= 1

\* "The reservation's attachment identity fences every step": the work of an
\* attachment that was cancelled never takes or ends the Core route of an
\* acknowledged attachment.
NotDisplaced == kept \cap overtaken = {}

====
