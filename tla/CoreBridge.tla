----------------------------- MODULE CoreBridge -----------------------------
(***************************************************************************)
(* The bridge between the Hub owner thread and the data-plane thread that  *)
(* owns Core (src/data_plane/driver.rs), with the part of the owner loop   *)
(* that wakes on it (src/daemon/owner_loop.rs) and the part of the pending *)
(* request table that collects its completions (daemon/control/pending.rs).*)
(*                                                                         *)
(* Submitters (the owner, and other threads that wait on their ticket)     *)
(* queue closures in a bounded channel under the admission mutex; the data *)
(* plane runs them and publishes each result, then its identity, then a    *)
(* doorbell.  No side ever blocks on the other: every wait ends by one of  *)
(* three hand-shakes (request_pending/owner_waiting, the completion bit    *)
(* and its doorbell, the armed capacity signal), which this module splits  *)
(* into the atomic accesses the two threads interleave.                    *)
(***************************************************************************)
EXTENDS Naturals, Sequences, FiniteSets, Functions

CONSTANTS
    Reads,          \* control requests of one Core read (ReadScreen, ListSessions)
    Shutdowns,      \* ShutdownSession requests
    Backs,          \* background work with a Core read (inventory reconcile, observe)
    Clients,        \* threads that submit and wait on their own ticket
    RequestCap,     \* CORE_REQUEST_CAPACITY
    CtlCap,         \* DAEMON_CONTROL_QUEUE_CAPACITY
    MaxPhase,       \* bound: phases a waiter may use
    MaxMark         \* bound: background work is marked while below this phase

Requests == Reads \cup Shutdowns
Waiters == Requests \cup Backs
Threads == {"owner"} \cup Clients
Ids == (Waiters \cup Clients) \X (1 .. MaxPhase)

ASSUME CoreBridgeAssumption ==
    /\ RequestCap \in Nat \ {0} /\ CtlCap \in Nat \ {0}
    /\ MaxPhase \in Nat \ {0} /\ MaxMark \in Nat
    /\ IsFiniteSet(Waiters \cup Clients)

VARIABLES
    requests,       \* the bounded request channel: sequences of ticket identities
    accepting, stopping, admission,
    requestPending, \* request_pending
    ownerWaiting,   \* owner_waiting
    interrupt,      \* WakePumpControl's latched interrupt
    armed,          \* DataPlaneCapacity::armed
    wait,           \* background_signal_waits: a Seen of the capacity epoch, unmoved or moved
    rung,           \* the stored permit of OwnerSignal's doorbell
    registered, ready, nextPhase, pendingBit,     \* CoreCompletionWake
    chan,           \* the one-slot result channel of each ticket
    ticket,         \* the ticket a waiter or a client holds
    spc, sub,       \* each submitter's step, and what it submits
    dpc, dret, dcount, pub, ops, finished, ended, \* the data-plane thread
    opc, cur, oready, ctl, stage, last            \* the owner thread

queueVars == <<requests, accepting, stopping, admission>>
flagVars == <<requestPending, ownerWaiting, interrupt>>
roomVars == <<armed, wait, rung>>
wakeVars == <<registered, ready, nextPhase, pendingBit>>
ticketVars == <<chan, ticket>>
subVars == <<spc, sub>>
dpVars == <<dpc, dret, dcount, pub, ops, finished, ended>>
ownerVars == <<opc, cur, oready, ctl, stage, last>>
vars == <<queueVars, flagVars, roomVars, wakeVars, ticketVars, subVars, dpVars, ownerVars>>

NoTicket == [st |-> "none", ids |-> <<>>]
NoSub == [who |-> "none", ids |-> <<>>, seen |-> "none"]

Init ==
    /\ requests = <<>> /\ accepting = TRUE /\ stopping = FALSE /\ admission = "free"
    /\ requestPending = FALSE /\ ownerWaiting = FALSE /\ interrupt = FALSE
    /\ armed = FALSE /\ wait = [b \in Backs |-> "none"] /\ rung = FALSE
    /\ registered = {} /\ ready = {} /\ pendingBit = FALSE
    /\ nextPhase = [w \in Waiters |-> 0]
    /\ chan = [id \in Ids |-> "empty"]
    /\ ticket = [w \in Waiters \cup Clients |-> NoTicket]
    /\ spc = [t \in Threads |-> "idle"] /\ sub = [t \in Threads |-> NoSub]
    /\ dpc = "arm" /\ dret = "run" /\ dcount = 0 /\ pub = [id |-> <<>>, val |-> "empty"]
    /\ ops = {} /\ finished = {} /\ ended = FALSE
    /\ opc = "top" /\ cur = "none" /\ oready \in SUBSET Backs /\ ctl = <<>>
    /\ stage = [w \in Requests |-> "unsent"] /\ last = [w \in Waiters |-> 0]

-----------------------------------------------------------------------------
(* Submission: submit, submit_for_owner, begin_for_owner.                  *)

OwnIds(w) == {id \in registered : id[1] = w}

NewIds(w, n) == [i \in 1 .. n |-> <<w, nextPhase[w] + i>>]

\* The owner starts a submission of n phases for the waiter it is running.
\* register_phases refuses a waiter that still has a registered phase, which
\* PhaseCollectedFirst excludes; its table holds two phases of every waiter.
Register(w, n) ==
    /\ nextPhase[w] + n <= MaxPhase
    /\ registered' = registered \cup Range(NewIds(w, n))
    /\ nextPhase' = [nextPhase EXCEPT ![w] = @ + n]
    /\ spc' = [spc EXCEPT !["owner"] = "lock"]
    /\ sub' = [sub EXCEPT !["owner"] = [who |-> w, ids |-> NewIds(w, n), seen |-> "none"]]
    /\ opc' = "submit"
    /\ UNCHANGED ticket

ClientSubmit(c) ==
    /\ ticket[c].st = "none" /\ spc[c] = "idle"
    /\ spc' = [spc EXCEPT ![c] = "lock"]
    /\ sub' = [sub EXCEPT ![c] = [who |-> c, ids |-> <<<<c, 1>>>>, seen |-> "none"]]
    /\ UNCHANGED <<queueVars, flagVars, roomVars, wakeVars, ticketVars, dpVars, ownerVars>>

Lock(t) ==
    /\ spc[t] = "lock" /\ admission = "free"
    /\ admission' = t
    /\ spc' = [spc EXCEPT ![t] = "send"]
    /\ UNCHANGED <<requests, accepting, stopping, sub, flagVars, roomVars, wakeVars,
                   ticketVars, dpVars, ownerVars>>

\* The submission returns its ticket; a refusal retires the phases it registered.
Settle(t, st) ==
    LET s == sub[t] IN
    /\ ticket' = [ticket EXCEPT ![s.who] = [st |-> st, ids |-> s.ids]]
    /\ registered' = IF st = "queued" THEN registered ELSE registered \ Range(s.ids)
    /\ ready' = IF st = "queued" THEN ready ELSE ready \ Range(s.ids)
    /\ spc' = [spc EXCEPT ![t] = "idle"] /\ sub' = [sub EXCEPT ![t] = NoSub]
    /\ admission' = "free"
    /\ opc' = IF t = "owner" THEN "resume" ELSE opc

Enqueue(t) ==
    /\ Len(requests) < RequestCap
    /\ requests' = Append(requests, sub[t].ids)
    /\ spc' = [spc EXCEPT ![t] = "flag"]

SendUnchecked(t) ==
    /\ spc[t] = "send"
    /\ \/ Enqueue(t)
       \/ /\ Len(requests) = RequestCap
          /\ spc' = [spc EXCEPT ![t] = "see"] /\ UNCHANGED requests
    /\ UNCHANGED <<accepting, stopping, admission, sub, flagVars, roomVars, wakeVars,
                   ticketVars, dpVars, ownerVars>>

\* admit_request: the accepting check and the first try_send.
Send(t) ==
    /\ spc[t] = "send"
    /\ \/ /\ ~accepting
          /\ Settle(t, "lost")
          /\ UNCHANGED <<requests, nextPhase, pendingBit, chan, cur, oready, ctl, stage, last>>
       \/ /\ accepting
          /\ \/ Enqueue(t)
             \/ /\ Len(requests) = RequestCap
                /\ spc' = [spc EXCEPT ![t] = "see"] /\ UNCHANGED requests
          /\ UNCHANGED <<admission, sub, wakeVars, ticketVars, ownerVars>>
    /\ UNCHANGED <<accepting, stopping, flagVars, roomVars, dpVars>>

\* DataPlaneCapacity::try_send reads the epoch of a full queue's key.
See(t) ==
    /\ spc[t] = "see"
    /\ spc' = [spc EXCEPT ![t] = "arm"]
    /\ sub' = [sub EXCEPT ![t].seen = "seen"]
    /\ UNCHANGED <<roomVars, queueVars, flagVars, wakeVars, ticketVars, dpVars, ownerVars>>

ArmForgotten(t) ==
    /\ spc[t] = "arm"
    /\ spc' = [spc EXCEPT ![t] = "retry"]
    /\ UNCHANGED <<armed, wait, rung, sub, queueVars, flagVars, wakeVars, ticketVars, dpVars, ownerVars>>

\* ... arms the signal ...
Arm(t) ==
    /\ spc[t] = "arm"
    /\ armed' = TRUE
    /\ spc' = [spc EXCEPT ![t] = "retry"]
    /\ UNCHANGED <<wait, rung, sub, queueVars, flagVars, wakeVars, ticketVars, dpVars, ownerVars>>

\* ... and tries once more; a refused background read parks on the epoch read
\* before this attempt.
Retry(t) ==
    /\ spc[t] = "retry"
    /\ \/ /\ Enqueue(t)
          /\ UNCHANGED <<wait, admission, sub, wakeVars, ticketVars, ownerVars>>
       \/ /\ Len(requests) = RequestCap
          /\ Settle(t, "full")
          /\ wait' = [b \in Backs |-> IF b = sub[t].who THEN sub[t].seen ELSE wait[b]]
          /\ UNCHANGED <<requests, nextPhase, pendingBit, chan, cur, oready, ctl, stage, last>>
    /\ UNCHANGED <<accepting, stopping, armed, rung, flagVars, dpVars>>

FlagStore(t) ==
    /\ spc[t] = "flag"
    /\ requestPending' = TRUE
    /\ spc' = [spc EXCEPT ![t] = "swap"]
    /\ UNCHANGED <<ownerWaiting, interrupt, sub, queueVars, roomVars, wakeVars, ticketVars,
                   dpVars, ownerVars>>

WaitingSwapQuiet(t) ==
    /\ spc[t] = "swap"
    /\ ownerWaiting' = FALSE
    /\ spc' = [spc EXCEPT ![t] = "unlock"]
    /\ UNCHANGED <<requestPending, interrupt, sub, queueVars, roomVars, wakeVars, ticketVars,
                   dpVars, ownerVars>>

WaitingSwap(t) ==
    /\ spc[t] = "swap"
    /\ ownerWaiting' = FALSE
    /\ spc' = [spc EXCEPT ![t] = IF ownerWaiting THEN "interrupt" ELSE "unlock"]
    /\ UNCHANGED <<requestPending, interrupt, sub, queueVars, roomVars, wakeVars, ticketVars,
                   dpVars, ownerVars>>

Interrupt(t) ==
    /\ spc[t] = "interrupt"
    /\ interrupt' = TRUE
    /\ spc' = [spc EXCEPT ![t] = "unlock"]
    /\ UNCHANGED <<requestPending, ownerWaiting, sub, queueVars, roomVars, wakeVars, ticketVars,
                   dpVars, ownerVars>>

Unlock(t) ==
    /\ spc[t] = "unlock"
    /\ Settle(t, "queued")
    /\ UNCHANGED <<requests, accepting, stopping, flagVars, roomVars, nextPhase, pendingBit, chan,
                   dpVars, cur, oready, ctl, stage, last>>

Submission(t) ==
    \/ Lock(t) \/ Send(t) \/ See(t) \/ Arm(t) \/ Retry(t)
    \/ FlagStore(t) \/ WaitingSwap(t) \/ Interrupt(t) \/ Unlock(t)

\* CoreTicket::wait of a thread that does not serve the owner loop.
ClientWait(c) ==
    /\ ticket[c].st = "queued" /\ chan[<<c, 1>>] # "empty"
    /\ ticket' = [ticket EXCEPT ![c].st = IF chan[<<c, 1>>] = "closed" THEN "stopped" ELSE "ready"]
    /\ UNCHANGED <<chan, queueVars, flagVars, roomVars, wakeVars, subVars, dpVars, ownerVars>>

-----------------------------------------------------------------------------
(* The data-plane thread: run_loop.                                        *)

DpUnchanged == UNCHANGED <<accepting, stopping, admission, subVars, ticket, nextPhase>>

DpArmNothing ==
    /\ dpc = "arm" /\ dpc' = "check"
    /\ UNCHANGED <<requests, flagVars, roomVars, registered, ready, pendingBit, chan,
                   dret, dcount, pub, ops, finished, ended, ownerVars>>
    /\ DpUnchanged

DpArm ==
    /\ dpc = "arm"
    /\ ownerWaiting' = TRUE /\ dpc' = "check"
    /\ UNCHANGED <<requests, requestPending, interrupt, roomVars, registered, ready, pendingBit, chan,
                   dret, dcount, pub, ops, finished, ended, ownerVars>>
    /\ DpUnchanged

\* request_pending.swap(false), after the store of owner_waiting.
DpCheck ==
    /\ dpc = "check"
    /\ requestPending' = FALSE
    /\ dpc' = IF requestPending THEN "calm" ELSE "wait"
    /\ UNCHANGED <<requests, ownerWaiting, interrupt, roomVars, registered, ready, pendingBit, chan,
                   dret, dcount, pub, ops, finished, ended, ownerVars>>
    /\ DpUnchanged

DpCalm ==
    /\ dpc = "calm"
    /\ ownerWaiting' = FALSE /\ dpc' = "poll"
    /\ UNCHANGED <<requests, requestPending, interrupt, roomVars, registered, ready, pendingBit, chan,
                   dret, dcount, pub, ops, finished, ended, ownerVars>>
    /\ DpUnchanged

\* wait_pump: "poll" has a zero timeout; a blocked wait ends by an interrupt or a stop.
DpWake ==
    /\ \/ dpc = "poll"
       \/ dpc = "wait" /\ (interrupt \/ stopping)
    /\ \/ ended' = stopping /\ interrupt' = FALSE
       \/ interrupt /\ interrupt' = FALSE /\ UNCHANGED ended
    /\ dpc' = "awake"
    /\ UNCHANGED <<requests, requestPending, ownerWaiting, roomVars, registered, ready, pendingBit,
                   chan, dret, dcount, pub, ops, finished, ownerVars>>
    /\ DpUnchanged

\* A terminal wake or the watchdog ends the wait.
DpWatchdog ==
    /\ dpc = "wait" /\ dpc' = "awake"
    /\ UNCHANGED <<requests, flagVars, roomVars, registered, ready, pendingBit, chan,
                   dret, dcount, pub, ops, finished, ended, ownerVars>>
    /\ DpUnchanged

DpAwake ==
    /\ dpc = "awake"
    /\ ownerWaiting' = FALSE /\ dpc' = "run" /\ dret' = "run" /\ dcount' = 0
    /\ UNCHANGED <<requests, requestPending, interrupt, roomVars, registered, ready, pendingBit, chan,
                   pub, ops, finished, ended, ownerVars>>
    /\ DpUnchanged

\* What a Core closure may answer: a shutdown classification may find no live
\* session; a begin or a completion may fail.
Answers(ids) ==
    IF ids[1][1] \notin Shutdowns THEN {"ok"}
    ELSE IF Len(ids) = 1 THEN {"ok", "gone", "err"} ELSE {"ok", "err"}

\* run_core_requests and the drain of a stopped loop: one CoreRequest::run.
DpRun ==
    /\ dpc = "run" /\ requests # <<>> /\ dcount < RequestCap
    /\ dcount' = dcount + 1
    /\ requests' = Tail(requests)
    /\ \E v \in Answers(Head(requests)) :
         LET ids == Head(requests) begun == Len(ids) = 2 /\ v = "ok" IN
         /\ pub' = [id |-> ids[1], val |-> v]
         /\ ops' = IF begun THEN ops \cup {ids[2]} ELSE ops
         /\ registered' = IF Len(ids) = 2 /\ ~begun THEN registered \ {ids[2]} ELSE registered
    /\ dpc' = "value"
    /\ UNCHANGED <<flagVars, roomVars, ready, pendingBit, chan, dret, finished, ended, ownerVars>>
    /\ DpUnchanged

DpRanAll ==
    /\ dpc = "run" /\ (requests = <<>> \/ dcount = RequestCap)
    /\ dpc' = IF dcount > 0 \/ ended THEN "release" ELSE "finish"
    /\ dret' = "finish"
    /\ UNCHANGED <<requests, flagVars, roomVars, registered, ready, pendingBit, chan,
                   dcount, pub, ops, finished, ended, ownerVars>>
    /\ DpUnchanged

\* CoreTicketPublisher::publish, or its drop: first the result (or the closed
\* channel), ...
DpValue ==
    /\ dpc = "value"
    /\ chan' = [chan EXCEPT ![pub.id] = pub.val]
    /\ dpc' = IF pub.id[1] \in Clients THEN dret ELSE "publish"
    /\ UNCHANGED <<requests, flagVars, roomVars, registered, ready, pendingBit,
                   dret, dcount, pub, ops, finished, ended, ownerVars>>
    /\ DpUnchanged

DpPublishQuiet ==
    /\ dpc = "publish"
    /\ ready' = IF pub.id \in registered THEN ready \cup {pub.id} ELSE ready
    /\ pendingBit' = (pendingBit \/ pub.id \in registered)
    /\ dpc' = dret
    /\ UNCHANGED <<requests, flagVars, roomVars, registered, chan,
                   dret, dcount, pub, ops, finished, ended, ownerVars>>
    /\ DpUnchanged

\* ... then, under the identity lock, the identity and the completion bit, ...
DpPublish ==
    /\ dpc = "publish"
    /\ LET fresh == pub.id \in registered \ ready IN
       /\ ready' = IF fresh THEN ready \cup {pub.id} ELSE ready
       /\ pendingBit' = (pendingBit \/ fresh)
       /\ dpc' = IF fresh /\ ~pendingBit THEN "bell" ELSE dret
    /\ UNCHANGED <<requests, flagVars, roomVars, registered, chan,
                   dret, dcount, pub, ops, finished, ended, ownerVars>>
    /\ DpUnchanged

TryBell == IF Len(ctl) < CtlCap THEN Append(ctl, "bell") ELSE ctl

\* ... then the best-effort doorbell.
DpBell ==
    /\ dpc = "bell"
    /\ ctl' = TryBell
    /\ dpc' = dret
    /\ UNCHANGED <<requests, flagVars, roomVars, registered, ready, pendingBit, chan, dret, dcount,
                   pub, ops, finished, ended, opc, cur, oready, stage, last>>
    /\ DpUnchanged

\* DataPlaneCapacity::released: disarm, then move the epoch, then ring.
DpRelease ==
    /\ dpc = "release"
    /\ armed' = FALSE
    /\ dpc' = IF armed THEN "raise" ELSE "finish"
    /\ UNCHANGED <<requests, flagVars, wait, rung, registered, ready, pendingBit, chan,
                   dret, dcount, pub, ops, finished, ended, ownerVars>>
    /\ DpUnchanged

Move(seen) == IF seen = "seen" THEN "moved" ELSE seen

DpRaise ==
    /\ dpc = "raise"
    /\ wait' = [b \in Backs |-> Move(wait[b])]
    /\ sub' = [t \in Threads |-> [sub[t] EXCEPT !.seen = Move(@)]]
    /\ dpc' = "ring"
    /\ UNCHANGED <<queueVars, spc, ticket, nextPhase, flagVars, armed, rung, registered, ready,
                   pendingBit, chan, dret, dcount, pub, ops, finished, ended, ownerVars>>

DpRing ==
    /\ dpc = "ring"
    /\ rung' = TRUE /\ dpc' = "finish"
    /\ UNCHANGED <<requests, flagVars, armed, wait, registered, ready, pendingBit, chan,
                   dret, dcount, pub, ops, finished, ended, ownerVars>>
    /\ DpUnchanged

\* publish_completions.
DpFinish ==
    /\ dpc = "finish" /\ finished # {}
    /\ \E id \in finished, v \in {"ok", "err"} :
         finished' = finished \ {id} /\ pub' = [id |-> id, val |-> v]
    /\ dpc' = "value"
    /\ UNCHANGED <<requests, flagVars, roomVars, registered, ready, pendingBit, chan,
                   dret, dcount, ops, ended, ownerVars>>
    /\ DpUnchanged

\* The loop goes on, or ends: its pending publishers and its receiver drop.
DpLoop ==
    /\ dpc = "finish" /\ finished = {}
    /\ IF ended THEN dpc' = "drop" /\ dret' = "drop" ELSE dpc' = "arm" /\ UNCHANGED dret
    /\ UNCHANGED <<requests, flagVars, roomVars, registered, ready, pendingBit, chan,
                   dcount, pub, ops, finished, ended, ownerVars>>
    /\ DpUnchanged

DpDrop ==
    /\ dpc = "drop"
    /\ \/ /\ \E id \in ops : pub' = [id |-> id, val |-> "closed"] /\ ops' = ops \ {id}
          /\ dpc' = "value"
       \/ /\ ops = {}
          /\ dpc' = "dead" /\ UNCHANGED <<ops, pub>>
    /\ UNCHANGED <<requests, flagVars, roomVars, registered, ready, pendingBit, chan,
                   dret, dcount, finished, ended, ownerVars>>
    /\ DpUnchanged

\* Core finishes an operation it began, and wakes its pump.
CoreFinish ==
    /\ dret # "drop"
    /\ \E id \in ops : ops' = ops \ {id} /\ finished' = finished \cup {id}
    /\ interrupt' = TRUE
    /\ UNCHANGED <<requests, requestPending, ownerWaiting, roomVars, registered, ready, pendingBit,
                   chan, dpc, dret, dcount, pub, ended, ownerVars>>
    /\ DpUnchanged

DataPlane ==
    \/ DpArm \/ DpCheck \/ DpCalm \/ DpWake \/ DpAwake \/ DpRun \/ DpRanAll
    \/ DpValue \/ DpPublish \/ DpBell \/ DpRelease \/ DpRaise \/ DpRing \/ DpFinish \/ DpLoop \/ DpDrop

-----------------------------------------------------------------------------
(* The owner thread: serve_daemon_inner's loop, absorb_core_completions,   *)
(* poll_ready_request_item, and the handlers of the requests in Requests.  *)

OwnerUnchanged == UNCHANGED <<requests, accepting, stopping, admission, flagVars, armed, dpVars>>

\* A client's request enters the control channel.
SendRequest(w) ==
    /\ stage[w] = "unsent" /\ Len(ctl) < CtlCap
    /\ ctl' = Append(ctl, w) /\ stage' = [stage EXCEPT ![w] = "sent"]
    /\ UNCHANGED <<queueVars, flagVars, roomVars, wakeVars, ticketVars, subVars, dpVars,
                   opc, cur, oready, last>>

\* publish_completion_wakes: parked work whose epoch moved, ...
MarkSignaled ==
    /\ opc = "top"
    /\ oready' = oready \cup {b \in Backs : wait[b] = "moved"}
    /\ wait' = [b \in Backs |-> IF wait[b] = "moved" THEN "none" ELSE wait[b]]
    /\ opc' = "bit"
    /\ UNCHANGED <<rung, wakeVars, ticketVars, subVars, cur, ctl, stage, last>>
    /\ OwnerUnchanged

\* ... then the completion bit.
TakeBit ==
    /\ opc = "bit"
    /\ pendingBit' = FALSE
    /\ oready' = IF pendingBit THEN oready \cup {"core"} ELSE oready
    /\ opc' = "recv"
    /\ UNCHANGED <<wait, rung, registered, ready, nextPhase, ticketVars, subVars, cur, ctl, stage,
                   last>>
    /\ OwnerUnchanged

\* enqueue_control_message: a request becomes a ready item; a doorbell's item does nothing.
Receive ==
    /\ ctl' = Tail(ctl)
    /\ oready' = oready \cup ({Head(ctl)} \cap Requests)
    /\ stage' = [w \in Requests |-> IF w = Head(ctl) THEN "queued" ELSE stage[w]]
    /\ opc' = "turn"

TryRecv ==
    /\ opc = "recv"
    /\ \/ ctl # <<>> /\ Receive
       \/ /\ ctl = <<>>
          /\ opc' = IF oready = {} THEN "block" ELSE "turn"
          /\ UNCHANGED <<ctl, oready, stage>>
    /\ UNCHANGED <<wait, rung, wakeVars, ticketVars, subVars, cur, last>>
    /\ OwnerUnchanged

\* receive_owner_event: the biased select of the control channel and the doorbell.
Block ==
    /\ opc = "block"
    /\ \/ ctl # <<>> /\ Receive /\ UNCHANGED rung
       \/ ctl = <<>> /\ rung /\ rung' = FALSE /\ opc' = "turn" /\ UNCHANGED <<ctl, oready, stage>>
    /\ UNCHANGED <<wait, wakeVars, ticketVars, subVars, cur, last>>
    /\ OwnerUnchanged

EndTurn ==
    /\ opc = "turn" /\ opc' = "top"
    /\ UNCHANGED <<wait, rung, wakeVars, ticketVars, subVars, cur, oready, ctl, stage, last>>
    /\ OwnerUnchanged

AcceptedNext(id) == id[2] = last[id[1]] + 1

\* absorb_core_completions wants the next phase of a request, a newer phase of
\* background work.
Accepted(id) ==
    IF id[1] \in Backs THEN id[2] > last[id[1]] ELSE id[2] = last[id[1]] + 1

Live(w) == w \in Backs \/ stage[w] \in {"pending", "classify", "begin", "complete", "recover"}

\* The ready identities, each waiter's lowest phase first.
First == {id \in ready : \A o \in ready : o[1] = id[1] => id[2] <= o[2]}

\* BackgroundWork::CoreCompletion: take_identities(1) clears or keeps the bit,
\* and the absorbed identity marks its waiter.
AbsorbCore ==
    /\ opc = "turn" /\ "core" \in oready
    /\ \/ /\ ready = {}
          /\ pendingBit' = FALSE
          /\ oready' = oready \ {"core"}
          /\ UNCHANGED <<registered, ready, ctl, last>>
       \/ \E id \in First :
            /\ pendingBit' = (ready # {id})
            /\ ctl' = IF ready # {id} /\ ~pendingBit THEN TryBell ELSE ctl
            /\ registered' = registered \ {id} /\ ready' = ready \ {id}
            /\ IF Live(id[1]) /\ Accepted(id)
               THEN oready' = oready \cup {id[1]} /\ last' = [last EXCEPT ![id[1]] = id[2]]
               ELSE UNCHANGED <<oready, last>>
    /\ UNCHANGED <<wait, rung, nextPhase, ticketVars, subVars, opc, cur, stage>>
    /\ OwnerUnchanged

\* The turn's budget is spent: the identity is restored and the item marked again.
RestoreCore ==
    /\ opc = "turn" /\ "core" \in oready /\ ready # {}
    /\ pendingBit' = TRUE
    /\ ctl' = IF pendingBit THEN ctl ELSE TryBell
    /\ UNCHANGED <<wait, rung, registered, ready, nextPhase, ticketVars, subVars, opc, cur, oready,
                   stage, last>>
    /\ OwnerUnchanged

\* handle_as for a queued request, and the first half of a background slice:
\* the handler submits its Core read.
Start(w) ==
    /\ opc = "turn" /\ w \in oready
    /\ \/ w \in Requests /\ stage[w] = "queued"
       \/ w \in Backs /\ ticket[w].st = "none"
    /\ oready' = oready \ {w} /\ cur' = w
    /\ Register(w, 1)
    /\ UNCHANGED <<wait, rung, ready, pendingBit, chan, ctl, stage, last>>
    /\ OwnerUnchanged

\* The submission returned: admit the request, park the background work on a
\* full queue, or go on polling the stage it started.
NextStage == [queued |-> "classify", classify |-> "begin", complete |-> "recover"]

Resume ==
    /\ opc = "resume"
    /\ \/ /\ cur \in Backs
          /\ ticket' = [ticket EXCEPT ![cur] = IF @.st = "full" THEN NoTicket ELSE @]
          /\ opc' = "turn" /\ UNCHANGED <<oready, stage>>
       \/ /\ cur \in Requests
          /\ stage' = [stage EXCEPT ![cur] = IF cur \in Reads THEN "pending" ELSE NextStage[@]]
          /\ oready' = IF stage[cur] = "queued" THEN oready \cup {cur} ELSE oready
          /\ opc' = IF stage[cur] = "queued" THEN "turn" ELSE "poll"
          /\ UNCHANGED ticket
    /\ UNCHANGED <<wait, rung, wakeVars, chan, subVars, cur, ctl, last>>
    /\ OwnerUnchanged

Received(id) ==
    CASE chan[id] = "empty" -> "pending" [] chan[id] = "closed" -> "lost" [] OTHER -> chan[id]

PollEager(w, i) ==
    LET t == ticket[w] IN
    CASE t.st = "full" -> "refused" [] t.st = "lost" -> "lost" [] OTHER -> Received(t.ids[i])

\* CoreTicket::poll of phase i of the ticket w holds.
Poll(w, i) ==
    LET t == ticket[w] IN
    CASE t.st = "full" -> "refused"
      [] t.st = "lost" -> "lost"
      [] OTHER -> IF t.ids[i] \in registered THEN "pending" ELSE Received(t.ids[i])

\* The phase a pending request waits for.
Awaited(w) == IF w \in Requests /\ stage[w] = "complete" THEN 2 ELSE 1

PollItem(w) ==
    /\ opc = "turn" /\ w \in oready \cap Requests /\ stage[w] # "queued"
    /\ oready' = oready \ {w} /\ cur' = w /\ opc' = "poll"
    /\ UNCHANGED <<wait, rung, wakeVars, ticketVars, subVars, ctl, stage, last>>
    /\ OwnerUnchanged

\* finish: the reply is sent and the waiter's phases are retired.
Answer(w) ==
    /\ stage' = [stage EXCEPT ![w] = "answered"]
    /\ ticket' = [ticket EXCEPT ![w] = NoTicket]
    /\ registered' = registered \ OwnIds(w) /\ ready' = ready \ OwnIds(w)
    /\ nextPhase' = [nextPhase EXCEPT ![w] = 0]
    /\ opc' = "turn"
    /\ UNCHANGED <<spc, sub>>

\* The continuation of handle_shutdown_session (and of a plain read).
Continue ==
    /\ opc = "poll"
    /\ LET w == cur r == Poll(w, Awaited(w)) IN
       \/ /\ r = "pending" /\ opc' = "turn"
          /\ UNCHANGED <<stage, ticket, registered, ready, nextPhase, spc, sub>>
       \/ /\ r # "pending"
          /\ \/ stage[w] \in {"pending", "recover"}
             \/ stage[w] = "classify" /\ r = "gone"
             \/ stage[w] = "begin" /\ r # "ok"
             \/ stage[w] = "complete" /\ r \in {"ok", "lost"}
          /\ Answer(w)
       \/ /\ stage[w] = "begin" /\ r = "ok"
          /\ stage' = [stage EXCEPT ![w] = "complete"]
          /\ UNCHANGED <<opc, ticket, registered, ready, nextPhase, spc, sub>>
       \/ /\ stage[w] = "classify" /\ r \in {"ok", "err", "lost", "refused"}
          /\ Register(w, 2) /\ UNCHANGED <<stage, ready>>
       \/ /\ stage[w] = "complete" /\ r = "err"
          /\ Register(w, 1) /\ UNCHANGED <<stage, ready>>
    /\ UNCHANGED <<wait, rung, pendingBit, chan, cur, oready, ctl, last>>
    /\ OwnerUnchanged

\* The second half of a background slice: its read is applied, or waited for.
PollBack(b) ==
    /\ opc = "turn" /\ b \in oready \cap Backs /\ ticket[b].st # "none"
    /\ oready' = oready \ {b}
    /\ ticket' = IF Poll(b, 1) = "pending" THEN ticket ELSE [ticket EXCEPT ![b] = NoTicket]
    /\ UNCHANGED <<wait, rung, wakeVars, chan, subVars, opc, cur, ctl, stage, last>>
    /\ OwnerUnchanged

\* mark_pump_ready: a finished request or data-plane progress marks the background work.
PumpMark(b) ==
    /\ opc = "turn" /\ b \notin oready /\ nextPhase[b] < MaxMark
    /\ oready' = oready \cup {b}
    /\ UNCHANGED <<wait, rung, wakeVars, ticketVars, subVars, opc, cur, ctl, stage, last>>
    /\ OwnerUnchanged

\* retire: a read is abandoned when its client leaves or its deadline passes.
RetireRead(w) ==
    /\ opc = "turn" /\ stage[w] = "pending"
    /\ stage' = [stage EXCEPT ![w] = "retired"]
    /\ ticket' = [ticket EXCEPT ![w] = NoTicket]
    /\ registered' = registered \ OwnIds(w) /\ ready' = ready \ OwnIds(w)
    /\ nextPhase' = [nextPhase EXCEPT ![w] = 0]
    /\ oready' = oready \ {w}
    /\ UNCHANGED <<wait, rung, pendingBit, chan, subVars, opc, cur, ctl, last>>
    /\ OwnerUnchanged

\* A Shutdown message ends the loop, and daemon.stop() reaches stop_and_join.
OwnerStop ==
    /\ opc \in {"block", "turn"} /\ admission = "free"
    /\ accepting' = FALSE /\ stopping' = TRUE /\ opc' = "ended"
    /\ UNCHANGED <<requests, admission, flagVars, roomVars, wakeVars, ticketVars, subVars, dpVars,
                   cur, oready, ctl, stage, last>>

Items(w) == Start(w) \/ PollItem(w) \/ PollBack(w)

Loop == MarkSignaled \/ TakeBit \/ TryRecv \/ Block \/ EndTurn \/ Resume \/ Continue

Next ==
    \/ DataPlane \/ DpWatchdog \/ CoreFinish
    \/ Loop \/ AbsorbCore \/ RestoreCore \/ OwnerStop
    \/ \E t \in Threads : Submission(t)
    \/ \E w \in Waiters : Items(w)
    \/ \E w \in Requests : SendRequest(w)
    \/ \E b \in Backs : PumpMark(b)
    \/ \E w \in Reads : RetireRead(w)
    \/ \E c \in Clients : ClientSubmit(c) \/ ClientWait(c)

Spec == Init /\ [][Next]_vars

\* Both threads keep running; pop_next serves every marked item in turn; Core
\* finishes what it began.  No wake relies on the watchdog.
Fairness ==
    /\ WF_vars(DataPlane) /\ WF_vars(CoreFinish) /\ WF_vars(Loop)
    /\ SF_vars(AbsorbCore)
    /\ \A t \in Threads : SF_vars(Lock(t)) /\ WF_vars(Submission(t))
    /\ \A w \in Waiters : SF_vars(Items(w))
    /\ \A c \in Clients : WF_vars(ClientWait(c))

FairSpec == Spec /\ Fairness

-----------------------------------------------------------------------------
TicketStates == {"none", "queued", "full", "lost", "stopped", "ready"}
Stages == {"unsent", "sent", "queued", "pending", "classify", "begin", "complete", "recover",
           "answered", "retired"}
Epochs == {"none", "seen", "moved"}

\* Every variable keeps its type, and neither bounded channel exceeds its capacity.
TypeOK ==
    /\ requests \in Seq(Seq(Ids)) /\ Len(requests) <= RequestCap
    /\ Len(ctl) <= CtlCap /\ Range(ctl) \subseteq Requests \cup {"bell"}
    /\ {accepting, stopping, requestPending, ownerWaiting, interrupt, armed, rung, pendingBit, ended}
         \subseteq BOOLEAN
    /\ admission \in Threads \cup {"free"}
    /\ wait \in [Backs -> Epochs]
    /\ registered \subseteq Ids /\ ready \subseteq registered
    /\ nextPhase \in [Waiters -> 0 .. MaxPhase] /\ last \in [Waiters -> 0 .. MaxPhase]
    /\ chan \in [Ids -> {"empty", "ok", "err", "gone", "closed"}]
    /\ \A w \in Waiters \cup Clients : ticket[w].st \in TicketStates /\ ticket[w].ids \in Seq(Ids)
    /\ \A t \in Threads : sub[t].ids \in Seq(Ids) /\ sub[t].seen \in Epochs
    /\ ops \subseteq Ids /\ finished \subseteq Ids /\ dcount \in 0 .. RequestCap
    /\ stage \in [Requests -> Stages] /\ oready \subseteq Waiters \cup {"core"}

Interrupting(t) == spc[t] = "interrupt" \/ (spc[t] \in {"flag", "swap"} /\ ownerWaiting)

\* request_pending and owner_waiting lose no submission: while a request is
\* queued the data plane is not asleep in wait_pump, unless its interrupt is
\* latched or a submitter is about to raise it.  The watchdog is never needed.
RequestNotStranded ==
    dpc = "wait" /\ requests # <<>> =>
        interrupt \/ stopping \/ \E t \in Threads : Interrupting(t)

\* The owner does not sleep in receive_owner_event over a published completion
\* or a moved capacity epoch: its doorbell is stored, in the channel, or about
\* to be rung.
OwnerNotStranded ==
    opc = "block" /\ ctl = <<>> /\ ~rung =>
        /\ ready # {} => dpc = "bell"
        /\ (\E b \in Backs : wait[b] = "moved") => dpc = "ring"

\* A handler starts a new Core phase only after the owner collected the last
\* one: no submission finds its waiter still registered (and is refused).
PhaseCollectedFirst ==
    /\ \A b \in Backs : ticket[b].st = "none" /\ opc = "turn" => OwnIds(b) = {}
    /\ opc = "poll" /\ stage[cur] \in {"classify", "complete"} /\ Poll(cur, Awaited(cur)) # "pending"
         => OwnIds(cur) = {}

AwaitedId(w) == ticket[w].ids[Awaited(w)]

\* A request or background read whose awaited phase the owner collected is
\* marked ready, so its continuation is polled and the reply goes out.
CollectedIsPolled ==
    \A w \in Waiters :
        ~(cur = w /\ opc \in {"submit", "resume", "poll"}) /\ opc # "ended" =>
            (Live(w) /\ ticket[w].st = "queued" /\ AwaitedId(w) \notin registered => w \in oready)

\* What admission accepted is run: when the data-plane thread has stopped,
\* every queued submission of a waiting thread has its value, none is Lost.
AcceptedIsRun ==
    dpc = "dead" => \A c \in Clients : ticket[c].st \in {"queued", "ready"} =>
                        chan[<<c, 1>>] \notin {"empty", "closed"}

\* Every control request that reached the owner is answered or retired, or
\* the daemon stops.
RequestsAnswered ==
    \A w \in Requests : stage[w] = "sent" ~> stage[w] \in {"answered", "retired"} \/ opc = "ended"

\* Background work refused by a full queue runs again.
RefusedRunsAgain == \A b \in Backs : wait[b] # "none" ~> wait[b] = "none" \/ opc = "ended"

=============================================================================
