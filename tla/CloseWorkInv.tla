-------------------------- MODULE CloseWorkInv -----------------------------
(***************************************************************************)
(* Safety of CloseWork for any number of routes and sessions and any        *)
(* capacities.  The inductive invariant IInv follows a close report on its  *)
(* way: which routes the registry still knows, how far the hook of a route  *)
(* has run when its key is in the channel or in a batch, what the data      *)
(* plane's turn has decided of the current route, and why a route that a    *)
(* Detach or a session's end silenced can never reach that point.           *)
(***************************************************************************)
EXTENDS CloseWork, SequenceTheorems, TLAPS

\* A key stays known to the registry until its route is retired.
RegistryInv ==
  /\ hook \subseteq registry \cup retired
  /\ routes \subseteq registry \cup retired
  /\ opc = "hook" => oarg \subseteq registry \cup retired
  /\ opc = "suppress" => oarg \subseteq retired

\* The hook of r ran past its compare_exchange, so what it recorded stands.
Sent(r) ==
  /\ cpc[r] \in {"send", "done"} /\ r \in hook
  /\ recorded[r] = Reason(adapter[r]) /\ adapter[r] \in Causes

HookInv ==
  \A r \in Routes :
    /\ cpc[r] \in {"check", "mark", "send"} => r \in hook /\ adapter[r] \in Causes
    /\ adapter[r] \in {"none", "bound"} => cpc[r] = "idle"
    /\ (cpc[r] = "send" \/ r \in queued \/ InSeq(r, channel) \/ InSeq(r, batch)
        \/ r \in reported)
         => Sent(r)

\* One turn of the data plane.  While it handles a batch Core does not run.
PlaneInv ==
  /\ dpc = "pump" => batch = <<>>
  /\ dpc \in {"recv", "swap", "walk", "any"} => \A r \in seen : InSeq(r, batch)
  /\ dpc \in {"walk", "any"} => walk \subseteq registry
  /\ dpc \in {"requeue", "emit", "quiet", "ledger", "push", "retire"} => batch # <<>>
  /\ dpc = "quiet" => recorded[cur] # "lost"
  /\ dpc \in {"emit", "ledger", "push"} =>
       recorded[cur] = "lost" \/ session[SessionOf[cur]] = "running"
  /\ dpc = "push" => adapter[cur] # "detach"

\* A Detach suppresses its route from before Core is asked until it fails.
DetachInv ==
  \A r \in Routes :
    /\ detach[r] \in {"asked", "ok", "err", "ended"} => r \in suppressed
    /\ adapter[r] = "detach" => detach[r] \in {"ok", "ended"}

\* A route that was open when its session was suppressed is never queued.
MutedInv ==
  \A r \in muted :
    /\ r \in retired /\ r \notin queued /\ cpc[r] \notin {"mark", "send"}
    /\ ~InSeq(r, channel) /\ ~InSeq(r, batch)

EventInv ==
  \A i \in 1..Len(events) :
    adapter[events[i].route] \in Reasons /\ events[i].route \notin muted

Excused(r) == HasEvent(r) \/ r \in suppressed \/ detach[r] = "refused"

LostInv ==
  \A r \in Routes : recorded[r] = "lost" =>
    /\ r \in reported => Excused(r)
    /\ r \notin queued /\ ~Reporting(r) => Excused(r)

IInv ==
  /\ TypeOK /\ RegistryInv /\ HookInv /\ PlaneInv /\ DetachInv /\ MutedInv
  /\ EventInv /\ LostInv /\ CloseNotDropped
----------------------------------------------------------------------------
(* Keys in a queue.                                                         *)

\* The empty channel holds no key.
LEMMA NoneIn == \A r : ~InSeq(r, <<>>)
BY DEF InSeq

\* A key put at the end of a queue is in it, and no other key comes or goes.
LEMMA Appended ==
  ASSUME NEW q \in Seq(Routes), NEW x \in Routes
  PROVE  /\ Append(q, x) \in Seq(Routes) /\ Len(Append(q, x)) = Len(q) + 1
         /\ \A r : InSeq(r, Append(q, x)) <=> InSeq(r, q) \/ r = x
<1>1. /\ Append(q, x) \in Seq(Routes) /\ Len(Append(q, x)) = Len(q) + 1
      /\ Append(q, x)[Len(q) + 1] = x
      /\ \A i \in 1..Len(q) : Append(q, x)[i] = q[i]
  BY AppendProperties
<1>2. Len(q) \in Nat
  BY LenProperties
<1>3. ASSUME NEW r
      PROVE  InSeq(r, Append(q, x)) <=> InSeq(r, q) \/ r = x
  BY <1>1, <1>2 DEF InSeq
<1> QED  BY <1>1, <1>3

\* Taking the first key of a queue takes no other.
LEMMA Shortened ==
  ASSUME NEW q \in Seq(Routes), q # <<>>
  PROVE  /\ Head(q) \in Routes /\ Tail(q) \in Seq(Routes)
         /\ Len(q) \in Nat /\ Len(Tail(q)) \in Nat /\ Len(Tail(q)) < Len(q)
         /\ InSeq(Head(q), q)
         /\ \A r : InSeq(r, q) <=> r = Head(q) \/ InSeq(r, Tail(q))
<1>1. /\ Head(q) \in Routes /\ Tail(q) \in Seq(Routes)
      /\ Len(Tail(q)) = Len(q) - 1
      /\ \A i \in 1..Len(Tail(q)) : Tail(q)[i] = q[i + 1]
  BY HeadTailProperties
<1>2. Len(q) \in Nat \ {0} /\ Head(q) = q[1]
  BY EmptySeq
<1>3. ASSUME NEW r
      PROVE  InSeq(r, q) <=> r = Head(q) \/ InSeq(r, Tail(q))
  <2>1. ASSUME InSeq(r, q), r # Head(q) PROVE InSeq(r, Tail(q))
    <3>1. PICK i \in 1..Len(q) : q[i] = r
      BY <2>1 DEF InSeq
    <3>2. i - 1 \in 1..Len(Tail(q)) /\ Tail(q)[i - 1] = r
      BY <1>1, <1>2, <2>1, <3>1
    <3> QED  BY <3>2 DEF InSeq
  <2>2. InSeq(Head(q), q)
    BY <1>2 DEF InSeq
  <2>3. ASSUME InSeq(r, Tail(q)) PROVE InSeq(r, q)
    <3>1. PICK i \in 1..Len(Tail(q)) : Tail(q)[i] = r
      BY <2>3 DEF InSeq
    <3>2. i + 1 \in 1..Len(q) /\ q[i + 1] = r
      BY <1>1, <1>2, <3>1
    <3> QED  BY <3>2 DEF InSeq
  <2> QED  BY <2>1, <2>2, <2>3
<1>4. InSeq(Head(q), q)
  BY <1>2 DEF InSeq
<1> QED  BY <1>1, <1>2, <1>3, <1>4

\* A key in a queue of routes is a route.
LEMMA KeyIsRoute ==
  ASSUME NEW q \in Seq(Routes), NEW r, InSeq(r, q)
  PROVE  r \in Routes /\ q # <<>>
BY ElementOfSeq DEF InSeq

\* An event names a route.
LEMMA EventTyped ==
  ASSUME IInv, NEW i \in 1..Len(events)
  PROVE  events[i].route \in Routes
<1>1. events \in Seq([route : Routes, reason : Reasons])
  BY DEF IInv, TypeOK
<1>2. events[i] \in [route : Routes, reason : Reasons]
  BY <1>1, ElementOfSeq, Zenon
<1> QED  BY <1>2

\* The route a batch begins with has its cause recorded.
LEMMA CurSent ==
  ASSUME IInv, batch # <<>>
  PROVE  cur \in Routes /\ InSeq(cur, batch) /\ Sent(cur)
<1>1. cur \in Routes /\ InSeq(cur, batch)
  BY Shortened DEF IInv, TypeOK, cur
<1> QED  BY <1>1 DEF IInv, HookInv

\* try_send puts the key behind the others, or leaves the overflow mark.
LEMMA TrySent ==
  ASSUME IInv, NEW r \in Routes, TrySend(r)
  PROVE  /\ registry' = registry
         /\ channel' \in Seq(Routes) /\ Len(channel') <= Capacity
         /\ \A x : InSeq(x, channel') => InSeq(x, channel) \/ x = r
         /\ \A x : InSeq(x, channel) => InSeq(x, channel')
         /\ InSeq(r, channel') \/ overflow'
         /\ overflow => overflow'
         /\ overflow' \in BOOLEAN
<1>1. channel \in Seq(Routes) /\ Len(channel) \in Nat /\ Len(channel) <= Capacity
      /\ overflow \in BOOLEAN
  BY LenProperties DEF IInv, TypeOK
<1>2. CASE Len(channel) < Capacity
  <2>1. channel' = Append(channel, r) /\ UNCHANGED <<registry, overflow>>
    BY <1>2 DEF TrySend
  <2>2. /\ channel' \in Seq(Routes) /\ Len(channel') = Len(channel) + 1
        /\ \A x : InSeq(x, channel') <=> InSeq(x, channel) \/ x = r
    BY <1>1, <2>1, Appended
  <2> QED  BY <1>1, <1>2, <2>1, <2>2, CloseWorkAssumption
<1>3. CASE ~(Len(channel) < Capacity)
  BY <1>1, <1>3 DEF TrySend
<1> QED  BY <1>2, <1>3

\* Admitting a key adds it to the batch, unless it is there or retired.
LEMMA Admitted ==
  ASSUME IInv, NEW r \in Routes, Admit(r), Len(batch) < MaxKeys
  PROVE  /\ batch' \in Seq(Routes) /\ Len(batch') <= MaxKeys /\ seen' \subseteq Routes
         /\ \A x : InSeq(x, batch') => InSeq(x, batch) \/ x = r
         /\ \A x : InSeq(x, batch) => InSeq(x, batch')
         /\ InSeq(r, batch') \/ r \in retired \/ r \in seen
         /\ \A x \in seen' : x \in seen \/ InSeq(x, batch')
<1>1. batch \in Seq(Routes) /\ Len(batch) \in Nat /\ seen \subseteq Routes
  BY LenProperties DEF IInv, TypeOK
<1>2. CASE r \notin retired /\ r \notin seen
  <2>1. batch' = Append(batch, r) /\ seen' = seen \cup {r}
    BY <1>2 DEF Admit
  <2>2. /\ batch' \in Seq(Routes) /\ Len(batch') = Len(batch) + 1
        /\ \A x : InSeq(x, batch') <=> InSeq(x, batch) \/ x = r
    BY <1>1, <2>1, Appended
  <2> QED  BY <1>1, <1>2, <2>1, <2>2, CloseWorkAssumption
<1>3. CASE ~(r \notin retired /\ r \notin seen)
  BY <1>1, <1>3, CloseWorkAssumption DEF Admit
<1> QED  BY <1>2, <1>3

----------------------------------------------------------------------------
(* The steps of the closers, of Core and of the owner preserve IInv.        *)

\* The host closes an adapter: the commit, with or without a hook to run.
LEMMA CloseHostKeeps ==
  ASSUME IInv, NEW r \in Routes, CloseHost(r)
  PROVE  IInv'
<1> USE CloseWorkAssumption DEF CloseHost, Commit, coreVars, stateVars, sourceVars,
   ledger, planeVars, ownerVars
<1>1. (RegistryInv /\ LostInv)'
  BY DEF IInv, RegistryInv, LostInv, Excused, HasEvent, Reporting, cur
<1>2. TypeOK'
  BY DEF IInv, TypeOK, Causes
<1>3. HookInv'
  BY DEF IInv, TypeOK, HookInv, Sent, Causes, RegistryInv, Reason, Reasons
<1>4. PlaneInv'
  BY DEF IInv, TypeOK, PlaneInv, cur, HookInv, Sent, DetachInv, Reason, Causes, Reasons
<1>5. DetachInv'
  BY DEF IInv, TypeOK, DetachInv
<1>6. MutedInv'
  BY DEF IInv, TypeOK, MutedInv, HookInv, Sent, RegistryInv
<1>7. EventInv'
  BY DEF IInv, TypeOK, EventInv, HookInv, Reason, Causes, Reasons
<1>8. CloseNotDropped'
  BY DEF IInv, TypeOK, CloseNotDropped, RegistryInv, PlaneInv, HookInv, Sent
<1> HIDE DEF CloseHost
<1> QED  BY <1>1, <1>2, <1>3, <1>4, <1>5, <1>6, <1>7, <1>8 DEF IInv

\* close_all commits the close of every registered open adapter.
LEMMA CloseAllKeeps ==
  ASSUME IInv, CloseAll
  PROVE  IInv'
<1> USE CloseWorkAssumption DEF CloseAll, coreVars, stateVars, sourceVars, ledger,
   planeVars, ownerVars
<1>1. (LostInv)'
  BY DEF IInv, LostInv, Excused, HasEvent, Reporting, cur
<1>2. TypeOK'
  BY DEF IInv, TypeOK, Causes
<1>3. RegistryInv'
  BY DEF IInv, TypeOK, RegistryInv
<1>4. HookInv'
  BY DEF IInv, TypeOK, HookInv, Sent, Causes, RegistryInv, Reason, Reasons
<1>5. PlaneInv'
  BY DEF IInv, TypeOK, PlaneInv, cur, HookInv, Sent, DetachInv, Reason, Causes, Reasons
<1>6. DetachInv'
  BY DEF IInv, TypeOK, DetachInv
<1>7. MutedInv'
  BY DEF IInv, TypeOK, MutedInv, HookInv, Sent, RegistryInv
<1>8. EventInv'
  BY EventTyped DEF IInv, TypeOK, EventInv, HookInv, Causes, Reasons
<1>9. CloseNotDropped'
  BY DEF IInv, TypeOK, CloseNotDropped, RegistryInv, PlaneInv, HookInv, Sent
<1> HIDE DEF CloseAll
<1> QED  BY <1>1, <1>2, <1>3, <1>4, <1>5, <1>6, <1>7, <1>8, <1>9 DEF IInv

\* attach_and_bind: a bound adapter has run no hook.
LEMMA CoreBindKeeps ==
  ASSUME IInv, NEW r \in Routes, CoreBind(r)
  PROVE  IInv'
<1> USE CloseWorkAssumption DEF CoreBind, InCore, coreVars, stateVars, sourceVars,
   ledger, planeVars, ownerVars
<1>1. (RegistryInv /\ MutedInv /\ LostInv /\ CloseNotDropped)'
  BY DEF IInv, RegistryInv, MutedInv, LostInv, Excused, HasEvent, Reporting, cur,
     CloseNotDropped
<1>2. TypeOK'
  BY DEF IInv, TypeOK, Causes
<1>3. HookInv'
  BY DEF IInv, TypeOK, HookInv, Sent, Causes, RegistryInv, Reason, Reasons
<1>4. PlaneInv'
  BY DEF IInv, TypeOK, PlaneInv, cur, HookInv, Sent, DetachInv, Reason, Causes, Reasons
<1>5. DetachInv'
  BY DEF IInv, TypeOK, DetachInv
<1>6. EventInv'
  BY DEF IInv, TypeOK, EventInv, HookInv, Reason, Causes, Reasons
<1> HIDE DEF CoreBind
<1> QED  BY <1>1, <1>2, <1>3, <1>4, <1>5, <1>6 DEF IInv

\* Core closes an adapter, for itself or for a lost worker.
LEMMA CoreCloseKeeps ==
  ASSUME IInv, NEW r \in Routes, NEW c \in {"core", "lost"}, CoreClose(r, c)
  PROVE  IInv'
<1> USE CloseWorkAssumption DEF CoreClose, InCore, Commit, coreVars, stateVars,
   sourceVars, ledger, planeVars, ownerVars
<1>1. (RegistryInv /\ LostInv)'
  BY DEF IInv, RegistryInv, LostInv, Excused, HasEvent, Reporting, cur
<1>2. TypeOK'
  BY DEF IInv, TypeOK, Causes
<1>3. HookInv'
  BY DEF IInv, TypeOK, HookInv, Sent, Causes, RegistryInv, Reason, Reasons
<1>4. PlaneInv'
  BY DEF IInv, TypeOK, PlaneInv, cur, HookInv, Sent, DetachInv, Reason, Causes, Reasons
<1>5. DetachInv'
  BY DEF IInv, TypeOK, DetachInv
<1>6. MutedInv'
  BY DEF IInv, TypeOK, MutedInv, HookInv, Sent, RegistryInv
<1>7. EventInv'
  BY DEF IInv, TypeOK, EventInv, HookInv, Reason, Causes, Reasons
<1>8. CloseNotDropped'
  BY DEF IInv, TypeOK, CloseNotDropped, RegistryInv, PlaneInv, HookInv, Sent
<1> HIDE DEF CoreClose
<1> QED  BY <1>1, <1>2, <1>3, <1>4, <1>5, <1>6, <1>7, <1>8 DEF IInv

\* Core ends or removes a session only in "pump", between two batches, so
\* the session a batch found running is still running when it is reported.
LEMMA CoreSessionKeeps ==
  ASSUME IInv, NEW s \in Sessions, CoreSession(s)
  PROVE  IInv'
<1> USE CloseWorkAssumption DEF CoreSession, InCore, coreVars, stateVars, sourceVars,
   ledger, planeVars, ownerVars
<1>1. (RegistryInv /\ HookInv /\ DetachInv /\ MutedInv /\ EventInv /\ LostInv /\ CloseNotDropped)'
  BY DEF IInv, RegistryInv, HookInv, Sent, DetachInv, MutedInv, EventInv, LostInv,
     Excused, HasEvent, Reporting, cur, CloseNotDropped
<1>2. TypeOK'
  BY DEF IInv, TypeOK
<1>3. PlaneInv'
  BY DEF IInv, TypeOK, PlaneInv, cur, HookInv, Sent, DetachInv, Reason, Causes, Reasons
<1> HIDE DEF CoreSession
<1> QED  BY <1>1, <1>2, <1>3 DEF IInv

\* Core runs a Detach: the route it closes was suppressed before.
LEMMA CoreDetachKeeps ==
  ASSUME IInv, NEW r \in Routes, CoreDetach(r)
  PROVE  IInv'
<1> USE CloseWorkAssumption DEF CoreDetach, InCore, Commit, coreVars, stateVars,
   sourceVars, ledger, planeVars, ownerVars
<1>1. (RegistryInv)'
  BY DEF IInv, RegistryInv
<1>2. TypeOK'
  <2>1. detach' \in [Routes -> {"none", "asked", "ok", "err", "ended", "refused"}]
    BY DEF IInv, TypeOK
  <2>2. CASE UNCHANGED coreVars
    BY <2>1, <2>2 DEF IInv, TypeOK
  <2>3. CASE Commit(r, "detach")
    BY <2>1, <2>3 DEF IInv, TypeOK, Causes
  <2> QED  BY <2>2, <2>3
<1>3. HookInv'
  BY DEF IInv, TypeOK, HookInv, Sent, Causes, RegistryInv, Reason, Reasons
<1>4. PlaneInv'
  BY DEF IInv, TypeOK, PlaneInv, cur, HookInv, Sent, DetachInv, Reason, Causes, Reasons
<1>5. DetachInv'
  BY DEF IInv, TypeOK, DetachInv
<1>6. MutedInv'
  BY DEF IInv, TypeOK, MutedInv, HookInv, Sent, RegistryInv
<1>7. EventInv'
  BY EventTyped DEF IInv, TypeOK, EventInv, HookInv, Causes, Reasons
<1>8. LostInv'
  BY DEF IInv, TypeOK, LostInv, Excused, HasEvent, Reporting, cur, PlaneInv, HookInv,
     Sent, Reason, Causes, Reasons
<1>9. CloseNotDropped'
  BY DEF IInv, TypeOK, CloseNotDropped, RegistryInv, PlaneInv, HookInv, Sent
<1> HIDE DEF CoreDetach
<1> QED  BY <1>1, <1>2, <1>3, <1>4, <1>5, <1>6, <1>7, <1>8, <1>9 DEF IInv

\* The hook's first look at the retired flag.
LEMMA NotifyRetiredKeeps ==
  ASSUME IInv, NEW r \in Routes, NotifyRetired(r)
  PROVE  IInv'
<1> USE CloseWorkAssumption DEF NotifyRetired, coreVars, stateVars, sourceVars, ledger,
   planeVars, ownerVars
<1>1. (RegistryInv /\ PlaneInv /\ DetachInv /\ EventInv /\ LostInv)'
  BY DEF IInv, RegistryInv, PlaneInv, cur, DetachInv, EventInv, LostInv, Excused,
     HasEvent, Reporting
<1>2. TypeOK'
  BY DEF IInv, TypeOK
<1>3. HookInv'
  BY DEF IInv, TypeOK, HookInv, Sent, Causes, RegistryInv, Reason, Reasons
<1>4. MutedInv'
  BY DEF IInv, TypeOK, MutedInv, HookInv, Sent, RegistryInv
<1>5. CloseNotDropped'
  BY DEF IInv, TypeOK, CloseNotDropped, RegistryInv, PlaneInv, HookInv, Sent
<1> HIDE DEF NotifyRetired
<1> QED  BY <1>1, <1>2, <1>3, <1>4, <1>5 DEF IInv

\* The hook records its cause before it wins the queued flag.
LEMMA NotifyMarkKeeps ==
  ASSUME IInv, NEW r \in Routes, NotifyMark(r)
  PROVE  IInv'
<1> USE CloseWorkAssumption DEF NotifyMark, Reason, coreVars, stateVars, sourceVars,
   ledger, planeVars, ownerVars
<1>1. (RegistryInv /\ DetachInv /\ EventInv)'
  BY DEF IInv, RegistryInv, DetachInv, EventInv
<1>2. TypeOK'
  BY DEF IInv, TypeOK, HookInv, Causes, Reasons
<1>3. HookInv'
  BY DEF IInv, TypeOK, HookInv, Sent, Causes, RegistryInv, Reason, Reasons
<1>4. PlaneInv'
  <2>1. batch # <<>> => cur # r
    BY CurSent DEF Sent
  <2> QED  BY <2>1 DEF IInv, TypeOK, PlaneInv, cur
<1>5. MutedInv'
  BY DEF IInv, TypeOK, MutedInv, HookInv, Sent, RegistryInv
<1>6. LostInv'
  BY DEF IInv, TypeOK, LostInv, Excused, HasEvent, Reporting, cur, PlaneInv, HookInv,
     Sent, Reason, Causes, Reasons
<1>7. CloseNotDropped'
  BY DEF IInv, TypeOK, CloseNotDropped, RegistryInv, PlaneInv, HookInv, Sent
<1> HIDE DEF NotifyMark
<1> QED  BY <1>1, <1>2, <1>3, <1>4, <1>5, <1>6, <1>7 DEF IInv

\* The winner's key reaches the channel, or the overflow mark.
LEMMA NotifySendKeeps ==
  ASSUME IInv, NEW r \in Routes, NotifySend(r)
  PROVE  IInv'
<1> USE CloseWorkAssumption DEF NotifySend, coreVars, stateVars, sourceVars, ledger,
   planeVars, ownerVars
<1>A. /\ registry' = registry /\ (overflow => overflow')
      /\ channel' \in Seq(Routes) /\ Len(channel') <= Capacity /\ overflow' \in BOOLEAN
      /\ \A x : InSeq(x, channel') => InSeq(x, channel) \/ x = r
      /\ \A x : InSeq(x, channel) => InSeq(x, channel')
      /\ InSeq(r, channel') \/ overflow'
  BY TrySent
<1>1. (RegistryInv /\ PlaneInv /\ DetachInv /\ EventInv /\ LostInv)'
  BY <1>A DEF IInv, RegistryInv, PlaneInv, cur, DetachInv, EventInv, LostInv, Excused,
     HasEvent, Reporting
<1>2. TypeOK'
  BY <1>A DEF IInv, TypeOK
<1>3. HookInv'
  <2> SUFFICES ASSUME NEW q \in Routes
               PROVE  /\ cpc'[q] \in {"check", "mark", "send"}
                           => q \in hook' /\ adapter'[q] \in Causes
                      /\ adapter'[q] \in {"none", "bound"} => cpc'[q] = "idle"
                      /\ (cpc'[q] = "send" \/ q \in queued' \/ InSeq(q, channel')
                          \/ InSeq(q, batch') \/ q \in reported')
                           => Sent(q)'
    BY DEF HookInv
  <2>1. CASE q = r
    BY <2>1 DEF IInv, TypeOK, HookInv, Sent, Causes
  <2>2. CASE q # r
    BY <1>A, <2>2 DEF IInv, TypeOK, HookInv, Sent
  <2> QED  BY <2>1, <2>2
<1>4. MutedInv'
  BY <1>A DEF IInv, TypeOK, MutedInv, HookInv, Sent, RegistryInv
<1>5. CloseNotDropped'
  BY <1>A DEF IInv, TypeOK, CloseNotDropped, RegistryInv, PlaneInv, HookInv, Sent
<1> HIDE DEF NotifySend
<1> QED  BY <1>1, <1>2, <1>3, <1>4, <1>5 DEF IInv

\* A key is in the registry before the adapter has a hook.
LEMMA RegisterKeeps ==
  ASSUME IInv, NEW r \in Routes, Register(r)
  PROVE  IInv'
<1> USE CloseWorkAssumption DEF Register, Commit, RegistryLocked, coreVars, stateVars,
   sourceVars, ledger, planeVars, ownerVars
<1>1. (LostInv)'
  BY DEF IInv, LostInv, Excused, HasEvent, Reporting, cur
<1>2. TypeOK'
  <2>1. CASE dying
    BY <2>1, Zenon DEF IInv, TypeOK, Causes
  <2>2. CASE ~dying
    BY <2>2 DEF IInv, TypeOK
  <2> QED  BY <2>1, <2>2
<1>3. RegistryInv'
  BY DEF IInv, TypeOK, RegistryInv
<1>4. HookInv'
  BY DEF IInv, TypeOK, HookInv, Sent, Causes, RegistryInv, Reason, Reasons
<1>5. PlaneInv'
  BY DEF IInv, TypeOK, PlaneInv, cur, HookInv, Sent, DetachInv, Reason, Causes, Reasons
<1>6. DetachInv'
  BY DEF IInv, TypeOK, DetachInv
<1>7. MutedInv'
  BY DEF IInv, TypeOK, MutedInv, HookInv, Sent, RegistryInv
<1>8. EventInv'
  BY EventTyped DEF IInv, TypeOK, EventInv, HookInv, Causes, Reasons
<1>9. CloseNotDropped'
  BY DEF IInv, TypeOK, CloseNotDropped, RegistryInv, PlaneInv, HookInv, Sent
<1> HIDE DEF Register
<1> QED  BY <1>1, <1>2, <1>3, <1>4, <1>5, <1>6, <1>7, <1>8, <1>9 DEF IInv

\* attach_close_hook comes after register.
LEMMA AttachHookKeeps ==
  ASSUME IInv, AttachHook
  PROVE  IInv'
<1> USE CloseWorkAssumption DEF AttachHook, coreVars, stateVars, sourceVars, ledger,
   planeVars, ownerVars
<1>1. (PlaneInv /\ DetachInv /\ MutedInv /\ EventInv /\ LostInv /\ CloseNotDropped)'
  BY DEF IInv, PlaneInv, cur, DetachInv, MutedInv, EventInv, LostInv, Excused,
     HasEvent, Reporting, CloseNotDropped
<1>2. TypeOK'
  BY DEF IInv, TypeOK
<1>3. RegistryInv'
  BY DEF IInv, TypeOK, RegistryInv
<1>4. HookInv'
  BY DEF IInv, TypeOK, HookInv, Sent, Causes, RegistryInv, Reason, Reasons
<1> HIDE DEF AttachHook
<1> QED  BY <1>1, <1>2, <1>3, <1>4 DEF IInv

\* Detach suppresses its route before it asks Core.
LEMMA DetachAskKeeps ==
  ASSUME IInv, NEW r \in Routes, DetachAsk(r)
  PROVE  IInv'
<1> USE CloseWorkAssumption DEF DetachAsk, coreVars, stateVars, sourceVars, ledger,
   planeVars, ownerVars
<1>1. (RegistryInv /\ HookInv /\ PlaneInv /\ MutedInv /\ EventInv /\ CloseNotDropped)'
  BY DEF IInv, RegistryInv, HookInv, Sent, PlaneInv, cur, MutedInv, EventInv,
     CloseNotDropped
<1>2. TypeOK'
  BY DEF IInv, TypeOK
<1>3. DetachInv'
  BY DEF IInv, TypeOK, DetachInv
<1>4. LostInv'
  BY DEF IInv, TypeOK, LostInv, Excused, HasEvent, Reporting, cur, PlaneInv, HookInv,
     Sent, Reason, Causes, Reasons
<1> HIDE DEF DetachAsk
<1> QED  BY <1>1, <1>2, <1>3, <1>4 DEF IInv

\* Only a failed Detach lifts the suppression.
LEMMA DetachAnsweredKeeps ==
  ASSUME IInv, NEW r \in Routes, DetachAnswered(r)
  PROVE  IInv'
<1> USE CloseWorkAssumption DEF DetachAnswered, Retire, RegistryLocked, coreVars,
   stateVars, sourceVars, ledger, planeVars, ownerVars
<1>1. (HookInv /\ EventInv)'
  BY DEF IInv, HookInv, Sent, EventInv
<1>2. TypeOK'
  BY Zenon DEF IInv, TypeOK
<1>3. RegistryInv'
  BY DEF IInv, TypeOK, RegistryInv
<1>4. PlaneInv'
  BY DEF IInv, TypeOK, PlaneInv, cur, HookInv, Sent, DetachInv, Reason, Causes, Reasons
<1>5. DetachInv'
  <2>1. CASE detach[r] = "ok"
    BY <2>1 DEF IInv, TypeOK, DetachInv
  <2>2. CASE detach[r] = "err"
    BY <2>2 DEF IInv, TypeOK, DetachInv
  <2> QED  BY <2>1, <2>2
<1>6. MutedInv'
  BY DEF IInv, TypeOK, MutedInv, HookInv, Sent, RegistryInv
<1>7. LostInv'
  BY DEF IInv, TypeOK, LostInv, Excused, HasEvent, Reporting, cur, PlaneInv, HookInv,
     Sent, Reason, Causes, Reasons
<1>8. CloseNotDropped'
  BY DEF IInv, TypeOK, CloseNotDropped, RegistryInv, PlaneInv, HookInv, Sent
<1> HIDE DEF DetachAnswered
<1> QED  BY <1>1, <1>2, <1>3, <1>4, <1>5, <1>6, <1>7, <1>8 DEF IInv

\* The routes of an ending session are retired ...
LEMMA SuppressSessionKeeps ==
  ASSUME IInv, NEW s \in Sessions, SuppressSession(s)
  PROVE  IInv'
<1> USE CloseWorkAssumption DEF SuppressSession, Retire, RegistryLocked, SessionRoutes,
   coreVars, stateVars, sourceVars, ledger, planeVars, ownerVars
<1>1. (HookInv /\ DetachInv /\ EventInv /\ LostInv)'
  BY DEF IInv, HookInv, Sent, DetachInv, EventInv, LostInv, Excused, HasEvent,
     Reporting, cur
<1>2. TypeOK'
  BY DEF IInv, TypeOK
<1>3. RegistryInv'
  BY DEF IInv, TypeOK, RegistryInv
<1>4. PlaneInv'
  BY DEF IInv, TypeOK, PlaneInv, cur, HookInv, Sent, DetachInv, Reason, Causes, Reasons
<1>5. MutedInv'
  BY DEF IInv, TypeOK, MutedInv, HookInv, Sent, RegistryInv
<1>6. CloseNotDropped'
  BY DEF IInv, TypeOK, CloseNotDropped, RegistryInv, PlaneInv, HookInv, Sent
<1> HIDE DEF SuppressSession
<1> QED  BY <1>1, <1>2, <1>3, <1>4, <1>5, <1>6 DEF IInv

\* ... and then suppressed; none that was open had started its hook.
LEMMA SuppressKeysKeeps ==
  ASSUME IInv, SuppressKeys
  PROVE  IInv'
<1> USE CloseWorkAssumption DEF SuppressKeys, coreVars, stateVars, sourceVars, ledger,
   planeVars, ownerVars
<1>1. (HookInv /\ PlaneInv /\ CloseNotDropped)'
  BY DEF IInv, HookInv, Sent, PlaneInv, cur, CloseNotDropped
<1>2. TypeOK'
  BY DEF IInv, TypeOK
<1>3. RegistryInv'
  BY DEF IInv, TypeOK, RegistryInv
<1>4. DetachInv'
  BY DEF IInv, TypeOK, DetachInv
<1>5. MutedInv'
  BY DEF IInv, TypeOK, MutedInv, HookInv, Sent, RegistryInv
<1>6. EventInv'
  BY DEF IInv, TypeOK, EventInv, HookInv, Reason, Causes, Reasons
<1>7. LostInv'
  BY DEF IInv, TypeOK, LostInv, Excused, HasEvent, Reporting, cur, PlaneInv, HookInv,
     Sent, Reason, Causes, Reasons
<1> HIDE DEF SuppressKeys
<1> QED  BY <1>1, <1>2, <1>3, <1>4, <1>5, <1>6, <1>7 DEF IInv
=============================================================================
