-------------------------- MODULE CloseWorkProofs --------------------------
(***************************************************************************)
(* The data plane's steps preserve IInv too, and the theorems about         *)
(* CloseWork that follow from it.                                          *)
(***************************************************************************)
EXTENDS CloseWorkInv


\* A turn starts with an empty batch.
LEMMA CoreDoneKeeps ==
  ASSUME IInv, CoreDone
  PROVE  IInv'
<1> USE CloseWorkAssumption DEF CoreDone, InCore, coreVars, stateVars, sourceVars,
   ledger, planeVars, ownerVars
<1>A. \A r : ~InSeq(r, <<>>)
  BY NoneIn
<1>1. (RegistryInv /\ DetachInv /\ EventInv)'
  BY <1>A DEF IInv, RegistryInv, DetachInv, EventInv
<1>2. TypeOK'
  BY <1>A DEF IInv, TypeOK
<1>3. HookInv'
  BY <1>A DEF IInv, TypeOK, HookInv, Sent, Causes, RegistryInv, Reason, Reasons
<1>4. PlaneInv'
  BY <1>A DEF IInv, TypeOK, PlaneInv, cur, HookInv, Sent, DetachInv, Reason, Causes,
     Reasons
<1>5. MutedInv'
  BY <1>A DEF IInv, TypeOK, MutedInv, HookInv, Sent, RegistryInv
<1>6. LostInv'
  BY <1>A DEF IInv, TypeOK, LostInv, Excused, HasEvent, Reporting, cur, PlaneInv,
     HookInv, Sent, Reason, Causes, Reasons
<1>7. CloseNotDropped'
  BY <1>A DEF IInv, TypeOK, CloseNotDropped, RegistryInv, PlaneInv, HookInv, Sent
<1> HIDE DEF CoreDone
<1> QED  BY <1>1, <1>2, <1>3, <1>4, <1>5, <1>6, <1>7 DEF IInv

\* A key leaves the channel for the batch, or is retired already.
LEMMA TakeRecvKeeps ==
  ASSUME IInv, TakeRecv
  PROVE  IInv'
<1> USE CloseWorkAssumption DEF coreVars, stateVars, sourceVars, ledger, planeVars,
   ownerVars
<1> DEFINE x == Head(channel)
<1>1. CASE ~(Len(batch) < MaxKeys /\ channel # <<>>)
  <2>1. (RegistryInv /\ DetachInv /\ EventInv)'
    BY <1>1 DEF TakeRecv, IInv, RegistryInv, DetachInv, EventInv
  <2>2. TypeOK'
    BY <1>1 DEF TakeRecv, IInv, TypeOK
  <2>3. HookInv'
    BY <1>1 DEF TakeRecv, IInv, TypeOK, HookInv, Sent, Causes, RegistryInv, Reason,
       Reasons
  <2>4. PlaneInv'
    BY <1>1 DEF TakeRecv, IInv, TypeOK, PlaneInv, cur, HookInv, Sent, DetachInv,
       Reason, Causes, Reasons
  <2>5. MutedInv'
    BY <1>1 DEF TakeRecv, IInv, TypeOK, MutedInv, HookInv, Sent, RegistryInv
  <2>6. LostInv'
    BY <1>1 DEF TakeRecv, IInv, TypeOK, LostInv, Excused, HasEvent, Reporting, cur,
       PlaneInv, HookInv, Sent, Reason, Causes, Reasons
  <2>7. CloseNotDropped'
    BY <1>1 DEF TakeRecv, IInv, TypeOK, CloseNotDropped, RegistryInv, PlaneInv,
       HookInv, Sent
  <2> QED  BY <2>1, <2>2, <2>3, <2>4, <2>5, <2>6, <2>7 DEF IInv
<1>2. CASE Len(batch) < MaxKeys /\ channel # <<>>
  <2>A. /\ channel' = Tail(channel) /\ Admit(x) /\ dpc = "recv" /\ UNCHANGED dpc
        /\ UNCHANGED <<walk, errs, coreVars, stateVars, registry, overflow, ledger,
           ownerVars>>
    BY <1>2 DEF TakeRecv
  <2>B. /\ x \in Routes /\ channel' \in Seq(Routes) /\ Len(channel') <= Capacity
        /\ \A y : InSeq(y, channel) <=> y = x \/ InSeq(y, channel')
    <3>1. channel \in Seq(Routes) /\ Len(channel) <= Capacity
      BY DEF IInv, TypeOK
    <3>2. /\ x \in Routes /\ channel' \in Seq(Routes) /\ Len(channel') < Len(channel)
          /\ Len(channel) \in Nat /\ Len(channel') \in Nat
          /\ \A y : InSeq(y, channel) <=> y = x \/ InSeq(y, channel')
      BY <1>2, <2>A, <3>1, Shortened
    <3> QED  BY <3>1, <3>2
  <2>C. /\ batch' \in Seq(Routes) /\ Len(batch') <= MaxKeys /\ seen' \subseteq Routes
        /\ \A y : InSeq(y, batch') => InSeq(y, batch) \/ y = x
        /\ \A y : InSeq(y, batch) => InSeq(y, batch')
        /\ InSeq(x, batch') \/ x \in retired \/ x \in seen
        /\ \A y \in seen' : y \in seen \/ InSeq(y, batch')
    BY <1>2, <2>A, <2>B, Admitted
  <2> HIDE DEF x
  <2>1. (RegistryInv /\ DetachInv /\ EventInv)'
    BY <2>A, <2>B, <2>C DEF IInv, RegistryInv, DetachInv, EventInv
  <2>2. TypeOK'
    BY <2>A, <2>B, <2>C DEF IInv, TypeOK
  <2>3. HookInv'
    BY <2>A, <2>B, <2>C DEF IInv, TypeOK, HookInv, Sent, Causes, RegistryInv, Reason,
       Reasons
  <2>4. PlaneInv'
    BY <2>A, <2>B, <2>C DEF IInv, TypeOK, PlaneInv, cur, HookInv, Sent, DetachInv,
       Reason, Causes, Reasons
  <2>5. MutedInv'
    BY <2>A, <2>B, <2>C DEF IInv, TypeOK, MutedInv, HookInv, Sent, RegistryInv
  <2>6. LostInv'
    BY <2>A, <2>B, <2>C DEF IInv, TypeOK, LostInv, Excused, HasEvent, Reporting, cur,
       PlaneInv, HookInv, Sent, Reason, Causes, Reasons
  <2>7. CloseNotDropped'
    BY <2>A, <2>B, <2>C DEF IInv, TypeOK, CloseNotDropped, RegistryInv, PlaneInv,
       HookInv, Sent
  <2> QED  BY <2>1, <2>2, <2>3, <2>4, <2>5, <2>6, <2>7 DEF IInv
<1> QED  BY <1>1, <1>2

\* The overflow mark is cleared only to walk the whole registry.
LEMMA TakeSwapKeeps ==
  ASSUME IInv, TakeSwap
  PROVE  IInv'
<1> USE CloseWorkAssumption DEF TakeSwap, coreVars, stateVars, sourceVars, ledger,
   planeVars, ownerVars
<1>1. (RegistryInv /\ HookInv /\ DetachInv /\ MutedInv /\ EventInv)'
  BY DEF IInv, RegistryInv, HookInv, Sent, DetachInv, MutedInv, EventInv
<1>2. TypeOK'
  BY Zenon DEF IInv, TypeOK
<1>3. PlaneInv'
  BY DEF IInv, TypeOK, PlaneInv, cur, HookInv, Sent, DetachInv, Reason, Causes, Reasons
<1>4. LostInv'
  BY DEF IInv, TypeOK, LostInv, Excused, HasEvent, Reporting, cur, PlaneInv, HookInv,
     Sent, Reason, Causes, Reasons
<1>5. CloseNotDropped'
  BY DEF IInv, TypeOK, CloseNotDropped, RegistryInv, PlaneInv, HookInv, Sent
<1> HIDE DEF TakeSwap
<1> QED  BY <1>1, <1>2, <1>3, <1>4, <1>5 DEF IInv

\* Every registered key passed by the walk is looked at again by any().
LEMMA TakeWalkKeeps ==
  ASSUME IInv, TakeWalk
  PROVE  IInv'
<1> USE CloseWorkAssumption DEF coreVars, stateVars, sourceVars, ledger, planeVars,
   ownerVars
<1>1. CASE walk = {} /\ walk' = registry /\ dpc' = "any" /\ UNCHANGED <<batch, seen>>
  <2>1. (RegistryInv /\ DetachInv /\ EventInv)'
    BY <1>1 DEF TakeWalk, IInv, RegistryInv, DetachInv, EventInv
  <2>2. TypeOK'
    BY <1>1 DEF TakeWalk, IInv, TypeOK
  <2>3. HookInv'
    BY <1>1 DEF TakeWalk, IInv, TypeOK, HookInv, Sent, Causes, RegistryInv, Reason,
       Reasons
  <2>4. PlaneInv'
    BY <1>1 DEF TakeWalk, IInv, TypeOK, PlaneInv, cur, HookInv, Sent, DetachInv,
       Reason, Causes, Reasons
  <2>5. MutedInv'
    BY <1>1 DEF TakeWalk, IInv, TypeOK, MutedInv, HookInv, Sent, RegistryInv
  <2>6. LostInv'
    BY <1>1 DEF TakeWalk, IInv, TypeOK, LostInv, Excused, HasEvent, Reporting, cur,
       PlaneInv, HookInv, Sent, Reason, Causes, Reasons
  <2>7. CloseNotDropped'
    BY <1>1 DEF TakeWalk, IInv, TypeOK, CloseNotDropped, RegistryInv, PlaneInv,
       HookInv, Sent
  <2> QED  BY <2>1, <2>2, <2>3, <2>4, <2>5, <2>6, <2>7 DEF IInv
<1>2. ASSUME NEW x \in walk, walk' = walk \ {x}, dpc' = dpc, dpc = "walk",
             UNCHANGED <<batch, seen>>
             \/ (Len(batch) < MaxKeys /\ x \in queued /\ Admit(x)),
             UNCHANGED <<errs, coreVars, stateVars, sourceVars, ledger, ownerVars>>
      PROVE  IInv'
  <2>A. x \in Routes
    BY <1>2 DEF IInv, TypeOK
  <2>B. /\ batch' \in Seq(Routes) /\ Len(batch') <= MaxKeys /\ seen' \subseteq Routes
        /\ \A y : InSeq(y, batch') => InSeq(y, batch) \/ (y = x /\ x \in queued)
        /\ \A y : InSeq(y, batch) => InSeq(y, batch')
        /\ \A y \in seen' : y \in seen \/ InSeq(y, batch')
    <3>1. CASE UNCHANGED <<batch, seen>>
      BY <3>1 DEF IInv, TypeOK
    <3>2. CASE Len(batch) < MaxKeys /\ x \in queued /\ Admit(x)
      BY <2>A, <3>2, Admitted
    <3> QED  BY <1>2, <3>1, <3>2
  <2>1. (RegistryInv /\ DetachInv /\ EventInv)'
    BY <1>2, <2>A, <2>B DEF IInv, RegistryInv, DetachInv, EventInv
  <2>2. TypeOK'
    BY <1>2, <2>A, <2>B DEF IInv, TypeOK
  <2>3. HookInv'
    BY <1>2, <2>A, <2>B DEF IInv, TypeOK, HookInv, Sent, Causes, RegistryInv, Reason,
       Reasons
  <2>4. PlaneInv'
    BY <1>2, <2>A, <2>B DEF IInv, TypeOK, PlaneInv, cur, HookInv, Sent, DetachInv,
       Reason, Causes, Reasons
  <2>5. MutedInv'
    BY <1>2, <2>A, <2>B DEF IInv, TypeOK, MutedInv, HookInv, Sent, RegistryInv
  <2>6. LostInv'
    BY <1>2, <2>A, <2>B DEF IInv, TypeOK, LostInv, Excused, HasEvent, Reporting, cur,
       PlaneInv, HookInv, Sent, Reason, Causes, Reasons
  <2>7. CloseNotDropped'
    BY <1>2, <2>A, <2>B DEF IInv, TypeOK, CloseNotDropped, RegistryInv, PlaneInv,
       HookInv, Sent
  <2> QED  BY <2>1, <2>2, <2>3, <2>4, <2>5, <2>6, <2>7 DEF IInv
<1> QED  BY <1>1, <1>2 DEF TakeWalk

\* A queued key that the batch did not hold raises the mark again.
LEMMA TakeAnyKeeps ==
  ASSUME IInv, TakeAny
  PROVE  IInv'
<1> USE CloseWorkAssumption DEF TakeAny, coreVars, stateVars, sourceVars, ledger,
   planeVars, ownerVars
<1>1. (RegistryInv /\ HookInv /\ DetachInv /\ MutedInv /\ EventInv)'
  BY DEF IInv, RegistryInv, HookInv, Sent, DetachInv, MutedInv, EventInv
<1>2. TypeOK'
  BY Zenon DEF IInv, TypeOK
<1>3. PlaneInv'
  BY DEF IInv, TypeOK, PlaneInv, cur, HookInv, Sent, DetachInv, Reason, Causes, Reasons
<1>4. LostInv'
  BY DEF IInv, TypeOK, LostInv, Excused, HasEvent, Reporting, cur, PlaneInv, HookInv,
     Sent, Reason, Causes, Reasons
<1>5. CloseNotDropped'
  BY DEF IInv, TypeOK, CloseNotDropped, RegistryInv, PlaneInv, HookInv, Sent
<1> HIDE DEF TakeAny
<1> QED  BY <1>1, <1>2, <1>3, <1>4, <1>5 DEF IInv

\* The batch is empty when the turn ends.
LEMMA BatchDoneKeeps ==
  ASSUME IInv, BatchDone
  PROVE  IInv'
<1> USE CloseWorkAssumption DEF BatchDone, coreVars, stateVars, sourceVars, ledger,
   planeVars, ownerVars
<1>1. (RegistryInv /\ HookInv /\ DetachInv /\ MutedInv /\ EventInv)'
  BY DEF IInv, RegistryInv, HookInv, Sent, DetachInv, MutedInv, EventInv
<1>2. TypeOK'
  BY DEF IInv, TypeOK
<1>3. PlaneInv'
  BY DEF IInv, TypeOK, PlaneInv, cur, HookInv, Sent, DetachInv, Reason, Causes, Reasons
<1>4. LostInv'
  BY DEF IInv, TypeOK, LostInv, Excused, HasEvent, Reporting, cur, PlaneInv, HookInv,
     Sent, Reason, Causes, Reasons
<1>5. CloseNotDropped'
  BY DEF IInv, TypeOK, CloseNotDropped, RegistryInv, PlaneInv, HookInv, Sent
<1> HIDE DEF BatchDone
<1> QED  BY <1>1, <1>2, <1>3, <1>4, <1>5 DEF IInv

\* The decision on the first route of the batch.
LEMMA BatchDecideKeeps ==
  ASSUME IInv, BatchDecide
  PROVE  IInv'
<1> USE CloseWorkAssumption DEF BatchDecide, Decision, coreVars, stateVars, sourceVars,
   ledger, planeVars, ownerVars
<1>1. (RegistryInv /\ HookInv /\ DetachInv /\ MutedInv /\ EventInv)'
  BY DEF IInv, RegistryInv, HookInv, Sent, DetachInv, MutedInv, EventInv
<1>2. TypeOK'
  BY DEF IInv, TypeOK
<1>3. PlaneInv'
  <2>1. /\ dpc' \in {"emit", "quiet", "requeue"}
        /\ dpc' = "quiet" => recorded[cur] # "lost"
        /\ dpc' = "emit" => recorded[cur] = "lost" \/ session[SessionOf[cur]] = "running"
    OBVIOUS
  <2> QED  BY <2>1 DEF PlaneInv, cur
<1>4. LostInv'
  BY DEF IInv, TypeOK, LostInv, Excused, HasEvent, Reporting, cur, PlaneInv, HookInv,
     Sent, Reason, Causes, Reasons
<1>5. CloseNotDropped'
  BY DEF IInv, TypeOK, CloseNotDropped, RegistryInv, PlaneInv, HookInv, Sent
<1> HIDE DEF BatchDecide
<1> QED  BY <1>1, <1>2, <1>3, <1>4, <1>5 DEF IInv

\* An undecided route is sent again, or is retired, or was taken.
LEMMA BatchRequeueKeeps ==
  ASSUME IInv, BatchRequeue
  PROVE  IInv'
<1> USE CloseWorkAssumption DEF BatchRequeue, coreVars, stateVars, sourceVars, ledger,
   planeVars, ownerVars
<1>A. batch # <<>> /\ cur \in Routes /\ InSeq(cur, batch)
      /\ Tail(batch) \in Seq(Routes) /\ Len(Tail(batch)) \in Nat /\ Len(Tail(batch)) <= MaxKeys
      /\ \A r1 : InSeq(r1, batch) <=> r1 = cur \/ InSeq(r1, Tail(batch))
  BY Shortened DEF IInv, TypeOK, PlaneInv, cur
<1>C. cur \in retired \/ cur \notin queued \/ TrySend(cur)
  OBVIOUS
<1>D. ASSUME TrySend(cur)
      PROVE  /\ registry' = registry /\ (overflow => overflow')
             /\ channel' \in Seq(Routes) /\ Len(channel') <= Capacity /\ overflow' \in BOOLEAN
             /\ \A x : InSeq(x, channel') => InSeq(x, channel) \/ x = cur
             /\ \A x : InSeq(x, channel) => InSeq(x, channel')
             /\ InSeq(cur, channel') \/ overflow'
  BY <1>A, <1>D, TrySent
<1>1. (RegistryInv /\ DetachInv /\ EventInv)'
  BY <1>A, <1>C, <1>D DEF IInv, RegistryInv, DetachInv, EventInv
<1>2. TypeOK'
  <2>1. CASE cur \in retired \/ cur \notin queued
    BY <1>A, <2>1 DEF BatchRequeue, sourceVars, IInv, TypeOK
  <2>2. CASE TrySend(cur)
    BY <1>A, <1>D, <2>2 DEF IInv, TypeOK
  <2> QED  BY <1>C, <2>1, <2>2
<1>3. HookInv'
  <2>1. CASE cur \in retired \/ cur \notin queued
    BY <1>A, <2>1 DEF BatchRequeue, sourceVars, IInv, TypeOK, HookInv, Sent, Causes,
       RegistryInv
  <2>2. CASE TrySend(cur)
    BY <1>A, <1>D, <2>2 DEF IInv, TypeOK, HookInv, Sent, Causes, RegistryInv
  <2> QED  BY <1>C, <2>1, <2>2
<1>4. PlaneInv'
  <2>1. CASE cur \in retired \/ cur \notin queued
    BY <1>A, <2>1 DEF BatchRequeue, sourceVars, IInv, TypeOK, PlaneInv, cur, HookInv,
       Sent, DetachInv
  <2>2. CASE TrySend(cur)
    BY <1>A, <1>D, <2>2 DEF IInv, TypeOK, PlaneInv, cur, HookInv, Sent, DetachInv
  <2> QED  BY <1>C, <2>1, <2>2
<1>5. MutedInv'
  <2>1. CASE cur \in retired \/ cur \notin queued
    BY <1>A, <2>1 DEF BatchRequeue, sourceVars, IInv, TypeOK, MutedInv, HookInv, Sent,
       RegistryInv
  <2>2. CASE TrySend(cur)
    BY <1>A, <1>D, <2>2 DEF IInv, TypeOK, MutedInv, HookInv, Sent, RegistryInv
  <2> QED  BY <1>C, <2>1, <2>2
<1>6. LostInv'
  <2>1. CASE cur \in retired \/ cur \notin queued
    BY <1>A, <2>1 DEF BatchRequeue, sourceVars, IInv, TypeOK, LostInv, Excused,
       HasEvent, Reporting, cur, PlaneInv, HookInv, Sent
  <2>2. CASE TrySend(cur)
    BY <1>A, <1>D, <2>2 DEF IInv, TypeOK, LostInv, Excused, HasEvent, Reporting, cur,
       PlaneInv, HookInv, Sent
  <2> QED  BY <1>C, <2>1, <2>2
<1>7. CloseNotDropped'
  <2>1. CASE cur \in retired \/ cur \notin queued
    BY <1>A, <2>1 DEF BatchRequeue, sourceVars, IInv, TypeOK, CloseNotDropped,
       RegistryInv, PlaneInv, HookInv, Sent
  <2>2. CASE TrySend(cur)
    BY <1>A, <1>D, <2>2 DEF IInv, TypeOK, CloseNotDropped, RegistryInv, PlaneInv,
       HookInv, Sent
  <2> QED  BY <1>C, <2>1, <2>2
<1> HIDE DEF BatchRequeue
<1> QED  BY <1>1, <1>2, <1>3, <1>4, <1>5, <1>6, <1>7 DEF IInv

\* take_queued clears the flag; a lost worker goes on to the ledger.
LEMMA ReportIfLiveKeeps ==
  ASSUME IInv, ReportIfLive
  PROVE  IInv'
<1> USE CloseWorkAssumption DEF ReportIfLive, coreVars, stateVars, sourceVars, ledger,
   planeVars, ownerVars
<1>A. batch # <<>> /\ cur \in Routes /\ InSeq(cur, batch)
      /\ Tail(batch) \in Seq(Routes) /\ Len(Tail(batch)) \in Nat /\ Len(Tail(batch)) <= MaxKeys
      /\ \A r1 : InSeq(r1, batch) <=> r1 = cur \/ InSeq(r1, Tail(batch))
  BY Shortened DEF IInv, TypeOK, PlaneInv, cur
<1>1. (RegistryInv /\ DetachInv /\ EventInv)'
  BY <1>A DEF IInv, RegistryInv, DetachInv, EventInv
<1>2. TypeOK'
  BY <1>A DEF IInv, TypeOK
<1>3. HookInv'
  BY <1>A DEF IInv, TypeOK, HookInv, Sent, Causes, RegistryInv, Reason, Reasons
<1>4. PlaneInv'
  BY <1>A DEF IInv, TypeOK, PlaneInv, cur, HookInv, Sent, DetachInv, Reason, Causes,
     Reasons
<1>5. MutedInv'
  BY <1>A DEF IInv, TypeOK, MutedInv, HookInv, Sent, RegistryInv
<1>6. LostInv'
  BY <1>A DEF IInv, TypeOK, LostInv, Excused, HasEvent, Reporting, cur, PlaneInv,
     HookInv, Sent, Reason, Causes, Reasons
<1>7. CloseNotDropped'
  BY <1>A DEF IInv, TypeOK, CloseNotDropped, RegistryInv, PlaneInv, HookInv, Sent
<1> HIDE DEF ReportIfLive
<1> QED  BY <1>1, <1>2, <1>3, <1>4, <1>5, <1>6, <1>7 DEF IInv

\* A suppressed route is reported without an event.
LEMMA EnqueueCheckKeeps ==
  ASSUME IInv, EnqueueCheck
  PROVE  IInv'
<1> USE CloseWorkAssumption DEF EnqueueCheck, coreVars, stateVars, sourceVars, ledger,
   planeVars, ownerVars
<1>A. batch # <<>> /\ cur \in Routes /\ InSeq(cur, batch)
      /\ Tail(batch) \in Seq(Routes) /\ Len(Tail(batch)) \in Nat /\ Len(Tail(batch)) <= MaxKeys
      /\ \A r1 : InSeq(r1, batch) <=> r1 = cur \/ InSeq(r1, Tail(batch))
  BY Shortened DEF IInv, TypeOK, PlaneInv, cur
<1>1. (RegistryInv /\ DetachInv /\ MutedInv /\ EventInv)'
  BY <1>A DEF IInv, RegistryInv, DetachInv, MutedInv, EventInv
<1>2. TypeOK'
  BY <1>A DEF IInv, TypeOK
<1>3. HookInv'
  BY <1>A DEF IInv, TypeOK, HookInv, Sent, Causes, RegistryInv, Reason, Reasons
<1>4. PlaneInv'
  BY <1>A DEF IInv, TypeOK, PlaneInv, cur, HookInv, Sent, DetachInv, Reason, Causes,
     Reasons
<1>5. LostInv'
  BY <1>A DEF IInv, TypeOK, LostInv, Excused, HasEvent, Reporting, cur, PlaneInv,
     HookInv, Sent, Reason, Causes, Reasons
<1>6. CloseNotDropped'
  BY <1>A DEF IInv, TypeOK, CloseNotDropped, RegistryInv, PlaneInv, HookInv, Sent
<1> HIDE DEF EnqueueCheck
<1> QED  BY <1>1, <1>2, <1>3, <1>4, <1>5, <1>6 DEF IInv

\* The event pushed is the route's first.
LEMMA EnqueuePushKeeps ==
  ASSUME IInv, EnqueuePush
  PROVE  IInv'
<1> USE CloseWorkAssumption DEF EnqueuePush, coreVars, stateVars, sourceVars, ledger,
   planeVars, ownerVars
<1>A. batch # <<>> /\ cur \in Routes /\ InSeq(cur, batch)
      /\ Tail(batch) \in Seq(Routes) /\ Len(Tail(batch)) \in Nat /\ Len(Tail(batch)) <= MaxKeys
      /\ \A r1 : InSeq(r1, batch) <=> r1 = cur \/ InSeq(r1, Tail(batch))
  BY Shortened DEF IInv, TypeOK, PlaneInv, cur
<1>1. (RegistryInv /\ DetachInv /\ MutedInv)'
  BY <1>A DEF IInv, RegistryInv, DetachInv, MutedInv
<1>2. TypeOK'
  <2>1. [route |-> cur, reason |-> recorded[cur]] \in [route : Routes, reason : Reasons]
    BY <1>A DEF IInv, TypeOK
  <2>2. events' \in Seq([route : Routes, reason : Reasons])
    BY <2>1, AppendProperties, Zenon DEF IInv, TypeOK
  <2> QED  BY <1>A, <2>2 DEF IInv, TypeOK
<1>3. HookInv'
  BY <1>A DEF IInv, TypeOK, HookInv, Sent, Causes, RegistryInv, Reason, Reasons
<1>4. PlaneInv'
  BY <1>A DEF IInv, TypeOK, PlaneInv, cur, HookInv, Sent, DetachInv, Reason, Causes,
     Reasons
<1>5. EventInv'
  <2>1. adapter[cur] \in Reasons /\ cur \notin muted
    BY <1>A, CurSent DEF IInv, PlaneInv, MutedInv, Sent, Causes, Reasons
  <2>2. CASE cur \in reported
    BY <2>2 DEF IInv, EventInv
  <2>3. CASE cur \notin reported
    BY <2>1, <2>3, AppendProperties, LenProperties DEF IInv, TypeOK, EventInv
  <2> QED  BY <2>2, <2>3
<1>6. LostInv'
  BY <1>A DEF IInv, TypeOK, LostInv, Excused, HasEvent, Reporting, cur, PlaneInv,
     HookInv, Sent, Reason, Causes, Reasons
<1>7. CloseNotDropped'
  BY <1>A DEF IInv, TypeOK, CloseNotDropped, RegistryInv, PlaneInv, HookInv, Sent
<1> HIDE DEF EnqueuePush
<1> QED  BY <1>1, <1>2, <1>3, <1>4, <1>5, <1>6, <1>7 DEF IInv

\* The reported route leaves the registry and the batch.
LEMMA BatchRetireKeeps ==
  ASSUME IInv, BatchRetire
  PROVE  IInv'
<1> USE CloseWorkAssumption DEF BatchRetire, Retire, RegistryLocked, coreVars,
   stateVars, sourceVars, ledger, planeVars, ownerVars
<1>A. batch # <<>> /\ cur \in Routes /\ InSeq(cur, batch)
      /\ Tail(batch) \in Seq(Routes) /\ Len(Tail(batch)) \in Nat /\ Len(Tail(batch)) <= MaxKeys
      /\ \A r1 : InSeq(r1, batch) <=> r1 = cur \/ InSeq(r1, Tail(batch))
  BY Shortened DEF IInv, TypeOK, PlaneInv, cur
<1>1. (DetachInv /\ EventInv)'
  BY <1>A DEF IInv, DetachInv, EventInv
<1>2. TypeOK'
  BY <1>A DEF IInv, TypeOK
<1>3. RegistryInv'
  BY <1>A DEF IInv, TypeOK, RegistryInv
<1>4. HookInv'
  BY <1>A DEF IInv, TypeOK, HookInv, Sent, Causes, RegistryInv, Reason, Reasons
<1>5. PlaneInv'
  BY <1>A DEF IInv, TypeOK, PlaneInv, cur, HookInv, Sent, DetachInv, Reason, Causes,
     Reasons
<1>6. MutedInv'
  BY <1>A DEF IInv, TypeOK, MutedInv, HookInv, Sent, RegistryInv
<1>7. LostInv'
  BY <1>A DEF IInv, TypeOK, LostInv, Excused, HasEvent, Reporting, cur, PlaneInv,
     HookInv, Sent, Reason, Causes, Reasons
<1>8. CloseNotDropped'
  BY <1>A DEF IInv, TypeOK, CloseNotDropped, RegistryInv, PlaneInv, HookInv, Sent
<1> HIDE DEF BatchRetire
<1> QED  BY <1>1, <1>2, <1>3, <1>4, <1>5, <1>6, <1>7, <1>8 DEF IInv

----------------------------------------------------------------------------
(* The theorems.                                                            *)

\* Before any adapter is bound nothing is queued and nothing was reported.
LEMMA InitInv ==
  ASSUME Init
  PROVE  IInv
<1> USE CloseWorkAssumption, NoneIn DEF Init
<1>0. /\ channel \in Seq(Routes) /\ batch \in Seq(Routes)
      /\ events \in Seq([route : Routes, reason : Reasons])
      /\ Len(channel) = 0 /\ Len(batch) = 0 /\ Len(events) = 0
  BY EmptySeq
<1>1. TypeOK
  <2>1. /\ Len(channel) <= Capacity /\ Len(batch) <= MaxKeys /\ errs \in 0..MaxErrs
    BY <1>0
  <2>2. /\ adapter \in [Routes -> {"none", "bound"} \cup Causes]
        /\ session \in [Sessions -> {"running", "ended", "absent"}]
        /\ recorded \in [Routes -> Reasons]
        /\ cpc \in [Routes -> {"idle", "check", "mark", "send", "done"}]
        /\ detach \in [Routes -> {"none", "asked", "ok", "err", "ended", "refused"}]
    BY DEF Reasons
  <2> QED  BY <1>0, <2>1, <2>2, Zenon DEF TypeOK
<1>2. RegistryInv /\ HookInv /\ DetachInv /\ MutedInv /\ CloseNotDropped
  BY DEF RegistryInv, HookInv, Causes, DetachInv, MutedInv, CloseNotDropped
<1>3. PlaneInv
  BY DEF PlaneInv
<1>4. EventInv /\ LostInv
  BY <1>0 DEF EventInv, LostInv
<1> QED  BY <1>1, <1>2, <1>3, <1>4 DEF IInv

\* Every step of a closer, of the data plane or of the owner keeps IInv.
LEMMA NextKeeps ==
  ASSUME IInv, [Next]_vars
  PROVE  IInv'
<1>1. CASE UNCHANGED vars
  <2> USE <1>1 DEF vars, coreVars, stateVars, sourceVars, ledger, planeVars, ownerVars
  <2>1. TypeOK'
    BY DEF IInv, TypeOK
  <2>2. RegistryInv' /\ DetachInv' /\ MutedInv'
    BY Zenon DEF IInv, RegistryInv, DetachInv, MutedInv
  <2>3. HookInv'
    BY Zenon DEF IInv, HookInv, Sent
  <2>4. PlaneInv'
    BY Zenon DEF IInv, PlaneInv, cur
  <2>5. EventInv' /\ LostInv' /\ CloseNotDropped'
    BY Zenon DEF IInv, EventInv, LostInv, Excused, HasEvent, Reporting, cur, CloseNotDropped
  <2> HIDE <1>1
  <2> QED  BY <2>1, <2>2, <2>3, <2>4, <2>5, Zenon DEF IInv
<1>2. CASE DataPlane
  BY <1>2, CoreDoneKeeps, TakeRecvKeeps, TakeSwapKeeps, TakeWalkKeeps, TakeAnyKeeps,
     BatchDoneKeeps, BatchDecideKeeps, BatchRequeueKeeps, ReportIfLiveKeeps,
     EnqueueCheckKeeps, EnqueuePushKeeps, BatchRetireKeeps DEF DataPlane
<1>3. CASE CloseAll \/ AttachHook \/ SuppressKeys
  BY <1>3, CloseAllKeeps, AttachHookKeeps, SuppressKeysKeeps
<1>4. ASSUME NEW r \in Routes,
             \/ CloseHost(r) \/ Notify(r) \/ CoreBind(r) \/ CoreDetach(r)
             \/ \E c \in {"core", "lost"} : CoreClose(r, c)
             \/ Register(r) \/ DetachAsk(r) \/ DetachAnswered(r)
      PROVE  IInv'
  BY <1>4, CloseHostKeeps, NotifyRetiredKeeps, NotifyMarkKeeps, NotifySendKeeps,
     CoreBindKeeps, CoreDetachKeeps, CoreCloseKeeps, RegisterKeeps, DetachAskKeeps,
     DetachAnsweredKeeps DEF Notify
<1>5. ASSUME NEW s \in Sessions, CoreSession(s) \/ SuppressSession(s)
      PROVE  IInv'
  BY <1>5, CoreSessionKeeps, SuppressSessionKeeps
<1> QED  BY <1>1, <1>2, <1>3, <1>4, <1>5 DEF Next

\* IInv holds in every state the closers, the data plane and the owner reach.
THEOREM Inductive == Spec => []IInv
BY InitInv, NextKeeps, PTL DEF Spec

\* The values of the code's state: the channel never exceeds its capacity and
\* a batch never more keys than take_batch may collect.
THEOREM TypeCorrect == Spec => []TypeOK
<1>1. IInv => TypeOK
  BY DEF IInv
<1> QED  BY <1>1, Inductive, PTL

\* A close that won the queued flag is held by a hook still sending it, by
\* the channel, by the batch, by the overflow mark or by the walk that cleared
\* the mark, whatever the capacity and the number of closers (CloseWorkSource).
THEOREM NotDropped == Spec => []CloseNotDropped
<1>1. IInv => CloseNotDropped
  BY DEF IInv
<1> QED  BY <1>1, Inductive, PTL

\* enqueue_closed_event pushes nothing for a route that Core closed for a
\* Detach, nor for one that was open when ShutdownSession suppressed it.
THEOREM Silence == Spec => []EndedInSilence
<1>1. IInv => EndedInSilence
  BY DEF IInv, EventInv, EndedInSilence, Reasons
<1> QED  BY <1>1, Inductive, PTL

\* A close recorded as worker_lost that left the queue has its event, unless
\* the route was suppressed.
THEOREM LostReported == Spec => []LostWorkerReported
<1>1. IInv => LostWorkerReported
  BY DEF IInv, LostInv, Excused, LostWorkerReported
<1> QED  BY <1>1, Inductive, PTL

\* push_event is given the cause that closed the adapter, and a session that
\* Core still has running unless the worker was lost.
THEOREM Reported == Spec => ReportedAsClosed
<1> DEFINE e == events'[Len(events')]
           Good == /\ e.reason = adapter[e.route]
                   /\ e.reason = "lost" \/ session[SessionOf[e.route]] = "running"
<1>1. ASSUME IInv, EnqueuePush, events' # events
      PROVE  Good
  <2> DEFINE new == [route |-> cur, reason |-> recorded[cur]]
  <2>1. events' = Append(events, new)
    BY <1>1 DEF EnqueuePush
  <2>2. batch # <<>> /\ cur \in Routes /\ Sent(cur)
    BY <1>1, CurSent DEF EnqueuePush, IInv, PlaneInv
  <2>3. new \in [route : Routes, reason : Reasons]
    BY <1>1, <2>2 DEF IInv, TypeOK
  <2>4. e = new
    <3>1. events \in Seq([route : Routes, reason : Reasons])
      BY <1>1 DEF IInv, TypeOK
    <3> HIDE DEF new
    <3>2. LET q == Append(events, new) IN q[Len(q)] = new
      BY <2>3, <3>1, AppendProperties
    <3> QED  BY <2>1, <3>2
  <2> HIDE DEF e
  <2>5. /\ recorded[cur] = adapter[cur]
        /\ recorded[cur] = "lost" \/ session[SessionOf[cur]] = "running"
    BY <1>1, <2>2 DEF EnqueuePush, IInv, PlaneInv, Sent, Reason
  <2>6. new.route = cur /\ new.reason = recorded[cur]
    OBVIOUS
  <2> HIDE DEF new
  <2>7. e.route = cur /\ e.reason = recorded[cur]
    BY <2>4, <2>6
  <2> QED  BY <2>5, <2>7
<1>2. ASSUME [Next]_vars, events' # events
      PROVE  EnqueuePush
  <2>1. CASE DataPlane
    BY <1>2, <2>1 DEF DataPlane, CoreDone, TakeRecv, TakeSwap, TakeWalk, TakeAny,
       BatchDone, BatchDecide, BatchRequeue, ReportIfLive, EnqueueCheck, BatchRetire,
       ledger
  <2>2. CASE CloseAll \/ AttachHook \/ SuppressKeys \/ UNCHANGED vars
    BY <1>2, <2>2 DEF CloseAll, AttachHook, SuppressKeys, ledger, vars
  <2>3. ASSUME NEW r \in Routes,
               \/ CloseHost(r) \/ Notify(r) \/ CoreBind(r) \/ CoreDetach(r)
               \/ \E c \in {"core", "lost"} : CoreClose(r, c)
               \/ Register(r) \/ DetachAsk(r) \/ DetachAnswered(r)
        PROVE  FALSE
    BY <1>2, <2>3 DEF CloseHost, Notify, NotifyRetired, NotifyMark, NotifySend,
       CoreBind,
       CoreDetach, CoreClose, Register, DetachAsk, DetachAnswered, ledger
  <2>4. ASSUME NEW s \in Sessions, CoreSession(s) \/ SuppressSession(s)
        PROVE  FALSE
    BY <1>2, <2>4 DEF CoreSession, SuppressSession, ledger
  <2> QED  BY <1>2, <2>1, <2>2, <2>3, <2>4 DEF Next
<1>3. IInv /\ [Next]_vars => [events' # events => Good]_vars
  BY <1>1, <1>2
<1> HIDE DEF Good
<1>4. QED
  BY <1>3, Inductive, PTL DEF Spec, ReportedAsClosed, Good
=============================================================================
