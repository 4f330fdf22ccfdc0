--------------------------- MODULE ManagedGitInv ---------------------------
(***************************************************************************)
(* The inductive invariant of HostWork and ManagedGit, for any number of    *)
(* requests, any permits and any mix of kinds and failures, and the lemmas  *)
(* that its preservation rests on.                                          *)
(*                                                                         *)
(* IInv says of each request what its stage holds (HolderOf), how its       *)
(* candidate differs from the published view (FreshOf), what its finished   *)
(* write left on disk (WroteOf), which failures its load must allow         *)
(* (LossOf), where its worktree stands (TreeOf) and which recovery row it   *)
(* has (RowOf).  Three conjuncts are about all requests together: DiskInv,  *)
(* ListedInv and WakeInv.                                                   *)
(*                                                                         *)
(* A step of one request disturbs the others only through the document, so *)
(* Moves(w) bounds what a step of w may do to it and the lemma Others keeps *)
(* every other request's part of IInv.                                     *)
(***************************************************************************)
EXTENDS ManagedGit, TLAPS

LOCAL INSTANCE WellFoundedInduction

Preparing(w) == stage[w] \in {"prepare", "parked", "prepare_removal", "parked_removal"}
Parked(w) == stage[w] \in {"parked", "parked_removal"}
Holding(w) == stage[w] \in WriteStages \cup PackageStages
GitStages == {"create", "spawn", "rollback", "finalize", "prepare_removal",
              "parked_removal", "removal"}
Deferred == ({"effect", "runtime", "quarantine"} \X {"ok", "failed"})
            \cup {<<"none", "none">>}

\* The control state has its types.
JobsOK ==
  /\ stage \in [Waiters -> Stages]
  /\ result \in [Waiters -> Results]
  /\ saved \in [Waiters -> Deferred]
  /\ answer \in [Waiters -> Answers]
  /\ base \in [Waiters -> Nat]
  /\ cand = [w \in Waiters |-> cand[w]]
ControlOK ==
  /\ load \in Loads /\ JobsOK /\ revision \in Nat
  /\ documentOwner \in Waiters \cup {0}
  /\ documentWaiters \subseteq Waiters /\ ready \subseteq Waiters
  /\ cellHeld \in BOOLEAN /\ (cellHeld => cell # 0)
  /\ rows \in [Waiters -> {"none", "package", "events", "git"}]
  /\ tree \in [Waiters -> Trees]

\* Which requests may be in a stage, and what a stage holds.
HolderOf(w) ==
  /\ stage[w] \in WriteStages => documentOwner = w /\ cell = w /\ ~cellHeld
  /\ stage[w] \in PackageStages => documentOwner = w /\ cell = 0
  /\ documentOwner = w => Holding(w) \/ stage[w] = "done"
  /\ stage[w] \in PackageStages \cup {"restore", "record"} => IsPackage(w)
  /\ stage[w] \in GitStages => Kind[w] = "git"
  /\ stage[w] # "done" => Kind[w] # "none"
  /\ answer[w] # "none" => stage[w] \in {"finalize", "done"}

\* The entries of the document that only the request of w adds or removes.
Own(w) == {Change(w), Removed(w)}
          \cup (IF IsPackage(w) THEN {Quarantine(Package[w])} ELSE {})

\* The candidate of w differs from the published view in entries of w only.
Fresh(w) == \A x : x \notin Own(w) => (x \in view <=> x \in cand[w])

\* A candidate is fresh while its request holds the document, and before that
\* for as long as the revision it was made from is the published one.
FreshOf(w) ==
  /\ base[w] <= revision
  /\ Kind[w] # "repo" /\ (Holding(w) \/ (Preparing(w) /\ base[w] = revision)) => Fresh(w)
  /\ stage[w] \in {"prepare", "parked", "commit"} => Change(w) \in cand[w]
  /\ stage[w] \in {"prepare_removal", "parked_removal", "removal"} => Change(w) \notin cand[w]

\* The change of w is published, and nothing it may still do takes it back.
Landed(w) ==
  /\ Kind[w] # "repo"
  /\ \/ answer[w] = "ok" \/ stage[w] \in {"spawn", "finalize", "effect"}
     \/ stage[w] = "events" /\ saved[w][1] = "effect"

\* What a finished write of w left, and where a landed change is.
WroteOf(w) ==
  /\ stage[w] \in WriteStages /\ result[w] = "ok" =>
       IF Kind[w] = "repo" THEN Change(w) \in repo ELSE disk = cand[w]
  /\ Landed(w) => Change(w) \in view /\ Change(w) \in disk
  /\ Kind[w] = "repo" /\ answer[w] = "ok" => Change(w) \in repo

\* The failures a load must allow for a job to end that way.
LossOf(w) ==
  /\ result[w] = "lost" =>
       /\ stage[w] \in PackageStages \cup {"restore"} => "lost_late" \in MayFail
       /\ stage[w] \in {"commit", "removal"} => "lost_commit" \in MayFail
       /\ stage[w] # "record"
  /\ stage[w] = "events" /\ result[w] = "fault" => "cleanup" \in MayFail
  /\ stage[w] \in {"prepare", "prepare_removal"} /\ result[w] \in {"failed", "lost"}
       => "prepare" \in MayFail

\* The worktree of a managed spawn along its stages.
TreeOf(w) ==
  Kind[w] = "git" =>
    /\ stage[w] = "new" \/ (stage[w] = "create" /\ result[w] \in {"running", "failed"})
         => tree[w] = "none"
    /\ stage[w] = "create" /\ result[w] = "ok" => tree[w] \in {"made", "reused"}
    /\ stage[w] \in {"prepare", "parked", "commit", "spawn", "finalize"}
         => tree[w] \in {"made", "reused"}
    /\ stage[w] = "rollback" /\ result[w] = "ok" => tree[w] # "made"
    /\ stage[w] \in {"prepare_removal", "parked_removal", "removal"} => tree[w] = "removed"
    /\ answer[w] = "failed" =>
         tree[w] # "made" /\ (tree[w] = "removed" => Change(w) \notin view)

\* The runtime effect of w was applied and is not delivered yet.
Applied(w) ==
  \/ stage[w] = "effect" /\ result[w] = "ok"
  \/ stage[w] = "events" /\ saved[w] = <<"effect", "ok">>

RowOf(w) ==
  /\ Explicit(w) /\ Applied(w) => Package[w] \notin stranded
  /\ rows[w] # "none" => stage[w] = "done"

Local(w) ==
  HolderOf(w) /\ FreshOf(w) /\ WroteOf(w) /\ LossOf(w) /\ TreeOf(w) /\ RowOf(w)

\* The view and the disk differ only over a write that is not delivered yet
\* or is kept in the cell.
NothingLost == "lost_late" \notin MayFail /\ ("lost_commit" \in MayFail => Git = {})
Undelivered(w) ==
  /\ stage[w] \in WriteStages /\ Kind[w] # "repo"
  /\ result[w] \in {"ok", "uncertain", "lost"}
DiskInv == NothingLost => view = disk \/ cellHeld \/ \E w \in Waiters : Undelivered(w)

\* The compensation of w failed and is not over yet, or its row lists the
\* package.
Listed(w) ==
  \/ rows[w] \in {"package", "events"}
  \/ stage[w] \in {"quarantine", "record"} \/ (stage[w] = "runtime" /\ result[w] = "failed")
  \/ stage[w] = "events" /\ (saved[w][1] = "quarantine" \/ saved[w] = <<"runtime", "failed">>)
ListedInv ==
  "lost_late" \notin MayFail =>
    \A p \in stranded : \E w \in Waiters : Package[w] = p /\ Listed(w)

\* Every active request is running, ready or parked; when the document is
\* free and requests are parked, one of them was woken or will pass it on.
WakesKept == {"lost_late", "cleanup"} \cap MayFail = {} /\ ("prepare" \in MayFail => Git = {})
Waker(w) ==
  \/ w \in ready /\ Parked(w)
  \/ Kind[w] = "git" /\ stage[w] \in {"prepare", "prepare_removal"}
PolledOf(w) ==
  /\ Active(w) => result[w] = "running" \/ w \in ready \/ (Parked(w) /\ w \in documentWaiters)
  /\ w \in documentWaiters => Parked(w) /\ w \notin ready
WakeInv ==
  WakesKept =>
    /\ \A w \in Waiters : PolledOf(w)
    /\ documentOwner # 0 => Active(documentOwner)
    /\ documentWaiters # {} /\ documentOwner = 0 => \E v \in Waiters : Waker(v)

IInv == ControlOK /\ (\A w \in Waiters : Local(w)) /\ DiskInv /\ ListedInv /\ WakeInv
----------------------------------------------------------------------------
(* Entries of the document.                                                 *)

\* Entries of different requests, and of different sorts, are different.
LEMMA Entries ==
  /\ \A w, v : Change(w) = Change(v) => w = v
  /\ \A w, v : Change(w) # Removed(v)
  /\ \A w, p : Change(w) # Quarantine(p)
BY Zenon DEF Change, Removed, Quarantine

\* Publishing a fresh candidate touches no change of another request.
LEMMA FreshChange ==
  ASSUME NEW w, Fresh(w), NEW v, v # w
  PROVE  Change(v) \in view <=> Change(v) \in cand[w]
<1>1. Change(v) \notin Own(w)
  BY Entries, Zenon DEF Own
<1> QED  BY <1>1, Zenon DEF Fresh

\* The waiter that wake_next_document_waiter takes is one that waits.
LEMMA WokenWaits ==
  ASSUME documentWaiters \subseteq Waiters
  PROVE  Woken \subseteq documentWaiters /\ (documentWaiters # {} => Woken # {})
<1>1. CASE documentWaiters = {}
  BY <1>1, Zenon DEF Woken
<1>2. CASE documentWaiters # {}
  <2>1. documentWaiters \subseteq Nat
    BY HostWorkConstants, Zenon
  <2>2. PICK x \in documentWaiters :
          \A y \in documentWaiters : ~(<<y, x>> \in OpToRel(<, Nat))
    BY <1>2, <2>1, NatLessThanWellFounded, WFMin, Zenon
  <2>3. \A y \in documentWaiters : x <= y
    <3>1. ASSUME NEW y \in documentWaiters, y < x
          PROVE  FALSE
      <4>1. <<y, x>> \in OpToRel(<, Nat)
        BY <2>1, <3>1, Zenon DEF OpToRel
      <4> QED  BY <2>2, <4>1, Zenon
    <3> QED  BY <2>1, <3>1
  <2>4. Min(documentWaiters) \in documentWaiters
    BY <2>3, Zenon DEF Min
  <2> QED  BY <1>2, <2>4, Zenon DEF Woken
<1> QED  BY <1>1, <1>2, Zenon
----------------------------------------------------------------------------
(* A step of one request.                                                   *)

\* What a step of w leaves alone of the other requests.
Only(w) ==
  \A v \in Waiters \ {w} :
    /\ stage'[v] = stage[v] /\ result'[v] = result[v] /\ saved'[v] = saved[v]
    /\ answer'[v] = answer[v] /\ base'[v] = base[v] /\ cand'[v] = cand[v]
    /\ tree'[v] = tree[v] /\ rows'[v] \in {rows[v], "none"}

\* What a step of w may do to the document: nothing, or it is a step of the
\* request that holds or takes the reservation, which publishes and writes
\* its own candidate only.
Publishes(w) == Holding(w) /\ Kind[w] # "repo"
Moves(w) ==
  /\ load' = load
  /\ Only(w)
  /\ \/ UNCHANGED <<documentOwner, cell, cellHeld, revision, view, disk>>
     \/ /\ documentOwner \in {0, w} /\ documentOwner' \in {0, w}
        /\ \/ UNCHANGED <<revision, view>>
           \/ revision' = revision + 1 /\ view' = cand[w] /\ Publishes(w)
        /\ disk' = disk \/ (disk' = cand[w] /\ Publishes(w))
  /\ \A x \in repo : x \in repo'
  /\ \A p \in stranded' : p \in stranded \/ documentOwner = w

\* A step keeps what the load says of every request.
LEMMA SameLoad ==
  ASSUME load' = load
  PROVE  /\ Kind' = Kind /\ Package' = Package /\ MayFail' = MayFail /\ Git' = Git
         /\ \A w : IsPackage(w)' = IsPackage(w) /\ Explicit(w)' = Explicit(w)
         /\ \A w : Own(w)' = Own(w)
BY Zenon DEF Kind, Package, MayFail, Git, IsPackage, Explicit, Own, Change, Removed, Quarantine

\* A step of w keeps what IInv says of every other request.
LEMMA Others ==
  ASSUME IInv, NEW w \in Waiters, Moves(w), NEW v \in Waiters, v # w
  PROVE  Local(v)'
<1> USE SameLoad
<1>1. /\ stage'[v] = stage[v] /\ result'[v] = result[v] /\ saved'[v] = saved[v]
      /\ answer'[v] = answer[v] /\ base'[v] = base[v] /\ cand'[v] = cand[v]
      /\ tree'[v] = tree[v] /\ rows'[v] \in {rows[v], "none"} /\ load' = load
  BY Zenon DEF Moves, Only
<1>2. Local(v) /\ Local(w) /\ v # 0 /\ base[v] \in Nat /\ revision \in Nat
  BY HostWorkConstants, Zenon DEF IInv, ControlOK, JobsOK
<1>3. \/ UNCHANGED <<documentOwner, cell, cellHeld, revision, view, disk>>
      \/ ~Holding(v) /\ documentOwner # v /\ documentOwner' # v
  BY <1>2, Zenon DEF Moves, Local, HolderOf, Holding
<1>4. HolderOf(v)'
  BY <1>1, <1>2, <1>3 DEF Local, HolderOf, Holding
<1>5. (Change(v) \in view' <=> Change(v) \in view) /\ (Change(v) \in view \cap disk => Change(v) \in disk')
  <2>1. Publishes(w) => (Change(v) \in view <=> Change(v) \in cand[w])
    BY <1>2, FreshChange, Zenon DEF Publishes, Local, FreshOf
  <2> QED  BY <2>1, Zenon DEF Moves
<1>6. FreshOf(v)'
  BY <1>1, <1>2, <1>3 DEF Moves, Local, FreshOf, Fresh, Holding, Preparing
<1>7. WroteOf(v)'
  BY <1>1, <1>2, <1>3, <1>5, Zenon DEF Moves, Local, WroteOf, Landed, Holding
<1>8. LossOf(v)' /\ TreeOf(v)'
  BY <1>1, <1>2, <1>5 DEF Local, LossOf, TreeOf
<1>9. RowOf(v)'
  BY <1>1, <1>2, Zenon DEF Moves, Local, RowOf, Applied, HolderOf, PackageStages
<1> QED  BY <1>4, <1>6, <1>7, <1>8, <1>9, Zenon DEF Local

\* The view and the disk stay as they are while w delivers no write.
LEMMA DiskStays ==
  ASSUME IInv, NEW w \in Waiters, Moves(w), UNCHANGED <<view, disk, cellHeld>>,
         ~Undelivered(w) \/ Undelivered(w)'
  PROVE  DiskInv'
<1>1. NothingLost' = NothingLost
  BY SameLoad, Zenon DEF Moves, NothingLost
<1>2. \A v \in Waiters : Undelivered(v) => Undelivered(v)'
  BY SameLoad, Zenon DEF Moves, Only, Undelivered
<1> QED  BY <1>1, <1>2, Zenon DEF IInv, DiskInv

\* Only a package that w lists is stranded, and no row of a stranded package
\* goes.
LEMMA ListedStays ==
  ASSUME IInv, NEW w \in Waiters, Moves(w),
         \A p \in stranded' : p \in stranded \/ (p = Package[w] /\ Listed(w)'),
         \A v \in Waiters \ {w} : rows'[v] = rows[v] \/ Package[v] \notin stranded',
         Listed(w) => Listed(w)' \/ "lost_late" \in MayFail
  PROVE  ListedInv'
<1>1. MayFail' = MayFail /\ Package' = Package
  BY SameLoad, Zenon DEF Moves
<1>2. \A v \in Waiters : Listed(v) =>
        Listed(v)' \/ "lost_late" \in MayFail \/ Package[v] \notin stranded'
  BY Zenon DEF Moves, Only, Listed
<1> QED  BY <1>1, <1>2, Zenon DEF IInv, ListedInv

\* A write of w was delivered: the view is what is on disk, or the cell keeps
\* the write.
LEMMA DiskDelivered ==
  ASSUME IInv, NEW w \in Waiters, Moves(w), stage[w] \in WriteStages, disk' = disk,
         cellHeld' = cellHeld \/ cellHeld' = TRUE,
         \/ ~Undelivered(w) /\ view' = view
         \/ view' = disk \/ cellHeld' = TRUE \/ ~NothingLost
  PROVE  DiskInv'
<1>1. NothingLost' = NothingLost
  BY SameLoad, Zenon DEF Moves, NothingLost
<1>2. \A v \in Waiters : Undelivered(v) => v = w
  BY Zenon DEF IInv, Local, HolderOf, Undelivered
<1> QED  BY <1>1, <1>2, Zenon DEF IInv, DiskInv

\* The parts of WakeInv that a step of w changes for the others.
LEMMA WakeFacts ==
  ASSUME IInv, NEW w \in Waiters, Moves(w)
  PROVE  /\ WakesKept' = WakesKept
         /\ \A v \in Waiters \ {w} : /\ Active(v)' = Active(v) /\ Parked(v)' = Parked(v)
                                     /\ result'[v] = result[v]
         /\ \A v \in Waiters \ {w} : Waker(v) /\ (v \in ready => v \in ready') => Waker(v)'
         /\ 0 \notin Waiters
BY SameLoad, HostWorkConstants, Zenon DEF Moves, Only, WakesKept, Active, Parked, Waker

\* A poll that keeps the reservation as it is: w goes on or is answered.
LEMMA KeepWakes ==
  ASSUME IInv, NEW w \in Waiters, Moves(w), w \in ready, KeepDocument(w),
         WakesKept => /\ result'[w] = "running" \/ ~Active(w)'
                      /\ documentOwner = w => Active(w)'
                      /\ Waker(w) => Waker(w)'
  PROVE  WakeInv'
<1> USE WakeFacts DEF KeepDocument
<1>1. SUFFICES ASSUME WakesKept
               PROVE  /\ \A v \in Waiters : PolledOf(v)'
                      /\ documentOwner' # 0 => Active(documentOwner)'
                      /\ documentWaiters' # {} /\ documentOwner' = 0 => \E v \in Waiters : Waker(v)'
  BY Zenon DEF WakeInv
<1>2. WakeInv /\ documentOwner \in Waiters \cup {0}
  BY Zenon DEF IInv, ControlOK
<1>3. \A v \in Waiters : PolledOf(v)'
  BY <1>1, <1>2, Zenon DEF WakeInv, PolledOf
<1>4. documentOwner' # 0 => Active(documentOwner)'
  <2>1. CASE documentOwner = w
    BY <1>1, <2>1, Zenon DEF Active
  <2>2. CASE documentOwner # w
    BY <1>1, <1>2, <2>2, Zenon DEF WakeInv, Active
  <2> QED  BY <2>1, <2>2, Zenon
<1>5. documentWaiters' # {} /\ documentOwner' = 0 => \E v \in Waiters : Waker(v)'
  BY <1>1, <1>2, Zenon DEF WakeInv
<1> QED  BY <1>3, <1>4, <1>5, Zenon

\* A poll that wakes the next waiter, with the reservation free afterwards or
\* still held by another request.
LEMMA WokenWakes ==
  ASSUME IInv, NEW w \in Waiters, Moves(w), w \in ready,
         documentOwner' = 0 \/ (documentOwner' = documentOwner /\ documentOwner # w),
         documentWaiters' = documentWaiters \ Woken, ready' = (ready \ {w}) \cup Woken,
         result'[w] = "running" \/ ~Active(w)'
  PROVE  WakeInv'
<1> USE WakeFacts
<1>1. SUFFICES ASSUME WakesKept
               PROVE  /\ \A v \in Waiters : PolledOf(v)'
                      /\ documentOwner' # 0 => Active(documentOwner)'
                      /\ documentWaiters' # {} /\ documentOwner' = 0 => \E v \in Waiters : Waker(v)'
  BY Zenon DEF WakeInv
<1>2. /\ WakeInv /\ documentOwner \in Waiters \cup {0} /\ documentWaiters \subseteq Waiters
      /\ Woken \subseteq documentWaiters /\ (documentWaiters # {} => Woken # {})
  BY WokenWaits, Zenon DEF IInv, ControlOK
<1>3. \A v \in documentWaiters : Parked(v) /\ v \notin ready /\ v # w
  BY <1>1, <1>2, Zenon DEF WakeInv, PolledOf
<1>4. \A v \in Waiters : PolledOf(v)'
  BY <1>1, <1>2, <1>3, Zenon DEF WakeInv, PolledOf
<1>5. documentOwner' # 0 => Active(documentOwner)'
  BY <1>1, <1>2, Zenon DEF WakeInv, Active
<1>6. documentWaiters' # {} => \E v \in Waiters : Waker(v)'
  <2>1. ASSUME NEW v \in Woken PROVE Waker(v)'
    BY <1>2, <1>3 DEF Waker
  <2> QED  BY <1>2, <2>1, Zenon
<1> QED  BY <1>4, <1>5, <1>6, Zenon

\* release_document of a request that holds it, or that was never to wake.
LEMMA ReleaseWakes ==
  ASSUME IInv, NEW w \in Waiters, Moves(w), w \in ready, ReleaseDocument(w),
         documentOwner = w \/ ~Waker(w),
         result'[w] = "running" \/ ~Active(w)'
  PROVE  WakeInv'
<1>1. CASE documentOwner = w
  BY <1>1, WokenWakes, Zenon DEF ReleaseDocument
<1>2. CASE documentOwner # w
  <2>1. KeepDocument(w)
    BY <1>2, Zenon DEF ReleaseDocument, KeepDocument
  <2> QED  BY <1>2, <2>1, KeepWakes, Zenon
<1> QED  BY <1>1, <1>2, Zenon

\* A job of a Host worker returns, or a request is admitted or refused.
LEMMA RunWakes ==
  ASSUME IInv, NEW w \in Waiters, Moves(w), UNCHANGED <<documentOwner, documentWaiters>>,
         \/ ready' = ready \cup {w} /\ ~Parked(w) /\ stage'[w] = stage[w]
         \/ ready' = ready /\ stage[w] = "new" /\ (result'[w] = "running" \/ ~Active(w)')
  PROVE  WakeInv'
<1> USE WakeFacts
<1>1. SUFFICES ASSUME WakesKept
               PROVE  /\ \A v \in Waiters : PolledOf(v)'
                      /\ documentOwner' # 0 => Active(documentOwner)'
                      /\ documentWaiters' # {} /\ documentOwner' = 0 => \E v \in Waiters : Waker(v)'
  BY Zenon DEF WakeInv
<1>2. WakeInv /\ documentOwner \in Waiters \cup {0}
  BY Zenon DEF IInv, ControlOK
<1>3. /\ stage[w] = "new" => ~Parked(w) /\ ~Active(w) /\ ~Waker(w)
      /\ stage'[w] = stage[w] => Active(w)' = Active(w) /\ Parked(w)' = Parked(w)
  BY Zenon DEF Parked, Active, Waker
<1>4. \A v \in Waiters : PolledOf(v)'
  BY <1>1, <1>2, <1>3, Zenon DEF WakeInv, PolledOf
<1>5. documentOwner' # 0 => Active(documentOwner)'
  BY <1>1, <1>2, <1>3, Zenon DEF WakeInv, Active
<1>6. documentWaiters' # {} /\ documentOwner' = 0 => \E v \in Waiters : Waker(v)'
  <2>1. Waker(w) => Waker(w)'
    BY <1>3, SameLoad, Zenon DEF Waker, Moves
  <2> QED  BY <1>1, <1>2, <2>1, Zenon DEF WakeInv
<1> QED  BY <1>4, <1>5, <1>6, Zenon

\* A request that finds the document reserved parks itself.
LEMMA ParkWakes ==
  ASSUME IInv, NEW w \in Waiters, Moves(w), w \in ready,
         documentOwner' = documentOwner, documentOwner \notin {0, w},
         documentWaiters' = documentWaiters \cup {w}, ready' = ready \ {w}, Parked(w)'
  PROVE  WakeInv'
<1> USE WakeFacts
<1>1. SUFFICES ASSUME WakesKept
               PROVE  (\A v \in Waiters : PolledOf(v)') /\ Active(documentOwner)'
  BY Zenon DEF WakeInv
<1>2. WakeInv /\ documentOwner \in Waiters \cup {0}
  BY Zenon DEF IInv, ControlOK
<1> QED  BY <1>1, <1>2, Zenon DEF WakeInv, PolledOf, Active

\* A request takes the free reservation.
LEMMA GrantWakes ==
  ASSUME IInv, NEW w \in Waiters, Moves(w), w \in ready,
         documentOwner' = w, documentWaiters' = documentWaiters, ready' = ready \ {w},
         result'[w] = "running", Active(w)'
  PROVE  WakeInv'
<1> USE WakeFacts
<1>1. SUFFICES ASSUME WakesKept
               PROVE  (\A v \in Waiters : PolledOf(v)') /\ Active(documentOwner)'
  BY Zenon DEF WakeInv
<1>2. WakeInv
  BY Zenon DEF IInv
<1> QED  BY <1>1, <1>2, Zenon DEF WakeInv, PolledOf, Active
----------------------------------------------------------------------------
(* The operators that move a request.                                       *)

\* w is left in stage s with answer a and the jobs of the others as they were.
Turns(w, s, r, a) ==
  /\ JobsOK'
  /\ \A v \in Waiters \ {w} :
       /\ stage'[v] = stage[v] /\ result'[v] = result[v] /\ saved'[v] = saved[v]
       /\ answer'[v] = answer[v] /\ base'[v] = base[v] /\ cand'[v] = cand[v]
  /\ stage'[w] = s /\ result'[w] = r /\ saved'[w] = <<"none", "none">>
  /\ answer'[w] = a

\* What SetStage does to the three functions it changes.
LEMMA SetStageTurns ==
  ASSUME JobsOK, NEW w \in Waiters, NEW s \in Stages, NEW r \in Results, SetStage(w, s, r)
  PROVE  /\ stage' \in [Waiters -> Stages] /\ stage'[w] = s
         /\ result' \in [Waiters -> Results] /\ result'[w] = r
         /\ saved' \in [Waiters -> Deferred] /\ saved'[w] = <<"none", "none">>
         /\ \A v \in Waiters \ {w} :
              stage'[v] = stage[v] /\ result'[v] = result[v] /\ saved'[v] = saved[v]
<1>1. <<"none", "none">> \in Deferred
  BY Zenon DEF Deferred
<1> QED  BY <1>1, Zenon DEF SetStage, JobsOK

\* An answered request is done; its base and candidate stay.
LEMMA AnswerTurns ==
  ASSUME JobsOK, NEW w \in Waiters, NEW a \in Answers, Answer(w, a)
  PROVE  Turns(w, "done", "none", a) /\ base'[w] = base[w] /\ cand'[w] = cand[w]
<1>1. SetStage(w, "done", "none") /\ "done" \in Stages /\ "none" \in Results
  BY Zenon DEF Answer, Stages, Results
<1>2. answer' \in [Waiters -> Answers] /\ answer'[w] = a
      /\ \A v \in Waiters \ {w} : answer'[v] = answer[v]
  BY Zenon DEF Answer, JobsOK
<1> QED  BY <1>1, <1>2, SetStageTurns DEF Turns, JobsOK, Answer

\* A submitted job runs; the answer, the base and the candidate stay.
LEMMA SubmitTurns ==
  ASSUME JobsOK, NEW w \in Waiters, NEW s \in Stages, Submit(w, s)
  PROVE  /\ Turns(w, s, "running", answer[w])
         /\ base'[w] = base[w] /\ cand'[w] = cand[w] /\ answer'[w] = answer[w]
<1>1. SetStage(w, s, "running") /\ "running" \in Results
  BY Zenon DEF Submit, Results
<1> QED  BY <1>1, SetStageTurns, Zenon DEF Turns, JobsOK, Submit

\* A prepared candidate is the published view with the request's own change.
LEMMA PrepareTurns ==
  ASSUME ControlOK, NEW w \in Waiters, Kind[w] # "none", load' = load,
         NEW s \in {"prepare", "prepare_removal"}, SubmitPrepare(w, s),
         s = "prepare_removal" => Kind[w] = "git", UNCHANGED view
  PROVE  /\ Turns(w, s, "running", answer[w])
         /\ base'[w] = revision
         /\ Kind[w] # "repo" => Fresh(w)'
         /\ s = "prepare" => Change(w) \in cand'[w]
         /\ s = "prepare_removal" => Change(w) \notin cand'[w]
<1> DEFINE C == CASE Kind[w] = "target" -> TargetCandidate(w)
                  [] Kind[w] = "repo" -> RepoCandidate(w)
                  [] s = "prepare_removal" -> RemovalCandidate(w)
                  [] Kind[w] = "git" /\ s # "prepare_removal" -> RecordCandidate(w)
                  [] IsPackage(w) -> PackageCandidate(w)
<1>1. SetStage(w, s, "running") /\ "running" \in Results /\ s \in Stages /\ JobsOK
  BY Zenon DEF SubmitPrepare, Results, Stages, ControlOK
<1>2. Kind[w] \in Kinds
  BY HostWorkConstants, Zenon DEF ControlOK, Kind
<1>3. cand' = [cand EXCEPT ![w] = C] /\ answer' = answer
  BY Zenon DEF SubmitPrepare
<1>4. base' = [base EXCEPT ![w] = revision] /\ revision \in Nat
  BY Zenon DEF SubmitPrepare, ControlOK
<1> HIDE DEF C
<1>5. Turns(w, s, "running", answer[w]) /\ base'[w] = revision /\ cand'[w] = C
  BY <1>1, <1>3, <1>4, SetStageTurns, Zenon DEF Turns, JobsOK
<1>6. \/ s = "prepare_removal" /\ Kind[w] = "git" /\ C = RemovalCandidate(w)
      \/ Kind[w] = "repo" /\ s = "prepare" /\ C = RepoCandidate(w)
      \/ Kind[w] # "repo" /\ s = "prepare" /\ C = view \cup {Change(w)}
      \/ IsPackage(w) /\ s = "prepare"
           /\ C = (view \cup {Change(w)}) \ {Quarantine(Package[w])}
  BY <1>2, Zenon DEF C, Kinds, IsPackage, TargetCandidate, RecordCandidate, PackageCandidate
<1>7. Kind[w] # "repo" => Fresh(w)'
  BY <1>5, <1>6, SameLoad, Zenon DEF Fresh, Own, RemovalCandidate, IsPackage
<1>8. /\ s = "prepare" => Change(w) \in cand'[w]
      /\ s = "prepare_removal" => Change(w) \notin cand'[w]
  BY <1>5, <1>6, Entries, Zenon DEF RemovalCandidate, RepoCandidate
<1> QED  BY <1>5, <1>7, <1>8, Zenon

\* What every step does: it keeps IInv, it writes nothing over an uncertain
\* publication, and it takes a permit only when one is free.
Kept ==
  /\ IInv'
  /\ cellHeld => disk' = disk
  /\ \/ Outstanding' \subseteq Outstanding
     \/ /\ ~(Cardinality(Outstanding) >= Permits)
        /\ \E w \in Waiters : Outstanding' \subseteq Outstanding \cup {w}

\* The step of one request keeps IInv when it keeps the parts about w and
\* about all requests together.
LEMMA Assemble ==
  ASSUME IInv, NEW w \in Waiters, Moves(w),
         ControlOK', Local(w)', DiskInv', ListedInv', WakeInv',
         Active(w) \/ w \notin Outstanding' \/ ~(Cardinality(Outstanding) >= Permits)
  PROVE  Kept
<1>1. IInv'
  BY Others, Zenon DEF IInv
<1>2. cellHeld => disk' = disk
  BY Zenon DEF Moves, Publishes, Holding, IInv, Local, HolderOf, ControlOK
<1>3. Outstanding' \subseteq Outstanding \cup {w}
  BY Zenon DEF Moves, Only, Outstanding, Active
<1>4. Active(w) => w \in Outstanding
  BY Zenon DEF Outstanding
<1> QED  BY <1>1, <1>2, <1>3, <1>4, Zenon DEF Kept

\* A request that ends keeps its part of IInv when its answer is right.
LEMMA EndsLocal ==
  ASSUME IInv, NEW w \in Waiters, Moves(w), revision' \in Nat, stage'[w] = "done",
         result'[w] = "none", base'[w] = base[w], Kind[w] # "none",
         answer'[w] = "ok" => IF Kind[w] = "repo" THEN Change(w) \in repo'
                              ELSE Change(w) \in view' /\ Change(w) \in disk',
         Kind[w] = "git" /\ answer'[w] = "failed" =>
           tree'[w] # "made" /\ (tree'[w] = "removed" => Change(w) \notin view')
  PROVE  Local(w)'
<1> USE SameLoad DEF Moves
<1>1. base[w] <= revision' /\ base[w] \in Nat
  BY DEF IInv, Local, FreshOf, ControlOK, JobsOK
<1>2. HolderOf(w)'
  BY Zenon DEF HolderOf, WriteStages, PackageStages, GitStages
<1>3. FreshOf(w)'
  BY <1>1, Zenon DEF FreshOf, Holding, Preparing, WriteStages, PackageStages
<1>4. WroteOf(w)'
  BY Zenon DEF WroteOf, Landed, WriteStages
<1>5. LossOf(w)' /\ TreeOf(w)' /\ RowOf(w)'
  BY Zenon DEF LossOf, TreeOf, RowOf, Applied
<1> QED  BY <1>2, <1>3, <1>4, <1>5, Zenon DEF Local

\* A request that does not hold the document ends without an "ok": it keeps
\* IInv when it passes on the wake it may have had.
LEMMA Quits ==
  ASSUME IInv, NEW w \in Waiters, load' = load, w \in ready, Active(w), ~Holding(w),
         NEW a \in Answers \ {"ok"}, Answer(w, a),
         UNCHANGED <<docVars, cellVars, stranded, repoVars>>,
         rows' = rows \/ rows' = [rows EXCEPT ![w] = "git"],
         tree' \in [Waiters -> Trees], \A v \in Waiters \ {w} : tree'[v] = tree[v],
         Kind[w] = "git" /\ a = "failed" =>
           tree'[w] # "made" /\ (tree'[w] = "removed" => Change(w) \notin view),
         WakeNext(w) \/ (KeepDocument(w) /\ (WakesKept => ~Waker(w)))
  PROVE  Kept
<1> USE DEF docVars, cellVars, repoVars
<1>1. /\ Turns(w, "done", "none", a) /\ base'[w] = base[w] /\ cand'[w] = cand[w]
      /\ documentOwner # w /\ rows[w] = "none" /\ Kind[w] # "none" /\ ControlOK
  BY AnswerTurns, Zenon DEF IInv, ControlOK, Local, HolderOf, RowOf, Active, JobsOK
<1>2. Woken \subseteq Waiters
  BY WokenWaits, Zenon DEF IInv, ControlOK
<1>3. ControlOK'
  BY <1>1, <1>2, Zenon DEF ControlOK, Turns, WakeNext, KeepDocument
<1>4. Moves(w)
  BY <1>1, Zenon DEF Moves, Only, Turns, ControlOK, WakeNext, KeepDocument
<1>5. Local(w)'
  BY <1>1, <1>3, <1>4, EndsLocal, Zenon DEF Turns, ControlOK
<1>6. DiskInv'
  BY <1>4, DiskStays, Zenon DEF Undelivered, Holding
<1>7. ListedInv'
  BY <1>1, <1>4, ListedStays, Zenon DEF Listed, Holding, PackageStages, WriteStages, ControlOK
<1>8. WakeInv'
  BY <1>1, <1>4, WokenWakes, KeepWakes, Zenon DEF Turns, WakeNext, Active
<1> QED  BY <1>3, <1>4, <1>5, <1>6, <1>7, <1>8, Assemble, Zenon

\* A managed spawn that does not hold the document starts to roll back.
LEMMA RollsBack ==
  ASSUME IInv, NEW w \in Waiters, load' = load, w \in ready, Kind[w] = "git",
         Active(w), ~Holding(w), stage[w] # "finalize", Submit(w, "rollback"),
         UNCHANGED <<docVars, cellVars, pkgVars, repoVars, tree>>,
         WakeNext(w) \/ (KeepDocument(w) /\ (WakesKept => ~Waker(w)))
  PROVE  Kept
<1> USE DEF docVars, cellVars, pkgVars, repoVars
<1>1. /\ Turns(w, "rollback", "running", answer[w]) /\ base'[w] = base[w] /\ cand'[w] = cand[w]
      /\ documentOwner # w /\ rows[w] = "none" /\ answer[w] = "none" /\ ControlOK
  BY SubmitTurns, Zenon DEF IInv, ControlOK, Local, HolderOf, RowOf, Active, Stages
<1>2. Woken \subseteq Waiters
  BY WokenWaits, Zenon DEF IInv, ControlOK
<1>3. ControlOK'
  BY <1>1, <1>2, Zenon DEF ControlOK, Turns, WakeNext, KeepDocument
<1>4. Moves(w)
  BY <1>1, Zenon DEF Moves, Only, Turns, ControlOK, WakeNext, KeepDocument
<1>5. Local(w)'
  <2> USE <1>1, SameLoad DEF Turns
  <2>1. HolderOf(w)' /\ FreshOf(w)'
    BY Zenon DEF IInv, Local, HolderOf, FreshOf, Holding, Preparing, WriteStages, PackageStages,
           GitStages, IsPackage, WakeNext, KeepDocument
  <2>2. WroteOf(w)' /\ LossOf(w)' /\ TreeOf(w)' /\ RowOf(w)'
    BY Zenon DEF WroteOf, Landed, LossOf, TreeOf, RowOf, Applied, WriteStages, PackageStages
  <2> QED  BY <2>1, <2>2, Zenon DEF Local
<1>6. DiskInv'
  BY <1>4, DiskStays, Zenon DEF Undelivered, Holding
<1>7. ListedInv'
  BY <1>1, <1>4, ListedStays, Zenon DEF Listed, Holding, PackageStages, WriteStages
<1>8. WakeInv'
  BY <1>1, <1>4, WokenWakes, KeepWakes, Zenon DEF Turns, WakeNext, Active
<1> QED  BY <1>3, <1>4, <1>5, <1>6, <1>7, <1>8, Assemble, Zenon

\* A managed spawn prepares its record or its removal, perhaps once more.
LEMMA PreparesAgain ==
  ASSUME IInv, NEW w \in Waiters, load' = load, w \in ready, Kind[w] = "git",
         Active(w), ~Holding(w), stage[w] # "finalize",
         NEW s \in {"prepare", "prepare_removal"}, GoPrepare(w, s),
         tree[w] \in IF s = "prepare" THEN {"made", "reused"} ELSE {"removed"}
  PROVE  Kept
<1> USE DEF docVars, cellVars, pkgVars, repoVars, GoPrepare
<1>1. /\ documentOwner # w /\ rows[w] = "none" /\ answer[w] = "none" /\ ControlOK
  BY Zenon DEF IInv, ControlOK, Local, HolderOf, RowOf, Active
<1>2. /\ Turns(w, s, "running", answer[w]) /\ base'[w] = revision
      /\ Fresh(w)' /\ (s = "prepare" => Change(w) \in cand'[w])
      /\ (s = "prepare_removal" => Change(w) \notin cand'[w])
  BY <1>1, PrepareTurns, Zenon
<1>3. ControlOK'
  BY <1>1, <1>2, Zenon DEF ControlOK, Turns, KeepDocument
<1>4. Moves(w)
  BY <1>1, <1>2, Zenon DEF Moves, Only, Turns, ControlOK, KeepDocument
<1>5. Local(w)'
  <2> USE <1>1, <1>2, SameLoad DEF Turns
  <2>1. HolderOf(w)'
    BY Zenon DEF HolderOf, Holding, WriteStages, PackageStages, GitStages, IsPackage, KeepDocument
  <2>2. FreshOf(w)'
    BY SMTT(20) DEF FreshOf, ControlOK
  <2>3. WroteOf(w)' /\ LossOf(w)' /\ TreeOf(w)' /\ RowOf(w)'
    BY Zenon DEF WroteOf, Landed, LossOf, TreeOf, RowOf, Applied, WriteStages, PackageStages
  <2> QED  BY <2>1, <2>2, <2>3, Zenon DEF Local
<1>6. DiskInv'
  BY <1>4, DiskStays, Zenon DEF Undelivered, Holding
<1>7. ListedInv'
  BY <1>1, <1>4, ListedStays, Zenon DEF Listed, Holding, PackageStages, WriteStages
<1>8. WakeInv'
  BY <1>2, <1>4, KeepWakes, SameLoad, Zenon DEF Turns, Active, Waker
<1> QED  BY <1>3, <1>4, <1>5, <1>6, <1>7, <1>8, Assemble, Zenon

\* A request whose prepare finds the document reserved parks.
LEMMA Parks ==
  ASSUME IInv, NEW w \in Waiters, load' = load, w \in ready,
         NEW p \in {"parked", "parked_removal"}, SetStage(w, p, "none"),
         stage[w] \in {p, IF p = "parked" THEN "prepare" ELSE "prepare_removal"},
         documentOwner \notin {0, w}, documentWaiters' = documentWaiters \cup {w},
         ready' = ready \ {w},
         UNCHANGED <<answer, base, cand, documentOwner, docVars, cellVars, pkgVars,
                     repoVars, tree>>
  PROVE  Kept
<1> USE DEF docVars, cellVars, pkgVars, repoVars
<1>1. ControlOK /\ Local(w) /\ p \in Stages /\ "none" \in Results
  BY Zenon DEF IInv, Stages, Results
<1>2. Turns(w, p, "none", answer[w])
  BY <1>1, SetStageTurns, Zenon DEF Turns, JobsOK, ControlOK
<1>3. ControlOK'
  BY <1>1, <1>2, Zenon DEF ControlOK, Turns
<1>4. Moves(w)
  BY <1>1, <1>2, Zenon DEF Moves, Only, Turns, ControlOK
<1>5. Local(w)'
  <2> USE <1>1, <1>2, SameLoad DEF Turns, Local
  <2>1. HolderOf(w)'
    BY Zenon DEF HolderOf, Holding, WriteStages, PackageStages, GitStages, IsPackage
  <2>2. FreshOf(w)'
    BY Zenon DEF FreshOf, Fresh, Holding, Preparing, WriteStages, PackageStages
  <2>3. WroteOf(w)' /\ LossOf(w)'
    BY Zenon DEF WroteOf, Landed, LossOf, WriteStages, PackageStages
  <2>4. TreeOf(w)' /\ RowOf(w)'
    BY Zenon DEF TreeOf, RowOf, Applied
  <2> QED  BY <2>1, <2>2, <2>3, <2>4, Zenon
<1>6. DiskInv'
  BY <1>4, DiskStays, Zenon DEF Undelivered, WriteStages
<1>7. ListedInv'
  BY <1>4, ListedStays, Zenon DEF Listed
<1>8. WakeInv'
  BY <1>2, <1>4, ParkWakes, Zenon DEF Turns, Parked
<1> QED  BY <1>3, <1>4, <1>5, <1>6, <1>7, <1>8, Assemble, Zenon DEF Active

\* A prepared request is granted the free document and claims the cell.
LEMMA Grants ==
  ASSUME IInv, NEW w \in Waiters, load' = load, w \in ready,
         NEW s \in {"commit", "removal"}, Submit(w, s),
         stage[w] \in IF s = "commit" THEN {"prepare", "parked"}
                      ELSE {"prepare_removal", "parked_removal"},
         MayOwn(w), cell = 0, documentOwner' = w, ready' = ready \ {w}, cell' = w,
         UNCHANGED <<documentWaiters, cellHeld, docVars, pkgVars, repoVars, tree>>
  PROVE  Kept
<1> USE DEF docVars, pkgVars, repoVars
<1>1. ControlOK /\ Local(w) /\ s \in Stages
  BY Zenon DEF IInv, Stages
<1>2. /\ Turns(w, s, "running", answer[w]) /\ base'[w] = base[w] /\ cand'[w] = cand[w]
      /\ answer'[w] = answer[w]
  BY <1>1, SubmitTurns, Zenon DEF ControlOK
<1>3. documentOwner = 0 /\ base[w] = revision /\ cellHeld = FALSE
  BY <1>1, Zenon DEF MayOwn, Local, HolderOf, Holding, ControlOK, WriteStages, PackageStages
<1>4. ControlOK'
  BY <1>1, <1>2, <1>3, Zenon DEF ControlOK, Turns
<1>5. Moves(w)
  BY <1>1, <1>2, <1>3, Zenon DEF Moves, Only, Turns, ControlOK
<1>6. Local(w)'
  <2> USE <1>1, <1>2, <1>3, SameLoad DEF Turns, Local
  <2>1. HolderOf(w)'
    BY Zenon DEF HolderOf, Holding, WriteStages, PackageStages, GitStages, IsPackage
  <2>2. FreshOf(w)'
    BY Zenon DEF FreshOf, Fresh, Holding, Preparing, WriteStages, PackageStages
  <2>3. WroteOf(w)' /\ LossOf(w)'
    BY Zenon DEF WroteOf, Landed, LossOf, HolderOf, WriteStages, PackageStages
  <2>4. TreeOf(w)' /\ RowOf(w)'
    BY Zenon DEF TreeOf, RowOf, Applied
  <2> QED  BY <2>1, <2>2, <2>3, <2>4, Zenon
<1>7. DiskInv'
  BY <1>5, DiskStays, Zenon DEF Undelivered, WriteStages
<1>8. ListedInv'
  BY <1>5, ListedStays, Zenon DEF Listed
<1>9. WakeInv'
  BY <1>2, <1>5, GrantWakes, Zenon DEF Turns, Active
<1> QED  BY <1>4, <1>5, <1>6, <1>7, <1>8, <1>9, Assemble, Zenon DEF Active
----------------------------------------------------------------------------
\* A result is delivered directly, or after an event cleanup when it is one
\* of the package's runtime phases.
LEMMA DeliveredIs ==
  ASSUME JobsOK, NEW w \in Waiters, NEW s \in Stages, NEW r, Delivered(w, s, r)
  PROVE  /\ w \in ready
         /\ \/ stage[w] = s /\ result[w] = r
            \/ /\ s \in {"effect", "runtime", "quarantine"} /\ r \in {"ok", "failed"}
               /\ stage[w] = "events" /\ result[w] = "ok" /\ saved[w] = <<s, r>>
<1>1. saved[w] \in Deferred
  BY Zenon DEF JobsOK
<1>2. saved[w] = <<s, r>> =>
        \/ s \in {"effect", "runtime", "quarantine"} /\ r \in {"ok", "failed"}
        \/ s = "none" /\ r = "none"
  BY <1>1 DEF Deferred
<1> QED  BY <1>2, Zenon DEF Delivered, Stages

\* A Host worker's job of w returns r: it may have written the candidate of w,
\* stranded its package or changed its worktree.
LEMMA JobReturns ==
  ASSUME IInv, NEW w \in Waiters, load' = load, NEW r \in Results,
         Active(w), result[w] = "running", Returns(w, r), ~Parked(w), UNCHANGED rows,
         tree' \in [Waiters -> Trees], \A v \in Waiters \ {w} : tree'[v] = tree[v],
         (tree' = tree /\ stage[w] \notin {"create", "rollback"}) \/ TreeOf(w)',
         disk' = disk \/ (disk' = cand[w] /\ Undelivered(w)'),
         \A x \in repo : x \in repo',
         \A p \in stranded' : p \in stranded
                              \/ (p = Package[w] /\ documentOwner = w /\ Listed(w)'),
         stage[w] \in WriteStages /\ r = "ok" =>
           IF Kind[w] = "repo" THEN Change(w) \in repo' ELSE disk' = cand[w],
         Explicit(w) /\ stage[w] = "effect" /\ r = "ok" => Package[w] \notin stranded',
         LossOf(w)'
  PROVE  Kept
<1> USE SameLoad
<1>1. /\ ControlOK /\ Local(w) /\ result'[w] = r /\ result' \in [Waiters -> Results]
      /\ \A v \in Waiters \ {w} : result'[v] = result[v]
  BY Zenon DEF IInv, Returns, ControlOK, JobsOK
<1>2. ControlOK'
  BY <1>1, Zenon DEF ControlOK, JobsOK, Returns
<1>3. Undelivered(w)' => Publishes(w) /\ documentOwner = w
  BY <1>1, Zenon DEF Undelivered, Publishes, Holding, Returns, Local, HolderOf
<1>4. Moves(w)
  BY <1>1, <1>3, Zenon DEF Moves, Only, ControlOK, Returns
<1>5. Local(w)'
  <2>1. HolderOf(w)' /\ FreshOf(w)'
    BY <1>1, Zenon DEF Local, HolderOf, FreshOf, Fresh, Holding, Preparing, Returns
  <2>2. WroteOf(w)'
    <3>1. Landed(w)' = Landed(w)
      BY Zenon DEF Landed, Returns
    <3>2. Undelivered(w)' => ~Landed(w)
      BY <1>1, Zenon DEF Undelivered, Landed, Local, HolderOf, WriteStages, Returns
    <3> QED  BY <1>1, <3>1, <3>2, Zenon DEF Local, WroteOf, Returns
  <2>3. TreeOf(w)'
    BY <1>1, Zenon DEF Local, TreeOf, Returns
  <2>4. RowOf(w)'
    BY <1>1 DEF Local, RowOf, Applied, Listed, Returns
  <2> QED  BY <2>1, <2>2, <2>3, <2>4, Zenon DEF Local
<1>6. DiskInv'
  <2>1. CASE disk' = disk
    BY <1>4, <2>1, DiskStays, Zenon DEF Undelivered, Returns
  <2>2. CASE Undelivered(w)'
    BY <2>2, Zenon DEF DiskInv
  <2> QED  BY <2>1, <2>2, Zenon
<1>7. ListedInv'
  BY <1>4, ListedStays, Zenon DEF Listed, Returns
<1>8. WakeInv'
  BY <1>4, RunWakes, Zenon DEF Returns
<1> QED  BY <1>2, <1>4, <1>5, <1>6, <1>7, <1>8, Assemble, Zenon

\* A request whose write was delivered ends and releases the document.
LEMMA Closes ==
  ASSUME IInv, NEW w \in Waiters, load' = load, w \in ready, stage[w] \in WriteStages,
         NEW a \in Answers, Answer(w, a), ReleaseDocument(w),
         ReleaseCell(w) \/ (cellHeld' = TRUE /\ cell' = cell),
         \/ UNCHANGED <<revision, view>>
         \/ revision' = revision + 1 /\ view' = cand[w] /\ result[w] = "ok" /\ Kind[w] # "repo",
         UNCHANGED <<disk, repo, stranded, tree>>,
         rows' = IF stage[w] = "record" THEN [rows EXCEPT ![w] = "package"] ELSE rows,
         Undelivered(w) /\ NothingLost => view' = disk \/ cellHeld' = TRUE,
         a = "ok" => IF Kind[w] = "repo" THEN Change(w) \in repo
                     ELSE Change(w) \in view' /\ Change(w) \in disk,
         Kind[w] = "git" /\ a = "failed" =>
           tree[w] # "made" /\ (tree[w] = "removed" => Change(w) \notin view')
  PROVE  Kept
<1>1. /\ Turns(w, "done", "none", a) /\ base'[w] = base[w] /\ ControlOK /\ Local(w)
  BY AnswerTurns, Zenon DEF IInv, ControlOK
<1>2. /\ documentOwner = w /\ cell = w /\ rows[w] = "none" /\ Kind[w] # "none"
      /\ w # 0 /\ cellHeld = FALSE
  BY <1>1, HostWorkConstants, Zenon DEF Local, HolderOf, RowOf, WriteStages, ControlOK
<1>3. Woken \subseteq Waiters
  BY <1>1, WokenWaits, Zenon DEF ControlOK
<1>4. ControlOK'
  <2>1. rows' \in [Waiters -> {"none", "package", "events", "git"}]
    BY <1>1, Zenon DEF ControlOK
  <2>2. JobsOK' /\ revision' \in Nat
    BY <1>1 DEF ControlOK, Turns
  <2>3. cellHeld' \in BOOLEAN /\ (cellHeld' => cell' # 0)
    BY <1>2, Zenon DEF ReleaseCell
  <2> QED  BY <1>1, <1>2, <1>3, <2>1, <2>2, <2>3, Zenon DEF ControlOK, ReleaseDocument
<1>5. Moves(w)
  BY <1>1, <1>2 DEF Moves, Only, Turns, ReleaseDocument, Publishes, Holding
<1>6. Local(w)'
  BY <1>1, <1>2, <1>4, <1>5, EndsLocal, Zenon DEF Turns, ControlOK
<1>7. DiskInv'
  BY <1>5, DiskDelivered, Zenon DEF ReleaseCell, Undelivered
<1>8. ListedInv'
  BY <1>1, <1>2, <1>5, ListedStays, Zenon DEF Listed, WriteStages, ControlOK
<1>9. WakeInv'
  BY <1>1, <1>2, <1>5, ReleaseWakes, Zenon DEF Turns, Active
<1> QED  BY <1>4, <1>5, <1>6, <1>7, <1>8, <1>9, Assemble, Zenon DEF WriteStages, Active
=============================================================================
