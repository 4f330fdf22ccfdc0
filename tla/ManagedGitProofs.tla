-------------------------- MODULE ManagedGitProofs --------------------------
(***************************************************************************)
(* The remaining steps keep the invariant IInv of ManagedGitInv: a managed *)
(* spawn that goes on after its record, and the phases and compensation    *)
(* of a package.  Then IInv holds of HostWork and ManagedGit for every     *)
(* finite set of requests, every load and every number of permits, and so  *)
(* do the properties that follow from it.                                  *)
(***************************************************************************)
EXTENDS ManagedGitSteps, FiniteSetTheorems

----------------------------------------------------------------------------
\* A managed spawn goes on after its record: published and released before
\* the spawn, or not written and rolled back.
LEMMA GitWriteGoesOnKeeps ==
  ASSUME IInv, NEW w \in Waiters, load' = load,
         RecordCommitted(w) \/ (CommitFailed(w) /\ stage[w] # "removal")
  PROVE  Kept
<1> USE DEF docVars, pkgVars, repoVars
<1>1. ControlOK /\ Local(w) /\ JobsOK /\ {"commit", "removal", "spawn", "rollback"} \subseteq Stages
  BY Zenon DEF IInv, ControlOK, Stages
<1>2. /\ w \in ready /\ stage[w] = "commit" /\ Kind[w] = "git"
      /\ ReleaseCell(w) /\ ReleaseDocument(w)
      /\ UNCHANGED <<disk, rows, stranded, repo, tree>>
      /\ \/ result[w] = "ok" /\ revision' = revision + 1 /\ view' = cand[w]
         \/ result[w] = "failed" /\ UNCHANGED <<revision, view>> /\ Submit(w, "rollback")
      /\ Submit(w, "spawn") \/ Submit(w, "rollback")
  BY <1>1, DeliveredIs, Zenon DEF RecordCommitted, CommitFailed, Git
<1>3. /\ documentOwner = w /\ cell = w /\ rows[w] = "none" /\ cellHeld = FALSE /\ w # 0
      /\ answer[w] = "none"
  BY <1>1, <1>2, HostWorkConstants, Zenon DEF Local, HolderOf, RowOf, WriteStages, ControlOK
<1>4. PICK s \in {"spawn", "rollback"} : Submit(w, s) /\ (s = "spawn" => result[w] = "ok")
  <2>1. ~(Submit(w, "spawn") /\ Submit(w, "rollback"))
    BY <1>1, Zenon DEF Submit, SetStage, JobsOK
  <2> QED  BY <1>2, <2>1, Zenon
<1>5. /\ Turns(w, s, "running", "none") /\ base'[w] = base[w] /\ answer'[w] = "none"
  BY <1>1, <1>3, <1>4, SubmitTurns, Zenon
<1>6. /\ documentOwner' = 0 /\ cell' = 0 /\ cellHeld' = FALSE /\ Woken \subseteq Waiters
      /\ ready' = (ready \ {w}) \cup Woken /\ documentWaiters' = documentWaiters \ Woken
  BY <1>1, <1>2, <1>3, WokenWaits, Zenon DEF ReleaseDocument, ReleaseCell, ControlOK
<1>7. ControlOK'
  <2>1. revision' \in Nat
    BY <1>1, <1>2 DEF ControlOK
  <2>2. JobsOK'
    BY <1>5, Zenon DEF Turns
  <2> QED  BY <1>1, <1>2, <1>6, <2>1, <2>2, Zenon DEF ControlOK
<1>8. Moves(w)
  BY <1>1, <1>2, <1>3, <1>5, <1>6, Zenon DEF Moves, Only, Turns, Publishes, Holding, WriteStages,
                                      ControlOK
<1>9. result[w] = "ok" => disk = cand[w] /\ Change(w) \in cand[w]
  BY <1>1, <1>2, Zenon DEF Local, WroteOf, FreshOf, WriteStages
<1>10. Local(w)'
  <2> USE <1>1, <1>2, <1>3, <1>5, <1>6, SameLoad DEF Turns, Local
  <2>1. HolderOf(w)'
    BY Zenon DEF HolderOf, Holding, WriteStages, PackageStages, GitStages
  <2>2. FreshOf(w)'
    BY DEF FreshOf, Holding, Preparing, WriteStages, PackageStages, ControlOK, JobsOK
  <2>3. WroteOf(w)' /\ LossOf(w)'
    BY <1>4, <1>9, Zenon DEF WroteOf, LossOf, Landed, WriteStages, PackageStages
  <2>4. TreeOf(w)' /\ RowOf(w)'
    BY Zenon DEF TreeOf, RowOf, Applied
  <2> QED  BY <2>1, <2>2, <2>3, <2>4, Zenon
<1>11. DiskInv'
  BY <1>2, <1>3, <1>6, <1>8, <1>9, DiskDelivered, Zenon DEF Undelivered, WriteStages
<1>12. ListedInv'
  BY <1>2, <1>3, <1>8, ListedStays, Zenon DEF Listed
<1>13. WakeInv'
  BY <1>2, <1>3, <1>5, <1>8, ReleaseWakes, Zenon DEF Turns
<1> QED  BY <1>2, <1>7, <1>8, <1>10, <1>11, <1>12, <1>13, Assemble, Zenon DEF Active
----------------------------------------------------------------------------
(* The phases of a package mutation under its reservation.                  *)

\* A package mutation goes on to its next job with the document reserved.
LEMMA PackageGoesOn ==
  ASSUME IInv, NEW w \in Waiters, load' = load, w \in ready, IsPackage(w), Holding(w),
         KeepDocument(w), JobsOK', Only(w), result'[w] = "running",
         UNCHANGED <<cellHeld, disk, repo, rows, tree>>, answer'[w] = answer[w],
         base'[w] = base[w],
         \/ stage'[w] \in PackageStages /\ cell' = 0 /\ cellHeld = FALSE
         \/ stage'[w] \in {"restore", "record"} /\ cell' = w /\ cellHeld = FALSE,
         \/ UNCHANGED <<revision, view>> /\ ~Undelivered(w)
         \/ /\ revision' = revision + 1 /\ view' = cand[w]
            /\ view' = disk /\ stage[w] \in WriteStages,
         Fresh(w)',
         Landed(w)' => Change(w) \in view' /\ Change(w) \in disk,
         Applied(w)' => Applied(w) /\ stranded' = stranded,
         \A p \in stranded' : p \in stranded \/ (p = Package[w] /\ Listed(w)'),
         Listed(w) => Listed(w)'
  PROVE  Kept
<1>1. ControlOK /\ Local(w) /\ w # 0
  BY HostWorkConstants, Zenon DEF IInv
<1>2. /\ documentOwner = w /\ rows[w] = "none" /\ answer[w] = "none"
      /\ Kind[w] \notin {"none", "git", "repo"}
  BY <1>1, Zenon DEF Local, HolderOf, RowOf, Holding, IsPackage, WriteStages, PackageStages
<1>3. ControlOK'
  BY <1>1 DEF ControlOK, KeepDocument
<1>4. Moves(w)
  BY <1>1, <1>2, Zenon DEF Moves, KeepDocument, Publishes
<1>5. Local(w)'
  <2> USE <1>1, <1>2, SameLoad DEF Local
  <2>1. HolderOf(w)'
    BY Zenon DEF HolderOf, Holding, WriteStages, PackageStages, GitStages, KeepDocument
  <2>2. FreshOf(w)'
    BY DEF FreshOf, WriteStages, PackageStages, ControlOK, JobsOK
  <2>3. WroteOf(w)' /\ LossOf(w)'
    BY Zenon DEF WroteOf, LossOf
  <2>4. TreeOf(w)' /\ RowOf(w)'
    BY Zenon DEF TreeOf, RowOf
  <2> QED  BY <2>1, <2>2, <2>3, <2>4, Zenon
<1>6. DiskInv'
  BY <1>4, DiskStays, DiskDelivered, Zenon
<1>7. ListedInv'
  BY <1>4, ListedStays, Zenon
<1>8. WakeInv'
  BY <1>4, KeepWakes, Zenon DEF Active, Waker, Parked, WriteStages, PackageStages, Holding
<1> QED  BY <1>3, <1>4, <1>5, <1>6, <1>7, <1>8, Assemble, Zenon
             DEF Holding, Active, WriteStages, PackageStages

\* A package mutation ends: released, or with the document still reserved.
LEMMA PackageEnds ==
  ASSUME IInv, NEW w \in Waiters, load' = load, w \in ready, IsPackage(w), Holding(w),
         NEW a \in Answers, Answer(w, a),
         ReleaseDocument(w) \/ (KeepDocument(w) /\ ~WakesKept),
         UNCHANGED <<revision, view, disk, repo, stranded, tree>>,
         ReleaseCell(w) \/ UNCHANGED <<cell, cellHeld>>,
         rows' \in [Waiters -> {"none", "package", "events", "git"}],
         \A v \in Waiters \ {w} :
           rows'[v] = rows[v] \/ (rows'[v] = "none" /\ Package[v] \notin stranded),
         Listed(w) => rows'[w] = "events" \/ "lost_late" \in MayFail,
         ~Undelivered(w) \/ ~NothingLost,
         a = "ok" => Change(w) \in view /\ Change(w) \in disk
  PROVE  Kept
<1>1. /\ Turns(w, "done", "none", a) /\ base'[w] = base[w] /\ cand'[w] = cand[w]
      /\ ControlOK /\ Local(w) /\ w # 0
  BY HostWorkConstants, AnswerTurns, Zenon DEF IInv, ControlOK
<1>2. documentOwner = w /\ Kind[w] \notin {"none", "git", "repo"}
  BY <1>1, Zenon DEF Local, HolderOf, Holding, IsPackage
<1>3. Woken \subseteq Waiters
  BY <1>1, WokenWaits, Zenon DEF ControlOK
<1>4. ControlOK'
  BY <1>1, <1>3 DEF ControlOK, Turns, ReleaseDocument, KeepDocument, ReleaseCell
<1>5. Moves(w)
  BY <1>1, <1>2, Zenon DEF Moves, Only, Turns, ReleaseDocument, KeepDocument
<1>6. Local(w)'
  BY <1>1, <1>2, <1>4, <1>5, EndsLocal, Zenon DEF Turns, ControlOK
<1>7. DiskInv'
  <2>1. CASE ~Undelivered(w)
    BY <1>5, <2>1, DiskStays, Zenon DEF ReleaseCell
  <2>2. CASE ~NothingLost
    BY <1>5, <2>2, SameLoad, Zenon DEF DiskInv, NothingLost, Moves
  <2> QED  BY <2>1, <2>2, Zenon
<1>8. ListedInv'
  BY <1>5, ListedStays, Zenon DEF Listed
<1>9. WakeInv'
  <2>1. CASE ReleaseDocument(w)
    BY <1>1, <1>2, <1>5, <2>1, ReleaseWakes, Zenon DEF Turns, Active
  <2>2. CASE ~WakesKept
    BY <1>5, <2>2, WakeFacts, Zenon DEF WakeInv
  <2> QED  BY <2>1, <2>2, Zenon
<1> QED  BY <1>4, <1>5, <1>6, <1>7, <1>8, <1>9, Assemble, Zenon
             DEF Holding, Active, WriteStages, PackageStages

\* What a package mutation holds in each of its phases.
LEMMA PackageHolds ==
  ASSUME IInv, NEW w \in Waiters, stage[w] \in PackageStages \cup {"restore", "record"}
  PROVE  /\ ControlOK /\ JobsOK /\ Local(w) /\ IsPackage(w) /\ Holding(w) /\ Fresh(w)
         /\ documentOwner = w /\ cellHeld = FALSE /\ rows[w] = "none"
         /\ Kind[w] \notin {"none", "git", "repo"} /\ answer[w] = "none"
         /\ stage[w] \in PackageStages => cell = 0 /\ ~Undelivered(w)
<1>1. ControlOK /\ JobsOK /\ Local(w)
  BY Zenon DEF IInv, ControlOK
<1>2. IsPackage(w) /\ Holding(w) /\ Kind[w] \notin {"none", "git", "repo"}
  BY <1>1, Zenon DEF Local, HolderOf, Holding, IsPackage, WriteStages
<1> QED  BY <1>1, <1>2, Zenon DEF Local, HolderOf, FreshOf, RowOf, ControlOK, WriteStages,
              PackageStages, Undelivered

\* The document of a package mutation is written: its runtime effect follows.
LEMMA PackageCommittedKeeps ==
  ASSUME IInv, NEW w \in Waiters, load' = load, UNCHANGED tree, PollCommitted(w), IsPackage(w)
  PROVE  Kept
<1> USE DEF pkgVars, repoVars
<1>1. /\ ControlOK /\ JobsOK /\ Local(w)
      /\ {"commit", "effect"} \subseteq Stages /\ "running" \in Results
  BY Zenon DEF IInv, ControlOK, Stages, Results
<1>2. w \in ready /\ stage[w] = "commit" /\ result[w] = "ok" /\ stage[w] \in WriteStages
  BY <1>1, DeliveredIs, Zenon DEF PollCommitted, WriteStages
<1>3. /\ Holding(w) /\ cell = w /\ cellHeld = FALSE /\ rows[w] = "none"
      /\ disk = cand[w] /\ Change(w) \in cand[w] /\ Fresh(w) /\ Kind[w] # "repo"
  BY <1>1, <1>2, Zenon DEF Holding, Local, HolderOf, RowOf, WroteOf, FreshOf, IsPackage, ControlOK
<1>4. /\ SetStage(w, "effect", "running") /\ cand' = [cand EXCEPT ![w] = view]
      /\ UNCHANGED <<answer, base, disk, rows, stranded, repo>> /\ KeepDocument(w)
      /\ ReleaseCell(w) /\ revision' = revision + 1 /\ view' = cand[w]
  BY Zenon DEF PollCommitted
<1>5. Turns(w, "effect", "running", answer[w]) /\ cand'[w] = view
  BY <1>1, <1>4, SetStageTurns, Zenon DEF Turns, JobsOK
<1>6. Fresh(w)' /\ cell' = 0 /\ cellHeld' = FALSE
  BY <1>3, <1>4, <1>5, SameLoad, Zenon DEF Fresh, ReleaseCell
<1>7. Only(w) /\ JobsOK' /\ stage'[w] \in PackageStages /\ ~Applied(w)' /\ ~Listed(w)
  BY <1>1, <1>2, <1>3, <1>4, <1>5, Zenon DEF Turns, Only, ControlOK, PackageStages, Applied, Listed
<1> QED  BY <1>2, <1>3, <1>4, <1>5, <1>6, <1>7, PackageGoesOn, Zenon DEF Turns

\* A phase that ended is followed by an event cleanup, once or again.
LEMMA CleanupKeeps ==
  ASSUME IInv, NEW w \in Waiters, load' = load, UNCHANGED tree,
         PollCleanup(w) \/ PollCleanupAgain(w)
  PROVE  Kept
<1> USE DEF docVars, cellVars, pkgVars, repoVars
<1>1. w \in ready /\ stage[w] \in PackageStages
  BY Zenon DEF PollCleanup, PollCleanupAgain, HasCleanup, PackageStages
<1>2. /\ KeepDocument(w)
      /\ UNCHANGED <<answer, base, cand, docVars, cellVars, pkgVars, repoVars>>
  BY Zenon DEF PollCleanup, PollCleanupAgain
<1>3. /\ JobsOK' /\ stage'[w] = "events" /\ result'[w] = "running"
      /\ \A v \in Waiters \ {w} :
           stage'[v] = stage[v] /\ result'[v] = result[v] /\ saved'[v] = saved[v]
      /\ \/ stage[w] = "events" /\ saved'[w] = saved[w]
         \/ HasCleanup(w) /\ saved'[w] = <<stage[w], result[w]>>
  <2>1. JobsOK /\ "events" \in Stages /\ "running" \in Results
    BY Zenon DEF IInv, ControlOK, Stages, Results
  <2>2. CASE PollCleanup(w)
    <3>1. <<stage[w], result[w]>> \in Deferred
      BY <2>2, Zenon DEF PollCleanup, HasCleanup, Deferred
    <3> QED  BY <2>1, <2>2, <3>1, Zenon DEF PollCleanup, JobsOK
  <2>3. CASE PollCleanupAgain(w)
    BY <2>1, <2>3, Zenon DEF PollCleanupAgain, JobsOK
  <2> QED  BY <2>2, <2>3, Zenon
<1>4. Only(w) /\ Fresh(w)'
  BY <1>1, <1>2, <1>3, PackageHolds, SameLoad, Zenon DEF Only, ControlOK, Fresh
<1>5. /\ Landed(w)' = Landed(w) /\ (Applied(w)' => Applied(w)) /\ (Listed(w) => Listed(w)')
  <2>1. CASE stage[w] = "events" /\ saved'[w] = saved[w]
    BY <1>2, <1>3, <2>1, SameLoad, Zenon DEF Landed, Applied, Listed
  <2>2. CASE HasCleanup(w) /\ saved'[w] = <<stage[w], result[w]>>
    BY <1>2, <1>3, <2>2, SameLoad, SMTT(20) DEF HasCleanup, Landed, Applied, Listed
  <2> QED  BY <1>3, <2>1, <2>2, Zenon
<1>6. Landed(w) => Change(w) \in view /\ Change(w) \in disk
  BY Zenon DEF IInv, Local, WroteOf
<1> QED  BY <1>1, <1>2, <1>3, <1>4, <1>5, <1>6, PackageHolds, PackageGoesOn, Zenon DEF PackageStages

\* A phase delivered directly or after its cleanup: what w then holds.
LEMMA PhaseDelivered ==
  ASSUME IInv, NEW w \in Waiters, NEW s \in {"effect", "runtime", "quarantine"},
         NEW r \in {"ok", "failed"}, Delivered(w, s, r)
  PROVE  /\ w \in ready /\ stage[w] \in PackageStages
         /\ s = "effect" => Landed(w) /\ ~Listed(w)
         /\ s = "effect" /\ r = "ok" => Applied(w)
         /\ s = "runtime" /\ r = "ok" => ~Listed(w)
<1>1. /\ w \in ready
      /\ \/ stage[w] = s /\ result[w] = r
         \/ stage[w] = "events" /\ result[w] = "ok" /\ saved[w] = <<s, r>>
  BY Zenon DEF Delivered
<1>2. stage[w] \in PackageStages
  BY <1>1, Zenon DEF PackageStages
<1>3. answer[w] = "none" /\ Kind[w] # "repo" /\ rows[w] = "none"
  BY <1>2, PackageHolds, Zenon DEF Local, HolderOf, PackageStages
<1> QED  BY <1>1, <1>2, <1>3 DEF Landed, Applied, Listed

\* Effects and compensations that failed go on: a restore, a quarantine, the
\* runtime's restore, the record of the quarantine.
LEMMA CompensationKeeps ==
  ASSUME IInv, NEW w \in Waiters, load' = load, UNCHANGED tree,
         \/ PollEffectFailed(w) \/ PollRestored(w) \/ PollRestoreFailed(w)
         \/ PollCompensationFailed(w)
  PROVE  Kept
<1> USE DEF docVars, pkgVars, repoVars
<1>1. /\ JobsOK /\ {"restore", "record", "runtime", "quarantine"} \subseteq Stages
      /\ "running" \in Results
  BY Zenon DEF IInv, ControlOK, Stages, Results
<1>2. ASSUME NEW s \in {"restore", "runtime", "quarantine"}, Submit(w, s), Fresh(w),
             UNCHANGED rows, ControlOK, answer[w] = "none"
      PROVE  /\ Turns(w, s, "running", answer[w]) /\ base'[w] = base[w] /\ cand'[w] = cand[w]
             /\ Only(w) /\ ~Applied(w)' /\ ~Landed(w)' /\ (s = "quarantine" => Listed(w)')
             /\ (view' = view \/ view' = cand[w] => Fresh(w)')
  <2>1. /\ Turns(w, s, "running", answer[w]) /\ base'[w] = base[w] /\ cand'[w] = cand[w]
    BY <1>1, <1>2, SubmitTurns, Zenon
  <2>2. Only(w) /\ ~Applied(w)' /\ (s = "quarantine" => Listed(w)')
    BY <1>2, <2>1, Zenon DEF Turns, Only, ControlOK, Applied, Listed
  <2> QED  BY <1>2, <2>1, <2>2, SameLoad, Zenon DEF Turns, Landed, Fresh
<1>3. CASE PollEffectFailed(w)
  <2>1. /\ w \in ready /\ stage[w] \in PackageStages /\ ~Listed(w)
        /\ KeepDocument(w) /\ UNCHANGED <<cellHeld, docVars, repoVars>>
    BY <1>3, PhaseDelivered, Zenon DEF PollEffectFailed
  <2>2. CASE Submit(w, "restore") /\ cell' = w /\ UNCHANGED pkgVars
    BY <1>2, <2>1, <2>2, PackageHolds, PackageGoesOn, Zenon DEF Turns
  <2>3. CASE SubmitQuarantine(w) /\ UNCHANGED cell
    BY <1>2, <2>1, <2>3, PackageHolds, PackageGoesOn, Zenon DEF Turns, SubmitQuarantine, PackageStages
  <2> QED  BY <1>3, <2>2, <2>3, Zenon DEF PollEffectFailed
<1>4. CASE PollRestored(w) \/ PollRestoreFailed(w)
  <2>1. /\ w \in ready /\ stage[w] = "restore" /\ stage[w] \in WriteStages
        /\ KeepDocument(w) /\ ReleaseCell(w) /\ UNCHANGED <<disk, repoVars>>
    BY <1>1, <1>4, DeliveredIs, Zenon DEF PollRestored, PollRestoreFailed, WriteStages
  <2>2. /\ cell = w /\ cell' = 0 /\ cellHeld = FALSE /\ cellHeld' = FALSE /\ ~Listed(w)
        /\ result[w] = "ok" => disk = cand[w]
    BY <2>1, PackageHolds, Zenon DEF Local, HolderOf, WroteOf, Listed, ReleaseCell
  <2>3. CASE PollRestored(w)
    <3>1. /\ result[w] = "ok" /\ revision' = revision + 1 /\ view' = cand[w]
          /\ Submit(w, "runtime") /\ UNCHANGED <<rows, stranded>>
      BY <1>1, <2>3, DeliveredIs, Zenon DEF PollRestored
    <3> QED  BY <1>2, <2>1, <2>2, <3>1, PackageHolds, PackageGoesOn, Zenon DEF Turns, PackageStages
  <2>4. CASE PollRestoreFailed(w)
    <3>1. /\ ~Undelivered(w) /\ UNCHANGED <<revision, view, rows>> /\ Submit(w, "quarantine")
          /\ stranded' = stranded \cup {Package[w]}
      BY <1>1, <2>4, DeliveredIs DEF PollRestoreFailed, Undelivered, SubmitQuarantine
    <3> QED  BY <1>2, <2>1, <2>2, <3>1, PackageHolds, PackageGoesOn, Zenon DEF Turns, PackageStages
  <2> QED  BY <1>4, <2>3, <2>4, Zenon
<1>5. CASE PollCompensationFailed(w)
  <2>1. /\ w \in ready /\ stage[w] \in PackageStages
        /\ KeepDocument(w) /\ UNCHANGED <<answer, base, pkgVars, cellHeld, docVars, repoVars>>
        /\ cell' = w /\ SetStage(w, "record", "running")
        /\ cand' = [cand EXCEPT ![w] = view \cup {Quarantine(Package[w])}]
    BY <1>5, PhaseDelivered, Zenon DEF PollCompensationFailed
  <2>2. /\ Turns(w, "record", "running", answer[w])
        /\ cand'[w] = view \cup {Quarantine(Package[w])}
    BY <1>1, <2>1, SetStageTurns, Zenon DEF Turns, JobsOK
  <2>3. Only(w) /\ ~Applied(w)' /\ ~Landed(w)' /\ Listed(w)'
    BY <2>1, <2>2, PackageHolds, Zenon DEF Turns, Only, ControlOK, Applied, Landed, Listed
  <2>4. Fresh(w)'
    BY <2>1, <2>2, PackageHolds, SameLoad, Zenon DEF Fresh, Own
  <2> QED  BY <2>1, <2>2, <2>3, <2>4, PackageHolds, PackageGoesOn, Zenon DEF Turns
<1> QED  BY <1>3, <1>4, <1>5, Zenon

\* A package mutation ends: applied, restored, with a cleanup fault, or lost.
LEMMA PackageEndsKeeps ==
  ASSUME IInv, NEW w \in Waiters, load' = load, UNCHANGED tree,
         PollEffectApplied(w) \/ PollRuntimeRestored(w) \/ PollCleanupFault(w) \/ PollLost(w)
  PROVE  Kept
<1> USE DEF docVars, cellVars, pkgVars, repoVars
<1>1. JobsOK /\ {"ok", "failed", "recovery"} \subseteq Answers
  BY Zenon DEF IInv, ControlOK, Answers
<1>2. CASE PollEffectApplied(w)
  <2>1. /\ w \in ready /\ stage[w] \in PackageStages /\ Landed(w) /\ Applied(w) /\ ~Listed(w)
    BY <1>2, PhaseDelivered, Zenon DEF PollEffectApplied
  <2>2. /\ Change(w) \in view /\ Change(w) \in disk
        /\ (Explicit(w) => Package[w] \notin stranded)
    BY <2>1, Zenon DEF IInv, Local, WroteOf, RowOf
  <2>3. /\ rows' \in [Waiters -> {"none", "package", "events", "git"}]
        /\ \A v \in Waiters \ {w} :
             rows'[v] = rows[v] \/ (rows'[v] = "none" /\ Package[v] \notin stranded)
    BY <1>2, <2>1, <2>2, PackageHolds, Zenon DEF PollEffectApplied, Resolved, ControlOK
  <2> QED  BY <1>1, <1>2, <2>1, <2>2, <2>3, PackageHolds, PackageEnds, Zenon DEF PollEffectApplied
<1>3. CASE PollRuntimeRestored(w)
  <2>1. /\ w \in ready /\ stage[w] \in PackageStages /\ ~Listed(w)
    BY <1>3, PhaseDelivered, Zenon DEF PollRuntimeRestored
  <2> QED  BY <1>1, <1>3, <2>1, PackageHolds, PackageEnds, Zenon DEF PollRuntimeRestored, ControlOK
<1>4. CASE PollCleanupFault(w)
  <2>1. w \in ready /\ stage[w] \in PackageStages
    BY <1>4, Zenon DEF PollCleanupFault, HasCleanup, PackageStages
  <2>2. ~WakesKept
    BY <1>4, <2>1, PackageHolds, Zenon DEF PollCleanupFault, Local, LossOf, WakesKept
  <2>3. /\ rows' \in [Waiters -> {"none", "package", "events", "git"}] /\ rows'[w] = "events"
        /\ \A v \in Waiters \ {w} : rows'[v] = rows[v]
    BY <1>4, <2>1, PackageHolds, Zenon DEF PollCleanupFault, ControlOK
  <2> QED  BY <1>1, <1>4, <2>1, <2>2, <2>3, PackageHolds, PackageEnds, Zenon DEF PollCleanupFault
<1>5. CASE PollLost(w)
  <2>1. /\ w \in ready /\ stage[w] \in {"effect", "restore", "runtime", "quarantine"}
        /\ result[w] = "lost"
    BY <1>1, <1>5, DeliveredIs DEF PollLost, Stages
  <2>2. stage[w] \in PackageStages \cup {"restore"}
    BY <2>1, Zenon DEF PackageStages
  <2>3. "lost_late" \in MayFail
    BY <2>1, <2>2, Zenon DEF IInv, Local, LossOf
  <2>4. ~WakesKept /\ ~NothingLost
    BY <2>3, Zenon DEF WakesKept, NothingLost
  <2> QED  BY <1>1, <1>5, <2>1, <2>2, <2>3, <2>4, PackageHolds, PackageEnds, Zenon
             DEF PollLost, ControlOK
<1> QED  BY <1>2, <1>3, <1>4, <1>5, Zenon
----------------------------------------------------------------------------
(* The invariant and what follows from it.                                  *)

\* A step that only resolves the repository's quarantine, or no step at all.
LEMMA Stutters ==
  ASSUME IInv, UNCHANGED <<load, jobVars, docVars, lockVars, cellVars, pkgVars, repo, tree>>
  PROVE  Kept
<1> USE SameLoad DEF jobVars, docVars, lockVars, cellVars, pkgVars
<1>1. ControlOK' /\ DiskInv' /\ ListedInv' /\ WakeInv'
  <2>1. ControlOK'
    BY Zenon DEF IInv, ControlOK, JobsOK
  <2>2. DiskInv' /\ ListedInv'
    BY DEF IInv, DiskInv, NothingLost, Undelivered, ListedInv, Listed
  <2>3. WakeInv'
    BY Zenon DEF IInv, WakeInv, WakesKept, PolledOf, Waker, Active, Parked
  <2> QED  BY <2>1, <2>2, <2>3, Zenon
<1>2. ASSUME NEW w \in Waiters
      PROVE  Local(w)'
  <2>1. Local(w)
    BY Zenon DEF IInv
  <2>2. HolderOf(w)' /\ FreshOf(w)'
    BY <2>1, Zenon DEF Local, HolderOf, FreshOf, Fresh, Holding, Preparing
  <2>3. WroteOf(w)' /\ LossOf(w)'
    BY <2>1, Zenon DEF Local, WroteOf, Landed, LossOf
  <2>4. TreeOf(w)' /\ RowOf(w)'
    BY <2>1, Zenon DEF Local, TreeOf, RowOf, Applied
  <2> QED  BY <2>2, <2>3, <2>4, Zenon DEF Local
<1>3. Outstanding' = Outstanding
  BY Zenon DEF Outstanding, Active
<1> QED  BY <1>1, <1>2, <1>3, Zenon DEF Kept, IInv

\* IInv holds at the start: nothing was admitted, reserved or written.
LEMMA InitInv == GitInit => IInv
<1> SUFFICES ASSUME GitInit PROVE IInv
  OBVIOUS
<1> USE DEF GitInit, Init
<1>1. ControlOK
  BY Zenon DEF ControlOK, JobsOK, Stages, Results, Answers, Deferred, Trees
<1>2. ASSUME NEW w \in Waiters
      PROVE  Local(w)
  <2>1. /\ stage[w] = IF Kind[w] = "none" THEN "done" ELSE "new"
        /\ result[w] = "none" /\ saved[w] = <<"none", "none">> /\ answer[w] = "none"
        /\ base[w] = 0 /\ cand[w] = {} /\ rows[w] = "none" /\ tree[w] = "none" /\ w # 0
    BY HostWorkConstants, Zenon
  <2>2. HolderOf(w) /\ FreshOf(w)
    BY <2>1 DEF HolderOf, FreshOf, Fresh, Holding, Preparing, WriteStages, PackageStages, GitStages
  <2>3. WroteOf(w) /\ LossOf(w) /\ TreeOf(w) /\ RowOf(w)
    BY <2>1, Zenon DEF WroteOf, Landed, LossOf, TreeOf, RowOf, Applied, WriteStages, PackageStages
  <2> QED  BY <2>2, <2>3, Zenon DEF Local
<1>3. DiskInv /\ ListedInv /\ WakeInv
  BY Zenon DEF DiskInv, ListedInv, WakeInv, PolledOf, Active
<1> QED  BY <1>1, <1>2, <1>3, Zenon DEF IInv

\* Every step of the Host's mutations and of managed spawns keeps IInv.
LEMMA NextKeeps == IInv /\ [GitNext]_gitVars => Kept
<1> SUFFICES ASSUME IInv, [GitNext]_gitVars PROVE Kept
  OBVIOUS
<1>1. CASE UNCHANGED gitVars
  BY <1>1, Stutters, Zenon DEF gitVars, vars, repoVars
<1>2. CASE ResolveRepo /\ UNCHANGED <<load, tree>>
  BY <1>2, Stutters, Zenon DEF ResolveRepo
<1>3. ASSUME NEW w \in Waiters, Handle(w) \/ Run(w) \/ Poll(w), UNCHANGED <<load, tree>>
      PROVE  Kept
  <2>1. CASE Handle(w)
    BY <1>3, <2>1, AdmissionKeeps, Zenon
  <2>2. CASE Run(w)
    BY <1>3, <2>2, RunLightKeeps, RunWriteKeeps, Zenon DEF Run
  <2>3. CASE Poll(w)
    <3>1. CASE PollCommitted(w)
      BY <1>3, <3>1, WriteEndsKeeps, PackageCommittedKeeps, Zenon
    <3> QED  BY <1>3, <2>3, <3>1, AdmitKeeps, PrepareFailedKeeps, WriteEndsKeeps,
                CleanupKeeps, CompensationKeeps, PackageEndsKeeps, Zenon DEF Poll
  <2> QED  BY <1>3, <2>1, <2>2, <2>3, Zenon
<1>4. ASSUME NEW w \in Waiters, AcceptOne(w) \/ GitRun(w) \/ GitPoll(w), UNCHANGED load
      PROVE  Kept
  <2>1. CASE AcceptOne(w) \/ GitRun(w)
    BY <1>4, <2>1, AdmissionKeeps, RunGitKeeps, Zenon
  <2>2. CASE GitPoll(w)
    <3>1. CASE CommitFailed(w)
      BY <1>4, <3>1, GitWriteEndsKeeps, GitWriteGoesOnKeeps, Zenon
    <3>2. CASE \/ GitAdmit(w, "prepare", "parked")
               \/ GitAdmit(w, "prepare_removal", "parked_removal")
      BY <1>4, <3>2, GitAdmitKeeps
    <3> QED  BY <1>4, <2>2, <3>1, <3>2, GitPollKeeps, PrepareFailedKeeps, SpawnedKeeps,
                GitWriteEndsKeeps, GitWriteGoesOnKeeps, Zenon DEF GitPoll
  <2> QED  BY <1>4, <2>1, <2>2, Zenon
<1> QED  BY <1>1, <1>2, <1>3, <1>4, Zenon DEF GitNext, HostNext

\* IInv is an invariant of the Host's mutations together with managed spawns,
\* for every set of waiters, every load and every number of permits.
THEOREM Inductive == GitSpec => []IInv
<1>1. IInv /\ [GitNext]_gitVars => IInv'
  BY NextKeeps, Zenon DEF Kept
<1> QED  BY InitInv, <1>1, PTL DEF GitSpec

\* A request that writes holds the document and the publication cell; a
\* package between its writes holds the document and finds the cell free.
THEOREM WritersHold == GitSpec => []WriterHoldsDocument
<1>1. IInv => WriterHoldsDocument
  BY Zenon DEF IInv, Local, HolderOf, WriterHoldsDocument
<1> QED  BY Inductive, <1>1, PTL

\* An acknowledged change is in the published view and on disk for good (a
\* repository change in the repository's file).
THEOREM ChangesKept == GitSpec => []AcknowledgedChangeKept
<1>1. IInv => AcknowledgedChangeKept
  BY Zenon DEF IInv, Local, WroteOf, Landed, AcknowledgedChangeKept
<1> QED  BY Inductive, <1>1, PTL

\* The published view is the document on disk outside a write, unless the job
\* of a restore or of a managed spawn's commit is lost.
THEOREM ViewOnDisk == GitSpec => []ViewMatchesDisk
<1>1. IInv => ViewMatchesDisk
  BY Zenon DEF IInv, DiskInv, NothingLost, Undelivered, ViewMatchesDisk, ViewIsDisk
<1> QED  BY Inductive, <1>1, PTL

\* Nobody is left parked: when no job runs and nobody is ready, every admitted
\* mutation was answered, in every load in which wakes are passed on.
THEOREM AllAnswered == GitSpec => []MutationsAnswered
<1>1. IInv => MutationsAnswered
  <2> SUFFICES ASSUME IInv, WakesKept, ready = {},
                      \A w \in Waiters : result[w] # "running",
                      NEW w \in Waiters, Active(w)
               PROVE  FALSE
    BY Zenon DEF MutationsAnswered, WakesKept, NoneStranded
  <2>1. WakeInv /\ documentOwner \in Waiters \cup {0}
    BY Zenon DEF IInv, ControlOK
  <2>2. ASSUME NEW v \in Waiters, Active(v)
        PROVE  Parked(v) /\ v \in documentWaiters
    BY <2>1, <2>2, Zenon DEF WakeInv, PolledOf
  <2>3. documentOwner = 0
    <3>1. ASSUME documentOwner # 0
          PROVE  FALSE
      <4>1. documentOwner \in Waiters /\ Parked(documentOwner)
        BY <2>1, <2>2, <3>1, Zenon DEF WakeInv
      <4> QED  BY <4>1, Zenon DEF IInv, Local, HolderOf, Holding, Parked, WriteStages, PackageStages
    <3> QED  BY <3>1, Zenon
  <2>4. PICK v \in Waiters : Waker(v)
    BY <2>1, <2>2, <2>3, Zenon DEF WakeInv
  <2>5. Active(v) /\ ~Parked(v)
    BY <2>4, Zenon DEF Waker, Active, Parked
  <2> QED  BY <2>2, <2>5, Zenon
<1> QED  BY Inductive, <1>1, PTL

\* A stranded package has a recovery row or its compensation is under way, in
\* every load in which no job of a compensation is lost.
THEOREM StrandedListed == GitSpec => []StrandedIsResolvable
<1>1. IInv => StrandedIsResolvable
  BY Zenon DEF IInv, ListedInv, Listed, StrandedIsResolvable, Active
<1> QED  BY Inductive, <1>1, PTL

\* A managed spawn that reports a plain failure left neither a worktree nor a
\* record.
THEOREM NothingLeft == GitSpec => []FailedLeavesNothing
<1>1. IInv => FailedLeavesNothing
  BY Zenon DEF IInv, Local, TreeOf, FailedLeavesNothing, Git
<1> QED  BY Inductive, <1>1, PTL

\* Nothing writes the document after an uncertain or unknown publication.
THEOREM WritesStop == GitSpec => UncertainStopsWrites
<1>1. IInv /\ [GitNext]_gitVars => [cellHeld => disk' = disk]_vars
  BY NextKeeps, Zenon DEF Kept
<1> QED  BY Inductive, <1>1, PTL DEF GitSpec, UncertainStopsWrites

\* Requests and recovery rows never hold more permits than HostExecutor has.
THEOREM PermitsBound == GitSpec => [](Cardinality(Outstanding) <= Permits)
<1>1. GitInit => Cardinality(Outstanding) <= Permits
  <2> SUFFICES ASSUME GitInit PROVE Cardinality(Outstanding) <= Permits
    OBVIOUS
  <2>1. Outstanding = {}
    BY Zenon DEF GitInit, Init, Outstanding, Active
  <2> QED  BY <2>1, FS_EmptySet, HostWorkConstants
<1>2. IInv /\ [GitNext]_gitVars /\ Cardinality(Outstanding) <= Permits
        => (Cardinality(Outstanding) <= Permits)'
  <2> SUFFICES ASSUME IInv, [GitNext]_gitVars, Cardinality(Outstanding) <= Permits
               PROVE  Cardinality(Outstanding') <= Permits
    OBVIOUS
  <2>1. IsFiniteSet(Outstanding) /\ Permits \in Nat
    BY HostWorkConstants, FS_Subset, Zenon DEF Outstanding
  <2>2. Cardinality(Outstanding) \in Nat
    BY <2>1, FS_CardinalityType, Zenon
  <2>3. CASE Outstanding' \subseteq Outstanding
    BY <2>1, <2>2, <2>3, FS_Subset, FS_CardinalityType
  <2>4. CASE /\ ~(Cardinality(Outstanding) >= Permits)
             /\ \E w \in Waiters : Outstanding' \subseteq Outstanding \cup {w}
    <3>1. PICK w \in Waiters : Outstanding' \subseteq Outstanding \cup {w}
      BY <2>4, Zenon
    <3>2. /\ IsFiniteSet(Outstanding \cup {w})
          /\ Cardinality(Outstanding \cup {w}) <= Cardinality(Outstanding) + 1
          /\ Cardinality(Outstanding \cup {w}) \in Nat
      <4>1. IsFiniteSet(Outstanding \cup {w})
        BY <2>1, FS_AddElement, Zenon
      <4>2. Cardinality(Outstanding \cup {w})
              = IF w \in Outstanding THEN Cardinality(Outstanding)
                ELSE Cardinality(Outstanding) + 1
        BY <2>1, FS_AddElement, Zenon
      <4> QED  BY <2>2, <4>1, <4>2
    <3>3. Cardinality(Outstanding') <= Cardinality(Outstanding \cup {w})
          /\ Cardinality(Outstanding') \in Nat
      BY <3>1, <3>2, FS_Subset, FS_CardinalityType, Zenon
    <3> QED  BY <2>1, <2>2, <2>4, <3>2, <3>3
  <2> QED  BY <2>3, <2>4, NextKeeps, Zenon DEF Kept
<1> QED  BY Inductive, <1>1, <1>2, PTL DEF GitSpec
=============================================================================
