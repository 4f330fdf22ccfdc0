----------------------------- MODULE ManagedGit -----------------------------
(***************************************************************************)
(* Managed worktree spawns (daemon/control/managed_git.rs): create a git    *)
(* worktree, record it in the Hub-state document under the reservation that *)
(* HostWork's mutations share, spawn a session in it through Core, and      *)
(* commit or roll back.  A waiter of kind "git" is one operation; its       *)
(* document change is the worktree's record.                                *)
(*                                                                         *)
(* The owner deadline is a choice at each poll that reads it.  Each         *)
(* operation has a worktree of its own; attempts on the same worktree are   *)
(* left out.                                                                *)
(***************************************************************************)
EXTENDS HostWork

VARIABLE tree   \* tree[w]: the git worktree of w

gitVars == <<vars, tree>>

\* "made" was created by w, "reused" existed before, "handed" is left to the
\* created-worktree cleanup of an undelivered session.
Trees == {"none", "made", "reused", "removed", "handed"}

Git == {w \in Waiters : Kind[w] = "git"}

GitInit == Init /\ tree = [w \in Waiters |-> "none"]

SetTree(w, t) == tree' = [tree EXCEPT ![w] = t]

\* finish_error and finish_reconciliation outside the document.
Finish(w, a) ==
  /\ Answer(w, a) /\ KeepDocument(w)
  /\ UNCHANGED <<docVars, cellVars, pkgVars, repoVars, tree>>

\* retain_recovery: the row keeps the permit and refuses later operations.
RetainRecovery(w) ==
  /\ Answer(w, "recovery") /\ KeepDocument(w)
  /\ rows' = [rows EXCEPT ![w] = "git"]
  /\ UNCHANGED <<stranded, docVars, cellVars, repoVars, tree>>

\* submit_finalize or a prepare, with the document not involved.
GoOn(w, s) ==
  /\ Submit(w, s) /\ KeepDocument(w)
  /\ UNCHANGED <<docVars, cellVars, pkgVars, repoVars, tree>>

GoPrepare(w, s) ==
  /\ SubmitPrepare(w, s) /\ KeepDocument(w)
  /\ UNCHANGED <<docVars, cellVars, pkgVars, repoVars, tree>>
-----------------------------------------------------------------------------
AcceptOne(w) ==
  /\ stage[w] = "new" /\ w \in Git
  /\ IF AnyRow("git") \/ Cardinality(Outstanding) >= Permits
     THEN Answer(w, "refused")
     ELSE Submit(w, "create")
  /\ UNCHANGED <<docVars, lockVars, cellVars, pkgVars, repoVars, tree>>

\* managed_git_worktrees.rs on a Host worker.
RunCreate(w) ==
  /\ Running(w, "create")
  /\ \/ Returns(w, "ok") /\ \E t \in {"made", "reused"} : SetTree(w, t)
     \/ "git" \in MayFail /\ Returns(w, "failed") /\ UNCHANGED tree
     \/ /\ "git" \in MayFail
        /\ \E r \in {"fault", "lost"}, t \in {"none", "made"} :
             Returns(w, r) /\ SetTree(w, t)
  /\ NoFileChange /\ UNCHANGED pkgVars

RunFinalize(w) ==
  /\ \E s \in {"finalize", "rollback"} : Running(w, s)
  /\ \/ /\ Returns(w, "ok")
        /\ IF stage[w] = "rollback" /\ tree[w] = "made"
           THEN SetTree(w, "removed") ELSE UNCHANGED tree
     \/ /\ "git" \in MayFail
        /\ \E r \in {"fault", "lost"} : Returns(w, r)
        /\ UNCHANGED tree
  /\ NoFileChange /\ UNCHANGED pkgVars

\* The Core spawn: "fault" is a failure whose reservation was not released.
RunSpawn(w) ==
  /\ Running(w, "spawn")
  /\ \/ Returns(w, "ok")
     \/ "git" \in MayFail /\ \E r \in {"failed", "fault"} : Returns(w, r)
  /\ NoFileChange /\ UNCHANGED <<pkgVars, tree>>
-----------------------------------------------------------------------------
PollCreated(w) ==
  /\ w \in Git
  /\ \/ Delivered(w, "create", "ok") /\ (GoPrepare(w, "prepare") \/ GoOn(w, "rollback"))
     \/ Delivered(w, "create", "failed") /\ Finish(w, "failed")
     \/ Delivered(w, "create", "lost") /\ Finish(w, "uncertain")
     \/ Delivered(w, "create", "fault") /\ RetainRecovery(w)

\* record_prepared and removal_prepared; a lost preparation is left to
\* reconciliation.
PollGitPrepareFailed(w) ==
  /\ w \in Git
  /\ \/ Delivered(w, "prepare", "failed") /\ GoOn(w, "rollback")
     \/ Delivered(w, "prepare", "lost") /\ Finish(w, "uncertain")
     \/ /\ \E r \in {"failed", "lost"} : Delivered(w, "prepare_removal", r)
        /\ Finish(w, "uncertain")

GitPolled(w, prepare, parked) ==
  /\ w \in Git
  /\ Delivered(w, prepare, "ok") \/ (w \in ready /\ stage[w] = parked)

GitBusy(w, prepare, parked) ==
  /\ GitPolled(w, prepare, parked)
  /\ documentOwner \notin {0, w}
  /\ SetStage(w, parked, "none")
  /\ documentWaiters' = documentWaiters \cup {w}
  /\ ready' = ready \ {w}
  /\ UNCHANGED <<answer, base, cand, documentOwner, docVars, cellVars, pkgVars,
                 repoVars, tree>>

\* The record is prepared again; the wake that came with the reservation is
\* not passed on.
GitStale(w, prepare, parked) ==
  /\ GitPolled(w, prepare, parked)
  /\ documentOwner = 0 /\ base[w] # revision
  /\ GoPrepare(w, prepare)

\* Granted with the cell occupied: the reservation is released; a record is
\* rolled back, a removal leaves a recovery row.
GitRefused(w, prepare, parked) ==
  /\ GitPolled(w, prepare, parked)
  /\ MayOwn(w) /\ cell # 0
  /\ IF prepare = "prepare"
     THEN Submit(w, "rollback") /\ UNCHANGED rows
     ELSE Answer(w, "recovery") /\ rows' = [rows EXCEPT ![w] = "git"]
  /\ documentOwner' = 0
  /\ documentWaiters' = documentWaiters \ Woken
  /\ ready' = (ready \ {w}) \cup Woken
  /\ UNCHANGED <<stranded, docVars, cellVars, repoVars, tree>>

GitGranted(w, prepare, parked) ==
  /\ GitPolled(w, prepare, parked)
  /\ MayOwn(w) /\ cell = 0
  /\ documentOwner' = w
  /\ ready' = ready \ {w}
  /\ cell' = w
  /\ Submit(w, IF prepare = "prepare" THEN "commit" ELSE "removal")
  /\ UNCHANGED <<documentWaiters, cellHeld, docVars, pkgVars, repoVars, tree>>

GitAdmit(w, prepare, parked) ==
  \/ GitBusy(w, prepare, parked) \/ GitStale(w, prepare, parked)
  \/ GitRefused(w, prepare, parked) \/ GitGranted(w, prepare, parked)

\* The record is published and the document released before the spawn; a late
\* operation, or a spawn that does not start, rolls back.
RecordCommitted(w) ==
  /\ w \in Git /\ Delivered(w, "commit", "ok")
  /\ ReleaseCell(w)
  /\ revision' = revision + 1 /\ view' = cand[w]
  /\ Submit(w, "spawn") \/ Submit(w, "rollback")
  /\ ReleaseDocument(w)
  /\ UNCHANGED <<disk, frozen, pkgVars, repoVars, tree>>

RemovalCommitted(w) ==
  /\ w \in Git /\ Delivered(w, "removal", "ok")
  /\ ReleaseCell(w)
  /\ revision' = revision + 1 /\ view' = cand[w]
  /\ Answer(w, "failed") /\ ReleaseDocument(w)
  /\ UNCHANGED <<disk, frozen, pkgVars, repoVars, tree>>

CommitUncertain(w) ==
  /\ w \in Git
  /\ \E s \in {"commit", "removal"} : Delivered(w, s, "uncertain")
  /\ cell = w /\ ~cellHeld
  /\ cellHeld' = TRUE
  /\ Answer(w, "uncertain") /\ ReleaseDocument(w)
  /\ UNCHANGED <<cell, docVars, pkgVars, repoVars, tree>>

\* Nothing was published: a record rolls its worktree back, a removal ends.
CommitFailed(w) ==
  /\ w \in Git
  /\ \/ Delivered(w, "commit", "failed") /\ Submit(w, "rollback")
     \/ Delivered(w, "removal", "failed") /\ Answer(w, "uncertain")
  /\ ReleaseCell(w) /\ ReleaseDocument(w)
  /\ UNCHANGED <<docVars, pkgVars, repoVars, tree>>

\* No mutation result: the cell and the document are released.
CommitLost(w) ==
  /\ w \in Git
  /\ \E s \in {"commit", "removal"} : Delivered(w, s, "lost")
  /\ ReleaseCell(w)
  /\ Answer(w, "uncertain") /\ ReleaseDocument(w)
  /\ UNCHANGED <<docVars, pkgVars, repoVars, tree>>

\* A delivered session commits its worktree; an undelivered one is handed to
\* the created-worktree cleanup when w created the worktree.
PollSpawnDelivered(w) ==
  /\ Delivered(w, "spawn", "ok")
  /\ SetStage(w, "finalize", "running")
  /\ answer' = [answer EXCEPT ![w] = "ok"]
  /\ KeepDocument(w)
  /\ UNCHANGED <<base, cand, docVars, cellVars, pkgVars, repoVars, tree>>

PollSpawnUndelivered(w) ==
  /\ Delivered(w, "spawn", "ok")
  /\ Answer(w, "failed") /\ KeepDocument(w)
  /\ SetTree(w, IF tree[w] = "made" THEN "handed" ELSE tree[w])
  /\ UNCHANGED <<docVars, cellVars, pkgVars, repoVars>>

\* A failed spawn rolls back only a worktree this operation created, and only
\* when Core released the reservation.
PollSpawnFailed(w) ==
  \/ Delivered(w, "spawn", "failed") /\ tree[w] = "made" /\ GoOn(w, "rollback")
  \/ Delivered(w, "spawn", "failed") /\ tree[w] # "made" /\ Finish(w, "failed")
  \/ Delivered(w, "spawn", "fault") /\ Finish(w, "uncertain")

PollFinalized(w) ==
  /\ \/ Delivered(w, "finalize", "ok") /\ UNCHANGED rows
     \/ Delivered(w, "finalize", "lost") /\ UNCHANGED rows
     \/ Delivered(w, "finalize", "fault") /\ rows' = [rows EXCEPT ![w] = "git"]
  /\ SetStage(w, "done", "none") /\ KeepDocument(w)
  /\ UNCHANGED <<answer, base, cand, stranded, docVars, cellVars, repoVars, tree>>

PollRolledBackKeepsRecord(w) ==
  \/ Delivered(w, "rollback", "ok") /\ Finish(w, "failed")
  \/ Delivered(w, "rollback", "lost") /\ Finish(w, "uncertain")
  \/ Delivered(w, "rollback", "fault") /\ RetainRecovery(w)

\* A worktree that was removed takes its record with it.
PollRolledBack(w) ==
  \/ /\ Delivered(w, "rollback", "ok")
     /\ IF tree[w] = "removed" /\ Change(w) \in view
        THEN GoPrepare(w, "prepare_removal")
        ELSE Finish(w, "failed")
  \/ Delivered(w, "rollback", "lost") /\ Finish(w, "uncertain")
  \/ Delivered(w, "rollback", "fault") /\ RetainRecovery(w)

GitRun(w) == RunCreate(w) \/ RunFinalize(w) \/ RunSpawn(w)

GitPoll(w) ==
  \/ PollCreated(w) \/ PollGitPrepareFailed(w)
  \/ GitAdmit(w, "prepare", "parked")
  \/ GitAdmit(w, "prepare_removal", "parked_removal")
  \/ RecordCommitted(w) \/ RemovalCommitted(w) \/ CommitUncertain(w)
  \/ CommitFailed(w) \/ CommitLost(w)
  \/ PollSpawnDelivered(w) \/ PollSpawnUndelivered(w) \/ PollSpawnFailed(w)
  \/ PollFinalized(w) \/ PollRolledBack(w)

GitNext ==
  \/ HostNext /\ UNCHANGED tree
  \/ (\E w \in Waiters : AcceptOne(w) \/ GitRun(w) \/ GitPoll(w)) /\ UNCHANGED load

GitSpec == GitInit /\ [][GitNext]_gitVars
-----------------------------------------------------------------------------
GitTypeOK == TypeOK /\ tree \in [Waiters -> Trees]

\* An operation that reports a plain failure leaves nothing behind: the
\* worktree it created is gone or handed to the cleanup, and no record names
\* a removed worktree.
FailedLeavesNothing ==
  \A w \in Git : answer[w] = "failed" =>
    /\ tree[w] # "made"
    /\ tree[w] = "removed" => Change(w) \notin view

\* Every mutation is answered, unless a package's runtime job is lost or
\* faults, or a managed spawn's second prepare fails: nobody passes on the
\* wake of those.
MutationsAnswered ==
  (/\ {"lost_late", "cleanup"} \cap MayFail = {}
   /\ "prepare" \in MayFail => Git = {}) => NoneStranded

\* The published view is the document on disk, unless a package's restore job
\* or a managed spawn's commit job is lost.
ViewMatchesDisk ==
  (/\ "lost_late" \notin MayFail
   /\ "lost_commit" \in MayFail => Git = {}) => ViewIsDisk
=============================================================================
