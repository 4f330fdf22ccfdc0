-------------------------- MODULE ManagedGitSteps --------------------------
(***************************************************************************)
(* Steps that keep the invariant IInv of ManagedGitInv: admission, the     *)
(* jobs the executor runs, the admission of a write to the document, the   *)
(* polls of a managed spawn, and the end of a write that has nothing more  *)
(* to do.                                                                  *)
(***************************************************************************)
EXTENDS ManagedGitInv

----------------------------------------------------------------------------
(* Admission of a request.                                                  *)

\* A new request is answered at once.
LEMMA Refuses ==
  ASSUME IInv, NEW w \in Waiters, load' = load, stage[w] = "new", Answer(w, "refused"),
         UNCHANGED <<docVars, lockVars, cellVars, pkgVars, repoVars, tree>>
  PROVE  Kept
<1> USE DEF docVars, lockVars, cellVars, pkgVars, repoVars
<1>1. /\ Turns(w, "done", "none", "refused") /\ base'[w] = base[w] /\ ControlOK /\ Local(w)
  BY AnswerTurns, Zenon DEF IInv, ControlOK, Answers
<1>2. ControlOK'
  BY <1>1, Zenon DEF ControlOK, Turns
<1>3. Moves(w)
  BY <1>1, Zenon DEF Moves, Only, Turns, ControlOK
<1>4. Local(w)'
  BY <1>1, <1>2, <1>3, EndsLocal, Zenon DEF Turns, ControlOK, Local, HolderOf
<1>5. DiskInv'
  BY <1>3, DiskStays, Zenon DEF Undelivered, WriteStages
<1>6. ListedInv'
  BY <1>3, ListedStays, Zenon DEF Listed
<1>7. WakeInv'
  BY <1>1, <1>3, RunWakes, Zenon DEF Turns, Active
<1>8. w \notin Outstanding'
  BY <1>1, Zenon DEF Outstanding, Turns, Active, Local, RowOf
<1> QED  BY <1>2, <1>3, <1>4, <1>5, <1>6, <1>7, <1>8, Assemble, Zenon

\* A new request is admitted with its first job submitted.
LEMMA Starts ==
  ASSUME IInv, NEW w \in Waiters, load' = load, stage[w] = "new",
         \/ Kind[w] = "git" /\ Submit(w, "create")
         \/ Kind[w] # "git" /\ SubmitPrepare(w, "prepare"),
         ~(Cardinality(Outstanding) >= Permits),
         UNCHANGED <<docVars, lockVars, cellVars, pkgVars, repoVars, tree>>
  PROVE  Kept
<1> USE DEF docVars, lockVars, cellVars, pkgVars, repoVars
<1>1. ControlOK /\ Local(w) /\ Kind[w] # "none" /\ "create" \in Stages
  BY Zenon DEF IInv, Local, HolderOf, Stages
<1>2. /\ Turns(w, stage'[w], "running", answer[w]) /\ base'[w] <= revision
      /\ \/ stage'[w] = "create" /\ Kind[w] = "git"
         \/ /\ stage'[w] = "prepare" /\ Kind[w] # "git"
            /\ (Kind[w] # "repo" => Fresh(w)') /\ Change(w) \in cand'[w]
  <2>1. CASE Kind[w] = "git" /\ Submit(w, "create")
    BY <1>1, <2>1, SubmitTurns, Zenon DEF Turns, ControlOK, Local, FreshOf
  <2>2. CASE Kind[w] # "git" /\ SubmitPrepare(w, "prepare")
    BY <1>1, <2>2, PrepareTurns DEF Turns, ControlOK
  <2> QED  BY <2>1, <2>2, Zenon
<1>3. ControlOK'
  BY <1>1, <1>2, Zenon DEF ControlOK, Turns
<1>4. Moves(w)
  BY <1>1, <1>2, Zenon DEF Moves, Only, Turns, ControlOK
<1>5. Local(w)'
  <2> USE <1>1, <1>2, SameLoad DEF Turns, Local
  <2>1. HolderOf(w)'
    BY Zenon DEF HolderOf, Holding, WriteStages, PackageStages, GitStages
  <2>2. FreshOf(w)'
    BY Zenon DEF FreshOf, Holding, Preparing, WriteStages, PackageStages
  <2>3. WroteOf(w)' /\ LossOf(w)' /\ TreeOf(w)' /\ RowOf(w)'
    BY Zenon DEF WroteOf, Landed, LossOf, TreeOf, RowOf, Applied, HolderOf, WriteStages,
           PackageStages
  <2> QED  BY <2>1, <2>2, <2>3, Zenon
<1>6. DiskInv'
  BY <1>4, DiskStays, Zenon DEF Undelivered, WriteStages
<1>7. ListedInv'
  BY <1>4, ListedStays, Zenon DEF Listed
<1>8. WakeInv'
  BY <1>2, <1>4, RunWakes, Zenon DEF Turns
<1> QED  BY <1>3, <1>4, <1>5, <1>6, <1>7, <1>8, Assemble, Zenon

\* Handle and AcceptOne refuse the request or submit its first job.
LEMMA AdmissionKeeps ==
  ASSUME IInv, NEW w \in Waiters, load' = load,
         (Handle(w) /\ UNCHANGED tree) \/ AcceptOne(w)
  PROVE  Kept
<1>1. CASE Handle(w) /\ UNCHANGED tree
  BY <1>1, Refuses, Starts, Zenon DEF Handle, Refused
<1>2. CASE AcceptOne(w)
  BY <1>2, Refuses, Starts, Zenon DEF AcceptOne, Git
<1> QED  BY <1>1, <1>2, Zenon
----------------------------------------------------------------------------
(* Host workers.                                                            *)

\* Jobs that write nothing but may strand a package: prepares, runtime
\* effects, their compensation, event cleanups.
LEMMA RunLightKeeps ==
  ASSUME IInv, NEW w \in Waiters, load' = load, UNCHANGED tree,
         RunPrepare(w) \/ RunEffect(w) \/ RunRuntime(w) \/ RunEvents(w)
  PROVE  Kept
<1> USE SameLoad DEF NoFileChange, pkgVars, Running
<1>1. ControlOK /\ Local(w) /\ tree \in [Waiters -> Trees]
  BY Zenon DEF IInv, ControlOK
<1>2. ASSUME NEW r \in Results, Returns(w, r), stage[w] \in Stages
      PROVE  result'[w] = r /\ stage' = stage
  BY <1>1, <1>2, Zenon DEF Returns, ControlOK, JobsOK
<1>3. CASE RunPrepare(w)
  <2>1. PICK r \in {"ok", "failed", "lost"} :
          /\ Returns(w, r) /\ (r # "ok" => "prepare" \in MayFail) /\ result[w] = "running"
          /\ stage[w] \in {"prepare", "prepare_removal"} /\ stranded' = stranded /\ rows' = rows
    BY <1>3, Zenon DEF RunPrepare
  <2>2. LossOf(w)'
    BY <1>2, <2>1, Zenon DEF LossOf, Results, Stages, PackageStages
  <2> QED  BY <1>1, <1>3, <2>1, <2>2, JobReturns, Zenon
             DEF RunPrepare, Results, Parked, Active, WriteStages
<1>4. CASE RunEffect(w)
  <2>1. PICK r \in {"ok", "failed", "lost"} :
          /\ Returns(w, r) /\ (r = "lost" => "lost_late" \in MayFail) /\ result[w] = "running"
          /\ stage[w] = "effect" /\ stranded' \subseteq stranded /\ rows' = rows
          /\ (Explicit(w) /\ r = "ok" => Package[w] \notin stranded')
    BY <1>4, Zenon DEF RunEffect
  <2>2. LossOf(w)'
    BY <1>2, <2>1, Zenon DEF LossOf, Results, Stages
  <2> QED  BY <1>1, <1>4, <2>1, <2>2, JobReturns, Zenon
             DEF RunEffect, Results, Parked, Active, WriteStages
<1>5. CASE RunRuntime(w)
  <2>1. PICK r \in {"ok", "failed", "lost"} :
          /\ Returns(w, r) /\ (r = "lost" => "lost_late" \in MayFail) /\ result[w] = "running"
          /\ stage[w] \in {"runtime", "quarantine"} /\ rows' = rows
          /\ stranded' = IF r = "failed" THEN stranded \cup {Package[w]} ELSE stranded
    BY <1>5, Zenon DEF RunRuntime
  <2>2. LossOf(w)' /\ (r = "failed" => Listed(w)') /\ documentOwner = w
    BY <1>1, <1>2, <2>1, Zenon DEF LossOf, Results, Stages, Listed, Local, HolderOf, PackageStages
  <2> QED  BY <1>1, <1>5, <2>1, <2>2, JobReturns, Zenon
             DEF RunRuntime, Results, Parked, Active, WriteStages
<1>6. CASE RunEvents(w)
  <2>1. PICK r \in {"ok", "fault", "lost"} :
          /\ Returns(w, r) /\ (r = "lost" => "lost_late" \in MayFail) /\ result[w] = "running"
          /\ (r = "fault" => "cleanup" \in MayFail)
          /\ stage[w] = "events" /\ stranded' = stranded /\ rows' = rows
    BY <1>6, Zenon DEF RunEvents
  <2>2. LossOf(w)'
    BY <1>2, <2>1, Zenon DEF LossOf, Results, Stages
  <2> QED  BY <1>1, <1>6, <2>1, <2>2, JobReturns, Zenon
             DEF RunEvents, Results, Parked, Active, WriteStages
<1> QED  BY <1>3, <1>4, <1>5, <1>6, Zenon

\* Jobs that write the document or the repository file.
LEMMA RunWriteKeeps ==
  ASSUME IInv, NEW w \in Waiters, load' = load, UNCHANGED tree,
         RunCommit(w) \/ RunRepoCommit(w) \/ RunRestore(w) \/ RunRecord(w)
  PROVE  Kept
<1> USE SameLoad DEF pkgVars, repoVars, Running
<1>1. ControlOK /\ Local(w) /\ tree \in [Waiters -> Trees]
  BY Zenon DEF IInv, ControlOK
<1>2. ASSUME NEW r \in Results, Returns(w, r)
      PROVE  result'[w] = r /\ stage' = stage
  BY <1>1, <1>2, Zenon DEF Returns, ControlOK, JobsOK
<1>3. ASSUME NEW r \in Results \ {"none", "running", "fault"}, Returns(w, r),
             result[w] = "running", stage[w] \in WriteStages, Kind[w] # "repo",
             disk' = disk \/ (disk' = cand[w] /\ r # "failed"), r = "ok" => disk' = cand[w],
             r = "lost" => \/ stage[w] \in {"commit", "removal"} /\ "lost_commit" \in MayFail
                           \/ stage[w] = "restore" /\ "lost_late" \in MayFail,
             UNCHANGED <<pkgVars, repo>>
      PROVE  Kept
  <2>1. LossOf(w)' /\ (r # "failed" => Undelivered(w)')
    BY <1>2, <1>3, Zenon DEF LossOf, Undelivered, WriteStages, PackageStages, Results
  <2> QED  BY <1>1, <1>3, <2>1, JobReturns, Zenon DEF Parked, Active, WriteStages
<1>4. ASSUME WriteDocument(w, cand[w])
      PROVE  \E r \in {"ok", "failed", "uncertain"} :
               /\ Returns(w, r) /\ (disk' = disk \/ (disk' = cand[w] /\ r # "failed"))
               /\ r = "ok" => disk' = cand[w]
  BY <1>4, Zenon DEF WriteDocument
<1>5. CASE RunCommit(w)
  <2>1. /\ stage[w] \in WriteStages /\ result[w] = "running" /\ Kind[w] # "repo"
        /\ stage[w] \in {"commit", "removal"} /\ UNCHANGED <<pkgVars, repo>>
    BY <1>5, Zenon DEF RunCommit, WriteStages
  <2>2. CASE WriteDocument(w, cand[w])
    <3>1. PICK r \in {"ok", "failed", "uncertain"} :
            /\ Returns(w, r) /\ (disk' = disk \/ (disk' = cand[w] /\ r # "failed"))
            /\ r = "ok" => disk' = cand[w]
      BY <1>4, <2>2, Zenon
    <3> QED  BY <1>3, <2>1, <3>1, Zenon DEF Results
  <2>3. CASE "lost_commit" \in MayFail /\ Returns(w, "lost") /\ disk' \in {disk, cand[w]}
    BY <1>3, <2>1, <2>3, Zenon DEF Results
  <2> QED  BY <1>5, <2>2, <2>3, Zenon DEF RunCommit
<1>6. CASE RunRestore(w) \/ RunRecord(w)
  <2>1. /\ stage[w] \in WriteStages /\ result[w] = "running" /\ Kind[w] # "repo"
        /\ UNCHANGED <<pkgVars, repo>>
    BY <1>1, <1>6, Zenon DEF RunRestore, RunRecord, WriteStages, Local, HolderOf, IsPackage
  <2>2. CASE WriteDocument(w, cand[w])
    <3>1. PICK r \in {"ok", "failed", "uncertain"} :
            /\ Returns(w, r) /\ (disk' = disk \/ (disk' = cand[w] /\ r # "failed"))
            /\ r = "ok" => disk' = cand[w]
      BY <1>4, <2>2, Zenon
    <3> QED  BY <1>3, <2>1, <3>1, Zenon DEF Results
  <2>3. CASE /\ stage[w] = "restore" /\ "lost_late" \in MayFail /\ Returns(w, "lost")
             /\ disk' \in {disk, cand[w]}
    BY <1>3, <2>1, <2>3, Zenon DEF Results
  <2> QED  BY <1>6, <2>2, <2>3, Zenon DEF RunRestore, RunRecord
<1>7. CASE RunRepoCommit(w)
  <2>1. PICK r \in Results \ {"none", "running", "fault"} :
          /\ Returns(w, r) /\ result[w] = "running" /\ stage[w] = "commit" /\ Kind[w] = "repo"
          /\ (r = "lost" => "lost_commit" \in MayFail) /\ (r = "ok" => repo' = cand[w])
          /\ \/ repo' = repo
             \/ repo' = cand[w] /\ repo = cand[w] \ {Change(w)}
          /\ UNCHANGED <<pkgVars, disk>>
    BY <1>7, Zenon DEF RunRepoCommit, Results
  <2>2. LossOf(w)'
    BY <1>2, <2>1, Zenon DEF LossOf, PackageStages, Results
  <2>3. Change(w) \in cand[w] /\ \A x \in repo : x \in repo'
    BY <1>1, <2>1, Zenon DEF Local, FreshOf
  <2> QED  BY <1>1, <2>1, <2>2, <2>3, JobReturns, Zenon DEF Parked, Active
<1> QED  BY <1>5, <1>6, <1>7, Zenon

\* Jobs of a managed spawn: the worktree, the Core spawn, the end of both.
LEMMA RunGitKeeps ==
  ASSUME IInv, NEW w \in Waiters, load' = load, GitRun(w)
  PROVE  Kept
<1> USE SameLoad DEF NoFileChange, pkgVars, Running
<1>1. ControlOK /\ Local(w) /\ tree \in [Waiters -> Trees]
  BY Zenon DEF IInv, ControlOK
<1>2. PICK r \in {"ok", "failed", "fault", "lost"}, t \in Trees :
        /\ Returns(w, r) /\ result[w] = "running"
        /\ tree' = [tree EXCEPT ![w] = t] /\ UNCHANGED <<disk, repo, stranded, rows>>
        /\ \/ /\ stage[w] = "create" /\ (r = "ok" => t \in {"made", "reused"})
              /\ r = "failed" => t = tree[w]
           \/ stage[w] = "spawn" /\ t = tree[w]
           \/ stage[w] = "finalize" /\ t = tree[w]
           \/ /\ stage[w] = "rollback"
              /\ IF r = "ok" THEN t # "made" ELSE t = tree[w]
  <2> USE <1>1
  <2>1. UNCHANGED tree => tree[w] \in Trees /\ tree' = [tree EXCEPT ![w] = tree[w]]
    OBVIOUS
  <2>2. CASE RunCreate(w)
    BY <2>1, <2>2, Zenon DEF RunCreate, SetTree, Trees
  <2>3. CASE RunFinalize(w)
    BY <2>1, <2>3, Zenon DEF RunFinalize, SetTree, Trees
  <2>4. CASE RunSpawn(w)
    BY <2>1, <2>4, Zenon DEF RunSpawn
  <2> QED  BY <2>2, <2>3, <2>4, Zenon DEF GitRun
<1>3. /\ result'[w] = r /\ stage' = stage /\ answer' = answer /\ view' = view
      /\ tree' \in [Waiters -> Trees] /\ tree'[w] = t
      /\ \A v \in Waiters \ {w} : tree'[v] = tree[v]
  BY <1>1, <1>2, Zenon DEF Returns, ControlOK, JobsOK, Results
<1>4. LossOf(w)'
  BY <1>2, <1>3, Zenon DEF LossOf, PackageStages
<1>5. stage[w] \in {"create", "rollback"} => answer[w] = "none"
  BY <1>1, Zenon DEF Local, HolderOf
<1>6. TreeOf(w)'
  BY <1>1, <1>2, <1>3, <1>5, Zenon DEF Local, TreeOf, Trees
<1> QED  BY <1>2, <1>3, <1>4, <1>6, JobReturns, Zenon DEF Results, Parked, Active, WriteStages
----------------------------------------------------------------------------
(* Polls of a request that does not hold the document.                      *)

\* admit_or_park_commit of a mutation.
LEMMA AdmitKeeps ==
  ASSUME IInv, NEW w \in Waiters, load' = load, UNCHANGED tree, Admit(w)
  PROVE  Kept
<1> USE DEF pkgVars
<1>1. /\ ControlOK /\ Local(w) /\ JobsOK /\ "prepare" \in Stages
  BY Zenon DEF IInv, ControlOK, Stages
<1>2. Polled(w) /\ Kind[w] # "git"
  BY Zenon DEF Admit, AdmitRowRefused, AdmitBusy, AdmitStale, AdmitRefused, AdmitGranted
<1>3. w \in ready /\ stage[w] \in {"prepare", "parked"}
  BY <1>1, <1>2, DeliveredIs, Zenon DEF Polled
<1>4. Active(w) /\ ~Holding(w) /\ documentOwner # w
  BY <1>1, <1>3, Zenon DEF Active, Holding, WriteStages, PackageStages, Local, HolderOf
<1>5. ASSUME Answer(w, "refused") \/ Answer(w, "stale"), WakeNext(w),
             UNCHANGED <<docVars, cellVars, pkgVars, repoVars>>
      PROVE  Kept
  BY <1>1, <1>2, <1>3, <1>4, <1>5, Quits, Zenon DEF Answers, ControlOK
<1>6. CASE AdmitRowRefused(w)
  BY <1>5, <1>6, Zenon DEF AdmitRowRefused
<1>7. CASE AdmitBusy(w)
  BY <1>3, <1>7, Parks, Zenon DEF AdmitBusy
<1>8. CASE AdmitStale(w)
  BY <1>5, <1>8, Zenon DEF AdmitStale
<1>9. CASE AdmitRefused(w)
  BY <1>4, <1>5, <1>9, Zenon DEF AdmitRefused, MayOwn, WakeNext
<1>10. CASE AdmitGranted(w)
  BY <1>3, <1>10, Grants, Zenon DEF AdmitGranted
<1> QED  BY <1>6, <1>7, <1>8, <1>9, <1>10, Zenon DEF Admit

\* The document admission of a managed spawn's record and of its removal.
LEMMA GitAdmitKeeps ==
  ASSUME IInv, NEW w \in Waiters, load' = load, NEW prepare, NEW parked,
         <<prepare, parked>> \in {<<"prepare", "parked">>,
                                  <<"prepare_removal", "parked_removal">>},
         GitAdmit(w, prepare, parked)
  PROVE  Kept
<1> USE DEF pkgVars
<1>1. /\ ControlOK /\ Local(w) /\ JobsOK /\ prepare \in Stages
      /\ \/ prepare = "prepare" /\ parked = "parked"
         \/ prepare = "prepare_removal" /\ parked = "parked_removal"
  BY Zenon DEF IInv, ControlOK, Stages
<1>2. GitPolled(w, prepare, parked)
  BY Zenon DEF GitAdmit, GitBusy, GitStale, GitRefused, GitGranted
<1>3. w \in ready /\ stage[w] \in {prepare, parked} /\ Kind[w] = "git"
  BY <1>1, <1>2, DeliveredIs, Zenon DEF GitPolled, Git
<1>4. Active(w) /\ ~Holding(w) /\ documentOwner # w /\ stage[w] # "finalize"
  BY <1>1, <1>3, Zenon DEF Active, Holding, WriteStages, PackageStages, Local, HolderOf
<1>5. tree[w] \in IF prepare = "prepare" THEN {"made", "reused"} ELSE {"removed"}
  BY <1>1, <1>3, Zenon DEF Local, TreeOf
<1>6. CASE GitBusy(w, prepare, parked)
  BY <1>1, <1>3, <1>6, Parks, Zenon DEF GitBusy
<1>7. CASE GitStale(w, prepare, parked)
  BY <1>1, <1>3, <1>4, <1>5, <1>7, PreparesAgain, Zenon DEF GitStale
<1>8. CASE GitRefused(w, prepare, parked)
  <2>1. WakeNext(w)
    BY <1>4, <1>8, Zenon DEF GitRefused, MayOwn, WakeNext
  <2>2. CASE prepare = "prepare"
    BY <1>3, <1>4, <1>8, <2>1, <2>2, RollsBack, Zenon DEF GitRefused
  <2>3. CASE prepare # "prepare"
    BY <1>1, <1>3, <1>4, <1>8, <2>1, <2>3, Quits, Zenon DEF GitRefused, Answers, ControlOK
  <2> QED  BY <2>2, <2>3, Zenon
<1>9. CASE GitGranted(w, prepare, parked)
  BY <1>1, <1>3, <1>9, Grants, Zenon DEF GitGranted
<1> QED  BY <1>6, <1>7, <1>8, <1>9, Zenon DEF GitAdmit

\* A prepare that failed: nobody holds the document for it.
LEMMA PrepareFailedKeeps ==
  ASSUME IInv, NEW w \in Waiters, load' = load,
         (PollPrepareFailed(w) /\ UNCHANGED tree) \/ PollGitPrepareFailed(w)
  PROVE  Kept
<1> USE DEF pkgVars, Finish, GoOn
<1>1. ControlOK /\ Local(w) /\ JobsOK /\ {"prepare", "prepare_removal"} \subseteq Stages
  BY Zenon DEF IInv, ControlOK, Stages
<1>2. /\ w \in ready /\ stage[w] \in {"prepare", "prepare_removal"}
      /\ result[w] \in {"failed", "lost"}
  BY <1>1, DeliveredIs DEF PollPrepareFailed, PollGitPrepareFailed
<1>3. /\ Active(w) /\ ~Holding(w) /\ documentOwner # w /\ stage[w] # "finalize"
      /\ "prepare" \in MayFail
  BY <1>1, <1>2, Zenon DEF Active, Holding, WriteStages, PackageStages, Local, HolderOf, LossOf
<1>4. CASE PollPrepareFailed(w) /\ UNCHANGED tree
  <2>1. KeepDocument(w) /\ ~Waker(w) /\ Kind[w] # "git"
    BY <1>2, <1>3, <1>4, Zenon DEF PollPrepareFailed, ReleaseDocument, KeepDocument, Waker, Parked
  <2> QED  BY <1>1, <1>2, <1>3, <1>4, <2>1, Quits, Zenon DEF PollPrepareFailed, Answers, ControlOK
<1>5. CASE PollGitPrepareFailed(w)
  <2>1. Kind[w] = "git" /\ ~WakesKept
    BY <1>3, <1>5, Zenon DEF PollGitPrepareFailed, Git, WakesKept
  <2>2. CASE GoOn(w, "rollback")
    BY <1>2, <1>3, <2>1, <2>2, RollsBack, Zenon
  <2>3. CASE Finish(w, "uncertain")
    BY <1>1, <1>2, <1>3, <2>1, <2>3, Quits, Zenon DEF Answers, ControlOK
  <2> QED  BY <1>5, <2>2, <2>3, Zenon DEF PollGitPrepareFailed
<1> QED  BY <1>4, <1>5, Zenon

\* The polls of a managed spawn that leave the document alone.
LEMMA GitPollKeeps ==
  ASSUME IInv, NEW w \in Waiters, load' = load,
         PollCreated(w) \/ PollSpawnUndelivered(w) \/ PollSpawnFailed(w) \/ PollRolledBack(w)
  PROVE  Kept
<1> USE DEF pkgVars, Finish, GoOn, RetainRecovery
<1>1. /\ ControlOK /\ Local(w) /\ JobsOK /\ {"create", "spawn", "rollback"} \subseteq Stages
      /\ tree \in [Waiters -> Trees]
  BY Zenon DEF IInv, ControlOK, Stages
<1>2. w \in ready /\ stage[w] \in {"create", "spawn", "rollback"}
  BY <1>1, DeliveredIs DEF PollCreated, PollSpawnUndelivered, PollSpawnFailed, PollRolledBack
<1>3. /\ Active(w) /\ ~Holding(w) /\ stage[w] # "finalize" /\ ~Waker(w) /\ Kind[w] = "git"
  BY <1>1, <1>2, Zenon DEF Active, Holding, WriteStages, PackageStages, Local, HolderOf, Waker,
                    Parked, GitStages
<1>4. ASSUME NEW a \in Answers \ {"ok"}, Finish(w, a) \/ (a = "recovery" /\ RetainRecovery(w)),
             a = "failed" => tree[w] # "made" /\ (tree[w] = "removed" => Change(w) \notin view)
      PROVE  Kept
  BY <1>1, <1>2, <1>3, <1>4, Quits, Zenon
<1>5. {"failed", "uncertain", "recovery"} \subseteq Answers \ {"ok"}
  BY Zenon DEF Answers
<1>6. CASE PollCreated(w)
  <2>1. CASE Delivered(w, "create", "ok") /\ GoPrepare(w, "prepare")
    <3>1. tree[w] \in {"made", "reused"}
      BY <1>1, <1>3, <2>1, DeliveredIs, Zenon DEF Local, TreeOf
    <3> QED  BY <1>2, <1>3, <2>1, <3>1, PreparesAgain, Zenon
  <2>2. CASE GoOn(w, "rollback")
    BY <1>2, <1>3, <2>2, RollsBack, Zenon
  <2>3. CASE Delivered(w, "create", "failed") /\ Finish(w, "failed")
    <3>1. tree[w] = "none"
      BY <1>1, <1>3, <2>3, DeliveredIs, Zenon DEF Local, TreeOf
    <3> QED  BY <1>4, <1>5, <2>3, <3>1, Zenon
  <2> QED  BY <1>4, <1>5, <1>6, <2>1, <2>2, <2>3, Zenon DEF PollCreated
<1>7. CASE PollSpawnUndelivered(w)
  <2>1. /\ Answer(w, "failed") /\ KeepDocument(w)
        /\ UNCHANGED <<docVars, cellVars, pkgVars, repoVars>>
        /\ tree' = [tree EXCEPT ![w] = IF tree[w] = "made" THEN "handed" ELSE tree[w]]
    BY <1>7, Zenon DEF PollSpawnUndelivered, SetTree
  <2>2. tree[w] \in {"made", "reused"}
    BY <1>1, <1>3, <1>7, DeliveredIs, Zenon DEF PollSpawnUndelivered, Local, TreeOf
  <2>3. /\ tree' \in [Waiters -> Trees] /\ tree'[w] \in {"handed", "reused"}
        /\ \A v \in Waiters \ {w} : tree'[v] = tree[v]
    BY <1>1, <2>1, <2>2, Zenon DEF Trees
  <2> QED  BY <1>2, <1>3, <1>5, <2>1, <2>3, Quits, Zenon
<1>8. CASE PollSpawnFailed(w)
  <2>1. CASE GoOn(w, "rollback")
    BY <1>2, <1>3, <2>1, RollsBack, Zenon
  <2>2. CASE Delivered(w, "spawn", "failed") /\ tree[w] # "made" /\ Finish(w, "failed")
    <3>1. tree[w] = "reused"
      BY <1>1, <1>3, <2>2, DeliveredIs, Zenon DEF Local, TreeOf
    <3> QED  BY <1>4, <1>5, <2>2, <3>1, Zenon
  <2> QED  BY <1>4, <1>5, <1>8, <2>1, <2>2, Zenon DEF PollSpawnFailed
<1>9. CASE PollRolledBack(w)
  <2>1. CASE GoPrepare(w, "prepare_removal") /\ tree[w] = "removed"
    BY <1>2, <1>3, <2>1, PreparesAgain, Zenon
  <2>2. CASE /\ Delivered(w, "rollback", "ok") /\ Finish(w, "failed")
             /\ tree[w] = "removed" => Change(w) \notin view
    <3>1. tree[w] # "made"
      BY <1>1, <1>3, <2>2, DeliveredIs, Zenon DEF Local, TreeOf
    <3> QED  BY <1>4, <1>5, <2>2, <3>1, Zenon
  <2> QED  BY <1>4, <1>5, <1>9, <2>1, <2>2, Zenon DEF PollRolledBack
<1> QED  BY <1>6, <1>7, <1>8, <1>9, Zenon
----------------------------------------------------------------------------
\* The session was delivered, and then its worktree is committed.
LEMMA SpawnedKeeps ==
  ASSUME IInv, NEW w \in Waiters, load' = load, PollSpawnDelivered(w) \/ PollFinalized(w)
  PROVE  Kept
<1> USE DEF docVars, cellVars, pkgVars, repoVars
<1>1. ControlOK /\ Local(w) /\ JobsOK /\ {"spawn", "finalize", "done"} \subseteq Stages
  BY Zenon DEF IInv, ControlOK, Stages
<1>2. w \in ready /\ stage[w] \in {"spawn", "finalize"}
  BY <1>1, DeliveredIs DEF PollSpawnDelivered, PollFinalized
<1>3. /\ Kind[w] = "git" /\ documentOwner # w /\ rows[w] = "none" /\ Landed(w)
  BY <1>1, <1>2, Zenon DEF Holding, WriteStages, PackageStages, Local, HolderOf, RowOf, Landed,
                    GitStages
<1>4. KeepDocument(w) /\ UNCHANGED <<base, cand, stranded, docVars, cellVars, repoVars, tree>>
  BY Zenon DEF PollSpawnDelivered, PollFinalized
<1>5. /\ Turns(w, stage'[w], result'[w], answer'[w])
      /\ \/ /\ stage'[w] = "finalize" /\ result'[w] = "running" /\ answer'[w] = "ok"
            /\ rows' = rows /\ stage[w] = "spawn"
         \/ /\ stage'[w] = "done" /\ result'[w] = "none" /\ answer' = answer
            /\ rows' \in {rows, [rows EXCEPT ![w] = "git"]}
  <2>1. CASE PollSpawnDelivered(w)
    <3>1. stage[w] = "spawn" /\ {"running"} \subseteq Results /\ {"ok"} \subseteq Answers
      BY <1>1, <2>1, DeliveredIs, Zenon DEF PollSpawnDelivered, Results, Answers
    <3> QED  BY <1>1, <2>1, <3>1, SetStageTurns, Zenon DEF PollSpawnDelivered, Turns, JobsOK
  <2>2. CASE PollFinalized(w)
    BY <1>1, <2>2, SetStageTurns, Zenon DEF PollFinalized, Turns, JobsOK, Results
  <2> QED  BY <2>1, <2>2, Zenon
<1>6. ControlOK'
  BY <1>1, <1>4, <1>5, Zenon DEF ControlOK, Turns, KeepDocument
<1>7. Moves(w)
  BY <1>1, <1>4, <1>5, Zenon DEF Moves, Only, Turns, ControlOK, KeepDocument
<1>8. Local(w)'
  <2>1. Change(w) \in view /\ Change(w) \in disk
    BY <1>1, <1>3, Zenon DEF Local, WroteOf
  <2>2. CASE stage'[w] = "done"
    <3>1. answer[w] = "failed" =>
            tree[w] # "made" /\ (tree[w] = "removed" => Change(w) \notin view)
      BY <1>1, <1>3, Zenon DEF Local, TreeOf
    <3> QED  BY <1>3, <1>4, <1>5, <1>6, <1>7, <2>1, <2>2, <3>1, EndsLocal, Zenon DEF ControlOK
  <2>3. CASE stage'[w] = "finalize"
    <3> USE <1>1, <1>3, <1>4, <1>5, <2>3, SameLoad DEF Local
    <3>1. HolderOf(w)'
      BY Zenon DEF HolderOf, Holding, WriteStages, PackageStages, GitStages, KeepDocument
    <3>2. FreshOf(w)'
      BY Zenon DEF FreshOf, Holding, Preparing, WriteStages, PackageStages
    <3>3. WroteOf(w)' /\ LossOf(w)'
      BY <2>1, Zenon DEF WroteOf, LossOf, WriteStages, PackageStages
    <3>4. TreeOf(w)' /\ RowOf(w)'
      BY Zenon DEF TreeOf, RowOf, Applied
    <3> QED  BY <3>1, <3>2, <3>3, <3>4, Zenon
  <2> QED  BY <1>5, <2>2, <2>3, Zenon
<1>9. DiskInv'
  BY <1>2, <1>4, <1>7, DiskStays, Zenon DEF Undelivered, WriteStages
<1>10. ListedInv'
  BY <1>1, <1>2, <1>3, <1>4, <1>5, <1>7, ListedStays, Zenon DEF Listed, ControlOK
<1>11. WakeInv'
  BY <1>2, <1>3, <1>4, <1>5, <1>7, KeepWakes, Zenon DEF Waker, Parked, Active
<1> QED  BY <1>2, <1>6, <1>7, <1>8, <1>9, <1>10, <1>11, Assemble, Zenon DEF Active
----------------------------------------------------------------------------
(* Polls that deliver a write.                                              *)

\* A mutation whose write ends it: published, uncertain, lost or failed.
LEMMA WriteEndsKeeps ==
  ASSUME IInv, NEW w \in Waiters, load' = load, UNCHANGED tree,
         \/ PollRepoCommitted(w) \/ PollRepoUncertain(w) \/ PollUncertain(w)
         \/ PollCommitFailed(w) \/ PollRecorded(w)
         \/ PollCommitted(w) /\ ~IsPackage(w)
  PROVE  Kept
<1> USE DEF docVars, pkgVars, repoVars
<1>1. ControlOK /\ Local(w) /\ JobsOK /\ {"commit", "restore", "record"} \subseteq Stages
  BY Zenon DEF IInv, ControlOK, Stages
<1>2. {"commit", "restore", "record"} \subseteq WriteStages
      /\ {"ok", "uncertain", "failed", "recovery"} \subseteq Answers
  BY Zenon DEF WriteStages, Answers
<1>3. CASE PollRepoCommitted(w)
  <2>1. w \in ready /\ stage[w] = "commit" /\ result[w] = "ok" /\ Kind[w] = "repo"
    BY <1>1, <1>3, DeliveredIs, Zenon DEF PollRepoCommitted
  <2>2. Change(w) \in repo
    BY <1>1, <1>2, <2>1, Zenon DEF Local, WroteOf
  <2> QED  BY <1>2, <1>3, <2>1, <2>2, Closes, Zenon DEF PollRepoCommitted, Undelivered
<1>4. CASE PollRepoUncertain(w)
  <2>1. w \in ready /\ stage[w] = "commit" /\ Kind[w] = "repo"
    BY <1>1, <1>4, DeliveredIs, Zenon DEF PollRepoUncertain
  <2> QED  BY <1>2, <1>4, <2>1, Closes, Zenon DEF PollRepoUncertain, Undelivered
<1>5. CASE PollUncertain(w)
  <2>1. w \in ready /\ stage[w] \in {"commit", "restore"}
    BY <1>1, <1>5, DeliveredIs, Zenon DEF PollUncertain
  <2> QED  BY <1>2, <1>5, <2>1, Closes, Zenon DEF PollUncertain
<1>6. CASE PollCommitFailed(w)
  <2>1. w \in ready /\ stage[w] = "commit" /\ result[w] = "failed" /\ Kind[w] # "git"
    BY <1>1, <1>6, DeliveredIs, Zenon DEF PollCommitFailed
  <2> QED  BY <1>2, <1>6, <2>1, Closes, Zenon DEF PollCommitFailed, Undelivered
<1>7. CASE PollCommitted(w) /\ ~IsPackage(w)
  <2>1. w \in ready /\ stage[w] = "commit" /\ result[w] = "ok" /\ Kind[w] \notin {"git", "repo"}
    BY <1>1, <1>7, DeliveredIs, Zenon DEF PollCommitted
  <2>2. disk = cand[w] /\ Change(w) \in cand[w]
    BY <1>1, <1>2, <2>1, Zenon DEF Local, WroteOf, FreshOf
  <2> QED  BY <1>2, <1>7, <2>1, <2>2, Closes, Zenon DEF PollCommitted
<1>8. CASE PollRecorded(w)
  <2>1. PICK r \in {"ok", "failed", "uncertain"} :
          /\ Delivered(w, "record", r)
          /\ IF r = "uncertain" THEN cellHeld' = TRUE /\ cell' = cell ELSE ReleaseCell(w)
          /\ IF r = "ok" THEN revision' = revision + 1 /\ view' = cand[w]
             ELSE UNCHANGED <<revision, view>>
    BY <1>8, Zenon DEF PollRecorded
  <2>2. w \in ready /\ stage[w] = "record" /\ result[w] = r
    BY <1>1, <2>1, DeliveredIs, Zenon
  <2>3. IsPackage(w) /\ Kind[w] \notin {"git", "repo"} /\ (r = "ok" => disk = cand[w])
    BY <1>1, <1>2, <2>2, Zenon DEF Local, HolderOf, IsPackage, WroteOf
  <2>4. /\ Answer(w, "recovery") /\ rows' = [rows EXCEPT ![w] = "package"]
        /\ ReleaseDocument(w) /\ UNCHANGED <<disk, repo, stranded>>
    BY <1>8, Zenon DEF PollRecorded, KeepRow
  <2> QED  BY <1>2, <2>1, <2>2, <2>3, <2>4, Closes, Zenon DEF Undelivered
<1> QED  BY <1>3, <1>4, <1>5, <1>6, <1>7, <1>8, Zenon

\* A managed spawn whose write ends it.
LEMMA GitWriteEndsKeeps ==
  ASSUME IInv, NEW w \in Waiters, load' = load,
         RemovalCommitted(w) \/ CommitUncertain(w) \/ CommitLost(w)
           \/ (CommitFailed(w) /\ stage[w] = "removal")
  PROVE  Kept
<1> USE DEF docVars, pkgVars, repoVars
<1>1. ControlOK /\ Local(w) /\ JobsOK /\ {"commit", "removal"} \subseteq Stages
  BY Zenon DEF IInv, ControlOK, Stages
<1>2. {"commit", "removal"} \subseteq WriteStages
      /\ {"ok", "uncertain", "failed", "recovery"} \subseteq Answers
  BY Zenon DEF WriteStages, Answers
<1>3. CASE RemovalCommitted(w)
  <2>1. w \in ready /\ stage[w] = "removal" /\ result[w] = "ok" /\ Kind[w] = "git"
    BY <1>1, <1>3, DeliveredIs, Zenon DEF RemovalCommitted, Git
  <2>2. disk = cand[w] /\ Change(w) \notin cand[w] /\ tree[w] = "removed"
    BY <1>1, <1>2, <2>1, Zenon DEF Local, WroteOf, FreshOf, TreeOf
  <2> QED  BY <1>2, <1>3, <2>1, <2>2, Closes, Zenon DEF RemovalCommitted
<1>4. CASE CommitUncertain(w)
  <2>1. w \in ready /\ stage[w] \in {"commit", "removal"}
    BY <1>1, <1>4, DeliveredIs, Zenon DEF CommitUncertain
  <2> QED  BY <1>2, <1>4, <2>1, Closes, Zenon DEF CommitUncertain
<1>5. CASE CommitLost(w)
  <2>1. /\ w \in ready /\ stage[w] \in {"commit", "removal"} /\ result[w] = "lost"
        /\ Kind[w] = "git"
    BY <1>1, <1>5, DeliveredIs, Zenon DEF CommitLost, Git
  <2>2. ~NothingLost
    BY <1>1, <2>1, Zenon DEF Local, LossOf, NothingLost, Git
  <2> QED  BY <1>2, <1>5, <2>1, <2>2, Closes, Zenon DEF CommitLost
<1>6. CASE CommitFailed(w) /\ stage[w] = "removal"
  <2>1. /\ w \in ready /\ result[w] = "failed" /\ Answer(w, "uncertain")
    BY <1>1, <1>6, DeliveredIs, Zenon DEF CommitFailed
  <2> QED  BY <1>2, <1>6, <2>1, Closes, Zenon DEF CommitFailed, Undelivered
<1> QED  BY <1>3, <1>4, <1>5, <1>6, Zenon
=============================================================================
