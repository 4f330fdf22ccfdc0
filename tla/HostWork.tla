------------------------------ MODULE HostWork ------------------------------
(***************************************************************************)
(* Durable mutations on the Host: daemon/control/host_work.rs drives each   *)
(* request through jobs that host_mutations.rs runs on a Host worker, under *)
(* one reservation of the Hub-state document.                               *)
(*                                                                         *)
(* The owner thread is one actor: Handle admits a request and each Poll     *)
(* action consumes one job result.  Host workers are the other: a Run       *)
(* action finishes a job, in any order.  A document is the set of changes   *)
(* it contains, so a lost update is a missing member.  The permits of       *)
(* HostExecutor are counted; a submitted phase is always accepted because   *)
(* it reuses its request's permit.                                          *)
(***************************************************************************)
EXTENDS Naturals, FiniteSets, FiniteSetsExt

CONSTANTS
  Waiters,    \* owner waiter ids, in order of issue
  Loads,      \* the requests and failures of the behaviours
  Permits     \* HOST_OPERATION_CAPACITY

Kinds == {"none", "target", "repo", "reload", "refresh", "disable", "resolve", "git"}
Failures == {"prepare", "commit", "uncertain", "lost_commit", "lost_late",
             "effect", "runtime", "cleanup", "git"}

ASSUME HostWorkConstants ==
  /\ Waiters \subseteq Nat \ {0}
  /\ IsFiniteSet(Waiters)
  /\ Permits \in Nat
  /\ \A l \in Loads :
       /\ \A w \in Waiters : l.kind[w] \in Kinds
       /\ l.mayFail \subseteq Failures

VARIABLES
  load,         \* the load of this behaviour
  stage,        \* stage[w]: the phase its continuation is in
  result,       \* result[w]: "none", "running", or what its job returned
  saved,        \* saved[w]: <<stage, result>> kept through an event cleanup
  answer,       \* answer[w]: the reply it got
  ready,        \* waiters marked READY_HOST_COMPLETION
  base,         \* base[w]: revision its prepared change was made from
  cand,         \* cand[w]: the document (or repository file) it will write
  revision,     \* published Hub-state revision
  view,         \* published Hub-state document
  disk,         \* hub-state.json
  repo,         \* the repository's session-types file
  frozen,       \* the state authority is quarantined
  documentOwner, documentWaiters,
  cell,         \* waiter whose claim or write the publication cell holds, or 0
  cellHeld,     \* the cell holds an uncertain or unknown write
  rows,         \* rows[w]: the HostRecoveryRequired row of w
  stranded,     \* packages marked stranded in the runtime
  repoQuarantined

jobVars == <<stage, result, saved, answer, base, cand>>
docVars == <<revision, view, disk, frozen>>
lockVars == <<documentOwner, documentWaiters, ready>>
cellVars == <<cell, cellHeld>>
pkgVars == <<rows, stranded>>
repoVars == <<repo, repoQuarantined>>
vars == <<load, jobVars, docVars, lockVars, cellVars, pkgVars, repoVars>>

Kind == load.kind          \* Kind[w]: what the request of w does
Package == load.package    \* Package[w]: the package it names
MayFail == load.mayFail    \* the failures its jobs may have
IsPackage(w) == Kind[w] \in {"reload", "refresh", "disable", "resolve"}

\* "reload" stands for enable and reload, "disable" for disable and remove.
Explicit(w) == Kind[w] \in {"reload", "resolve"}
Restorable(w) == Kind[w] \in {"reload", "refresh"}
Change(w) == <<"change", w>>
Removed(w) == <<"removed", w>>
Quarantine(p) == <<"quarantine", p>>
Documents == SUBSET ({Change(w) : w \in Waiters} \cup {Removed(w) : w \in Waiters}
                     \cup {Quarantine(Package[w]) : w \in Waiters})

WriteStages == {"commit", "restore", "record", "removal"}
PackageStages == {"effect", "runtime", "quarantine", "events"}
Stages == {"new", "prepare", "parked", "commit", "effect", "restore", "runtime",
           "quarantine", "record", "events", "done",
           "create", "spawn", "rollback", "finalize",
           "prepare_removal", "parked_removal", "removal"}
Results == {"none", "running", "ok", "failed", "uncertain", "lost", "fault"}
Answers == {"none", "ok", "refused", "stale", "failed", "uncertain", "recovery"}
Active(w) == stage[w] \notin {"new", "done"}

Init ==
  /\ load \in Loads
  /\ stage = [w \in Waiters |-> IF Kind[w] = "none" THEN "done" ELSE "new"]
  /\ result = [w \in Waiters |-> "none"]
  /\ saved = [w \in Waiters |-> <<"none", "none">>]
  /\ answer = [w \in Waiters |-> "none"]
  /\ ready = {}
  /\ base = [w \in Waiters |-> 0]
  /\ cand = [w \in Waiters |-> {}]
  /\ revision = 0 /\ view = {} /\ disk = {} /\ repo = {}
  /\ frozen = FALSE
  /\ documentOwner = 0 /\ documentWaiters = {}
  /\ cell = 0 /\ cellHeld = FALSE
  /\ rows = [w \in Waiters |-> "none"]
  /\ stranded = {}
  /\ repoQuarantined = FALSE
-----------------------------------------------------------------------------
(* Recovery rows, permits, the document reservation, the publication cell.  *)

\* A request holds its permit until it is answered, a row until it is removed.
Outstanding == {w \in Waiters : Active(w) \/ rows[w] # "none"}

CoveredByRow(p) == \E w \in Waiters : rows[w] = "package" /\ Package[w] = p
AnyRow(kind) == \E w \in Waiters : rows[w] = kind

\* An explicit enable, reload or resolve of a stranded package is its
\* resolution; every other package mutation is refused while a row exists.
RowRefuses(w) ==
  AnyRow("package") /\ IsPackage(w) /\ ~(Explicit(w) /\ CoveredByRow(Package[w]))

\* wake_next_document_waiter: the first waiter leaves the set and is polled.
Woken == IF documentWaiters = {} THEN {} ELSE {Min(documentWaiters)}

WakeNext(w) ==
  /\ documentWaiters' = documentWaiters \ Woken
  /\ ready' = (ready \ {w}) \cup Woken
  /\ UNCHANGED documentOwner

\* Nothing happens unless w owns the document.
ReleaseDocument(w) ==
  IF documentOwner # w
  THEN ready' = ready \ {w} /\ UNCHANGED <<documentOwner, documentWaiters>>
  ELSE /\ documentOwner' = 0
       /\ documentWaiters' = documentWaiters \ Woken
       /\ ready' = (ready \ {w}) \cup Woken

KeepDocument(w) ==
  /\ ready' = ready \ {w}
  /\ UNCHANGED <<documentOwner, documentWaiters>>

ReleaseCell(w) ==
  /\ cell' = IF cell = w /\ ~cellHeld THEN 0 ELSE cell
  /\ UNCHANGED cellHeld
-----------------------------------------------------------------------------
(* The continuation of one request.                                         *)

SetStage(w, s, r) ==
  /\ stage' = [stage EXCEPT ![w] = s]
  /\ result' = [result EXCEPT ![w] = r]
  /\ saved' = [saved EXCEPT ![w] = <<"none", "none">>]

Submit(w, s) ==
  /\ SetStage(w, s, "running")
  /\ UNCHANGED <<answer, base, cand>>

Answer(w, a) ==
  /\ SetStage(w, "done", "none")
  /\ answer' = [answer EXCEPT ![w] = a]
  /\ UNCHANGED <<base, cand>>

\* w is polled with job s ended in r: directly, or after its event cleanup.
Delivered(w, s, r) ==
  /\ w \in ready
  /\ \/ stage[w] = s /\ result[w] = r
     \/ stage[w] = "events" /\ result[w] = "ok" /\ saved[w] = <<s, r>>

\* What the prepare jobs of each family make of the published view: the view
\* and the request's own change.  An explicit enable, reload or resolve also
\* clears the package's quarantine.
TargetCandidate(w) == view \cup {Change(w)}
RepoCandidate(w) == repo \cup {Change(w)}
RecordCandidate(w) == view \cup {Change(w)}
RemovalCandidate(w) == (view \ {Change(w)}) \cup {Removed(w)}
PackageCandidate(w) ==
  IF Explicit(w) THEN (view \cup {Change(w)}) \ {Quarantine(Package[w])}
  ELSE view \cup {Change(w)}

\* handle and submit_phase of a prepare.
SubmitPrepare(w, s) ==
  /\ SetStage(w, s, "running")
  /\ base' = [base EXCEPT ![w] = revision]
  /\ cand' = [cand EXCEPT ![w] =
       CASE Kind[w] = "target" -> TargetCandidate(w)
         [] Kind[w] = "repo" -> RepoCandidate(w)
         [] s = "prepare_removal" -> RemovalCandidate(w)
         [] Kind[w] = "git" /\ s # "prepare_removal" -> RecordCandidate(w)
         [] IsPackage(w) -> PackageCandidate(w)]
  /\ UNCHANGED answer

\* recovery_response and handle: each refusal answers at once.
Refused(w) ==
  \/ AnyRow("events")
  \/ RowRefuses(w)
  \/ /\ Kind[w] = "resolve"
     /\ ~CoveredByRow(Package[w]) /\ Package[w] \notin stranded
     /\ Quarantine(Package[w]) \notin view
  \/ Kind[w] = "repo" /\ repoQuarantined
  \/ Cardinality(Outstanding) >= Permits

Handle(w) ==
  /\ stage[w] = "new" /\ Kind[w] # "git"
  /\ \/ Refused(w) /\ Answer(w, "refused")
     \/ ~Refused(w) /\ SubmitPrepare(w, "prepare")
  /\ UNCHANGED <<docVars, lockVars, cellVars, pkgVars, repoVars>>
-----------------------------------------------------------------------------
(* Host workers.  "lost" is a result that is no mutation result: the job    *)
(* panicked, before or after its effect, or its result was too large.       *)

Running(w, s) == stage[w] = s /\ result[w] = "running"

Returns(w, r) ==
  /\ result' = [result EXCEPT ![w] = r]
  /\ ready' = ready \cup {w}
  /\ UNCHANGED <<stage, saved, answer, base, cand, documentOwner,
                 documentWaiters, cell, cellHeld, revision, view>>

NoFileChange == UNCHANGED <<disk, frozen, repo, repoQuarantined>>

RunPrepare(w) ==
  /\ \E s \in {"prepare", "prepare_removal"} : Running(w, s)
  /\ \/ Returns(w, "ok")
     \/ "prepare" \in MayFail /\ \E r \in {"failed", "lost"} : Returns(w, r)
  /\ NoFileChange /\ UNCHANGED pkgVars

\* commit_shared through the state authority: see StateDirectory.
WriteDocument(w, new) ==
  \/ /\ ~frozen
     /\ Returns(w, "ok") /\ disk' = new /\ UNCHANGED frozen
  \/ /\ ~frozen /\ "uncertain" \in MayFail
     /\ Returns(w, "uncertain") /\ disk' = new /\ frozen' = TRUE
  \/ /\ frozen \/ "commit" \in MayFail
     /\ Returns(w, "failed") /\ UNCHANGED <<disk, frozen>>

RunCommit(w) ==
  /\ \E s \in {"commit", "removal"} : Running(w, s)
  /\ Kind[w] # "repo"
  /\ \/ WriteDocument(w, cand[w])
     \/ /\ "lost_commit" \in MayFail
        /\ Returns(w, "lost")
        /\ disk' \in IF frozen THEN {disk} ELSE {disk, cand[w]}
        /\ UNCHANGED frozen
  /\ UNCHANGED <<pkgVars, repoVars>>

\* The repository file is compared with the prepared prior and written once.
RunRepoCommit(w) ==
  /\ Running(w, "commit") /\ Kind[w] = "repo"
  /\ IF repo # cand[w] \ {Change(w)}
     THEN Returns(w, "failed") /\ UNCHANGED repo
     ELSE \/ Returns(w, "ok") /\ repo' = cand[w]
          \/ "commit" \in MayFail /\ Returns(w, "failed") /\ UNCHANGED repo
          \/ "uncertain" \in MayFail /\ Returns(w, "uncertain") /\ repo' = cand[w]
          \/ /\ "lost_commit" \in MayFail
             /\ Returns(w, "lost") /\ repo' \in {repo, cand[w]}
  /\ UNCHANGED <<disk, frozen, repoQuarantined, pkgVars>>

\* An explicit load or resolve that succeeds clears the stranded marker.
RunEffect(w) ==
  /\ Running(w, "effect")
  /\ \/ /\ Returns(w, "ok")
        /\ stranded' = IF Explicit(w) THEN stranded \ {Package[w]} ELSE stranded
     \/ "effect" \in MayFail /\ Returns(w, "failed") /\ UNCHANGED stranded
     \/ "lost_late" \in MayFail /\ Returns(w, "lost") /\ UNCHANGED stranded
  /\ NoFileChange /\ UNCHANGED rows

\* execute_package_restore writes the state before the package's change.
RunRestore(w) ==
  /\ Running(w, "restore")
  /\ \/ WriteDocument(w, cand[w])
     \/ /\ "lost_late" \in MayFail
        /\ Returns(w, "lost")
        /\ disk' \in IF frozen THEN {disk} ELSE {disk, cand[w]}
        /\ UNCHANGED frozen
  /\ UNCHANGED <<pkgVars, repoVars>>

\* execute_package_runtime_restore: "failed" when a rollback failed or the
\* phase is a quarantine; the packages are then unloaded and stranded.
RunRuntime(w) ==
  /\ \E s \in {"runtime", "quarantine"} : Running(w, s)
  /\ \/ stage[w] = "runtime" /\ Returns(w, "ok") /\ UNCHANGED stranded
     \/ /\ stage[w] = "quarantine" \/ "runtime" \in MayFail
        /\ Returns(w, "failed")
        /\ stranded' = stranded \cup {Package[w]}
     \/ "lost_late" \in MayFail /\ Returns(w, "lost") /\ UNCHANGED stranded
  /\ NoFileChange /\ UNCHANGED rows

\* write_package_quarantine; its panic is caught and reported as not durable.
RunRecord(w) ==
  /\ Running(w, "record")
  /\ WriteDocument(w, cand[w])
  /\ UNCHANGED <<pkgVars, repoVars>>

\* EventOwner work on the package event router.
RunEvents(w) ==
  /\ Running(w, "events")
  /\ \/ Returns(w, "ok")
     \/ "cleanup" \in MayFail /\ Returns(w, "fault")
     \/ "lost_late" \in MayFail /\ Returns(w, "lost")
  /\ NoFileChange /\ UNCHANGED pkgVars

Run(w) ==
  \/ RunPrepare(w) \/ RunCommit(w) \/ RunRepoCommit(w) \/ RunEffect(w)
  \/ RunRestore(w) \/ RunRuntime(w) \/ RunRecord(w) \/ RunEvents(w)
-----------------------------------------------------------------------------
(* admit_or_park_commit, after the prepare and again when woken.            *)

Polled(w) == Delivered(w, "prepare", "ok") \/ (w \in ready /\ stage[w] = "parked")

\* Package recovery arrived in the meantime: the wake is passed on.
AdmitRowRefused(w) ==
  /\ Polled(w) /\ Kind[w] # "git"
  /\ RowRefuses(w)
  /\ Answer(w, "refused") /\ WakeNext(w)
  /\ UNCHANGED <<docVars, cellVars, pkgVars, repoVars>>

AdmitBusy(w) ==
  /\ Polled(w) /\ Kind[w] # "git"
  /\ ~RowRefuses(w)
  /\ documentOwner \notin {0, w}
  /\ SetStage(w, "parked", "none")
  /\ documentWaiters' = documentWaiters \cup {w}
  /\ ready' = ready \ {w}
  /\ UNCHANGED <<answer, base, cand, documentOwner, docVars, cellVars, pkgVars,
                 repoVars>>

AdmitStaleQuiet(w) ==
  /\ Polled(w) /\ Kind[w] # "git"
  /\ ~RowRefuses(w)
  /\ documentOwner = 0 /\ base[w] # revision
  /\ Answer(w, "stale") /\ KeepDocument(w)
  /\ UNCHANGED <<docVars, cellVars, pkgVars, repoVars>>

AdmitStale(w) ==
  /\ Polled(w) /\ Kind[w] # "git"
  /\ ~RowRefuses(w)
  /\ documentOwner = 0 /\ base[w] # revision
  /\ Answer(w, "stale") /\ WakeNext(w)
  /\ UNCHANGED <<docVars, cellVars, pkgVars, repoVars>>

MayOwnStale(w) == documentOwner \in {0, w}
MayOwn(w) == documentOwner = w \/ (documentOwner = 0 /\ base[w] = revision)

\* Granted, but the repository is quarantined or the cell is occupied: the
\* reservation that was just taken is released again.
AdmitRefused(w) ==
  /\ Polled(w) /\ Kind[w] # "git"
  /\ ~RowRefuses(w) /\ MayOwn(w)
  /\ (Kind[w] = "repo" /\ repoQuarantined) \/ cell # 0
  /\ Answer(w, "refused")
  /\ documentOwner' = 0
  /\ documentWaiters' = documentWaiters \ Woken
  /\ ready' = (ready \ {w}) \cup Woken
  /\ UNCHANGED <<docVars, cellVars, pkgVars, repoVars>>

AdmitGrantedOverCell(w) ==
  /\ Polled(w) /\ Kind[w] # "git"
  /\ ~RowRefuses(w) /\ MayOwn(w)
  /\ ~(Kind[w] = "repo" /\ repoQuarantined)
  /\ documentOwner' = w
  /\ ready' = ready \ {w}
  /\ cell' = w
  /\ Submit(w, "commit")
  /\ UNCHANGED <<documentWaiters, cellHeld, docVars, pkgVars, repoVars>>

\* Granted: the cell is claimed before the write is submitted.
AdmitGranted(w) ==
  /\ Polled(w) /\ Kind[w] # "git"
  /\ ~RowRefuses(w) /\ MayOwn(w)
  /\ ~(Kind[w] = "repo" /\ repoQuarantined) /\ cell = 0
  /\ documentOwner' = w
  /\ ready' = ready \ {w}
  /\ cell' = w
  /\ Submit(w, "commit")
  /\ UNCHANGED <<documentWaiters, cellHeld, docVars, pkgVars, repoVars>>

Admit(w) ==
  \/ AdmitRowRefused(w) \/ AdmitBusy(w) \/ AdmitStale(w) \/ AdmitRefused(w)
  \/ AdmitGranted(w)
-----------------------------------------------------------------------------
(* HostMutationContinuation::poll, one action per result.                   *)

PollPrepareFailed(w) ==
  /\ Kind[w] # "git"
  /\ Delivered(w, "prepare", "failed") \/ Delivered(w, "prepare", "lost")
  /\ Answer(w, "failed") /\ ReleaseDocument(w)
  /\ UNCHANGED <<docVars, cellVars, pkgVars, repoVars>>

\* Committed: the view is published; a package goes on to its runtime effect
\* with the document still reserved and the state before its change kept.
PollCommitted(w) ==
  /\ Delivered(w, "commit", "ok") /\ Kind[w] \notin {"git", "repo"}
  /\ ReleaseCell(w)
  /\ revision' = revision + 1 /\ view' = cand[w]
  /\ IF IsPackage(w)
     THEN /\ SetStage(w, "effect", "running")
          /\ cand' = [cand EXCEPT ![w] = view]
          /\ UNCHANGED <<answer, base>> /\ KeepDocument(w)
     ELSE Answer(w, "ok") /\ ReleaseDocument(w)
  /\ UNCHANGED <<disk, frozen, pkgVars, repoVars>>

PollRepoCommitted(w) ==
  /\ Delivered(w, "commit", "ok") /\ Kind[w] = "repo"
  /\ ReleaseCell(w) /\ Answer(w, "ok") /\ ReleaseDocument(w)
  /\ UNCHANGED <<docVars, pkgVars, repoVars>>

\* ExternalEffectUncertain, or a lost repository write: only this root stops.
PollRepoUncertain(w) ==
  /\ Kind[w] = "repo"
  /\ Delivered(w, "commit", "uncertain") \/ Delivered(w, "commit", "lost")
  /\ repoQuarantined' = TRUE
  /\ ReleaseCell(w) /\ Answer(w, "uncertain") /\ ReleaseDocument(w)
  /\ UNCHANGED <<docVars, pkgVars, repo>>

PollUncertainDropped(w) ==
  /\ Kind[w] \notin {"git", "repo"}
  /\ \/ \E s \in {"commit", "restore"} : Delivered(w, s, "uncertain")
     \/ Delivered(w, "commit", "lost")
  /\ ReleaseCell(w)
  /\ Answer(w, "uncertain") /\ ReleaseDocument(w)
  /\ UNCHANGED <<docVars, pkgVars, repoVars>>

\* PublishedUncertain of a commit or a restore moves into the claimed cell;
\* finish_unknown_commit does the same for a commit with no result.
PollUncertain(w) ==
  /\ Kind[w] \notin {"git", "repo"}
  /\ \/ \E s \in {"commit", "restore"} : Delivered(w, s, "uncertain")
     \/ Delivered(w, "commit", "lost")
  /\ cell = w /\ ~cellHeld
  /\ cellHeld' = TRUE
  /\ Answer(w, "uncertain") /\ ReleaseDocument(w)
  /\ UNCHANGED <<cell, docVars, pkgVars, repoVars>>

\* Recovered or Failed: nothing was published.
PollCommitFailed(w) ==
  /\ Delivered(w, "commit", "failed") /\ Kind[w] # "git"
  /\ ReleaseCell(w) /\ Answer(w, "failed") /\ ReleaseDocument(w)
  /\ UNCHANGED <<docVars, pkgVars, repoVars>>

\* A later phase ended without a mutation result: no obligation is left, and
\* the answer does not release the document.
PollLost(w) ==
  /\ \E s \in {"effect", "restore", "runtime", "quarantine"} : Delivered(w, s, "lost")
  /\ ReleaseCell(w) /\ Answer(w, "failed") /\ KeepDocument(w)
  /\ UNCHANGED <<docVars, pkgVars, repoVars>>

HasCleanup(w) ==
  stage[w] \in {"effect", "runtime", "quarantine"} /\ result[w] \in {"ok", "failed"}

\* An unload of the package's event plane runs as one more job first.
PollCleanup(w) ==
  /\ w \in ready /\ HasCleanup(w)
  /\ stage' = [stage EXCEPT ![w] = "events"]
  /\ result' = [result EXCEPT ![w] = "running"]
  /\ saved' = [saved EXCEPT ![w] = <<stage[w], result[w]>>]
  /\ KeepDocument(w)
  /\ UNCHANGED <<answer, base, cand, docVars, cellVars, pkgVars, repoVars>>

\* A panicked cleanup is submitted again.
PollCleanupAgain(w) ==
  /\ w \in ready /\ stage[w] = "events" /\ result[w] = "lost"
  /\ result' = [result EXCEPT ![w] = "running"]
  /\ KeepDocument(w)
  /\ UNCHANGED <<stage, saved, answer, base, cand, docVars, cellVars, pkgVars,
                 repoVars>>

\* A fault keeps a row that holds the permit, and leaves the document reserved.
PollCleanupFault(w) ==
  /\ w \in ready
  /\ \/ stage[w] = "events" /\ result[w] = "fault"
     \/ HasCleanup(w) /\ "cleanup" \in MayFail
  /\ Answer(w, "recovery")
  /\ rows' = [rows EXCEPT ![w] = "events"]
  /\ KeepDocument(w)
  /\ UNCHANGED <<stranded, docVars, cellVars, repoVars>>

\* resolve_package_recovery: rows that cover nothing more are released.
Resolved(p) ==
  [w \in Waiters |-> IF rows[w] = "package" /\ Package[w] = p THEN "none" ELSE rows[w]]

PollEffectApplied(w) ==
  /\ Delivered(w, "effect", "ok")
  /\ rows' = IF Explicit(w) THEN Resolved(Package[w]) ELSE rows
  /\ Answer(w, "ok") /\ ReleaseDocument(w)
  /\ UNCHANGED <<stranded, docVars, cellVars, repoVars>>

\* submit_package_quarantine strands the package at once.
SubmitQuarantine(w) ==
  /\ stranded' = stranded \cup {Package[w]}
  /\ Submit(w, "quarantine")
  /\ UNCHANGED rows

PollEffectFailedUnlocked(w) ==
  /\ Delivered(w, "effect", "failed")
  /\ \/ /\ Restorable(w) /\ cell = 0
        /\ cell' = w
        /\ Submit(w, "restore") /\ UNCHANGED pkgVars
     \/ ~Restorable(w) /\ SubmitQuarantine(w) /\ UNCHANGED cell
  /\ ReleaseDocument(w)
  /\ UNCHANGED <<cellHeld, docVars, repoVars>>

\* A reversible effect restores the state before the change under the same
\* reservation; any other is quarantined.  The refusals of both admission
\* checks are unreachable (WriterHoldsDocument).
PollEffectFailed(w) ==
  /\ Delivered(w, "effect", "failed")
  /\ \/ /\ Restorable(w) /\ documentOwner = w /\ cell = 0
        /\ cell' = w
        /\ Submit(w, "restore") /\ UNCHANGED pkgVars
     \/ ~Restorable(w) /\ SubmitQuarantine(w) /\ UNCHANGED cell
  /\ KeepDocument(w)
  /\ UNCHANGED <<cellHeld, docVars, repoVars>>

PollRestored(w) ==
  /\ Delivered(w, "restore", "ok")
  /\ ReleaseCell(w)
  /\ revision' = revision + 1 /\ view' = cand[w]
  /\ Submit(w, "runtime") /\ KeepDocument(w)
  /\ UNCHANGED <<disk, frozen, pkgVars, repoVars>>

PollRestoreFailed(w) ==
  /\ Delivered(w, "restore", "failed")
  /\ ReleaseCell(w)
  /\ SubmitQuarantine(w) /\ KeepDocument(w)
  /\ UNCHANGED <<docVars, repoVars>>

\* PackageRuntimeRestored with no failed rollback.
PollRuntimeRestored(w) ==
  /\ Delivered(w, "runtime", "ok")
  /\ Answer(w, "failed") /\ ReleaseDocument(w)
  /\ UNCHANGED <<docVars, cellVars, pkgVars, repoVars>>

KeepRowForgotten(w) == Answer(w, "recovery") /\ UNCHANGED rows

\* retain_compensation_failure: the row keeps this request's permit.
KeepRow(w) ==
  /\ rows' = [rows EXCEPT ![w] = "package"]
  /\ Answer(w, "recovery")

\* A failed compensation is recorded in the document under the same
\* reservation.
PollCompensationFailed(w) ==
  /\ \E s \in {"runtime", "quarantine"} : Delivered(w, s, "failed")
  /\ documentOwner = w /\ cell = 0
  /\ cell' = w
  /\ SetStage(w, "record", "running")
  /\ cand' = [cand EXCEPT ![w] = view \cup {Quarantine(Package[w])}]
  /\ KeepDocument(w)
  /\ UNCHANGED <<answer, base, pkgVars, cellHeld, docVars, repoVars>>

PollRecorded(w) ==
  /\ \E r \in {"ok", "failed", "uncertain"} :
       /\ Delivered(w, "record", r)
       /\ IF r = "uncertain"
          THEN cell = w /\ cellHeld' = TRUE /\ UNCHANGED cell
          ELSE ReleaseCell(w)
       /\ IF r = "ok"
          THEN revision' = revision + 1 /\ view' = cand[w]
          ELSE UNCHANGED <<revision, view>>
  /\ KeepRow(w) /\ ReleaseDocument(w)
  /\ UNCHANGED <<stranded, disk, frozen, repoVars>>

\* An operator resolves the repository's quarantine.
ResolveRepo ==
  /\ repoQuarantined
  /\ repoQuarantined' = FALSE
  /\ UNCHANGED <<jobVars, docVars, lockVars, cellVars, pkgVars, repo>>

Poll(w) ==
  \/ Admit(w) \/ PollPrepareFailed(w) \/ PollCommitted(w) \/ PollRepoCommitted(w)
  \/ PollRepoUncertain(w) \/ PollUncertain(w) \/ PollCommitFailed(w)
  \/ PollLost(w) \/ PollCleanup(w) \/ PollCleanupAgain(w) \/ PollCleanupFault(w)
  \/ PollEffectApplied(w) \/ PollEffectFailed(w) \/ PollRestored(w)
  \/ PollRestoreFailed(w) \/ PollRuntimeRestored(w)
  \/ PollCompensationFailed(w) \/ PollRecorded(w)

HostNext ==
  /\ (\E w \in Waiters : Handle(w) \/ Run(w) \/ Poll(w)) \/ ResolveRepo
  /\ UNCHANGED load

HostSpec == Init /\ [][HostNext]_vars
-----------------------------------------------------------------------------
(* Properties.                                                              *)

TypeOK ==
  /\ stage \in [Waiters -> Stages]
  /\ result \in [Waiters -> Results]
  /\ answer \in [Waiters -> Answers]
  /\ saved \in [Waiters -> {"none", "effect", "runtime", "quarantine"}
                           \X {"none", "ok", "failed"}]
  /\ ready \subseteq Waiters
  /\ base \in [Waiters -> Nat] /\ revision \in Nat
  /\ cand \in [Waiters -> Documents]
  /\ view \in Documents /\ disk \in Documents /\ repo \in Documents
  /\ documentOwner \in Waiters \cup {0}
  /\ documentWaiters \subseteq Waiters
  /\ cell \in Waiters \cup {0}
  /\ {frozen, cellHeld, repoQuarantined} \subseteq BOOLEAN
  /\ rows \in [Waiters -> {"none", "package", "events", "git"}]
  /\ Cardinality(Outstanding) <= Permits

\* While a Host worker writes the document, its request holds the document
\* reservation and the publication cell: no second write can be in flight,
\* and an uncertain outcome has a place to go (the assertions of
\* retain_uncertain_publication cannot fail).  Between its writes a package
\* request keeps the reservation and finds the cell free, so neither its
\* restore nor its quarantine record is ever refused admission.
WriterHoldsDocument ==
  \A w \in Waiters :
    /\ stage[w] \in WriteStages => documentOwner = w /\ cell = w
    /\ stage[w] \in PackageStages => documentOwner = w /\ cell = 0

\* A change that was acknowledged stays in the published view and on disk,
\* whatever other requests prepared, committed, restored or quarantined since.
AcknowledgedChangeKept ==
  \A w \in Waiters : answer[w] = "ok" =>
    IF Kind[w] = "repo" THEN Change(w) \in repo
    ELSE Change(w) \in view /\ Change(w) \in disk

\* The published view is the document on disk whenever no write is running or
\* undelivered and the publication cell holds no uncertain write.
ViewIsDisk ==
  \/ view = disk \/ cellHeld
  \/ \E w \in Waiters : stage[w] \in WriteStages

\* After an uncertain or unknown publication nothing writes the document
\* until the Hub restarts.
UncertainStopsWrites == [][cellHeld => disk' = disk]_vars

\* When no job runs and no waiter is ready, every admitted mutation is
\* answered: each parked one had someone left to wake it.
NoneStranded ==
  ready = {} /\ (\A w \in Waiters : result[w] # "running")
    => \A w \in Waiters : ~Active(w)

\* A package whose compensation failed stays listed for its operator: a
\* stranded package has a recovery row, or its compensation is under way,
\* unless the compensation's own job was lost.
StrandedIsResolvable ==
  "lost_late" \notin MayFail => \A p \in stranded : \E w \in Waiters :
    /\ Package[w] = p
    /\ rows[w] \in {"package", "events"} \/ Active(w)

=============================================================================
