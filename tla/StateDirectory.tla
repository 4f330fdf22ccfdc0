--------------------------- MODULE StateDirectory ---------------------------
(***************************************************************************)
(* The Hub's only durable document, hub-state.json, from the lock on its    *)
(* directory to the acknowledged write: recovery/state_directory.rs under   *)
(* the load and commit paths of persistence.rs and the start of the daemon. *)
(*                                                                         *)
(* Several Hub processes contend for one path.  The path may be made to     *)
(* name another directory at any time, a process may be killed between any  *)
(* two system calls, and the power may fail.  A document is a version       *)
(* number: every candidate is a new one, 0 is an absent file and Torn is a  *)
(* file whose bytes were not all written.                                   *)
(***************************************************************************)
EXTENDS Naturals, FiniteSets

CONSTANTS
  Hubs,        \* Hub processes started on one data path
  Dirs,        \* directories the path may name
  MaxVersion,  \* bound: candidates written in a behaviour
  NoHub,       \* no process holds the lock
  Child        \* the lock is held by a forked child's copy of the descriptor

ASSUME ConstantsDistinct ==
  /\ NoHub \notin Hubs /\ Child \notin Hubs /\ NoHub # Child
  /\ MaxVersion \in Nat

Torn == MaxVersion + 1
Versions == 0 .. MaxVersion
Files == Versions \cup {Torn}

VARIABLES
  path,        \* the directory the data path names
  doc,         \* doc[d]: hub-state.json as a process reads it
  disk,        \* disk[d]: the documents a power loss may leave
  tmp,         \* tmp[d]: [file, synced] of hub-state.json.tmp
  lock,        \* lock[d]: holder of the directory's flock
  copies,      \* Hubs whose descriptor a not yet exec'ed child also holds
  pc,          \* pc[h]: the next step of Hub h
  fd,          \* fd[h]: the directory its descriptor retains
  view,        \* view[h]: the version it publishes to clients
  cand,        \* cand[h]: the version it is writing
  quarantined, \* quarantined[h]: quarantine_reason is set
  booting,     \* booting[h]: HubDaemon::start has not returned
  fresh,       \* versions handed out
  killed,      \* whether any process was killed
  acked        \* acked[d]: last version reported as Synced

hubVars == <<pc, fd, view, cand, quarantined, booting>>
fileVars == <<doc, disk, tmp>>
vars == <<path, fileVars, lock, copies, hubVars, fresh, killed, acked>>

Running == {"run", "truncate", "fill", "sync", "rename", "fsync", "check"}
Owning == Running \cup {"load"}
Steps == Owning \cup {"down", "lock"}

Init ==
  /\ path \in Dirs
  /\ doc = [d \in Dirs |-> 0]
  /\ disk = [d \in Dirs |-> {0}]
  /\ tmp = [d \in Dirs |-> [file |-> 0, synced |-> TRUE]]
  /\ lock = [d \in Dirs |-> NoHub]
  /\ copies = {}
  /\ pc = [h \in Hubs |-> "down"]
  /\ fd = [h \in Hubs |-> path]
  /\ view = [h \in Hubs |-> 0]
  /\ cand = [h \in Hubs |-> 0]
  /\ quarantined = [h \in Hubs |-> FALSE]
  /\ booting = [h \in Hubs |-> FALSE]
  /\ fresh = 0
  /\ killed = FALSE
  /\ acked = [d \in Dirs |-> 0]

At(h, step) == pc[h] = step
Goto(h, step) == pc' = [pc EXCEPT ![h] = step]
Current(h) == path = fd[h]
-----------------------------------------------------------------------------
(* The end of a process.                                                    *)

\* The kernel frees a lock with the last copy of its descriptor.
UnlockByClose(h) ==
  lock' = [d \in Dirs |-> IF lock[d] # h THEN lock[d]
                          ELSE IF h \in copies THEN Child ELSE NoHub]

\* Dropping the last clone unlocks the open file description itself, so a
\* child's copy cannot keep it.
Unlock(h) == lock' = [d \in Dirs |-> IF lock[d] = h THEN NoHub ELSE lock[d]]

\* An orderly exit, a refused start included: every error of the start returns
\* and drops the authority it acquired.
Exit(h) ==
  /\ Goto(h, "down")
  /\ Unlock(h)
  /\ quarantined' = [quarantined EXCEPT ![h] = FALSE]
  /\ booting' = [booting EXCEPT ![h] = FALSE]
  /\ view' = [view EXCEPT ![h] = 0]
  /\ cand' = [cand EXCEPT ![h] = 0]
  /\ UNCHANGED <<path, fileVars, copies, fd, fresh, killed, acked>>

Stop(h) == At(h, "run") /\ ~booting[h] /\ Exit(h)

\* A killed process runs no Drop: the kernel closes its descriptor.
Kill(h) ==
  /\ pc[h] # "down"
  /\ Goto(h, "down")
  /\ UnlockByClose(h)
  /\ killed' = TRUE
  /\ quarantined' = [quarantined EXCEPT ![h] = FALSE]
  /\ booting' = [booting EXCEPT ![h] = FALSE]
  /\ view' = [view EXCEPT ![h] = 0]
  /\ cand' = [cand EXCEPT ![h] = 0]
  /\ UNCHANGED <<path, fileVars, copies, fd, fresh, acked>>
-----------------------------------------------------------------------------
(* The environment.                                                         *)

\* Another thread of h forks; the copy lasts until the child execs.
Fork(h) ==
  /\ pc[h] \in Owning
  /\ h \notin copies
  /\ copies' = copies \cup {h}
  /\ UNCHANGED <<path, fileVars, lock, hubVars, fresh, killed, acked>>

\* The copies of h are closed; a lock only they held is free.
Exec(h) ==
  /\ h \in copies
  /\ copies' = copies \ {h}
  /\ lock' = [d \in Dirs |-> IF lock[d] = Child /\ fd[h] = d
                                /\ ~\E g \in copies \ {h} : fd[g] = d
                             THEN NoHub ELSE lock[d]]
  /\ UNCHANGED <<path, fileVars, hubVars, fresh, killed, acked>>

\* The directory is moved away and another takes its name.
Replace ==
  /\ path' \in Dirs \ {path}
  /\ UNCHANGED <<fileVars, lock, copies, hubVars, fresh, killed, acked>>

\* Every process ends and each directory keeps one of the documents whose
\* entry could have reached the disk.
PowerLoss ==
  /\ doc' \in [Dirs -> Files]
  /\ \A d \in Dirs : doc'[d] \in disk[d]
  /\ disk' = [d \in Dirs |-> {doc'[d]}]
  /\ tmp' = [d \in Dirs |-> [file |-> Torn, synced |-> TRUE]]
  /\ lock' = [d \in Dirs |-> NoHub]
  /\ copies' = {}
  /\ pc' = [h \in Hubs |-> "down"]
  /\ quarantined' = [h \in Hubs |-> FALSE]
  /\ booting' = [h \in Hubs |-> FALSE]
  /\ view' = [h \in Hubs |-> 0]
  /\ cand' = [h \in Hubs |-> 0]
  /\ killed' = TRUE
  /\ UNCHANGED <<path, fd, fresh, acked>>
-----------------------------------------------------------------------------
(* Start: StateDirectoryOwnership::acquire and load_retained.               *)

OpenDirectory(h) ==
  /\ At(h, "down") /\ h \notin copies
  /\ fd' = [fd EXCEPT ![h] = path]
  /\ booting' = [booting EXCEPT ![h] = TRUE]
  /\ Goto(h, "lock")
  /\ UNCHANGED <<path, fileVars, lock, copies, view, cand, quarantined,
                 fresh, killed, acked>>

\* Contention never waits; the identity check follows the lock.
TryLock(h) ==
  /\ At(h, "lock")
  /\ \/ /\ lock[fd[h]] = NoHub /\ Current(h)
        /\ lock' = [lock EXCEPT ![fd[h]] = h]
        /\ Goto(h, "load")
        /\ UNCHANGED <<path, fileVars, copies, fd, view, cand, quarantined,
                       booting, fresh, killed, acked>>
     \/ (lock[fd[h]] # NoHub \/ ~Current(h)) /\ Exit(h)

\* A document that decodes becomes the published view; an absent one is
\* written first, from the configuration.
Load(h) ==
  /\ At(h, "load")
  /\ LET found == doc[fd[h]] IN
     \/ (~Current(h) \/ found = Torn) /\ Exit(h)
     \/ /\ Current(h) /\ found # Torn
        /\ found = 0 => fresh < MaxVersion
        /\ view' = [view EXCEPT ![h] = found]
        /\ Goto(h, IF found = 0 THEN "truncate" ELSE "run")
        /\ fresh' = IF found = 0 THEN fresh + 1 ELSE fresh
        /\ cand' = [cand EXCEPT ![h] = IF found = 0 THEN fresh + 1 ELSE @]
        /\ UNCHANGED <<path, fileVars, lock, copies, fd, quarantined, booting,
                       killed, acked>>

\* The start may save twice more (adopted worktrees, refreshed packages)
\* before the daemon runs.
Started(h) ==
  /\ At(h, "run") /\ booting[h]
  /\ booting' = [booting EXCEPT ![h] = FALSE]
  /\ UNCHANGED <<path, fileVars, lock, copies, pc, fd, view, cand, quarantined,
                 fresh, killed, acked>>
-----------------------------------------------------------------------------
(* One write: prepare_shared, commit_shared, write_document_inner.          *)

\* The candidate is derived from the published view.
Prepare(h) ==
  /\ At(h, "run") /\ fresh < MaxVersion
  /\ fresh' = fresh + 1
  /\ cand' = [cand EXCEPT ![h] = fresh + 1]
  /\ Goto(h, "truncate")
  /\ UNCHANGED <<path, fileVars, lock, copies, fd, view, quarantined, booting,
                 killed, acked>>

\* BeforePublication: the caller keeps its view; a start gives up.
Refuse(h) ==
  \/ booting[h] /\ Exit(h)
  \/ /\ ~booting[h]
     /\ Goto(h, "run")
     /\ UNCHANGED <<path, fileVars, lock, copies, fd, view, cand, quarantined,
                    booting, fresh, killed, acked>>

\* PublishedUncertain: the first reason quarantines the authority; a start
\* gives up.
PublishUncertain(h) ==
  \/ booting[h] /\ Exit(h)
  \/ /\ ~booting[h]
     /\ Goto(h, "run")
     /\ quarantined' = [quarantined EXCEPT ![h] = TRUE]
     /\ UNCHANGED <<path, fileVars, lock, copies, fd, view, cand, booting,
                    fresh, killed, acked>>

\* One step of the write that succeeds: it goes on and changes the files as
\* the arguments say.
WriteStep(h, from, to, docs, disks, tmps) ==
  /\ At(h, from)
  /\ Goto(h, to)
  /\ doc' = docs /\ disk' = disks /\ tmp' = tmps
  /\ UNCHANGED <<path, lock, copies, fd, view, cand, quarantined, booting,
                 fresh, killed, acked>>

SetTmp(h, file, synced) ==
  [tmp EXCEPT ![fd[h]] = [file |-> file, synced |-> synced]]

TruncateUnguarded(h) ==
  \/ /\ Current(h)
     /\ WriteStep(h, "truncate", "fill", doc, disk, SetTmp(h, Torn, FALSE))
  \/ At(h, "truncate") /\ Refuse(h)

\* The quarantine and the identity are checked, then the leftover of an
\* earlier write is emptied.  Every system call may fail instead.
Truncate(h) ==
  \/ /\ ~quarantined[h] /\ Current(h)
     /\ WriteStep(h, "truncate", "fill", doc, disk, SetTmp(h, Torn, FALSE))
  \/ At(h, "truncate") /\ Refuse(h)

FillSkipsSync(h) ==
  \/ WriteStep(h, "fill", "rename", doc, disk, SetTmp(h, cand[h], FALSE))
  \/ At(h, "fill") /\ Refuse(h)

Fill(h) ==
  \/ WriteStep(h, "fill", "sync", doc, disk, SetTmp(h, cand[h], FALSE))
  \/ At(h, "fill") /\ Refuse(h)

SyncFile(h) ==
  \/ WriteStep(h, "sync", "rename", doc, disk, SetTmp(h, tmp[fd[h]].file, TRUE))
  \/ At(h, "sync") /\ Refuse(h)

\* The new entry is visible at once and durable at the latest with the
\* directory's fsync; bytes that were not synced may be lost under it.
Rename(h) ==
  \/ LET new == tmp[fd[h]] IN
     WriteStep(h, "rename", "fsync",
               [doc EXCEPT ![fd[h]] = new.file],
               [disk EXCEPT ![fd[h]] =
                  @ \cup {IF new.synced THEN new.file ELSE Torn}],
               SetTmp(h, 0, TRUE))
  \/ At(h, "rename") /\ Refuse(h)

FsyncIgnoresError(h) ==
  \/ WriteStep(h, "fsync", "check", doc,
               [disk EXCEPT ![fd[h]] = {doc[fd[h]]}], tmp)
  \/ WriteStep(h, "fsync", "check", doc, disk, tmp)

FsyncDirectory(h) ==
  \/ WriteStep(h, "fsync", "check", doc,
               [disk EXCEPT ![fd[h]] = {doc[fd[h]]}], tmp)
  \/ At(h, "fsync") /\ PublishUncertain(h)

PostRenameUnchecked(h) ==
  /\ At(h, "check")
  /\ Goto(h, "run")
  /\ view' = [view EXCEPT ![h] = cand[h]]
  /\ acked' = [acked EXCEPT ![fd[h]] = cand[h]]
  /\ UNCHANGED <<path, fileVars, lock, copies, fd, cand, quarantined,
                 booting, fresh, killed>>

\* A directory that is still current makes the write Synced: the owner
\* publishes the candidate and the caller is told it is committed.
PostRename(h) ==
  /\ At(h, "check")
  /\ \/ /\ Current(h)
        /\ Goto(h, "run")
        /\ view' = [view EXCEPT ![h] = cand[h]]
        /\ acked' = [acked EXCEPT ![fd[h]] = cand[h]]
        /\ UNCHANGED <<path, fileVars, lock, copies, fd, cand, quarantined,
                       booting, fresh, killed>>
     \/ PublishUncertain(h)

Step(h) ==
  \/ Stop(h) \/ OpenDirectory(h) \/ TryLock(h) \/ Load(h) \/ Started(h)
  \/ Prepare(h) \/ Truncate(h) \/ Fill(h) \/ SyncFile(h) \/ Rename(h)
  \/ FsyncDirectory(h) \/ PostRename(h)

Environment(h) == Kill(h) \/ Fork(h) \/ Exec(h)

Next ==
  \/ \E h \in Hubs : Step(h) \/ Environment(h)
  \/ Replace
  \/ PowerLoss

Spec == Init /\ [][Next]_vars
-----------------------------------------------------------------------------
(* Properties.                                                              *)

TypeOK ==
  /\ path \in Dirs
  /\ doc \in [Dirs -> Files]
  /\ disk \in [Dirs -> SUBSET Files]
  /\ tmp \in [Dirs -> [file : Files, synced : BOOLEAN]]
  /\ lock \in [Dirs -> Hubs \cup {NoHub, Child}]
  /\ copies \subseteq Hubs
  /\ pc \in [Hubs -> Steps]
  /\ fd \in [Hubs -> Dirs]
  /\ view \in [Hubs -> Files]
  /\ cand \in [Hubs -> Files]
  /\ quarantined \in [Hubs -> BOOLEAN]
  /\ booting \in [Hubs -> BOOLEAN]
  /\ fresh \in Versions
  /\ killed \in BOOLEAN
  /\ acked \in [Dirs -> Versions]

\* No kill or power loss between two system calls of write_document_inner
\* leaves a document that load_retained cannot decode.
DocumentIsWhole == \A d \in Dirs : doc[d] # Torn /\ Torn \notin disk[d]

\* A write replaces the document its candidate was derived from: no version
\* that another process, or an earlier uncertain write of this one, published
\* is overwritten by a candidate that does not contain it.
NoLostUpdate ==
  \A h \in Hubs : At(h, "rename") => doc[fd[h]] = view[h]

\* What commit_shared reported as Synced survives every later crash: no
\* document a power loss may leave is older.
AckedIsDurable == \A d \in Dirs : \A v \in disk[d] : acked[d] <= v

\* While a Hub serves, the view it publishes is its directory's document; only
\* a quarantined Hub, which writes no more, may show an older one.
ViewIsDocument ==
  \A h \in Hubs : At(h, "run") =>
    IF quarantined[h] THEN view[h] < doc[fd[h]] ELSE view[h] = doc[fd[h]]

\* An orderly exit frees the directory although a forked child still holds
\* a copy of the descriptor: only a kill can leave the lock behind.
OrderlyExitUnlocks == ~killed => \A d \in Dirs : lock[d] # Child

\* A version is acknowledged only into the directory that the data path still
\* names, so that the next start finds it: the identity checked before the
\* write may be stale by then.
AckedAtPath == [][\A d \in Dirs : acked'[d] # acked[d] => path = d]_vars

Durable == INSTANCE DurableDocument WITH possible <- disk, acked <- acked

\* The directory implements the abstract document: versions appear, settle
\* and are acknowledged in that order, over all crashes and contenders.
ImplementsDurableDocument == Durable!Spec
=============================================================================
