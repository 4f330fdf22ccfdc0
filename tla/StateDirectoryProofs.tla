------------------------ MODULE StateDirectoryProofs ------------------------
(***************************************************************************)
(* Proofs about StateDirectory, for any number of Hub processes, of        *)
(* directories the path may name and of versions written.                  *)
(*                                                                         *)
(* The argument: the flock makes the process that is past TryLock the only *)
(* writer of the directory its descriptor retains (Locked).  Versions grow *)
(* with every candidate, so a candidate is newer than all that a power     *)
(* loss may leave (Directory, Writing), and the view is the document       *)
(* except behind an uncertain write, after which the quarantine lets the   *)
(* process write no more (Viewing).                                        *)
(***************************************************************************)
EXTENDS StateDirectory, TLAPS

Idle == {"down", "lock", "load"}
Unrenamed == {"fill", "sync", "rename"}
Renamed == {"fsync", "check"}

Directory(d) ==
  /\ doc[d] \in disk[d]
  /\ \A v \in disk[d] : acked[d] <= v /\ v <= fresh

Locked(h) ==
  /\ pc[h] \in Owning => lock[fd[h]] = h
  /\ \A d \in Dirs : lock[d] = h => pc[h] \in Owning /\ fd[h] = d

Writing(h) ==
  /\ pc[h] \in {"truncate"} \cup Unrenamed =>
       cand[h] <= fresh /\ \A v \in disk[fd[h]] : v < cand[h]
  /\ pc[h] \in {"sync", "rename"} => tmp[fd[h]].file = cand[h]
  /\ pc[h] = "rename" => tmp[fd[h]].synced
  /\ pc[h] \in Renamed => doc[fd[h]] = cand[h] /\ acked[fd[h]] < cand[h]
  /\ pc[h] = "check" => disk[fd[h]] = {cand[h]}

Viewing(h) ==
  /\ pc[h] \in Idle \cup Unrenamed \cup Renamed \/ booting[h] => ~quarantined[h]
  /\ pc[h] \in {"run", "truncate"} /\ quarantined[h] => view[h] < doc[fd[h]]
  /\ pc[h] \in {"run", "truncate"} /\ ~quarantined[h] => view[h] = doc[fd[h]]
  /\ pc[h] \in Unrenamed => view[h] = doc[fd[h]]
  /\ pc[h] \in Renamed => view[h] < doc[fd[h]]

IInv ==
  /\ TypeOK
  /\ \A d \in Dirs : Directory(d)
  /\ \A h \in Hubs : Locked(h) /\ Writing(h) /\ Viewing(h)
-----------------------------------------------------------------------------

\* The constants: versions, the torn file and the non-hub lock holders are
\* distinct.
LEMMA Numbers ==
  /\ MaxVersion \in Nat /\ Torn \in Nat /\ Files \subseteq Nat
  /\ Versions \subseteq Files /\ Versions \subseteq Nat
  /\ 0 \in Versions /\ Torn \in Files
  /\ \A v \in Versions : v # Torn /\ v <= MaxVersion
  /\ \A v \in Nat : v <= MaxVersion => v \in Versions
  /\ NoHub \notin Hubs /\ Child \notin Hubs /\ NoHub # Child
BY ConstantsDistinct DEF Torn, Versions, Files

\* Updating a function at one point keeps its type.
LEMMA ExceptType ==
  ASSUME NEW S, NEW T, NEW f \in [S -> T], NEW x, NEW v \in T
  PROVE  [f EXCEPT ![x] = v] \in [S -> T]
OBVIOUS

\* Writing the temporary file keeps the type of tmp.
LEMMA TmpType ==
  ASSUME IInv, NEW h \in Hubs, NEW f \in Files, NEW b \in BOOLEAN
  PROVE  SetTmp(h, f, b) \in [Dirs -> [file : Files, synced : BOOLEAN]]
<1>1. [file |-> f, synced |-> b] \in [file : Files, synced : BOOLEAN]
  OBVIOUS
<1>2. tmp \in [Dirs -> [file : Files, synced : BOOLEAN]]
  BY DEF IInv, TypeOK
<1> QED  BY <1>1, <1>2, ExceptType DEF SetTmp

\* Between prepare and the acknowledgement the candidate is a real document.
LEMMA CandidateIsVersion ==
  ASSUME IInv, NEW h \in Hubs, pc[h] \in {"truncate"} \cup Unrenamed \cup Renamed
  PROVE  cand[h] \in Versions
<1>1. cand[h] \in Nat /\ fresh \in Nat /\ fresh <= MaxVersion /\ MaxVersion \in Nat
  BY Numbers DEF IInv, TypeOK
<1>2. cand[h] <= fresh
  BY Numbers DEF IInv, TypeOK, Directory, Writing, Unrenamed, Renamed
<1> QED  BY <1>1, <1>2, Numbers

\* The invariant holds before any Hub has opened the directory.
LEMMA InitInv == Init => IInv
<1> SUFFICES ASSUME Init PROVE IInv
  OBVIOUS
<1> USE Numbers DEF Init
<1>1. TypeOK
  BY DEF TypeOK, Steps, Versions
<1>2. \A d \in Dirs : Directory(d)
  BY DEF Directory
<1>3. \A h \in Hubs : Locked(h) /\ Writing(h) /\ Viewing(h)
  BY DEF Locked, Writing, Viewing, Owning, Running, Unrenamed, Renamed
<1> QED  BY <1>1, <1>2, <1>3 DEF IInv

\* Two Hubs that own a state directory own different directories.
LEMMA Alone ==
  ASSUME IInv, NEW g \in Hubs, NEW h \in Hubs, g # h,
         pc[g] \in Owning, pc[h] \in Owning
  PROVE  fd[g] # fd[h]
BY DEF IInv, Locked

\* An orderly exit, which unlocks, preserves the invariant.
LEMMA ExitInv ==
  ASSUME IInv, NEW h \in Hubs, Exit(h)
  PROVE  IInv'
<1> USE Numbers DEF Exit, Unlock, Goto, At, Current, fileVars, hubVars
<1>1. TypeOK'
  BY DEF IInv, TypeOK, Steps, Owning, Running
<1>2. ASSUME NEW d \in Dirs PROVE Directory(d)'
  BY <1>1 DEF IInv, TypeOK, Directory, Writing, Unrenamed, Renamed
<1>3. ASSUME NEW g \in Hubs PROVE Locked(g)'
  BY DEF IInv, TypeOK, Locked, Owning, Running
<1>4. ASSUME NEW g \in Hubs PROVE Writing(g)'
  BY Alone, <1>1 DEF IInv, TypeOK, Directory, Writing, Unrenamed, Renamed, Owning, Running
<1>5. ASSUME NEW g \in Hubs PROVE Viewing(g)'
  BY Alone, <1>1 DEF IInv, TypeOK, Directory, Writing, Viewing, Idle, Unrenamed, Renamed, Owning, Running
<1> QED  BY <1>1, <1>2, <1>3, <1>4, <1>5 DEF IInv

\* A kill, which leaves the lock to a forked child, preserves the invariant.
LEMMA KillInv ==
  ASSUME IInv, NEW h \in Hubs, Kill(h)
  PROVE  IInv'
<1> USE Numbers DEF Kill, UnlockByClose, Goto, At, Current, fileVars, hubVars
<1>1. TypeOK'
  BY DEF IInv, TypeOK, Steps, Owning, Running
<1>2. ASSUME NEW d \in Dirs PROVE Directory(d)'
  BY <1>1 DEF IInv, TypeOK, Directory, Writing, Unrenamed, Renamed
<1>3. ASSUME NEW g \in Hubs PROVE Locked(g)'
  BY DEF IInv, TypeOK, Locked, Owning, Running
<1>4. ASSUME NEW g \in Hubs PROVE Writing(g)'
  BY Alone, <1>1 DEF IInv, TypeOK, Directory, Writing, Unrenamed, Renamed, Owning, Running
<1>5. ASSUME NEW g \in Hubs PROVE Viewing(g)'
  BY Alone, <1>1 DEF IInv, TypeOK, Directory, Writing, Viewing, Idle, Unrenamed, Renamed, Owning, Running
<1> QED  BY <1>1, <1>2, <1>3, <1>4, <1>5 DEF IInv

\* Forking a child and its exec preserve the invariant.
LEMMA ForkInv ==
  ASSUME IInv, NEW h \in Hubs, Fork(h) \/ Exec(h)
  PROVE  IInv'
<1> USE Numbers DEF Fork, Exec, Goto, At, Current, fileVars, hubVars
<1>1. TypeOK'
  BY DEF IInv, TypeOK, Steps, Owning, Running
<1>2. ASSUME NEW d \in Dirs PROVE Directory(d)'
  BY <1>1 DEF IInv, TypeOK, Directory, Writing, Unrenamed, Renamed
<1>3. ASSUME NEW g \in Hubs PROVE Locked(g)'
  BY DEF IInv, TypeOK, Locked, Owning, Running
<1>4. ASSUME NEW g \in Hubs PROVE Writing(g)'
  BY Alone, <1>1 DEF IInv, TypeOK, Directory, Writing, Unrenamed, Renamed, Owning, Running
<1>5. ASSUME NEW g \in Hubs PROVE Viewing(g)'
  BY Alone, <1>1 DEF IInv, TypeOK, Directory, Writing, Viewing, Idle, Unrenamed, Renamed, Owning, Running
<1> QED  BY <1>1, <1>2, <1>3, <1>4, <1>5 DEF IInv

\* Replacing the directory at the path preserves the invariant.
LEMMA ReplaceInv ==
  ASSUME IInv, Replace
  PROVE  IInv'
<1> USE Numbers DEF Replace, Goto, At, Current, fileVars, hubVars
<1>1. TypeOK'
  BY DEF IInv, TypeOK, Steps, Owning, Running
<1>2. ASSUME NEW d \in Dirs PROVE Directory(d)'
  BY <1>1 DEF IInv, TypeOK, Directory, Writing, Unrenamed, Renamed
<1>3. ASSUME NEW g \in Hubs PROVE Locked(g)'
  BY DEF IInv, TypeOK, Locked, Owning, Running
<1>4. ASSUME NEW g \in Hubs PROVE Writing(g)'
  BY Alone, <1>1 DEF IInv, TypeOK, Directory, Writing, Unrenamed, Renamed, Owning, Running
<1>5. ASSUME NEW g \in Hubs PROVE Viewing(g)'
  BY Alone, <1>1 DEF IInv, TypeOK, Directory, Writing, Viewing, Idle, Unrenamed, Renamed, Owning, Running
<1> QED  BY <1>1, <1>2, <1>3, <1>4, <1>5 DEF IInv

\* A power loss preserves the invariant.
LEMMA PowerLossInv ==
  ASSUME IInv, PowerLoss
  PROVE  IInv'
<1> USE Numbers DEF PowerLoss, Goto, At, Current, fileVars, hubVars
<1>1. TypeOK'
  BY DEF IInv, TypeOK, Steps, Owning, Running
<1>2. ASSUME NEW d \in Dirs PROVE Directory(d)'
  BY <1>1 DEF IInv, TypeOK, Directory, Writing, Unrenamed, Renamed
<1>3. ASSUME NEW g \in Hubs PROVE Locked(g)'
  BY DEF IInv, TypeOK, Locked, Owning, Running
<1>4. ASSUME NEW g \in Hubs PROVE Writing(g)'
  BY Alone, <1>1 DEF IInv, TypeOK, Directory, Writing, Unrenamed, Renamed, Owning, Running
<1>5. ASSUME NEW g \in Hubs PROVE Viewing(g)'
  BY Alone, <1>1 DEF IInv, TypeOK, Directory, Writing, Viewing, Idle, Unrenamed, Renamed, Owning, Running
<1> QED  BY <1>1, <1>2, <1>3, <1>4, <1>5 DEF IInv

\* Opening the directory preserves the invariant.
LEMMA OpenInv ==
  ASSUME IInv, NEW h \in Hubs, OpenDirectory(h)
  PROVE  IInv'
<1> USE Numbers DEF OpenDirectory, Goto, At, Current, fileVars, hubVars
<1>1. TypeOK'
  BY DEF IInv, TypeOK, Steps, Owning, Running
<1>2. ASSUME NEW d \in Dirs PROVE Directory(d)'
  BY <1>1 DEF IInv, TypeOK, Directory, Writing, Unrenamed, Renamed
<1>3. ASSUME NEW g \in Hubs PROVE Locked(g)'
  BY DEF IInv, TypeOK, Locked, Owning, Running
<1>4. ASSUME NEW g \in Hubs PROVE Writing(g)'
  BY Alone, <1>1 DEF IInv, TypeOK, Directory, Writing, Unrenamed, Renamed, Owning, Running
<1>5. ASSUME NEW g \in Hubs PROVE Viewing(g)'
  BY Alone, <1>1 DEF IInv, TypeOK, Directory, Writing, Viewing, Idle, Unrenamed, Renamed, Owning, Running
<1> QED  BY <1>1, <1>2, <1>3, <1>4, <1>5 DEF IInv

\* try_lock, when the Hub goes on, preserves the invariant.
LEMMA LockInv ==
  ASSUME IInv, NEW h \in Hubs, TryLock(h), ~Exit(h)
  PROVE  IInv'
<1> USE Numbers DEF TryLock, Goto, At, Current, fileVars, hubVars
<1>0. /\ lock' = [lock EXCEPT ![fd[h]] = h]
      /\ pc' = [pc EXCEPT ![h] = "load"]
  BY DEF TryLock
<1>1. TypeOK'
  <2>1. lock' \in [Dirs -> Hubs \cup {NoHub, Child}]
    BY <1>0, ExceptType DEF IInv, TypeOK
  <2>2. pc' \in [Hubs -> Steps]
    BY <1>0, ExceptType DEF IInv, TypeOK, Steps, Owning, Running
  <2> QED  BY <2>1, <2>2 DEF IInv, TypeOK
<1>2. ASSUME NEW d \in Dirs PROVE Directory(d)'
  BY <1>1 DEF IInv, TypeOK, Directory, Writing, Unrenamed, Renamed
<1>3. ASSUME NEW g \in Hubs PROVE Locked(g)'
  BY DEF IInv, TypeOK, Locked, Owning, Running
<1>4. ASSUME NEW g \in Hubs PROVE Writing(g)'
  BY Alone, <1>1 DEF IInv, TypeOK, Directory, Writing, Unrenamed, Renamed, Owning, Running
<1>5. ASSUME NEW g \in Hubs PROVE Viewing(g)'
  BY Alone, <1>1, SMTT(30) DEF IInv, TypeOK, Directory, Writing, Viewing, Idle, Unrenamed, Renamed, Owning, Running
<1> QED  BY <1>1, <1>2, <1>3, <1>4, <1>5 DEF IInv

\* load_retained, when the Hub goes on, preserves the invariant.
LEMMA LoadInv ==
  ASSUME IInv, NEW h \in Hubs, Load(h), ~Exit(h)
  PROVE  IInv'
<1> USE Numbers DEF Load, Goto, At, Current, fileVars, hubVars
<1>1. TypeOK'
  <2>1. fresh' \in Versions /\ (fresh' = fresh \/ fresh' = fresh + 1)
    BY DEF IInv, TypeOK
  <2>2. cand' \in [Hubs -> Files]
    BY <2>1 DEF IInv, TypeOK
  <2>3. view' \in [Hubs -> Files] /\ pc' \in [Hubs -> Steps]
    BY ExceptType DEF IInv, TypeOK, Steps, Owning, Running
  <2> QED  BY <2>1, <2>2, <2>3 DEF IInv, TypeOK, Steps, Owning, Running
<1>2. ASSUME NEW d \in Dirs PROVE Directory(d)'
  BY <1>1 DEF IInv, TypeOK, Directory, Writing, Unrenamed, Renamed
<1>3. ASSUME NEW g \in Hubs PROVE Locked(g)'
  BY DEF IInv, TypeOK, Locked, Owning, Running
<1>4. ASSUME NEW g \in Hubs PROVE Writing(g)'
  <2>1. CASE g = h
    BY <2>1, <1>1 DEF IInv, TypeOK, Directory, Writing, Unrenamed, Renamed
  <2>2. CASE g # h
    <3>1. pc'[g] = pc[g] /\ cand'[g] = cand[g] /\ fresh <= fresh'
      BY <2>2 DEF IInv, TypeOK
    <3>2. cand[g] \in Nat /\ fresh \in Nat /\ fresh' \in Nat
      BY <1>1 DEF IInv, TypeOK
    <3> QED  BY <3>1, <3>2, SMTT(30) DEF IInv, Writing, Unrenamed, Renamed
  <2> QED  BY <2>1, <2>2
<1>5. ASSUME NEW g \in Hubs PROVE Viewing(g)'
  BY Alone, <1>1, SMTT(30) DEF IInv, TypeOK, Directory, Writing, Viewing, Idle, Unrenamed, Renamed, Owning, Running
<1> QED  BY <1>1, <1>2, <1>3, <1>4, <1>5 DEF IInv

\* The start of serving and the preparation of a write preserve the invariant.
LEMMA RunInv ==
  ASSUME IInv, NEW h \in Hubs, Started(h) \/ Prepare(h)
  PROVE  IInv'
<1> USE Numbers DEF Started, Prepare, Goto, At, Current, fileVars, hubVars
<1>1. TypeOK'
  <2>1. fresh' \in Versions /\ (fresh' = fresh \/ fresh' = fresh + 1)
    BY DEF IInv, TypeOK
  <2>2. cand' \in [Hubs -> Files]
    BY <2>1 DEF IInv, TypeOK
  <2> QED  BY <2>1, <2>2, ZenonT(60) DEF IInv, TypeOK, Steps, Owning, Running
<1>2. ASSUME NEW d \in Dirs PROVE Directory(d)'
  BY <1>1 DEF IInv, TypeOK, Directory, Writing, Unrenamed, Renamed
<1>3. ASSUME NEW g \in Hubs PROVE Locked(g)'
  BY DEF IInv, TypeOK, Locked, Owning, Running
<1>4. ASSUME NEW g \in Hubs PROVE Writing(g)'
  <2>1. CASE g = h
    BY <2>1, <1>1 DEF IInv, TypeOK, Directory, Writing, Unrenamed, Renamed
  <2>2. CASE g # h
    <3>1. pc'[g] = pc[g] /\ cand'[g] = cand[g] /\ fresh <= fresh'
      BY <2>2 DEF IInv, TypeOK
    <3>2. cand[g] \in Nat /\ fresh \in Nat /\ fresh' \in Nat
      BY <1>1 DEF IInv, TypeOK
    <3> QED  BY <3>1, <3>2, SMTT(30) DEF IInv, Writing, Unrenamed, Renamed
  <2> QED  BY <2>1, <2>2
<1>5. ASSUME NEW g \in Hubs PROVE Viewing(g)'
  BY Alone, <1>1, SMTT(30) DEF IInv, TypeOK, Directory, Writing, Viewing, Idle, Unrenamed, Renamed, Owning, Running
<1> QED  BY <1>1, <1>2, <1>3, <1>4, <1>5 DEF IInv

\* A write refused before its rename preserves the invariant.
LEMMA RefuseInv ==
  ASSUME IInv, NEW h \in Hubs, pc[h] \in {"truncate"} \cup Unrenamed, Refuse(h), ~Exit(h)
  PROVE  IInv'
<1> USE Numbers DEF Refuse, Goto, At, Current, fileVars, hubVars
<1>1. TypeOK'
  BY DEF IInv, TypeOK, Steps, Owning, Running
<1>2. ASSUME NEW d \in Dirs PROVE Directory(d)'
  BY <1>1 DEF IInv, TypeOK, Directory, Writing, Unrenamed, Renamed
<1>3. ASSUME NEW g \in Hubs PROVE Locked(g)'
  BY DEF IInv, TypeOK, Locked, Owning, Running, Unrenamed
<1>4. ASSUME NEW g \in Hubs PROVE Writing(g)'
  BY Alone, <1>1 DEF IInv, TypeOK, Directory, Writing, Unrenamed, Renamed, Owning, Running
<1>5. ASSUME NEW g \in Hubs PROVE Viewing(g)'
  BY Alone, <1>1 DEF IInv, TypeOK, Directory, Writing, Viewing, Idle, Unrenamed, Renamed, Owning, Running
<1> QED  BY <1>1, <1>2, <1>3, <1>4, <1>5 DEF IInv

\* A write uncertain after its rename preserves the invariant.
LEMMA UncertainInv ==
  ASSUME IInv, NEW h \in Hubs, pc[h] \in Renamed, PublishUncertain(h), ~Exit(h)
  PROVE  IInv'
<1> USE Numbers DEF PublishUncertain, Goto, At, Current, fileVars, hubVars
<1>1. TypeOK'
  BY DEF IInv, TypeOK, Steps, Owning, Running
<1>2. ASSUME NEW d \in Dirs PROVE Directory(d)'
  BY <1>1 DEF IInv, TypeOK, Directory, Writing, Unrenamed, Renamed
<1>3. ASSUME NEW g \in Hubs PROVE Locked(g)'
  BY DEF IInv, TypeOK, Locked, Owning, Running, Renamed
<1>4. ASSUME NEW g \in Hubs PROVE Writing(g)'
  BY Alone, <1>1 DEF IInv, TypeOK, Directory, Writing, Unrenamed, Renamed, Owning, Running
<1>5. ASSUME NEW g \in Hubs PROVE Viewing(g)'
  BY Alone, <1>1, SMTT(30) DEF IInv, TypeOK, Directory, Writing, Viewing, Idle, Unrenamed, Renamed, Owning, Running
<1> QED  BY <1>1, <1>2, <1>3, <1>4, <1>5 DEF IInv

\* Truncating the temporary file preserves the invariant.
LEMMA TruncateInv ==
  ASSUME IInv, NEW h \in Hubs, Truncate(h), ~Refuse(h)
  PROVE  IInv'
<1> USE Numbers DEF Truncate, WriteStep, SetTmp, Goto, At, Current, fileVars, hubVars
<1>1. TypeOK'
  <2> HIDE DEF SetTmp
  <2>a. tmp' = SetTmp(h, Torn, FALSE)
    OBVIOUS
  <2>b. SetTmp(h, Torn, FALSE) \in [Dirs -> [file : Files, synced : BOOLEAN]]
    BY TmpType
  <2>1. tmp' \in [Dirs -> [file : Files, synced : BOOLEAN]]
    BY <2>a, <2>b
  <2>2. /\ pc' = [pc EXCEPT ![h] = "fill"]
        /\ UNCHANGED <<path, doc, disk, lock, copies, fd, view, cand, quarantined,
                       booting, fresh, killed, acked>>
    OBVIOUS
  <2> QED  BY <2>1, <2>2 DEF IInv, TypeOK, Steps, Owning, Running
<1>2. ASSUME NEW d \in Dirs PROVE Directory(d)'
  BY <1>1 DEF IInv, TypeOK, Directory, Writing, Unrenamed, Renamed
<1>3. ASSUME NEW g \in Hubs PROVE Locked(g)'
  BY DEF IInv, TypeOK, Locked, Owning, Running
<1>4. ASSUME NEW g \in Hubs PROVE Writing(g)'
  BY Alone, <1>1 DEF IInv, TypeOK, Directory, Writing, Unrenamed, Renamed, Owning, Running
<1>5. ASSUME NEW g \in Hubs PROVE Viewing(g)'
  BY Alone, <1>1, SMTT(30) DEF IInv, TypeOK, Directory, Writing, Viewing, Idle, Unrenamed, Renamed, Owning, Running
<1> QED  BY <1>1, <1>2, <1>3, <1>4, <1>5 DEF IInv

\* Writing the temporary file preserves the invariant.
LEMMA FillInv ==
  ASSUME IInv, NEW h \in Hubs, Fill(h), ~Refuse(h)
  PROVE  IInv'
<1> USE Numbers DEF Fill, WriteStep, SetTmp, Goto, At, Current, fileVars, hubVars
<1>1. TypeOK'
  <2>0. cand[h] \in Files
    BY DEF IInv, TypeOK
  <2> HIDE DEF SetTmp
  <2>a. tmp' = SetTmp(h, cand[h], FALSE)
    OBVIOUS
  <2>b. SetTmp(h, cand[h], FALSE) \in [Dirs -> [file : Files, synced : BOOLEAN]]
    BY <2>0, TmpType
  <2>1. tmp' \in [Dirs -> [file : Files, synced : BOOLEAN]]
    BY <2>a, <2>b
  <2> QED  BY <2>1, ZenonT(60) DEF IInv, TypeOK, Steps, Owning, Running
<1>2. ASSUME NEW d \in Dirs PROVE Directory(d)'
  BY <1>1 DEF IInv, TypeOK, Directory, Writing, Unrenamed, Renamed
<1>3. ASSUME NEW g \in Hubs PROVE Locked(g)'
  BY DEF IInv, TypeOK, Locked, Owning, Running
<1>4. ASSUME NEW g \in Hubs PROVE Writing(g)'
  BY Alone, <1>1 DEF IInv, TypeOK, Directory, Writing, Unrenamed, Renamed, Owning, Running
<1>5. ASSUME NEW g \in Hubs PROVE Viewing(g)'
  BY Alone, <1>1, SMTT(30) DEF IInv, TypeOK, Directory, Writing, Viewing, Idle, Unrenamed, Renamed, Owning, Running
<1> QED  BY <1>1, <1>2, <1>3, <1>4, <1>5 DEF IInv

\* The temporary file's fsync preserves the invariant.
LEMMA SyncInv ==
  ASSUME IInv, NEW h \in Hubs, SyncFile(h), ~Refuse(h)
  PROVE  IInv'
<1> USE Numbers DEF SyncFile, WriteStep, SetTmp, Goto, At, Current, fileVars, hubVars
<1>1. TypeOK'
  <2>0. tmp[fd[h]].file \in Files
    BY DEF IInv, TypeOK
  <2> HIDE DEF SetTmp
  <2>a. tmp' = SetTmp(h, tmp[fd[h]].file, TRUE)
    OBVIOUS
  <2>b. SetTmp(h, tmp[fd[h]].file, TRUE) \in [Dirs -> [file : Files, synced : BOOLEAN]]
    BY <2>0, TmpType
  <2>1. tmp' \in [Dirs -> [file : Files, synced : BOOLEAN]]
    BY <2>a, <2>b
  <2> QED  BY <2>1, ZenonT(60) DEF IInv, TypeOK, Steps, Owning, Running
<1>2. ASSUME NEW d \in Dirs PROVE Directory(d)'
  BY <1>1 DEF IInv, TypeOK, Directory, Writing, Unrenamed, Renamed
<1>3. ASSUME NEW g \in Hubs PROVE Locked(g)'
  BY DEF IInv, TypeOK, Locked, Owning, Running
<1>4. ASSUME NEW g \in Hubs PROVE Writing(g)'
  BY Alone, <1>1, SMTT(30) DEF IInv, TypeOK, Directory, Writing, Unrenamed, Renamed, Owning, Running
<1>5. ASSUME NEW g \in Hubs PROVE Viewing(g)'
  BY Alone, <1>1, SMTT(30) DEF IInv, TypeOK, Directory, Writing, Viewing, Idle, Unrenamed, Renamed, Owning, Running
<1> QED  BY <1>1, <1>2, <1>3, <1>4, <1>5 DEF IInv

\* The rename over the document preserves the invariant.
LEMMA RenameInv ==
  ASSUME IInv, NEW h \in Hubs, Rename(h), ~Refuse(h)
  PROVE  IInv'
<1> USE Numbers DEF Goto, At, Current, fileVars, hubVars
<1> DEFINE d0 == fd[h]
<1>0. /\ d0 \in Dirs /\ pc[h] = "rename"
      /\ tmp[d0].file = cand[h] /\ tmp[d0].synced
      /\ cand[h] \in Versions /\ cand[h] <= fresh
      /\ \A v \in disk[d0] : v < cand[h]
  <2>1. d0 \in Dirs /\ pc[h] = "rename"
    BY DEF IInv, TypeOK, Rename, WriteStep
  <2> QED  BY <2>1, CandidateIsVersion DEF IInv, Writing, Unrenamed
<1>a. /\ doc' = [doc EXCEPT ![d0] = cand[h]]
      /\ disk' = [disk EXCEPT ![d0] = disk[d0] \cup {cand[h]}]
      /\ tmp' = [tmp EXCEPT ![d0] = [file |-> 0, synced |-> TRUE]]
      /\ pc' = [pc EXCEPT ![h] = "fsync"]
      /\ UNCHANGED <<path, lock, copies, fd, view, cand, quarantined, booting,
                     fresh, killed, acked>>
  BY <1>0 DEF Rename, WriteStep, SetTmp
<1>1. TypeOK'
  <2>1. doc' \in [Dirs -> Files] /\ disk' \in [Dirs -> SUBSET Files]
    BY <1>0, <1>a DEF IInv, TypeOK
  <2>2. tmp' \in [Dirs -> [file : Files, synced : BOOLEAN]]
    BY <1>0, <1>a DEF IInv, TypeOK
  <2> QED  BY <1>a, <2>1, <2>2 DEF IInv, TypeOK, Steps, Owning, Running
<1>2. ASSUME NEW d \in Dirs PROVE Directory(d)'
  <2>1. CASE d = d0
    <3>1. /\ disk[d0] \subseteq Nat /\ acked[d0] \in Nat /\ cand[h] \in Nat /\ fresh \in Nat
          /\ doc[d0] \in disk[d0] /\ \A v \in disk[d0] : acked[d0] <= v /\ v <= fresh
      BY <1>0 DEF IInv, TypeOK, Directory
    <3>2. doc'[d0] = cand[h] /\ disk'[d0] = disk[d0] \cup {cand[h]}
      BY <1>0, <1>a DEF IInv, TypeOK
    <3> QED  BY <2>1, <3>1, <3>2, <1>0, <1>a DEF Directory
  <2>2. CASE d # d0
    BY <2>2, <1>a, <1>1 DEF IInv, TypeOK, Directory
  <2> QED  BY <2>1, <2>2
<1>3. ASSUME NEW g \in Hubs PROVE Locked(g)'
  BY <1>0, <1>a DEF IInv, TypeOK, Locked, Owning, Running
<1>4. ASSUME NEW g \in Hubs PROVE Writing(g)'
  <2>1. CASE g = h
    <3>1. acked[d0] < cand[h]
      <4>1. /\ doc[d0] \in disk[d0] /\ doc[d0] \in Nat /\ acked[d0] \in Nat
            /\ acked[d0] <= doc[d0] /\ cand[h] \in Nat
        BY <1>0 DEF IInv, TypeOK, Directory
      <4> QED  BY <4>1, <1>0, SMTT(30)
    <3> QED  BY <2>1, <3>1, <1>0, <1>a DEF IInv, TypeOK, Writing, Unrenamed, Renamed
  <2>2. CASE g # h
    BY <2>2, Alone, <1>0, <1>a, SMTT(30) DEF IInv, TypeOK, Writing, Unrenamed, Renamed, Owning, Running
  <2> QED  BY <2>1, <2>2
<1>5. ASSUME NEW g \in Hubs PROVE Viewing(g)'
  <2>1. CASE g = h
    BY <2>1, <1>0, <1>a DEF IInv, TypeOK, Directory, Viewing, Idle, Unrenamed, Renamed
  <2>2. CASE g # h
    BY <2>2, Alone, <1>0, <1>a DEF IInv, TypeOK, Viewing, Idle, Unrenamed, Renamed, Owning, Running
  <2> QED  BY <2>1, <2>2
<1> QED  BY <1>1, <1>2, <1>3, <1>4, <1>5 DEF IInv

\* The directory's fsync preserves the invariant.
LEMMA FsyncInv ==
  ASSUME IInv, NEW h \in Hubs, FsyncDirectory(h), ~PublishUncertain(h)
  PROVE  IInv'
<1> USE Numbers DEF FsyncDirectory, WriteStep, SetTmp, Goto, At, Current, fileVars, hubVars
<1>0. /\ fd[h] \in Dirs /\ doc[fd[h]] \in disk[fd[h]] /\ doc[fd[h]] \in Files
      /\ disk' = [disk EXCEPT ![fd[h]] = {doc[fd[h]]}]
      /\ pc' = [pc EXCEPT ![h] = "check"]
      /\ UNCHANGED <<doc, tmp, fresh, acked>>
  BY DEF IInv, TypeOK, Directory, FsyncDirectory, WriteStep
<1>1. TypeOK'
  <2>1. disk' \in [Dirs -> SUBSET Files]
    BY <1>0, ExceptType DEF IInv, TypeOK
  <2> QED  BY <1>0, <2>1 DEF IInv, TypeOK, Steps, Owning, Running
<1>2. ASSUME NEW d \in Dirs PROVE Directory(d)'
  <2>1. CASE d = fd[h]
    BY <2>1, <1>0 DEF IInv, TypeOK, Directory
  <2>2. CASE d # fd[h]
    BY <2>2, <1>0 DEF IInv, TypeOK, Directory
  <2> QED  BY <2>1, <2>2
<1>3. ASSUME NEW g \in Hubs PROVE Locked(g)'
  BY DEF IInv, TypeOK, Locked, Owning, Running
<1>4. ASSUME NEW g \in Hubs PROVE Writing(g)'
  BY Alone, <1>1, SMTT(30) DEF IInv, TypeOK, Directory, Writing, Unrenamed, Renamed, Owning, Running
<1>5. ASSUME NEW g \in Hubs PROVE Viewing(g)'
  BY Alone, <1>1, SMTT(30) DEF IInv, TypeOK, Directory, Writing, Viewing, Idle, Unrenamed, Renamed, Owning, Running
<1> QED  BY <1>1, <1>2, <1>3, <1>4, <1>5 DEF IInv

\* The acknowledgement preserves the invariant.
LEMMA AckInv ==
  ASSUME IInv, NEW h \in Hubs, PostRename(h), ~PublishUncertain(h)
  PROVE  IInv'
<1> USE Numbers DEF PostRename, Goto, At, Current, fileVars, hubVars
<1>0. /\ fd[h] \in Dirs /\ disk[fd[h]] = {cand[h]} /\ cand[h] \in Versions
      /\ acked' = [acked EXCEPT ![fd[h]] = cand[h]]
      /\ view' = [view EXCEPT ![h] = cand[h]]
      /\ pc' = [pc EXCEPT ![h] = "run"]
      /\ UNCHANGED <<doc, disk, tmp, fresh, fd, cand>>
  <2>1. pc[h] = "check"
    BY DEF PostRename
  <2> QED  BY <2>1, CandidateIsVersion DEF IInv, TypeOK, Writing, Renamed, PostRename
<1>1. TypeOK'
  <2>1. acked' \in [Dirs -> Versions] /\ view' \in [Hubs -> Files]
    BY <1>0, ExceptType DEF IInv, TypeOK
  <2> QED  BY <1>0, <2>1 DEF IInv, TypeOK, Steps, Owning, Running
<1>2. ASSUME NEW d \in Dirs PROVE Directory(d)'
  <2>1. CASE d = fd[h]
    BY <2>1, <1>0 DEF IInv, TypeOK, Directory
  <2>2. CASE d # fd[h]
    BY <2>2, <1>0 DEF IInv, TypeOK, Directory
  <2> QED  BY <2>1, <2>2
<1>3. ASSUME NEW g \in Hubs PROVE Locked(g)'
  BY DEF IInv, TypeOK, Locked, Owning, Running
<1>4. ASSUME NEW g \in Hubs PROVE Writing(g)'
  BY Alone, <1>1, SMTT(30) DEF IInv, TypeOK, Directory, Writing, Unrenamed, Renamed, Owning, Running
<1>5. ASSUME NEW g \in Hubs PROVE Viewing(g)'
  BY Alone, <1>1, SMTT(30) DEF IInv, TypeOK, Directory, Writing, Viewing, Idle, Unrenamed, Renamed, Owning, Running
<1> QED  BY <1>1, <1>2, <1>3, <1>4, <1>5 DEF IInv

\* A refused or uncertain write preserves the invariant whether the process
\* goes on or, while it is still starting, gives up.
LEMMA GiveUpInv ==
  ASSUME IInv, NEW h \in Hubs,
         \/ pc[h] \in {"truncate"} \cup Unrenamed /\ Refuse(h)
         \/ pc[h] \in Renamed /\ PublishUncertain(h)
  PROVE  IInv'
BY ExitInv, RefuseInv, UncertainInv

\* Every step of every Hub and of the system preserves the invariant.
LEMMA NextInv ==
  ASSUME IInv, [Next]_vars
  PROVE  IInv'
<1>1. ASSUME NEW h \in Hubs, Step(h) PROVE IInv'
  <2>1. CASE Stop(h)
    BY <2>1, ExitInv DEF Stop
  <2>2. CASE OpenDirectory(h)
    BY <2>2, OpenInv
  <2>3. CASE TryLock(h)
    BY <2>3, LockInv, ExitInv
  <2>4. CASE Load(h)
    BY <2>4, LoadInv, ExitInv
  <2>5. CASE Started(h) \/ Prepare(h)
    BY <2>5, RunInv
  <2>6. CASE Truncate(h)
    <3>1. pc[h] \in {"truncate"} \cup Unrenamed
      BY <2>6 DEF Truncate, WriteStep, At
    <3> QED  BY <3>1, <2>6, TruncateInv, GiveUpInv
  <2>7. CASE Fill(h)
    <3>1. pc[h] \in {"truncate"} \cup Unrenamed
      BY <2>7 DEF Fill, WriteStep, At, Unrenamed
    <3> QED  BY <3>1, <2>7, FillInv, GiveUpInv
  <2>8. CASE SyncFile(h)
    <3>1. pc[h] \in {"truncate"} \cup Unrenamed
      BY <2>8 DEF SyncFile, WriteStep, At, Unrenamed
    <3> QED  BY <3>1, <2>8, SyncInv, GiveUpInv
  <2>9. CASE Rename(h)
    <3>1. pc[h] \in {"truncate"} \cup Unrenamed
      BY <2>9 DEF Rename, WriteStep, At, Unrenamed
    <3> QED  BY <3>1, <2>9, RenameInv, GiveUpInv
  <2>10. CASE FsyncDirectory(h)
    <3>1. pc[h] \in Renamed
      BY <2>10 DEF FsyncDirectory, WriteStep, At, Renamed
    <3> QED  BY <3>1, <2>10, FsyncInv, GiveUpInv
  <2>11. CASE PostRename(h)
    <3>1. pc[h] \in Renamed
      BY <2>11 DEF PostRename, At, Renamed
    <3> QED  BY <3>1, <2>11, AckInv, GiveUpInv
  <2> QED
    BY <1>1, <2>1, <2>2, <2>3, <2>4, <2>5, <2>6, <2>7, <2>8, <2>9, <2>10, <2>11
    DEF Step
<1>2. ASSUME NEW h \in Hubs, Environment(h) PROVE IInv'
  BY <1>2, KillInv, ForkInv DEF Environment
<1>3. CASE UNCHANGED vars
  BY <1>3, SMTT(30) DEF vars, fileVars, hubVars, IInv, TypeOK, Directory, Locked, Writing, Viewing
<1> QED  BY <1>1, <1>2, <1>3, ReplaceInv, PowerLossInv DEF Next
-----------------------------------------------------------------------------
(* The theorems.                                                            *)

\* IInv is inductive: lock ownership, the stage of each write and each view
\* agree with the files through every step, crash and power loss.
THEOREM Invariance == Spec => []IInv
BY InitInv, NextInv, PTL DEF Spec

\* No crash between two system calls of write_document_inner leaves a document
\* that load_retained cannot decode.
THEOREM WholeDocument == Spec => []DocumentIsWhole
<1>1. IInv => DocumentIsWhole
  <2> SUFFICES ASSUME IInv, NEW d \in Dirs PROVE doc[d] # Torn /\ Torn \notin disk[d]
    BY DEF DocumentIsWhole
  <2>1. fresh < Torn /\ doc[d] \in disk[d] /\ \A v \in disk[d] : v <= fresh
    BY Numbers, ConstantsDistinct DEF IInv, TypeOK, Directory, Torn, Versions
  <2> QED  BY <2>1, Numbers DEF IInv, TypeOK
<1> QED  BY <1>1, Invariance, PTL

\* The rename of a write replaces the document its candidate was derived from.
THEOREM NoUpdateLost == Spec => []NoLostUpdate
<1>1. IInv => NoLostUpdate
  BY DEF IInv, NoLostUpdate, Viewing, Unrenamed, At
<1> QED  BY <1>1, Invariance, PTL

\* What a caller was told is Synced survives every later power loss.
THEOREM AcknowledgedIsDurable == Spec => []AckedIsDurable
<1>1. IInv => AckedIsDurable
  BY DEF IInv, AckedIsDurable, Directory
<1> QED  BY <1>1, Invariance, PTL

\* A serving Hub shows its directory's document, or an older one in quarantine.
THEOREM ViewIsCurrent == Spec => []ViewIsDocument
<1>1. IInv => ViewIsDocument
  BY DEF IInv, ViewIsDocument, Viewing, At
<1> QED  BY <1>1, Invariance, PTL

\* Dropping the authority unlocks the open file description, so that without
\* a kill no forked child is left holding the lock.
THEOREM ExitUnlocks == Spec => []OrderlyExitUnlocks
<1> DEFINE Free == (\A d \in Dirs : lock[d] # Child) \/ killed = TRUE
<1>1. Init => Free
  BY Numbers DEF Init
<1>2. IInv /\ Free /\ [Next]_vars => Free'
  <2> SUFFICES ASSUME IInv, Free, [Next]_vars PROVE Free'
    OBVIOUS
  <2> USE Numbers DEF vars, fileVars, hubVars, Goto, At
  <2>1. ASSUME NEW h \in Hubs, Exit(h) PROVE Free'
    BY <2>1 DEF Exit, Unlock
  <2>2. ASSUME NEW h \in Hubs, Step(h), ~Exit(h) PROVE Free'
    <3>1. CASE TryLock(h)
      BY <2>2, <3>1 DEF TryLock, IInv, TypeOK
    <3>2. CASE ~TryLock(h)
      <4>1. UNCHANGED <<lock, killed>>
        BY <2>2, <3>2 DEF Step, Stop, OpenDirectory, Load, Started, Prepare, Truncate,
           Fill, SyncFile, Rename, FsyncDirectory, PostRename, WriteStep, Refuse,
           PublishUncertain
      <4> QED  BY <4>1
    <3> QED  BY <3>1, <3>2
  <2>3. ASSUME NEW h \in Hubs, Environment(h) PROVE Free'
    BY <2>3 DEF Environment, Kill, Fork, Exec
  <2>4. CASE Replace \/ PowerLoss \/ UNCHANGED vars
    BY <2>4 DEF Replace, PowerLoss
  <2> QED  BY <2>1, <2>2, <2>3, <2>4 DEF Next
<1>3. Free => OrderlyExitUnlocks
  BY DEF OrderlyExitUnlocks
<1> HIDE DEF Free
<1> QED  BY <1>1, <1>2, <1>3, Invariance, PTL DEF Spec

\* Only PostRename acknowledges, and only into the directory the path names.
THEOREM AcknowledgedAtPath == Spec => AckedAtPath
<1>1. ASSUME IInv, [Next]_vars
      PROVE  [\A d \in Dirs : acked'[d] # acked[d] => path = d]_vars
  <2> USE DEF vars, fileVars, hubVars, Goto, At
  <2>1. ASSUME NEW h \in Hubs, PostRename(h), NEW d \in Dirs, acked'[d] # acked[d]
        PROVE  path = d
    <3>1. acked' = [acked EXCEPT ![fd[h]] = cand[h]] /\ Current(h)
      BY <2>1 DEF PostRename, PublishUncertain, Exit
    <3> QED  BY <3>1, <2>1 DEF IInv, TypeOK, Current
  <2>2. ASSUME NEW h \in Hubs, Step(h), ~PostRename(h) PROVE UNCHANGED acked
    BY <2>2 DEF Step, Stop, OpenDirectory, TryLock, Load, Started, Prepare, Truncate,
       Fill, SyncFile, Rename, FsyncDirectory, WriteStep, Refuse, PublishUncertain, Exit
  <2>3. ASSUME NEW h \in Hubs, Environment(h) PROVE UNCHANGED acked
    BY <2>3 DEF Environment, Kill, Fork, Exec
  <2>4. CASE Replace \/ PowerLoss \/ UNCHANGED vars
    BY <2>4 DEF Replace, PowerLoss
  <2> QED  BY <1>1, <2>1, <2>2, <2>3, <2>4 DEF Next
<1> QED  BY <1>1, Invariance, PTL DEF Spec, AckedAtPath
-----------------------------------------------------------------------------
(* The directory implements the abstract document: a rename publishes, an   *)
(* fsync or a power loss settles, PostRename acknowledges, and every other  *)
(* step leaves the abstract state alone.                                    *)

\* A rename is the abstract publication of the candidate.
LEMMA RenamePublishes ==
  ASSUME IInv, NEW h \in Hubs, Rename(h), ~Refuse(h)
  PROVE  Durable!Publish(fd[h])
<1>1. /\ fd[h] \in Dirs /\ tmp[fd[h]].file = cand[h] /\ tmp[fd[h]].synced
      /\ cand[h] \in Nat /\ \A w \in disk[fd[h]] : w < cand[h]
  BY Numbers DEF IInv, TypeOK, Writing, Unrenamed, Rename, WriteStep, At
<1>2. disk' = [disk EXCEPT ![fd[h]] = disk[fd[h]] \cup {cand[h]}] /\ UNCHANGED acked
  BY <1>1 DEF Rename, WriteStep
<1>3. cand[h] \in disk'[fd[h]]
  BY <1>1, <1>2 DEF IInv, TypeOK
<1> QED  BY <1>1, <1>2, <1>3 DEF Durable!Publish

\* The directory's fsync leaves one outcome of a power loss.
LEMMA FsyncSettles ==
  ASSUME IInv, NEW h \in Hubs, FsyncDirectory(h), ~PublishUncertain(h)
  PROVE  Durable!Settle
<1>1. /\ fd[h] \in Dirs /\ doc[fd[h]] \in disk[fd[h]]
      /\ disk' = [disk EXCEPT ![fd[h]] = {doc[fd[h]]}] /\ UNCHANGED acked
  BY DEF IInv, TypeOK, Directory, FsyncDirectory, WriteStep
<1>2. disk \in [Dirs -> SUBSET Nat] /\ {doc[fd[h]]} \in SUBSET Nat
  BY Numbers, <1>1 DEF IInv, TypeOK
<1>3. disk' \in [Dirs -> SUBSET Nat]
  BY <1>1, <1>2, ExceptType
<1>4. ASSUME NEW d \in Dirs
      PROVE  disk'[d] = disk[d] \/ \E v \in disk[d] : disk'[d] = {v}
  BY <1>1, <1>2
<1> QED  BY <1>1, <1>3, <1>4 DEF Durable!Settle

\* A power loss picks one of the outcomes that were possible.
LEMMA PowerLossSettles ==
  ASSUME IInv, PowerLoss
  PROVE  Durable!Settle
<1>1. /\ \A d \in Dirs : doc'[d] \in disk[d]
      /\ disk' = [d \in Dirs |-> {doc'[d]}] /\ UNCHANGED acked
  BY DEF PowerLoss
<1>2. \A d \in Dirs : disk[d] \subseteq Nat
  BY Numbers DEF IInv, TypeOK
<1>3. disk' \in [Dirs -> SUBSET Nat]
  BY <1>1, <1>2
<1> QED  BY <1>1, <1>3 DEF Durable!Settle

\* PostRename acknowledges the only outcome left.
LEMMA AckAcknowledges ==
  ASSUME IInv, NEW h \in Hubs, PostRename(h), ~PublishUncertain(h)
  PROVE  Durable!Acknowledge(fd[h])
<1>1. /\ fd[h] \in Dirs /\ disk[fd[h]] = {cand[h]} /\ acked[fd[h]] < cand[h]
      /\ cand[h] \in Nat /\ acked[fd[h]] \in Nat
  BY Numbers DEF IInv, TypeOK, Writing, Renamed, PostRename, At
<1>2. acked' = [acked EXCEPT ![fd[h]] = cand[h]] /\ UNCHANGED disk
  BY DEF PostRename, fileVars
<1> QED  BY <1>1, <1>2 DEF Durable!Acknowledge

\* Every step is a step of the abstract document or leaves it alone.
LEMMA StepImplements ==
  ASSUME IInv, [Next]_vars
  PROVE  [Durable!Next]_(Durable!vars)
<1> USE DEF vars, fileVars, hubVars
<1>1. ASSUME NEW h \in Hubs, Step(h) PROVE Durable!Next \/ UNCHANGED <<disk, acked>>
  <2>0. fd[h] \in Dirs
    BY DEF IInv, TypeOK
  <2>1. CASE Rename(h) /\ ~Refuse(h)
    BY <2>0, <2>1, RenamePublishes DEF Durable!Next
  <2>2. CASE FsyncDirectory(h) /\ ~PublishUncertain(h)
    BY <2>2, FsyncSettles DEF Durable!Next
  <2>3. CASE PostRename(h) /\ ~PublishUncertain(h)
    BY <2>0, <2>3, AckAcknowledges DEF Durable!Next
  <2>4. CASE Refuse(h) \/ PublishUncertain(h) \/ Exit(h)
    BY <2>4 DEF Refuse, PublishUncertain, Exit
  <2>5. CASE Step(h) /\ ~(Rename(h) \/ FsyncDirectory(h) \/ PostRename(h)
                          \/ Refuse(h) \/ Exit(h))
    BY <2>5 DEF Step, Stop, OpenDirectory, TryLock, Load, Started, Prepare, Truncate,
       Fill, SyncFile, WriteStep
  <2> QED  BY <1>1, <2>1, <2>2, <2>3, <2>4, <2>5
<1>2. ASSUME NEW h \in Hubs, Environment(h) PROVE UNCHANGED <<disk, acked>>
  BY <1>2 DEF Environment, Kill, Fork, Exec
<1>3. CASE Replace \/ UNCHANGED vars
  BY <1>3 DEF Replace, Durable!vars
<1>4. CASE PowerLoss
  BY <1>4, PowerLossSettles DEF Durable!Next
<1> QED  BY <1>1, <1>2, <1>3, <1>4 DEF Next, Durable!vars

\* Over all crashes and contenders, versions appear, settle and are
\* acknowledged in that order.
THEOREM Refinement == Spec => ImplementsDurableDocument
<1>1. Init => Durable!Init
  BY DEF Init, Durable!Init
<1> QED  BY <1>1, StepImplements, Invariance, PTL DEF Spec, ImplementsDurableDocument, Durable!Spec
=============================================================================
