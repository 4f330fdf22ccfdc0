-------------------------- MODULE DurableDocument --------------------------
(***************************************************************************)
(* What the state directory promises about one document per directory, with *)
(* no files, locks or processes: a power loss leaves one whole version out  *)
(* of a set of candidates, and a version that was acknowledged is never     *)
(* lost to an older one.  StateDirectory implements this specification.     *)
(***************************************************************************)
EXTENDS Naturals

CONSTANT Dirs          \* the directories the data path may name

VARIABLES
  possible,            \* possible[d]: the versions a power loss may leave
  acked                \* acked[d]: the last version acknowledged as synced

vars == <<possible, acked>>

Init ==
  /\ possible = [d \in Dirs |-> {0}]
  /\ acked = [d \in Dirs |-> 0]

\* A new version becomes visible; what was possible before still is.
Publish(d) ==
  /\ \E v \in possible'[d] :
       /\ v \in Nat
       /\ \A w \in possible[d] : w < v
       /\ possible' = [possible EXCEPT ![d] = @ \cup {v}]
  /\ UNCHANGED acked

\* A sync or a power loss leaves one of the possible versions.
Settle ==
  /\ possible' \in [Dirs -> SUBSET Nat]
  /\ \A d \in Dirs :
       possible'[d] = possible[d] \/ \E v \in possible[d] : possible'[d] = {v}
  /\ UNCHANGED acked

\* Only a settled version, no older than the last one, is acknowledged.
Acknowledge(d) ==
  /\ \E v \in possible[d] :
       /\ possible[d] = {v}
       /\ v > acked[d]
       /\ acked' = [acked EXCEPT ![d] = v]
  /\ UNCHANGED possible

Next == Settle \/ \E d \in Dirs : Publish(d) \/ Acknowledge(d)

Spec == Init /\ [][Next]_vars
=============================================================================
