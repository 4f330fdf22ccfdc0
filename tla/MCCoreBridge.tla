--------------------------- MODULE MCCoreBridge ---------------------------
(* CoreBridge for TLC: a behaviour has the requests, background work and   *)
(* waiting threads of one scenario.                                        *)
EXTENDS CoreBridge

CONSTANT Scenarios
VARIABLE active

MCInit ==
    /\ Init
    /\ active \in Scenarios
    /\ oready = Backs \cap active

\* No watchdog, retirement, stop or repeated mark: nothing here can rescue a
\* wake that was lost.
CalmNext ==
    /\ \/ DataPlane \/ CoreFinish \/ Loop \/ AbsorbCore
       \/ \E t \in Threads : Submission(t)
       \/ \E w \in Waiters \cap active : Items(w)
       \/ \E w \in Requests \cap active : SendRequest(w)
       \/ \E c \in Clients \cap active : ClientSubmit(c) \/ ClientWait(c)
    /\ UNCHANGED active

MCNext ==
    \/ CalmNext
    \/ /\ \/ DpWatchdog \/ RestoreCore \/ OwnerStop
          \/ \E b \in Backs \cap active : PumpMark(b)
          \/ \E w \in Reads \cap active : RetireRead(w)
       /\ UNCHANGED active

MCSpec == MCInit /\ [][MCNext]_<<vars, active>>

CalmFairSpec == MCInit /\ [][CalmNext]_<<vars, active>> /\ Fairness
=============================================================================
