---------------------------- MODULE MCCloseWork ----------------------------
(* CloseWork for TLC: every route belongs to one session.                  *)
EXTENDS CloseWork, TLC

OneSession == [r \in Routes |-> CHOOSE s \in Sessions : TRUE]
RouteSymmetry == Permutations(Routes)
=============================================================================
