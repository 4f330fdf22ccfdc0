-------------------------- MODULE MCTerminalRoutes --------------------------
(* Two owners at a time on the same route: two Unix connections, one of    *)
(* each kind, or two WebRTC peers.                                         *)
EXTENDS TerminalRoutes

MCPairs == kSubset(2, Owners)

MCSymmetry == Permutations(Clients) \cup Permutations(Grants)

====
