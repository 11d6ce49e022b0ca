------------------------ MODULE MCCcSwitchTakeover ------------------------
(* Small instances of CcSwitchTakeover.                                   *)
EXTENDS CcSwitchTakeover, TLC

CONSTANTS f1, f2, p1, p2, u1, u2, rt1, rt2

\* Two providers with one endpoint field each.
TwoProviders == (f1 :> p1) @@ (f2 :> p2)
TwoRoutes == (f1 :> rt1) @@ (f2 :> rt2)
EachFirst == (f1 :> 0) @@ (f2 :> 0)

\* URLs, database identities, snapshot ids, ports and requests are
\* interchangeable.
Interchangeable ==
  Permutations(Urls) \cup Permutations(DbIds) \cup Permutations(SnapIds)
    \cup Permutations(Bases) \cup Permutations(Requests)
=============================================================================
