--------------------------- MODULE MCManifestCache ---------------------------
(* ManifestCache with manifests of three sizes.  Calls are                 *)
(* interchangeable, so who wants what is given in one order only.          *)
EXTENDS ManifestCache, TLC

CONSTANTS small, other, large, p1, p2, p3

Costs == (small :> 1) @@ (other :> 2) @@ (large :> 3)

Ordered == <<call[p1].cid, call[p2].cid, call[p3].cid>> \in
             {<<small, small, small>>, <<small, small, other>>, <<small, other, large>>}

MCInit == Init /\ Ordered

MCSpec == MCInit /\ [][Next]_vars /\ Fairness
=============================================================================
