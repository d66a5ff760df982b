---------------------------- MODULE MCFileCache ----------------------------
(* FileCache with objects that are empty, just fit a fill's reservation or *)
(* are too large.                                                          *)
EXTENDS FileCache, TLC

CONSTANTS k1, k2, k3, k4

MCSize == k1 :> 0 @@ k2 :> 2 @@ k3 :> 1 @@ k4 :> 3

FairSpec == Spec /\ Fairness
=============================================================================
