---------------------------- MODULE MCGrantState ----------------------------
(* GrantState with bounds on the random versions drawn, on the changes of  *)
(* a registration and on the grants handed out.                            *)
EXTENDS GrantState, FiniteSets, TLC

CONSTANTS MaxVersions, MaxChanges, MaxGrants

MCNext == /\ Next
          /\ fresh' <= MaxVersions + 1
          /\ \A r \in Resources : reg'[r] <= MaxChanges
          /\ Cardinality(grants') <= MaxGrants

MCSpec == Init /\ [][MCNext]_vars

WriterSymmetry == Permutations(Writers)
=============================================================================
