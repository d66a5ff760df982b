---------------------------- MODULE MCSoftDelete ----------------------------
(* SoftDelete with a bound on the requests and restarts of a behaviour.    *)
EXTENDS SoftDelete, TLC

CONSTANTS MaxUploads, MaxDeletes, MaxRestarts,
          DeleteRootsOnly   \* clients delete only what an upload answered with

VARIABLE spent    \* how many uploads, deletes and restarts have begun

mcvars == <<vars, spent>>

Spend(what, max) == /\ spent[what] < max
                    /\ spent' = [spent EXCEPT ![what] = @ + 1]

MCInit == Init /\ spent = [uploads |-> 0, deletes |-> 0, restarts |-> 0]

MCRequests ==
    \E k \in Clients, i \in Instances :
        \/ \E r \in Roots : UploadBegin(k, i, r) /\ Spend("uploads", MaxUploads)
        \/ \E c \in CIDs : /\ DeleteRootsOnly => c \in Roots /\ c \in owed \cup gone
                           /\ DeleteBegin(k, i, c) /\ Spend("deletes", MaxDeletes)

MCNext == \/ MCRequests
          \/ Running /\ UNCHANGED spent
          \/ \E i \in Instances : Restart(i) /\ Spend("restarts", MaxRestarts)

MCSpec == MCInit /\ [][MCNext]_mcvars

MCFairSpec == MCSpec /\ Fairness
-----------------------------------------------------------------------------
(* A file f alone, or two videos m and m2 that share the segment s.        *)
CONSTANTS m, m2, s

NoVideo == {}
NoVideoAdded == [x \in {} |-> {}]
SharedAdded == (m :> {m, s}) @@ (m2 :> {m2, s})

Symmetry == Permutations(Nodes) \cup Permutations(Instances)
=============================================================================
