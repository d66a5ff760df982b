------------------------------ MODULE MarkStore ------------------------------
(***************************************************************************)
(* What module SoftDelete takes from the unpin store: marks and tracked    *)
(* groups that change in one step per call and outlive the process, until  *)
(* a fault breaks the store.  What a broken store holds is not promised.   *)
(***************************************************************************)
CONSTANTS CIDs

VARIABLES marks, tracked, broken

vars == <<marks, tracked, broken>>

Init == /\ marks \in SUBSET CIDs
        /\ tracked = [c \in CIDs |-> {}]
        /\ broken = FALSE

Mark(cids) == /\ marks' = marks \cup cids
              /\ UNCHANGED tracked

MarkGroup(m, cids) == /\ marks' = marks \cup cids
                      /\ tracked' = [tracked EXCEPT ![m] = cids]

Track(m, cids) == /\ tracked' = [tracked EXCEPT ![m] = cids]
                  /\ UNCHANGED marks

Forget(c) == /\ marks' = marks \ {c}
             /\ tracked' = [tracked EXCEPT ![c] = {}]

Call == \E c \in CIDs : \/ Mark({c})
                        \/ Forget(c)
                        \/ \E g \in SUBSET CIDs : MarkGroup(c, g) \/ Track(c, g)

(* Once broken a store stays so.                                           *)
Next == \/ ~broken /\ ~broken' /\ Call
        \/ broken'

Spec == Init /\ [][Next]_vars
=============================================================================
