------------------------ MODULE MCVariantOverrides ------------------------
(* VariantOverrides with a bound on the crashes of a behaviour.            *)
EXTENDS VariantOverrides

CONSTANT MaxCrashes

VARIABLE crashes

mcvars == <<vars, crashes>>

MCInit == Init /\ crashes = 0

MCNext == \/ /\ Start \/ (\E p \in Refreshers : Refresh(p))
                       \/ (\E p \in Viewers : ViewBegin(p) \/ Viewing(p))
             /\ UNCHANGED crashes
          \/ crashes < MaxCrashes /\ crashes' = crashes + 1 /\ Crash

MCSpec == MCInit /\ [][MCNext]_mcvars /\ Fairness
=============================================================================
