-------------------------- MODULE MCUploadAdmission --------------------------
(* UploadAdmission with a bound on the crashes of a behaviour.             *)
EXTENDS UploadAdmission

CONSTANT MaxCrashes

VARIABLE crashes

mcvars == <<vars, crashes>>

MCInit == Init /\ crashes = 0

MCNext == \/ /\ \/ \E p \in Requests : Auth(p) \/ Cancel(p) \/ Local(p) \/ Remote(p)
                \/ Midnight
             /\ UNCHANGED crashes
          \/ crashes < MaxCrashes /\ crashes' = crashes + 1 /\ Crash

MCSpec == MCInit /\ [][MCNext]_mcvars /\ Fairness
=============================================================================
