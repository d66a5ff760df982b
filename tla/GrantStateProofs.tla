-------------------------- MODULE GrantStateProofs --------------------------
(***************************************************************************)
(* Proofs about GrantState, for any number of assets, files, writers and   *)
(* issuers.  Everything rests on three facts: a random version that is     *)
(* drawn is new (Drawn), a guarded resource has a version that no grant    *)
(* and no snapshot of this epoch carries (GuardedIsNew), and an active     *)
(* writer's resource is guarded as long as there is an epoch (Bracketed).  *)
(***************************************************************************)
EXTENDS GrantState, TLAPS

(* Versions in circulation were drawn earlier.                             *)
Drawn ==
    /\ fresh > 0
    /\ epoch # None => epoch < fresh
    /\ \A r \in Resources : version[r] < fresh
    /\ \A g \in grants : g.epoch < fresh /\ g.av < fresh /\ g.fv < fresh
    /\ \A s \in Issuers : snap[s].epoch < fresh /\ snap[s].av < fresh /\ snap[s].fv < fresh

(* c, a grant or a snapshot, carries the epoch in force and r's version.   *)
Carries(c, r) ==
    /\ c.epoch = epoch
    /\ \/ c.asset = r /\ c.av = version[r]
       \/ c.file = r /\ c.fv = version[r]

GuardedIsNew ==
    \A r \in Resources : guard[r] # None =>
        /\ \A g \in grants : ~Carries(g, r)
        /\ \A s \in Issuers : snap[s].asset # None => ~Carries(snap[s], r)

(* Mutations are serialized, and each is bracketed by its guard.           *)
Bracketed ==
    epoch # None =>
        \A w \in Writers : writer[w].res # None =>
            /\ guard[writer[w].res] # None
            /\ \A v \in Writers : writer[v].res = writer[w].res => v = w

Tombstones == \A f \in revoked : guard[f] = Deleted

GrantInv == TypeOK /\ Drawn /\ GuardedIsNew /\ Bracketed /\ Tombstones /\ AcceptedIsCurrent

USE ConstantsAssumption

-----------------------------------------------------------------------------
(* The state keeps its shape, whatever step is taken.                      *)
LEMMA TypeStep == TypeOK /\ [Next]_vars => TypeOK'
<1> SUFFICES ASSUME TypeOK, [Next]_vars PROVE TypeOK'
  OBVIOUS
<1> USE DEF TypeOK, Resources, Grant
<1>1. CASE Initialize
  BY <1>1 DEF Initialize, Idle, NoSnap
<1>2. ASSUME NEW s \in Issuers, Seal(s) PROVE TypeOK'
  <2>1. snap[s] \in [asset : Assets, file : Files, epoch : Nat, av : Nat, fv : Nat]
    BY <1>2 DEF Seal, NoSnap
  <2>2. reg[snap[s].asset] \in Nat /\ reg[snap[s].file] \in Nat
    BY <2>1
  <2>3. grants' \in SUBSET Grant
    BY <1>2, <2>1, <2>2 DEF Seal
  <2> QED
    BY <1>2, <2>3 DEF Seal
<1>3. ASSUME NEW s \in Issuers, NEW a \in Assets, NEW f \in Files, Snapshot(s, a, f)
      PROVE  TypeOK'
  BY <1>3 DEF Snapshot
<1>4. ASSUME NEW w \in Writers, NEW r \in Resources, Begin(w, r) PROVE TypeOK'
  BY <1>4 DEF Begin
<1>5. ASSUME NEW w \in Writers, Change(w) PROVE TypeOK'
  BY <1>5 DEF Change
<1>6. ASSUME NEW w \in Writers, Finish(w) PROVE TypeOK'
  <2>1. version' \in [Resources -> Nat]
    BY <1>6 DEF Finish
  <2>2. guard' \in [Resources -> Nat \cup {None, Deleted}]
    BY <1>6 DEF Finish
  <2>3. writer' \in [Writers -> [res : Resources \cup {None}, nonce : Nat]]
    BY <1>6 DEF Finish, Idle
  <2>4. fresh' \in Nat /\ UNCHANGED <<epoch, reg, snap, grants, revoked>>
    BY <1>6 DEF Finish
  <2> QED
    BY <2>1, <2>2, <2>3, <2>4 DEF NoSnap
<1>7. ASSUME NEW w \in Writers, Crash(w) PROVE TypeOK'
  BY <1>7 DEF Crash, Idle
<1>8. ASSUME NEW f \in Files, Revoke(f) PROVE TypeOK'
  BY <1>8 DEF Revoke, NoSnap
<1>9. ASSUME NEW r \in Resources, OperatorClear(r) PROVE TypeOK'
  BY <1>9 DEF OperatorClear
<1>10. CASE LoseState
  BY <1>10 DEF LoseState
<1>11. CASE LoseEpoch
  BY <1>11 DEF LoseEpoch
<1>12. CASE UNCHANGED vars
  BY <1>12 DEF vars
<1> QED
  BY <1>1, <1>2, <1>3, <1>4, <1>5, <1>6, <1>7, <1>8, <1>9, <1>10, <1>11, <1>12 DEF Next

(* Every version in circulation was drawn earlier.                         *)
LEMMA DrawnStep == TypeOK /\ Drawn /\ [Next]_vars => Drawn'
<1> SUFFICES ASSUME TypeOK, Drawn, [Next]_vars PROVE Drawn'
  OBVIOUS
<1> USE DEF TypeOK, Drawn, Resources, Grant
<1>1. CASE Initialize
  BY <1>1 DEF Initialize, NoSnap
<1>2. ASSUME NEW s \in Issuers, Seal(s) PROVE Drawn'
  BY <1>2 DEF Seal, NoSnap
<1>3. ASSUME NEW s \in Issuers, NEW a \in Assets, NEW f \in Files, Snapshot(s, a, f)
      PROVE  Drawn'
  BY <1>3 DEF Snapshot
<1>4. ASSUME NEW w \in Writers, NEW r \in Resources, Begin(w, r) PROVE Drawn'
  BY <1>4 DEF Begin, NoSnap
<1>5. ASSUME NEW w \in Writers, Change(w) PROVE Drawn'
  BY <1>5 DEF Change
<1>6. ASSUME NEW w \in Writers, Finish(w) PROVE Drawn'
  BY <1>6 DEF Finish, NoSnap
<1>7. ASSUME NEW w \in Writers, Crash(w) PROVE Drawn'
  BY <1>7 DEF Crash
<1>8. ASSUME NEW f \in Files, Revoke(f) PROVE Drawn'
  BY <1>8 DEF Revoke, NoSnap
<1>9. ASSUME NEW r \in Resources, OperatorClear(r) PROVE Drawn'
  BY <1>9 DEF OperatorClear
<1>10. CASE LoseState
  BY <1>10 DEF LoseState
<1>11. CASE LoseEpoch
  BY <1>11 DEF LoseEpoch
<1>12. CASE UNCHANGED vars
  BY <1>12 DEF vars
<1> QED
  BY <1>1, <1>2, <1>3, <1>4, <1>5, <1>6, <1>7, <1>8, <1>9, <1>10, <1>11, <1>12 DEF Next

(* A guarded resource has a version nobody carries.                        *)
LEMMA GuardedStep ==
    TypeOK /\ Drawn /\ GuardedIsNew /\ [Next]_vars => GuardedIsNew'
<1> SUFFICES ASSUME TypeOK, Drawn, GuardedIsNew, [Next]_vars PROVE GuardedIsNew'
  OBVIOUS
<1> USE DEF TypeOK, Drawn, GuardedIsNew, Carries, Resources, Grant
<1>1. CASE Initialize
  BY <1>1 DEF Initialize, NoSnap
<1>2. ASSUME NEW s \in Issuers, Seal(s) PROVE GuardedIsNew'
  BY <1>2 DEF Seal, NoSnap
<1>3. ASSUME NEW s \in Issuers, NEW a \in Assets, NEW f \in Files, Snapshot(s, a, f)
      PROVE  GuardedIsNew'
  BY <1>3 DEF Snapshot
<1>4. ASSUME NEW w \in Writers, NEW r \in Resources, Begin(w, r) PROVE GuardedIsNew'
  BY <1>4 DEF Begin, NoSnap
<1>5. ASSUME NEW w \in Writers, Change(w) PROVE GuardedIsNew'
  BY <1>5 DEF Change
<1>6. ASSUME NEW w \in Writers, Finish(w) PROVE GuardedIsNew'
  BY <1>6 DEF Finish
<1>7. ASSUME NEW w \in Writers, Crash(w) PROVE GuardedIsNew'
  BY <1>7 DEF Crash
<1>8. ASSUME NEW f \in Files, Revoke(f) PROVE GuardedIsNew'
  BY <1>8 DEF Revoke, NoSnap
<1>9. ASSUME NEW r \in Resources, OperatorClear(r) PROVE GuardedIsNew'
  BY <1>9 DEF OperatorClear
<1>10. CASE LoseState
  BY <1>10 DEF LoseState
<1>11. CASE LoseEpoch
  BY <1>11 DEF LoseEpoch, NoSnap
<1>12. CASE UNCHANGED vars
  BY <1>12 DEF vars
<1> QED
  BY <1>1, <1>2, <1>3, <1>4, <1>5, <1>6, <1>7, <1>8, <1>9, <1>10, <1>11, <1>12 DEF Next

(* An active writer holds its resource for itself.                         *)
LEMMA BracketedStep == TypeOK /\ Bracketed /\ [Next]_vars => Bracketed'
<1> SUFFICES ASSUME TypeOK, Bracketed, [Next]_vars PROVE Bracketed'
  OBVIOUS
<1> USE DEF TypeOK, Bracketed, Resources
<1>1. CASE Initialize
  BY <1>1 DEF Initialize, Idle
<1>2. ASSUME NEW s \in Issuers, Seal(s) PROVE Bracketed'
  BY <1>2 DEF Seal
<1>3. ASSUME NEW s \in Issuers, NEW a \in Assets, NEW f \in Files, Snapshot(s, a, f)
      PROVE  Bracketed'
  BY <1>3 DEF Snapshot
<1>4. ASSUME NEW w \in Writers, NEW r \in Resources, Begin(w, r) PROVE Bracketed'
  BY <1>4 DEF Begin, Idle
<1>5. ASSUME NEW w \in Writers, Change(w) PROVE Bracketed'
  BY <1>5 DEF Change
<1>6. ASSUME NEW w \in Writers, Finish(w) PROVE Bracketed'
  BY <1>6 DEF Finish, Idle
<1>7. ASSUME NEW w \in Writers, Crash(w) PROVE Bracketed'
  BY <1>7 DEF Crash, Idle
<1>8. ASSUME NEW f \in Files, Revoke(f) PROVE Bracketed'
  BY <1>8 DEF Revoke
<1>9. ASSUME NEW r \in Resources, OperatorClear(r) PROVE Bracketed'
  BY <1>9 DEF OperatorClear
<1>10. CASE LoseState
  BY <1>10 DEF LoseState
<1>11. CASE LoseEpoch
  BY <1>11 DEF LoseEpoch
<1>12. CASE UNCHANGED vars
  BY <1>12 DEF vars
<1> QED
  BY <1>1, <1>2, <1>3, <1>4, <1>5, <1>6, <1>7, <1>8, <1>9, <1>10, <1>11, <1>12 DEF Next

(* The guard of a revoked file stays 'deleted'.                            *)
LEMMA TombstoneStep == TypeOK /\ Tombstones /\ [Next]_vars => Tombstones'
<1> SUFFICES ASSUME TypeOK, Tombstones, [Next]_vars PROVE Tombstones'
  OBVIOUS
<1> USE DEF TypeOK, Tombstones, Resources
<1>1. CASE Initialize
  BY <1>1 DEF Initialize
<1>2. ASSUME NEW s \in Issuers, Seal(s) PROVE Tombstones'
  BY <1>2 DEF Seal
<1>3. ASSUME NEW s \in Issuers, NEW a \in Assets, NEW f \in Files, Snapshot(s, a, f)
      PROVE  Tombstones'
  BY <1>3 DEF Snapshot
<1>4. ASSUME NEW w \in Writers, NEW r \in Resources, Begin(w, r) PROVE Tombstones'
  BY <1>4 DEF Begin
<1>5. ASSUME NEW w \in Writers, Change(w) PROVE Tombstones'
  BY <1>5 DEF Change
<1>6. ASSUME NEW w \in Writers, Finish(w) PROVE Tombstones'
  BY <1>6 DEF Finish
<1>7. ASSUME NEW w \in Writers, Crash(w) PROVE Tombstones'
  BY <1>7 DEF Crash
<1>8. ASSUME NEW f \in Files, Revoke(f) PROVE Tombstones'
  BY <1>8 DEF Revoke
<1>9. ASSUME NEW r \in Resources, OperatorClear(r) PROVE Tombstones'
  BY <1>9 DEF OperatorClear
<1>10. CASE LoseState
  BY <1>10 DEF LoseState
<1>11. CASE LoseEpoch
  BY <1>11 DEF LoseEpoch
<1>12. CASE UNCHANGED vars
  BY <1>12 DEF vars
<1> QED
  BY <1>1, <1>2, <1>3, <1>4, <1>5, <1>6, <1>7, <1>8, <1>9, <1>10, <1>11, <1>12 DEF Next

(* A grant that Check accepts after a step it accepted before it.          *)
LEMMA CheckStep ==
    ASSUME TypeOK, Drawn, GuardedIsNew, [Next]_vars,
           NEW g \in grants, Check(g)'
    PROVE  Check(g)
<1> USE DEF TypeOK, Drawn, Check, Resources, Grant
<1>1. CASE Initialize
  <2>1. g.epoch # fresh
    OBVIOUS
  <2>2. epoch' = epoch
    BY <1>1, <2>1 DEF Initialize
  <2> QED
    BY <1>1, <2>2 DEF Initialize
<1>2. ASSUME NEW s \in Issuers, Seal(s) PROVE Check(g)
  BY <1>2 DEF Seal
<1>3. ASSUME NEW s \in Issuers, NEW a \in Assets, NEW f \in Files, Snapshot(s, a, f)
      PROVE  Check(g)
  BY <1>3 DEF Snapshot
<1>4. ASSUME NEW w \in Writers, NEW r \in Resources, Begin(w, r) PROVE Check(g)
  BY <1>4 DEF Begin
<1>5. ASSUME NEW w \in Writers, Change(w) PROVE Check(g)
  BY <1>5 DEF Change
<1>6. ASSUME NEW w \in Writers, Finish(w) PROVE Check(g)
  BY <1>6 DEF Finish
<1>7. ASSUME NEW w \in Writers, Crash(w) PROVE Check(g)
  BY <1>7 DEF Crash
<1>8. ASSUME NEW f \in Files, Revoke(f) PROVE Check(g)
  BY <1>8 DEF Revoke
<1>9. ASSUME NEW r \in Resources, OperatorClear(r) PROVE Check(g)
  BY <1>9 DEF OperatorClear, GuardedIsNew, Carries
<1>10. CASE LoseState
  BY <1>10 DEF LoseState
<1>11. CASE LoseEpoch
  BY <1>11 DEF LoseEpoch
<1>12. CASE UNCHANGED vars
  BY <1>12 DEF vars
<1> QED
  BY <1>1, <1>2, <1>3, <1>4, <1>5, <1>6, <1>7, <1>8, <1>9, <1>10, <1>11, <1>12 DEF Next

(* A step leaves accepted grants current: only Change touches a            *)
(* registration, and Check refuses every grant for a guarded resource.     *)
LEMMA CurrentStep ==
    TypeOK /\ Drawn /\ GuardedIsNew /\ Bracketed /\ AcceptedIsCurrent /\ [Next]_vars
        => AcceptedIsCurrent'
<1> SUFFICES ASSUME TypeOK, Drawn, GuardedIsNew, Bracketed, AcceptedIsCurrent, [Next]_vars,
                    NEW g \in grants', Check(g)'
             PROVE  g.areg = reg'[g.asset] /\ g.freg = reg'[g.file]
  BY DEF AcceptedIsCurrent, Check
<1>1. ASSUME g \in grants, reg' = reg
      PROVE  g.areg = reg'[g.asset] /\ g.freg = reg'[g.file]
  BY <1>1, CheckStep DEF AcceptedIsCurrent
<1>2. CASE \E s \in Issuers : Seal(s)
  <2> PICK s \in Issuers : Seal(s)
    BY <1>2
  <2>1. CASE g \in grants
    BY <1>1, <2>1 DEF Seal
  <2>2. CASE g \notin grants
    BY <2>2 DEF Seal
  <2> QED
    BY <2>1, <2>2
<1>3. CASE \E w \in Writers : Change(w)
  <2> PICK w \in Writers : Change(w)
    BY <1>3
  <2>1. g \in grants /\ Check(g)
    BY CheckStep DEF Change
  <2>2. writer[w].res # g.asset /\ writer[w].res # g.file
    BY <2>1 DEF Change, Check, Bracketed, TypeOK, Resources
  <2>3. g.areg = reg[g.asset] /\ g.freg = reg[g.file]
    BY <2>1 DEF AcceptedIsCurrent
  <2>4. g.asset \in Resources /\ g.file \in Resources
    BY <2>1 DEF TypeOK, Grant, Resources
  <2> QED
    BY <2>2, <2>3, <2>4 DEF Change, TypeOK
<1>4. CASE ~(\E s \in Issuers : Seal(s)) /\ ~(\E w \in Writers : Change(w))
  <2>1. grants' = grants /\ reg' = reg
    BY <1>4 DEF Next, vars, Initialize, Snapshot, Begin, Finish, Crash, Revoke,
                OperatorClear, LoseState, LoseEpoch
  <2> QED
    BY <2>1, <1>1
<1> QED
  BY <1>2, <1>3, <1>4

-----------------------------------------------------------------------------
(* The conjunction is an invariant.                                        *)
LEMMA Invariance == Spec => []GrantInv
<1>1. Init => GrantInv
  BY DEF Init, GrantInv, TypeOK, Drawn, GuardedIsNew, Bracketed, Tombstones,
         AcceptedIsCurrent, Resources, Idle, NoSnap
<1>2. GrantInv /\ [Next]_vars => GrantInv'
  BY TypeStep, DrawnStep, GuardedStep, BracketedStep, TombstoneStep, CurrentStep
     DEF GrantInv
<1> QED
  BY <1>1, <1>2, PTL DEF Spec

(* The state of the grant subsystem keeps its shape.                       *)
THEOREM TypeCorrect == Spec => []TypeOK
<1>1. GrantInv => TypeOK
  BY DEF GrantInv
<1> QED
  BY <1>1, Invariance, PTL

(* A grant that Check accepts was issued from the registrations in force.  *)
THEOREM AcceptedIsCurrentCorrect == Spec => []AcceptedIsCurrent
<1>1. GrantInv => AcceptedIsCurrent
  BY DEF GrantInv
<1> QED
  BY <1>1, Invariance, PTL

(* Revoke is permanent: a deleted file stays guarded, and Check refuses    *)
(* every grant for it.                                                     *)
THEOREM RevokedRefusedCorrect == Spec => []RevokedRefused
<1>1. GrantInv => RevokedRefused
  BY DEF GrantInv, Tombstones, RevokedRefused, Check
<1> QED
  BY <1>1, Invariance, PTL

(* A grant that Check refuses once is refused from then on.                *)
THEOREM RefusedForGoodCorrect == Spec => RefusedForGood
<1>1. GrantInv /\ [Next]_vars => [\A g \in grants : ~Check(g) => ~Check(g)']_vars
  BY CheckStep DEF GrantInv
<1> QED
  BY <1>1, Invariance, PTL DEF Spec, RefusedForGood
=============================================================================
