----------------------------- MODULE GrantState -----------------------------
(***************************************************************************)
(* Download grants and the Redis state that can invalidate them            *)
(* (internal/mediagrant/state.go).                                         *)
(*                                                                         *)
(* A grant is a sealed capability that carries the epoch and the versions  *)
(* its asset and its file had when it was issued.  Writers of the API      *)
(* bracket a change of a resource's registration with Begin and finish;    *)
(* DELETE of a file revokes it; a downloader accepts a grant if Check      *)
(* finds the very same epoch and versions and no guard.  Each Lua script   *)
(* is one step; everything around it interleaves.  The API, its database   *)
(* and the operator are outside this repository (the package is shared     *)
(* with the API) and are modelled by how they use the package.             *)
(***************************************************************************)
EXTENDS Naturals

CONSTANTS
    Assets,      \* AssetResource
    Files,       \* FileResource
    Writers,     \* goroutines of the API that change registrations
    Issuers,     \* goroutines of the API that issue grants
    None,        \* a missing key
    Deleted      \* the guard value 'deleted'

Resources == Assets \cup Files

ASSUME ConstantsAssumption ==
    /\ Assets \cap Files = {}
    /\ None \notin Nat /\ Deleted \notin Nat /\ None # Deleted
    /\ None \notin Resources

VARIABLES
    epoch,       \* the epoch key, or None
    version,     \* version[r]: the version key; 0 stands for its default '0'
    guard,       \* guard[r]: None, the version of a writer, or Deleted
    fresh,       \* every random version drawn so far is below it (randomVersion)
    reg,         \* reg[r]: how often r's registration in the database changed
    writer,      \* writer[w]: the mutation w is in
    snap,        \* snap[s]: the snapshot issuer s is about to seal into a grant
    grants,      \* grants handed out
    revoked      \* observer: resources revoked since Redis last lost its data

vars == <<epoch, version, guard, fresh, reg, writer, snap, grants, revoked>>

Idle == [res |-> None, nonce |-> 0]
NoSnap == [asset |-> None, file |-> None, epoch |-> 0, av |-> 0, fv |-> 0]

(* What a grant's claims carry, and what the issuer saw in the database.   *)
Grant == [asset : Assets, file : Files, epoch : Nat, av : Nat, fv : Nat,
          areg : Nat, freg : Nat]

Init == /\ epoch = None
        /\ version = [r \in Resources |-> 0]
        /\ guard = [r \in Resources |-> None]
        /\ fresh = 1
        /\ reg = [r \in Resources |-> 0]
        /\ writer = [w \in Writers |-> Idle]
        /\ snap = [s \in Issuers |-> NoSnap]
        /\ grants = {}
        /\ revoked = {}

-----------------------------------------------------------------------------
(* The API process starts: the writers and issuers of its predecessor are  *)
(* gone, their guards stay, and Initialize sets the epoch unless there is  *)
(* one (SETNX).                                                            *)
Initialize ==
    /\ writer' = [w \in Writers |-> Idle]
    /\ snap' = [s \in Issuers |-> NoSnap]
    /\ epoch' = IF epoch = None THEN fresh ELSE epoch
    /\ fresh' = fresh + 1
    /\ UNCHANGED <<version, guard, reg, grants, revoked>>

(* snapshotScript and Snapshot, as an issuer uses them: a blocked resource *)
(* gets no grant, and a missing epoch is an error.                         *)
Snapshot(s, a, f) ==
    /\ snap[s] = NoSnap
    /\ epoch # None
    /\ guard[a] = None /\ guard[f] = None
    /\ snap' = [snap EXCEPT ![s] = [asset |-> a, file |-> f, epoch |-> epoch,
                                    av |-> version[a], fv |-> version[f]]]
    /\ UNCHANGED <<epoch, version, guard, fresh, reg, writer, grants, revoked>>

(* The issuer reads the registration and seals the grant.                  *)
Seal(s) ==
    /\ snap[s].asset # None
    /\ grants' = grants \cup
         {[asset |-> snap[s].asset, file |-> snap[s].file, epoch |-> snap[s].epoch,
           av |-> snap[s].av, fv |-> snap[s].fv,
           areg |-> reg[snap[s].asset], freg |-> reg[snap[s].file]]}
    /\ snap' = [snap EXCEPT ![s] = NoSnap]
    /\ UNCHANGED <<epoch, version, guard, fresh, reg, writer, revoked>>

(* Check, as the downloader's resolve calls it.                            *)
Check(g) == /\ epoch # None
            /\ guard[g.asset] = None /\ guard[g.file] = None
            /\ epoch = g.epoch
            /\ version[g.asset] = g.av /\ version[g.file] = g.fv

-----------------------------------------------------------------------------
(* Mutant: Begin guards the resource and leaves the version to finish.     *)
BeginMutant(w, r) ==
    /\ writer[w] = Idle
    /\ epoch # None
    /\ guard[r] = None
    /\ guard' = [guard EXCEPT ![r] = fresh]
    /\ version' = version
    /\ writer' = [writer EXCEPT ![w] = [res |-> r, nonce |-> fresh]]
    /\ fresh' = fresh + 1
    /\ UNCHANGED <<epoch, reg, snap, grants, revoked>>

(* Mutant: Begin draws a version and sets no guard.                        *)
BeginOpenMutant(w, r) ==
    /\ writer[w] = Idle
    /\ epoch # None
    /\ guard[r] = None
    /\ version' = [version EXCEPT ![r] = fresh]
    /\ writer' = [writer EXCEPT ![w] = [res |-> r, nonce |-> fresh]]
    /\ fresh' = fresh + 1
    /\ UNCHANGED <<epoch, guard, reg, snap, grants, revoked>>

(* beginScript: refused while any guard is there.                          *)
Begin(w, r) ==
    /\ writer[w] = Idle
    /\ epoch # None
    /\ guard[r] = None
    /\ guard' = [guard EXCEPT ![r] = fresh]
    /\ version' = [version EXCEPT ![r] = fresh]
    /\ writer' = [writer EXCEPT ![w] = [res |-> r, nonce |-> fresh]]
    /\ fresh' = fresh + 1
    /\ UNCHANGED <<epoch, reg, snap, grants, revoked>>

(* The writer changes the registration in the database.                    *)
Change(w) ==
    /\ writer[w].res # None
    /\ reg' = [reg EXCEPT ![writer[w].res] = @ + 1]
    /\ UNCHANGED <<epoch, version, guard, fresh, writer, snap, grants, revoked>>

(* Mutant: finish does not compare the guard with its own version.         *)
FinishMutant(w) ==
    /\ writer[w].res # None
    /\ version' = [version EXCEPT ![writer[w].res] = fresh]
    /\ guard' = [guard EXCEPT ![writer[w].res] = None]
    /\ writer' = [writer EXCEPT ![w] = Idle]
    /\ fresh' = fresh + 1
    /\ UNCHANGED <<epoch, reg, snap, grants, revoked>>

(* finishScript: a guard that is no longer the writer's own is left alone, *)
(* and the caller is told that it was lost.                                *)
Finish(w) ==
    LET r == writer[w].res
    IN  /\ r # None
        /\ IF guard[r] = writer[w].nonce
             THEN /\ version' = [version EXCEPT ![r] = fresh]
                  /\ guard' = [guard EXCEPT ![r] = None]
             ELSE UNCHANGED <<version, guard>>
        /\ writer' = [writer EXCEPT ![w] = Idle]
        /\ fresh' = fresh + 1
        /\ UNCHANGED <<epoch, reg, snap, grants, revoked>>

(* The writer's goroutine dies: its guard has no TTL and stays.            *)
Crash(w) ==
    /\ writer[w].res # None
    /\ writer' = [writer EXCEPT ![w] = Idle]
    /\ UNCHANGED <<epoch, version, guard, fresh, reg, snap, grants, revoked>>

(* Revoke, called by HandleDelete before anything is marked or unpinned.   *)
Revoke(r) ==
    /\ epoch # None
    /\ version' = [version EXCEPT ![r] = fresh]
    /\ guard' = [guard EXCEPT ![r] = Deleted]
    /\ revoked' = revoked \cup {r}
    /\ fresh' = fresh + 1
    /\ UNCHANGED <<epoch, reg, writer, snap, grants>>

(* An operator clears the guard of a writer known to have ended.           *)
OperatorClear(r) ==
    /\ guard[r] \notin {None, Deleted}
    /\ \A w \in Writers : writer[w].res # r
    /\ guard' = [guard EXCEPT ![r] = None]
    /\ UNCHANGED <<epoch, version, fresh, reg, writer, snap, grants, revoked>>

(* Redis comes back without its data.                                      *)
LoseState ==
    /\ epoch' = None
    /\ version' = [r \in Resources |-> 0]
    /\ guard' = [r \in Resources |-> None]
    /\ revoked' = {}
    /\ UNCHANGED <<fresh, reg, writer, snap, grants>>

(* The epoch key alone is deleted.                                         *)
LoseEpoch ==
    /\ epoch' = None
    /\ UNCHANGED <<version, guard, fresh, reg, writer, snap, grants, revoked>>

Next ==
    \/ Initialize
    \/ \E s \in Issuers : Seal(s) \/ \E a \in Assets, f \in Files : Snapshot(s, a, f)
    \/ \E w \in Writers :
         \/ \E r \in Resources : Begin(w, r)
         \/ Change(w)
         \/ Finish(w)
         \/ Crash(w)
    \/ \E f \in Files : Revoke(f)
    \/ \E r \in Resources : OperatorClear(r)
    \/ LoseState
    \/ LoseEpoch

Spec == Init /\ [][Next]_vars

-----------------------------------------------------------------------------
(* The shape of the state: a guard is a random version or 'deleted', and a *)
(* snapshot an issuer holds names both an asset and a file.                *)
TypeOK ==
    /\ epoch \in Nat \cup {None}
    /\ version \in [Resources -> Nat]
    /\ guard \in [Resources -> Nat \cup {None, Deleted}]
    /\ fresh \in Nat
    /\ reg \in [Resources -> Nat]
    /\ writer \in [Writers -> [res : Resources \cup {None}, nonce : Nat]]
    /\ snap \in [Issuers -> [asset : Assets, file : Files, epoch : Nat, av : Nat, fv : Nat]
                            \cup {NoSnap}]
    /\ grants \in SUBSET Grant
    /\ revoked \in SUBSET Files

(* A grant that Check accepts was issued from the registrations that are   *)
(* in force: no interleaving of issuers and writers, no crash of a writer, *)
(* no loss of the Redis data makes Check pass for stale or half-changed    *)
(* registrations.                                                          *)
AcceptedIsCurrent ==
    \A g \in grants : Check(g) => g.areg = reg[g.asset] /\ g.freg = reg[g.file]

(* Once Check refuses a grant it refuses it for good: a mutation, a        *)
(* revocation, a loss of the epoch or the clearing of a guard never brings *)
(* an outstanding grant back.                                              *)
RefusedForGood == [][\A g \in grants : ~Check(g) => ~Check(g)']_vars

(* Revoke is permanent: no grant for a deleted file is accepted or issued  *)
(* again, whatever mutations of it were in flight (until Redis loses all   *)
(* its data, which also ends every grant that was out).                    *)
RevokedRefused ==
    \A f \in revoked :
        /\ \A g \in grants : g.file = f => ~Check(g)
        /\ guard[f] # None
=============================================================================
