---------------------------- MODULE ManifestCache ----------------------------
(***************************************************************************)
(* The cache of bundle manifests (internal/handler/manifest_cache.go): an  *)
(* LRU list with a budget of bytes and of entries, filled by one fetch per *)
(* CID that all callers of the moment share and that runs with the context *)
(* of the first of them.  A manifest is named by its CID.                  *)
(***************************************************************************)
EXTENDS Integers, FiniteSets, SequencesExt

CONSTANTS
    Cids,
    Cost,        \* manifestCost of the manifest of a CID
    Limits,      \* values of MANIFEST_CACHE_BYTES; 0 turns the cache off
    MaxCost,     \* the largest manifest kept: 256 KiB in the code
    MaxEntries,  \* 1024 in the code
    Calls,       \* calls of readManifest
    None

ASSUME ManifestAssumption ==
    /\ Cost \in [Cids -> Nat \ {0}]
    /\ Limits \subseteq Nat
    /\ MaxCost \in Nat /\ MaxEntries \in Nat \ {0}
    /\ None \notin Calls \cup {"ok", "failed", "canceled"}

VARIABLES
    limit, lru, bytes,  \* the cache: lru is the list of its CIDs, newest first
    call,     \* call[p]
    chan,     \* chan[p]: what the flight p waits for has sent it
    flight,   \* flight[c]: the running fetch of c
    fetched,  \* observer: CIDs some fetch has returned
    failed    \* observer: CIDs some fetch could not read for a live leader

vars == <<limit, lru, bytes, call, chan, flight, fetched, failed>>

Outcome == {"ok", "failed", "canceled"}

NoFlight == [at |-> "none", leader |-> None, members |-> {}, res |-> "ok"]

Flight == [at : {"none", "get", "fetch", "put", "land"}, leader : Calls \cup {None},
           members : SUBSET Calls, res : Outcome]

Init == /\ limit \in Limits
        /\ lru = <<>> /\ bytes = 0
        /\ \E want \in [Calls -> Cids] :
             call = [p \in Calls |-> [at |-> "idle", cid |-> want[p], alive |-> TRUE, ret |-> None]]
        /\ chan = [p \in Calls |-> None]
        /\ flight = [c \in Cids |-> NoFlight]
        /\ fetched = {} /\ failed = {}

-----------------------------------------------------------------------------
Entries == Range(lru)

Total(S) == SumFunctionOnSet(Cost, S)

(* get: a hit moves to the front.                                          *)
Touched(c) ==
    LET i == CHOOSE i \in DOMAIN lru : lru[i] = c
    IN  <<c>> \o RemoveAt(lru, i)

Return(p, ret) == call' = [call EXCEPT ![p].at = "done", ![p].ret = ret]

(* The client of a request goes away.                                      *)
Cancel(p) ==
    /\ call[p].at # "done" /\ call[p].alive
    /\ call' = [call EXCEPT ![p].alive = FALSE]
    /\ UNCHANGED <<limit, lru, bytes, chan, flight, fetched, failed>>

(* load without a cache: the manifest is fetched for this call alone.      *)
LoadDirect(p) ==
    /\ limit = 0 /\ call[p].at = "idle"
    /\ \/ /\ Return(p, "ok")
          /\ fetched' = fetched \cup {call[p].cid} /\ UNCHANGED failed
       \/ /\ Return(p, "failed")
          /\ failed' = failed \cup {call[p].cid} /\ UNCHANGED fetched
    /\ UNCHANGED <<limit, lru, bytes, chan, flight>>

(* The top of the loop: the context, then the cache.                       *)
Check(p) ==
    LET c == call[p].cid
    IN  /\ limit > 0 /\ call[p].at \in {"idle", "again"}
        /\ \/ ~call[p].alive /\ Return(p, "canceled") /\ UNCHANGED lru
           \/ call[p].alive /\ c \in Entries /\ Return(p, "ok") /\ lru' = Touched(c)
           \/ /\ call[p].alive /\ c \notin Entries
              /\ call' = [call EXCEPT ![p].at = "join"]
              /\ UNCHANGED lru
        /\ UNCHANGED <<limit, bytes, chan, flight, fetched, failed>>

(* flights.DoChan: the call joins the fetch of its CID or starts it.       *)
Join(p) ==
    LET c == call[p].cid
    IN  /\ call[p].at = "join"
        /\ call' = [call EXCEPT ![p].at = "wait"]
        /\ flight' = IF flight[c].at # "none"
                     THEN [flight EXCEPT ![c].members = @ \cup {p}]
                     ELSE [flight EXCEPT ![c] = [at |-> "get", leader |-> p,
                                                 members |-> {p}, res |-> "ok"]]
        /\ UNCHANGED <<limit, lru, bytes, chan, fetched, failed>>

(* The function of the flight: the cache again, for a put since Check.     *)
FlightGet(c) ==
    /\ flight[c].at = "get"
    /\ IF c \in Entries
       THEN flight' = [flight EXCEPT ![c].at = "land"] /\ lru' = Touched(c)
       ELSE flight' = [flight EXCEPT ![c].at = "fetch"] /\ UNCHANGED lru
    /\ UNCHANGED <<limit, bytes, call, chan, fetched, failed>>

(* Mutant: the failover's generic error hides that the leader has left.    *)
FlightFetchMutant(c) ==
    /\ flight[c].at = "fetch"
    /\ \/ /\ flight' = [flight EXCEPT ![c].at = "put"]
          /\ fetched' = fetched \cup {c} /\ UNCHANGED failed
       \/ /\ flight' = [flight EXCEPT ![c].at = "land", ![c].res = "failed"]
          /\ failed' = IF call[flight[c].leader].alive THEN failed \cup {c} ELSE failed
          /\ UNCHANGED fetched
    /\ UNCHANGED <<limit, lru, bytes, call, chan>>

(* Mutant: what a failed fetch left in value is put as well.               *)
FlightFetchKeepMutant(c) ==
    /\ flight[c].at = "fetch"
    /\ flight' = [flight EXCEPT ![c].at = "put"]
    /\ \/ fetched' = fetched \cup {c} /\ UNCHANGED failed
       \/ failed' = failed \cup {c} /\ UNCHANGED fetched
    /\ UNCHANGED <<limit, lru, bytes, call, chan>>

(* fetchManifest with the leader's context; an error after the context has *)
(* ended is reported as that.                                              *)
FlightFetch(c) ==
    /\ flight[c].at = "fetch"
    /\ \/ /\ flight' = [flight EXCEPT ![c].at = "put"]
          /\ fetched' = fetched \cup {c} /\ UNCHANGED failed
       \/ /\ call[flight[c].leader].alive
          /\ flight' = [flight EXCEPT ![c].at = "land", ![c].res = "failed"]
          /\ failed' = failed \cup {c} /\ UNCHANGED fetched
       \/ /\ ~call[flight[c].leader].alive
          /\ flight' = [flight EXCEPT ![c].at = "land", ![c].res = "canceled"]
          /\ UNCHANGED <<fetched, failed>>
    /\ UNCHANGED <<limit, lru, bytes, call, chan>>

(* Mutant: what is evicted is not taken off the bytes.                     *)
BytesOfMutant(n) == bytes

(* What is left of the bytes with the n newest entries only.               *)
BytesOf(n) == bytes - Total(Range(SubSeq(lru, n + 1, Len(lru))))

(* c finds room beside the n newest entries.                               *)
Fits(n, c) == BytesOf(n) + Cost[c] <= limit /\ n < MaxEntries

(* Where the loop of put stops: as few as possible of the oldest are gone. *)
Kept(n, c) == Fits(n, c) /\ \A m \in n+1..Len(lru) : ~Fits(m, c)

(* A manifest that is too large, or there already, is not kept.            *)
Refused(c) == Cost[c] > limit \/ Cost[c] > MaxCost \/ c \in Entries

(* Mutant: the bytes of an evicted manifest are not given back.            *)
FlightPutLeakMutant(c) ==
    /\ flight[c].at = "put"
    /\ flight' = [flight EXCEPT ![c].at = "land"]
    /\ IF Refused(c) THEN UNCHANGED <<lru, bytes>>
       ELSE \E n \in 0..Len(lru) :
              Kept(n, c) /\ lru' = <<c>> \o SubSeq(lru, 1, n) /\ bytes' = bytes + Cost[c]
    /\ UNCHANGED <<limit, call, chan, fetched, failed>>

(* put: the oldest make room for the new one.                              *)
FlightPut(c) ==
    /\ flight[c].at = "put"
    /\ flight' = [flight EXCEPT ![c].at = "land"]
    /\ IF Refused(c) THEN UNCHANGED <<lru, bytes>>
       ELSE \E n \in 0..Len(lru) :
              /\ Kept(n, c)
              /\ lru' = <<c>> \o SubSeq(lru, 1, n)
              /\ bytes' = BytesOf(n) + Cost[c]
    /\ UNCHANGED <<limit, call, chan, fetched, failed>>

(* Mutant: only the callers that still wait count as sharing.              *)
FlightLandMutant(c) ==
    LET waiting == {p \in flight[c].members : call[p].at = "wait"}
    IN  /\ flight[c].at = "land"
        /\ flight' = [flight EXCEPT ![c] = NoFlight]
        /\ chan' = [p \in Calls |-> IF p \in flight[c].members /\ call[p].at = "wait"
                                    THEN [res |-> flight[c].res, shared |-> Cardinality(waiting) > 1]
                                    ELSE chan[p]]
        /\ UNCHANGED <<limit, lru, bytes, call, fetched, failed>>

(* Mutant: the result goes to the leader alone.                            *)
FlightLandLostMutant(c) ==
    /\ flight[c].at = "land"
    /\ flight' = [flight EXCEPT ![c] = NoFlight]
    /\ chan' = [chan EXCEPT ![flight[c].leader] =
                  [res |-> flight[c].res, shared |-> flight[c].members # {flight[c].leader}]]
    /\ UNCHANGED <<limit, lru, bytes, call, fetched, failed>>

(* The flight ends: its CID is free again and every member is sent the     *)
(* result and whether there was more than one; nobody reads what is sent   *)
(* to a member that has left.                                              *)
FlightLand(c) ==
    /\ flight[c].at = "land"
    /\ flight' = [flight EXCEPT ![c] = NoFlight]
    /\ chan' = [p \in Calls |-> IF p \in flight[c].members /\ call[p].at = "wait"
                                THEN [res |-> flight[c].res,
                                      shared |-> flight[c].members # {flight[c].leader}]
                                ELSE chan[p]]
    /\ UNCHANGED <<limit, lru, bytes, call, fetched, failed>>

(* Mutant: the call waits for the result whatever becomes of its client.   *)
LeaveMutant(p) ==
    /\ call[p].at = "wait" /\ ~call[p].alive /\ chan[p] # None
    /\ Return(p, "canceled")
    /\ chan' = [chan EXCEPT ![p] = None]
    /\ UNCHANGED <<limit, lru, bytes, flight, fetched, failed>>

(* select: the context of the call ends ...                                *)
Leave(p) ==
    /\ call[p].at = "wait" /\ ~call[p].alive
    /\ Return(p, "canceled")
    /\ chan' = [chan EXCEPT ![p] = None]
    /\ UNCHANGED <<limit, lru, bytes, flight, fetched, failed>>

(* ... or the result is there; a live call whose leader has left starts    *)
(* over.                                                                   *)
Receive(p) ==
    /\ call[p].at = "wait" /\ chan[p] # None
    /\ IF chan[p].shared /\ call[p].alive /\ chan[p].res = "canceled"
       THEN call' = [call EXCEPT ![p].at = "again"]
       ELSE Return(p, chan[p].res)
    /\ chan' = [chan EXCEPT ![p] = None]
    /\ UNCHANGED <<limit, lru, bytes, flight, fetched, failed>>

Step(p) == LoadDirect(p) \/ Check(p) \/ Join(p) \/ Leave(p) \/ Receive(p)

FlightStep(c) == FlightGet(c) \/ FlightFetch(c) \/ FlightPut(c) \/ FlightLand(c)

Next == \/ \E p \in Calls : Cancel(p) \/ Step(p)
        \/ \E c \in Cids : FlightStep(c)

Spec == Init /\ [][Next]_vars

Orphan(c) == flight[c].at # "none" /\ ~call[flight[c].leader].alive

(* Calls are scheduled, and a fetch ends once its context has ("no         *)
(* detached background fetch survives", manifest_cache.go:122); a node may *)
(* keep a fetch of a live caller waiting for ever.                         *)
Fairness == /\ \A p \in Calls : WF_vars(Step(p))
            /\ \A c \in Cids : WF_vars(FlightGet(c) \/ FlightPut(c) \/ FlightLand(c))
            /\ \A c \in Cids : WF_vars(Orphan(c) /\ FlightFetch(c))

FairSpec == Spec /\ Fairness

-----------------------------------------------------------------------------
(* The shape of the state; Budget has that of bytes.                       *)
TypeOK ==
    /\ limit \in Limits
    /\ lru \in Seq(Cids)
    /\ call \in [Calls -> [at : {"idle", "again", "join", "wait", "done"}, cid : Cids,
                           alive : BOOLEAN, ret : Outcome \cup {None}]]
    /\ chan \in [Calls -> [res : Outcome, shared : BOOLEAN] \cup {None}]
    /\ flight \in [Cids -> Flight]
    /\ fetched \in SUBSET Cids /\ failed \in SUBSET Cids

(* "Canceling the first caller must not fail the other live callers"       *)
(* (manifest_cache.go:121): a call is answered "canceled" only when its    *)
(* own context has ended, whoever led the fetches it waited for.           *)
NoBorrowedCancel == \A p \in Calls : call[p].ret = "canceled" => ~call[p].alive

(* The other way round: a call fails only when a fetch did whose caller    *)
(* was there to read it, never because a leader left in its middle.        *)
NoBlame == \A p \in Calls : call[p].ret = "failed" => call[p].cid \in failed

(* The count of bytes is that of the manifests held, each once, and both   *)
(* it and their number are bounded, whatever was evicted, touched or put   *)
(* between.                                                                *)
Budget == /\ bytes = Total(Entries) /\ bytes \in 0..limit
          /\ Cardinality(Entries) = Len(lru)
          /\ Len(lru) <= MaxEntries

(* The loop of put ends while there is something to evict: it would take   *)
(* the last element of an empty list, and panic, if the bytes counted were *)
(* ever more than those of the entries left.                               *)
PutFindsRoom == \A c \in Cids : ~Refused(c) => \E n \in 0..Len(lru) : Kept(n, c)

(* Nothing is answered or kept that no fetch has returned: the error of a  *)
(* fetch, or its being cut off, is never remembered as a manifest.         *)
OnlyFetched ==
    /\ Entries \subseteq fetched
    /\ \A p \in Calls : call[p].ret = "ok" => call[p].cid \in fetched

(* A call whose client has left returns without waiting for the fetch.     *)
CanceledReturns == \A p \in Calls : ~call[p].alive ~> call[p].at = "done"

(* If no fetch hangs, every call returns: no flight is stuck behind it,    *)
(* and being sent back to the top of the loop does not go on for ever.     *)
CallsReturn ==
    (\A c \in Cids : []<>(flight[c].at # "fetch")) =>
        (\A p \in Calls : <>(call[p].at = "done"))
=============================================================================
