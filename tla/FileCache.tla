------------------------------ MODULE FileCache ------------------------------
(***************************************************************************)
(* The disk cache of immutable files (internal/handler/file_cache.go) and  *)
(* the downloads that share it.                                            *)
(*                                                                         *)
(* A download opens a key, is served from a complete blob (a hit), or      *)
(* reads the object from IPFS, copying it to a temporary file on the way   *)
(* (a fill) if a slot and space can be reserved.  The mutex is held while  *)
(* entries are evicted (phase "reserve"), released during the fetch and    *)
(* while bytes are read; each section under it is one step otherwise.      *)
(***************************************************************************)
EXTENDS Integers, SequencesExt, FiniteSetsExt

CONSTANTS
    Keys,         \* cid/path
    Requests,     \* downloads in flight
    Size,         \* Size[k]: length of the immutable object k
    Limit,        \* IPFS_FILE_CACHE_BYTES
    ObjectLimit,  \* 2 MiB, or Limit if that is less
    MaxActive,    \* 8
    MaxEntries,   \* 4096
    Stuck,        \* keys whose files the file system may refuse to remove
    None

ASSUME CacheAssumption ==
    /\ Size \in [Keys -> Nat]
    /\ Limit \in Nat /\ ObjectLimit \in Nat /\ ObjectLimit <= Limit
    /\ MaxActive \in Nat /\ MaxEntries \in Nat
    /\ Stuck \subseteq Keys
    /\ None \notin Keys /\ None \notin Nat

ASSUME FiniteRequests == IsFiniteSet(Requests)

VARIABLES
    entries,      \* keys of the index
    lru,          \* the same keys, most recently used first
    size,         \* size[k]: length recorded in k's entry, 0 without one
    readers,      \* readers[k]: hits the entry counts, 0 without one
    bytes,        \* accounted length of all entries
    active,       \* reservations of fills
    blob,         \* blob[k]: bytes in k's file on disk, or None
    req           \* req[q]: what download q is doing

vars == <<entries, lru, size, readers, bytes, active, blob, req>>

(* size counts the bytes read, file those written to the temporary file.   *)
Request == [phase : {"idle", "fetch", "reserve", "hit", "fill", "finish", "stream"},
            key : Keys \cup {None}, size : Nat, file : Nat, commit : BOOLEAN]

At(p, k) == [phase |-> p, key |-> k, size |-> 0, file |-> 0, commit |-> FALSE]

To(q, r) == req' = [req EXCEPT ![q] = r]

(* The mutex is not held across a step.                                    *)
Free == \A q \in Requests : req[q].phase # "reserve"

Init == /\ entries = {}
        /\ lru = <<>>
        /\ size = [k \in Keys |-> 0]
        /\ readers = [k \in Keys |-> 0]
        /\ bytes = 0
        /\ active = 0
        /\ blob = [k \in Keys |-> None]
        /\ req = [q \in Requests |-> At("idle", None)]

-----------------------------------------------------------------------------
(* remove of the entry at position i, its file included.                   *)
RemoveEntry(i) ==
    LET k == lru[i]
    IN  /\ entries' = entries \ {k}
        /\ lru' = RemoveAt(lru, i)
        /\ blob' = [blob EXCEPT ![k] = None]
        /\ bytes' = bytes - size[k]
        /\ size' = [size EXCEPT ![k] = 0]
        /\ readers' = [readers EXCEPT ![k] = 0]

Index == <<entries, lru, size, readers, bytes, blob>>

-----------------------------------------------------------------------------
(* open, up to the fetch *)

OpenHit(q, k) ==
    /\ Free /\ req[q].phase = "idle"
    /\ k \in entries /\ blob[k] # None
    /\ \E i \in DOMAIN lru : lru[i] = k /\ lru' = <<k>> \o RemoveAt(lru, i)
    /\ readers' = [readers EXCEPT ![k] = @ + 1]
    /\ To(q, At("hit", k))
    /\ UNCHANGED <<entries, size, bytes, active, blob>>

OpenMiss(q, k) ==
    /\ Free /\ req[q].phase = "idle"
    /\ k \notin entries
    /\ To(q, At("fetch", k))
    /\ UNCHANGED <<Index, active>>

(* The blob cannot be opened: an entry nobody reads is dropped.            *)
OpenBroken(q, k) ==
    /\ Free /\ req[q].phase = "idle"
    /\ k \in entries
    /\ \/ readers[k] = 0 /\ \E i \in DOMAIN lru : lru[i] = k /\ RemoveEntry(i)
       \/ (readers[k] > 0 \/ k \in Stuck) /\ UNCHANGED Index
    /\ To(q, At("fetch", k))
    /\ UNCHANGED active

FetchFail(q) ==
    /\ req[q].phase = "fetch"
    /\ To(q, At("idle", None))
    /\ UNCHANGED <<Index, active>>

-----------------------------------------------------------------------------
(* open, the reservation *)

NoSlot == active >= MaxActive \/ (active + 1) * ObjectLimit > Limit

(* Mutant: only the space of finished files is counted.                    *)
FullMutant == \/ bytes + ObjectLimit > Limit
              \/ Len(lru) + active >= MaxEntries

Full == \/ bytes + (active + 1) * ObjectLimit > Limit
        \/ Len(lru) + active >= MaxEntries

FetchDone(q) ==
    /\ Free /\ req[q].phase = "fetch"
    /\ To(q, At(IF NoSlot THEN "stream" ELSE "reserve", req[q].key))
    /\ UNCHANGED <<Index, active>>

(* Mutant: an entry is evicted under its readers.                          *)
EvictableMutant(i) == TRUE

Evictable(i) == readers[lru[i]] = 0

(* evict: from the back, the first entry nobody reads whose file can be    *)
(* removed.                                                                *)
Evict(q) ==
    /\ req[q].phase = "reserve" /\ Full
    /\ \E i \in DOMAIN lru :
         /\ Evictable(i)
         /\ \A j \in DOMAIN lru : j > i /\ Evictable(j) => lru[j] \in Stuck
         /\ RemoveEntry(i)
    /\ UNCHANGED <<active, req>>

(* Mutant: the loop goes on when evict has found nothing.                  *)
EvictNoneMutant(q) ==
    /\ req[q].phase = "reserve" /\ Full
    /\ \A i \in DOMAIN lru : Evictable(i) => lru[i] \in Stuck
    /\ UNCHANGED vars

EvictNone(q) ==
    /\ req[q].phase = "reserve" /\ Full
    /\ \A i \in DOMAIN lru : Evictable(i) => lru[i] \in Stuck
    /\ To(q, At("stream", req[q].key))
    /\ UNCHANGED <<Index, active>>

CreateTemp(q) ==
    /\ req[q].phase = "reserve" /\ ~Full
    /\ \/ active' = active + 1 /\ To(q, At("fill", req[q].key))
       \/ active' = active /\ To(q, At("stream", req[q].key))
    /\ UNCHANGED Index

-----------------------------------------------------------------------------
(* cacheFill *)

(* Mutant: any end of the source completes the file.                       *)
ReadMutant(q) ==
    LET r == req[q]
    IN  /\ r.phase = "fill"
        /\ \E n \in 0..(Size[r.key] - r.size), end \in {"more", "eof", "error"} :
             /\ end = "eof" => r.size + n = Size[r.key]
             /\ LET kept == r.size + n <= ObjectLimit
                IN  To(q, [phase |-> IF kept /\ end = "more" THEN "fill" ELSE "finish",
                           key |-> r.key, size |-> r.size + n,
                           file |-> IF kept THEN r.file + n ELSE r.file,
                           commit |-> kept])
        /\ UNCHANGED <<Index, active>>

(* Mutant: the size check comes after the write.                           *)
ReadLateMutant(q) ==
    LET r == req[q]
    IN  /\ r.phase = "fill"
        /\ \E n \in 0..(Size[r.key] - r.size), end \in {"more", "eof"} :
             /\ end = "eof" => r.size + n = Size[r.key]
             /\ LET kept == r.size + n <= ObjectLimit
                IN  To(q, [phase |-> IF kept /\ end = "more" THEN "fill" ELSE "finish",
                           key |-> r.key, size |-> r.size + n, file |-> r.file + n,
                           commit |-> kept /\ end = "eof"])
        /\ UNCHANGED <<Index, active>>

(* Read: n bytes come from the source, which then goes on, ends or fails;  *)
(* they are written (possibly in part only) unless the object has become   *)
(* too large.  Any failure drops the fill, never the download.             *)
Read(q) ==
    LET r == req[q]
    IN  /\ r.phase = "fill"
        /\ \E n \in 0..(Size[r.key] - r.size), end \in {"more", "eof", "error"},
              ok \in BOOLEAN :
           \E written \in 0..n :
             /\ end = "eof" => r.size + n = Size[r.key]
             /\ ok => written = n
             /\ LET fits == r.size + n <= ObjectLimit
                    kept == fits /\ ok
                IN  To(q, [phase |-> IF kept /\ end = "more" THEN "fill" ELSE "finish",
                           key |-> r.key, size |-> r.size + n,
                           file |-> IF fits THEN r.file + written ELSE r.file,
                           commit |-> kept /\ end = "eof"])
        /\ UNCHANGED <<Index, active>>

(* Close before the end: the handler gave up or the client went away.      *)
CloseFill(q) ==
    /\ req[q].phase = "fill"
    /\ To(q, [req[q] EXCEPT !.phase = "finish"])
    /\ UNCHANGED <<Index, active>>

(* finish(true) with a live context, no entry for the key and a rename     *)
(* that works.                                                             *)
FinishCommit(q) ==
    LET r == req[q]
    IN  /\ Free /\ r.phase = "finish" /\ r.commit
        /\ r.key \notin entries
        /\ entries' = entries \cup {r.key}
        /\ lru' = <<r.key>> \o lru
        /\ size' = [size EXCEPT ![r.key] = r.size]
        /\ readers' = [readers EXCEPT ![r.key] = 0]
        /\ blob' = [blob EXCEPT ![r.key] = r.file]
        /\ bytes' = bytes + r.size
        /\ active' = active - 1
        /\ To(q, At("stream", r.key))

(* finish(false), or a commit that fails (Close, Rename), meets a canceled *)
(* context or finds the key present.  A temporary file that cannot be      *)
(* removed is not tracked any more.                                        *)
FinishDrop(q) ==
    /\ Free /\ req[q].phase = "finish"
    /\ active' = active - 1
    /\ To(q, At("stream", req[q].key))
    /\ UNCHANGED Index

CloseStream(q) ==
    /\ req[q].phase = "stream"
    /\ To(q, At("idle", None))
    /\ UNCHANGED <<Index, active>>

CloseHit(q) ==
    /\ Free /\ req[q].phase = "hit"
    /\ readers' = [readers EXCEPT ![req[q].key] = @ - 1]
    /\ To(q, At("idle", None))
    /\ UNCHANGED <<entries, lru, size, bytes, active, blob>>

(* The process dies and newFileCache removes every blob and partial file.  *)
Restart ==
    /\ entries' = {} /\ lru' = <<>> /\ bytes' = 0 /\ active' = 0
    /\ size' = [k \in Keys |-> 0]
    /\ readers' = [k \in Keys |-> 0]
    /\ blob' = [k \in Keys |-> None]
    /\ req' = [q \in Requests |-> At("idle", None)]

Reserving(q) == Evict(q) \/ EvictNone(q) \/ CreateTemp(q)

Next ==
    \/ \E q \in Requests :
         \/ \E k \in Keys : OpenHit(q, k) \/ OpenMiss(q, k) \/ OpenBroken(q, k)
         \/ FetchFail(q) \/ FetchDone(q)
         \/ Reserving(q)
         \/ Read(q) \/ CloseFill(q) \/ FinishCommit(q) \/ FinishDrop(q)
         \/ CloseStream(q) \/ CloseHit(q)
    \/ Restart

Spec == Init /\ [][Next]_vars

(* The goroutine that holds the mutex makes no call that waits.            *)
Fairness == \A q \in Requests : WF_vars(Reserving(q))

-----------------------------------------------------------------------------
Filling(q) == req[q].phase \in {"fill", "finish"}

Hits(k) == {q \in Requests : req[q].phase = "hit" /\ req[q].key = k}

OnDisk == {k \in Keys : blob[k] # None}

Fills == {q \in Requests : Filling(q)}

TempFile == [q \in Requests |-> req[q].file]

(* The shape of the state.                                                 *)
TypeOK ==
    /\ entries \in SUBSET Keys
    /\ lru \in Seq(Keys)
    /\ size \in [Keys -> Nat]
    /\ readers \in [Keys -> Nat]
    /\ bytes \in Int
    /\ active \in Nat
    /\ blob \in [Keys -> Nat \cup {None}]
    /\ req \in [Requests -> Request]

(* The accounting the reservations are made by: what is cached plus the    *)
(* worst case of every fill fits the budget, every fill that completes     *)
(* finds an entry slot, and slots are returned exactly once, however the   *)
(* fill ends: active counts the fills whose temporary file is open.        *)
Reserved ==
    /\ bytes + active * ObjectLimit <= Limit
    /\ Len(lru) + active <= MaxEntries
    /\ active = Cardinality(Fills)
    /\ active <= MaxActive

(* README, IPFS_FILE_CACHE_BYTES: the files on disk, temporary ones and    *)
(* those with active readers included, never exceed the budget.  (Temporary *)
(* files the file system refused to remove are left out.)                  *)
DiskBudget == SumFunctionOnSet(blob, OnDisk) + SumFunctionOnSet(TempFile, Fills) <= Limit

(* Only objects that were read to their end become entries, and a hit's    *)
(* Content-Length is the length of its file, whatever failed writes,       *)
(* canceled clients and concurrent fills of the same key did.              *)
CompleteOnly == \A k \in entries : size[k] = Size[k] /\ blob[k] = Size[k]

(* The file of a hit is neither evicted nor dropped before its Close, and  *)
(* the counter that protects it counts exactly the hits.                   *)
ReadersKeepFile ==
    \A k \in Keys : /\ readers[k] = Cardinality(Hits(k))
                    /\ Hits(k) # {} => k \in entries

(* The eviction loop ends, so the mutex is released.                       *)
ReservingEnds ==
    \A q \in Requests : req[q].phase = "reserve" ~> req[q].phase # "reserve"
=============================================================================
