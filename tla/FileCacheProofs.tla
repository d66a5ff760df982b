--------------------------- MODULE FileCacheProofs ---------------------------
(***************************************************************************)
(* Proofs about FileCache for any number of keys, downloads and slots, any *)
(* budget and any object sizes.                                            *)
(***************************************************************************)
EXTENDS FileCache, CacheLemmas

(* What a download knows of the fill it is in: the temporary file holds    *)
(* what was read and fits the reservation, and a fill that is to be        *)
(* committed has read its object to the end.                               *)
FillsFit ==
    \A q \in Requests :
        /\ req[q].phase # "idle" => req[q].key \in Keys
        /\ req[q].phase = "fill" =>
             /\ ~req[q].commit
             /\ req[q].file = req[q].size
             /\ req[q].size <= ObjectLimit /\ req[q].size <= Size[req[q].key]
        /\ req[q].phase = "finish" =>
             /\ req[q].file <= ObjectLimit
             /\ req[q].commit => /\ req[q].file = req[q].size
                                 /\ req[q].size = Size[req[q].key]

(* At most one download holds the mutex, and it has seen a free slot.      *)
Exclusive ==
    \A q \in Requests : req[q].phase = "reserve" =>
        /\ active < MaxActive
        /\ \A p \in Requests : req[p].phase = "reserve" => p = q

(* The list holds every entry once, the entries are the files on disk, and *)
(* the byte count is the sum of their lengths.                             *)
IndexExact ==
    /\ entries = Range(lru) /\ IsInjective(lru)
    /\ OnDisk = entries
    /\ bytes = SumFunctionOnSet(size, entries)

CacheInv == /\ TypeOK /\ FillsFit /\ Exclusive /\ Reserved
            /\ CompleteOnly /\ ReadersKeepFile /\ IndexExact

(* Everything a download may do; Restart is apart.                         *)
RequestStep(q) ==
    \/ \E k \in Keys : OpenHit(q, k) \/ OpenMiss(q, k) \/ OpenBroken(q, k)
    \/ FetchFail(q) \/ FetchDone(q) \/ Evict(q) \/ EvictNone(q) \/ CreateTemp(q)
    \/ Read(q) \/ CloseFill(q) \/ FinishCommit(q) \/ FinishDrop(q)
    \/ CloseStream(q) \/ CloseHit(q)

USE CacheAssumption

-----------------------------------------------------------------------------
(* Facts about sets and products                                           *)

(* One more or one less reservation.                                       *)
LEMMA ProductFacts ==
    ASSUME NEW a \in Int
    PROVE  /\ (a + 1) * ObjectLimit = a * ObjectLimit + ObjectLimit
           /\ (a - 1) * ObjectLimit = a * ObjectLimit - ObjectLimit
           /\ a * ObjectLimit \in Int
OBVIOUS

(* Fewer bytes in the same budget.                                         *)
LEMMA LessFits ==
    ASSUME NEW a \in Int, NEW b \in Int, NEW p \in Int, NEW m \in Int, a <= b, b + p <= m
    PROVE  a + p <= m
OBVIOUS

(* The downloads are finitely many, so fills and hits can be counted.      *)
LEMMA Finite ==
    /\ IsFiniteSet(Fills) /\ Cardinality(Fills) \in Nat
    /\ \A k \in Keys : IsFiniteSet(Hits(k)) /\ Cardinality(Hits(k)) \in Nat
<1>1. Fills \subseteq Requests /\ \A k \in Keys : Hits(k) \subseteq Requests
  BY DEF Fills, Hits
<1> QED
  BY <1>1, FiniteRequests, FS_Subset, FS_CardinalityType

(* Next, with the steps of a download put together.                        *)
LEMMA NextCases ==
    [Next]_vars => (\E q \in Requests : RequestStep(q)) \/ Restart \/ UNCHANGED vars
BY DEF Next, RequestStep, Reserving

-----------------------------------------------------------------------------
(* A download's step keeps its own bookkeeping and touches no other's.     *)
LEMMA FillsFitStep ==
    TypeOK /\ FillsFit /\ [Next]_vars => FillsFit' /\ req' \in [Requests -> Request]
<1> SUFFICES ASSUME TypeOK, FillsFit, [Next]_vars
             PROVE  FillsFit' /\ req' \in [Requests -> Request]
  OBVIOUS
<1>1. ASSUME NEW q \in Requests, NEW r \in Request, To(q, r),
             r.phase # "idle" => r.key \in Keys,
             r.phase # "fill", r.phase # "finish"
      PROVE  FillsFit' /\ req' \in [Requests -> Request]
  BY <1>1 DEF To, FillsFit, TypeOK
<1>2. \A p \in {"idle", "fetch", "reserve", "hit", "stream"} : \A k \in Keys \cup {None} :
        /\ At(p, k) \in Request
        /\ At(p, k).phase = p /\ At(p, k).key = k
  BY DEF At, Request
<1>3. ASSUME NEW q \in Requests, RequestStep(q)
      PROVE  FillsFit' /\ req' \in [Requests -> Request]
  <2>1. ASSUME NEW k \in Keys, OpenHit(q, k) \/ OpenMiss(q, k) \/ OpenBroken(q, k)
        PROVE  FillsFit' /\ req' \in [Requests -> Request]
    BY <2>1, <1>1, <1>2 DEF OpenHit, OpenMiss, OpenBroken
  <2>2. CASE FetchFail(q) \/ CloseStream(q) \/ CloseHit(q)
    BY <2>2, <1>1, <1>2 DEF FetchFail, CloseStream, CloseHit
  <2>3. CASE FetchDone(q) \/ EvictNone(q)
    <3>1. req[q].key \in Keys
      BY <2>3 DEF FetchDone, EvictNone, FillsFit
    <3> QED
      BY <2>3, <3>1, <1>1, <1>2 DEF FetchDone, EvictNone
  <2>4. CASE Evict(q)
    BY <2>4 DEF Evict, FillsFit, TypeOK
  <2>5. CASE CreateTemp(q)
    <3>1. req[q].key \in Keys
      BY <2>5 DEF CreateTemp, FillsFit
    <3>2. CASE To(q, At("stream", req[q].key))
      BY <3>1, <3>2, <1>1, <1>2
    <3>3. CASE To(q, At("fill", req[q].key))
      BY <3>1, <3>3 DEF To, At, FillsFit, TypeOK, Request
    <3> QED
      BY <2>5, <3>2, <3>3 DEF CreateTemp
  <2>6. CASE Read(q)
    <3> DEFINE fits(n) == req[q].size + n <= ObjectLimit
               rec(n, end, ok, written) ==
                 [phase |-> IF (fits(n) /\ ok) /\ end = "more" THEN "fill" ELSE "finish",
                  key |-> req[q].key, size |-> req[q].size + n,
                  file |-> IF fits(n) THEN req[q].file + written ELSE req[q].file,
                  commit |-> (fits(n) /\ ok) /\ end = "eof"]
    <3>1. PICK n \in 0..(Size[req[q].key] - req[q].size), end \in {"more", "eof", "error"},
               ok \in BOOLEAN : \E written \in 0..n :
             /\ end = "eof" => req[q].size + n = Size[req[q].key]
             /\ ok => written = n
             /\ To(q, rec(n, end, ok, written))
      BY <2>6 DEF Read
    <3>2. PICK written \in 0..n :
             /\ end = "eof" => req[q].size + n = Size[req[q].key]
             /\ ok => written = n
             /\ To(q, rec(n, end, ok, written))
      BY <3>1
    <3>3. /\ req[q].phase = "fill" /\ req[q].key \in Keys
          /\ req[q].size \in Nat /\ req[q].file = req[q].size
          /\ req[q].size <= ObjectLimit
          /\ Size[req[q].key] \in Nat
      BY <2>6 DEF Read, FillsFit, TypeOK, Request
    <3> DEFINE r == rec(n, end, ok, written)
    <3>4. /\ r.phase \in {"fill", "finish"} /\ r.commit \in BOOLEAN
          /\ r.key = req[q].key /\ r.size = req[q].size + n
          /\ r.size \in Nat /\ r.file \in Nat /\ r.file <= ObjectLimit
      BY <3>2, <3>3
    <3>5. r \in Request
      BY <3>3, <3>4 DEF Request
    <3>6. r.phase = "fill" => /\ ~r.commit /\ r.file = r.size
                              /\ r.size <= ObjectLimit /\ r.size <= Size[r.key]
      <4> SUFFICES ASSUME r.phase = "fill"
                   PROVE  /\ ~r.commit /\ r.file = r.size
                          /\ r.size <= ObjectLimit /\ r.size <= Size[r.key]
        OBVIOUS
      <4>1. fits(n) /\ ok /\ end = "more"
        OBVIOUS
      <4>2. r.file = req[q].file + written /\ written = n
        BY <3>2, <4>1
      <4>3. ~r.commit
        BY <4>1
      <4> QED
        BY <3>3, <3>4, <4>1, <4>2, <4>3
    <3>7. r.commit => r.file = r.size /\ r.size = Size[r.key]
      BY <3>2, <3>3
    <3> HIDE DEF r
    <3> QED
      BY <3>2, <3>3, <3>4, <3>5, <3>6, <3>7 DEF To, FillsFit, TypeOK, r
  <2>7. CASE CloseFill(q)
    <3> DEFINE r == [req[q] EXCEPT !.phase = "finish"]
    <3>1. req' = [req EXCEPT ![q] = r] /\ req[q].phase = "fill" /\ req[q] \in Request
      BY <2>7 DEF CloseFill, To, TypeOK
    <3>2. /\ r \in Request /\ r.phase = "finish" /\ r.key = req[q].key
          /\ r.size = req[q].size /\ r.file = req[q].file /\ r.commit = req[q].commit
      BY <3>1 DEF Request
    <3> HIDE DEF r
    <3> QED
      BY <3>1, <3>2 DEF FillsFit, TypeOK
  <2>8. CASE FinishCommit(q) \/ FinishDrop(q)
    <3>1. req[q].key \in Keys
      BY <2>8 DEF FinishCommit, FinishDrop, FillsFit
    <3> QED
      BY <2>8, <3>1, <1>1, <1>2 DEF FinishCommit, FinishDrop
  <2> QED
    BY <1>3, <2>1, <2>2, <2>3, <2>4, <2>5, <2>6, <2>7, <2>8 DEF RequestStep
<1>4. CASE Restart
  BY <1>4, <1>2 DEF Restart, FillsFit, At, Request
<1>5. CASE UNCHANGED vars
  BY <1>5 DEF vars, FillsFit, TypeOK
<1> QED
  BY <1>3, <1>4, <1>5, NextCases

(* The mutex is held by one download, which knows that a slot is free.     *)
LEMMA ExclusiveStep == TypeOK /\ Exclusive /\ [Next]_vars => Exclusive'
<1> SUFFICES ASSUME TypeOK, Exclusive, [Next]_vars PROVE Exclusive'
  OBVIOUS
<1>1. ASSUME NEW q \in Requests, NEW r, To(q, r), r.phase # "reserve", active' = active
      PROVE  Exclusive'
  BY <1>1 DEF To, Exclusive, TypeOK
<1>2. ASSUME NEW q \in Requests, NEW r, To(q, r), r.phase # "reserve", Free
      PROVE  Exclusive'
  BY <1>2 DEF To, Exclusive, Free, TypeOK
<1>3. ASSUME NEW q \in Requests, RequestStep(q) PROVE Exclusive'
  <2>1. ASSUME NEW k \in Keys, OpenHit(q, k) \/ OpenMiss(q, k) \/ OpenBroken(q, k)
        PROVE  Exclusive'
    BY <2>1, <1>2 DEF OpenHit, OpenMiss, OpenBroken, At
  <2>2. CASE FetchFail(q) \/ CloseStream(q) \/ CloseFill(q) \/ EvictNone(q)
    BY <2>2, <1>1 DEF FetchFail, CloseStream, CloseFill, EvictNone, At, TypeOK, Request
  <2>3. CASE FetchDone(q)
    BY <2>3 DEF FetchDone, NoSlot, At, To, Exclusive, Free, TypeOK
  <2>4. CASE Evict(q)
    BY <2>4 DEF Evict, Exclusive
  <2>5. CASE CreateTemp(q)
    <3>1. PICK r : To(q, r) /\ r.phase # "reserve"
      BY <2>5 DEF CreateTemp, At
    <3> QED
      BY <2>5, <3>1 DEF CreateTemp, To, Exclusive, TypeOK
  <2>6. CASE Read(q)
    <3>1. PICK r : To(q, r) /\ r.phase # "reserve"
      BY <2>6 DEF Read
    <3> QED
      BY <2>6, <3>1, <1>1 DEF Read
  <2>7. CASE FinishCommit(q) \/ FinishDrop(q) \/ CloseHit(q)
    BY <2>7, <1>2 DEF FinishCommit, FinishDrop, CloseHit, At
  <2> QED
    BY <1>3, <2>1, <2>2, <2>3, <2>4, <2>5, <2>6, <2>7 DEF RequestStep
<1>4. CASE Restart
  BY <1>4 DEF Restart, Exclusive, At
<1>5. CASE UNCHANGED vars
  BY <1>5 DEF vars, Exclusive
<1> QED
  BY <1>3, <1>4, <1>5, NextCases

-----------------------------------------------------------------------------
(* The reservations: one more fill when a temporary file is created, one   *)
(* less when a fill is finished.                                           *)
LEMMA FillsChange ==
    ASSUME TypeOK, NEW q \in Requests, RequestStep(q)
    PROVE  /\ CreateTemp(q) /\ active' # active => Fills' = Fills \cup {q} /\ q \notin Fills
           /\ FinishCommit(q) \/ FinishDrop(q) => Fills' = Fills \ {q} /\ q \in Fills
           /\ ~(CreateTemp(q) /\ active' # active) /\ ~FinishCommit(q) /\ ~FinishDrop(q)
                => Fills' = Fills /\ active' = active
<1> USE DEF Fills, Filling
<1>1. ASSUME NEW r, To(q, r)
      PROVE  /\ req'[q] = r
             /\ \A p \in Requests : p # q => req'[p] = req[p]
  BY <1>1 DEF To, TypeOK
<1>2. ASSUME NEW r, To(q, r), r.phase \notin {"fill", "finish"},
             req[q].phase \notin {"fill", "finish"}
      PROVE  Fills' = Fills
  BY <1>1, <1>2
<1>3. ASSUME CreateTemp(q), active' # active
      PROVE  Fills' = Fills \cup {q} /\ q \notin Fills
  BY <1>1, <1>3 DEF CreateTemp, At
<1>4. ASSUME FinishCommit(q) \/ FinishDrop(q)
      PROVE  Fills' = Fills \ {q} /\ q \in Fills
  BY <1>1, <1>4 DEF FinishCommit, FinishDrop, At
<1>5. ASSUME ~(CreateTemp(q) /\ active' # active), ~FinishCommit(q), ~FinishDrop(q)
      PROVE  Fills' = Fills /\ active' = active
  <2>1. ASSUME NEW k \in Keys, OpenHit(q, k) \/ OpenMiss(q, k) \/ OpenBroken(q, k)
        PROVE  Fills' = Fills /\ active' = active
    BY <2>1, <1>2 DEF OpenHit, OpenMiss, OpenBroken, At
  <2>2. CASE FetchFail(q) \/ FetchDone(q) \/ EvictNone(q) \/ CloseStream(q) \/ CloseHit(q)
    BY <2>2, <1>2 DEF FetchFail, FetchDone, EvictNone, CloseStream, CloseHit, At
  <2>3. CASE Evict(q)
    BY <2>3 DEF Evict
  <2>4. CASE CreateTemp(q)
    <3>1. To(q, At("stream", req[q].key)) /\ req[q].phase = "reserve"
      BY <1>5, <2>4 DEF CreateTemp, TypeOK
    <3> QED
      BY <1>2, <1>5, <2>4, <3>1 DEF At
  <2>5. CASE Read(q) \/ CloseFill(q)
    <3>1. PICK r : To(q, r) /\ r.phase \in {"fill", "finish"}
      <4>1. CASE Read(q)
        BY <4>1 DEF Read
      <4>2. CASE CloseFill(q)
        <5>1. [req[q] EXCEPT !.phase = "finish"].phase = "finish"
          BY DEF TypeOK, Request
        <5> QED
          BY <4>2, <5>1 DEF CloseFill
      <4> QED
        BY <2>5, <4>1, <4>2
    <3> QED
      BY <2>5, <3>1, <1>1 DEF Read, CloseFill
  <2> QED
    BY <1>5, <2>1, <2>2, <2>3, <2>4, <2>5 DEF RequestStep
<1> QED
  BY <1>3, <1>4, <1>5

(* What a step may do to the byte count and to the list.                   *)
LEMMA IndexChange ==
    ASSUME TypeOK, NEW q \in Requests, RequestStep(q), ~FinishCommit(q)
    PROVE  /\ bytes' \in Int /\ bytes' <= bytes
           /\ lru' \in Seq(Keys) /\ Len(lru') <= Len(lru)
<1> USE DEF TypeOK
<1>0. Len(lru) \in Nat
  BY LenProperties
<1>1. ASSUME NEW i \in DOMAIN lru, RemoveEntry(i)
      PROVE  bytes' \in Int /\ bytes' <= bytes /\ lru' \in Seq(Keys) /\ Len(lru') <= Len(lru)
  <2>1. lru[i] \in Keys
    BY LenProperties
  <2>2. size[lru[i]] \in Nat
    BY <2>1
  <2>3. RemoveAt(lru, i) \in Seq(Keys) /\ Len(RemoveAt(lru, i)) = Len(lru) - 1
    BY RemoveAtFacts
  <2>4. lru' = RemoveAt(lru, i) /\ bytes' = bytes - size[lru[i]]
    BY <1>1 DEF RemoveEntry
  <2> HIDE DEF TypeOK
  <2>5. bytes \in Int
    BY DEF TypeOK
  <2> QED
    BY <1>0, <2>2, <2>3, <2>4, <2>5
<1>2. ASSUME UNCHANGED <<bytes, lru>>
      PROVE  bytes' \in Int /\ bytes' <= bytes /\ lru' \in Seq(Keys) /\ Len(lru') <= Len(lru)
  BY <1>0, <1>2
<1>3. ASSUME NEW k \in Keys, OpenHit(q, k)
      PROVE  bytes' \in Int /\ bytes' <= bytes /\ lru' \in Seq(Keys) /\ Len(lru') <= Len(lru)
  <2>1. PICK i \in DOMAIN lru : lru' = <<k>> \o RemoveAt(lru, i)
    BY <1>3 DEF OpenHit
  <2>2. RemoveAt(lru, i) \in Seq(Keys) /\ Len(RemoveAt(lru, i)) = Len(lru) - 1
    BY RemoveAtFacts
  <2>3. lru' \in Seq(Keys) /\ Len(lru') = Len(lru)
    BY <1>0, <2>1, <2>2, PushFacts
  <2> QED
    BY <1>0, <1>3, <2>3 DEF OpenHit
<1>4. ASSUME NEW k \in Keys, OpenBroken(q, k)
      PROVE  bytes' \in Int /\ bytes' <= bytes /\ lru' \in Seq(Keys) /\ Len(lru') <= Len(lru)
  BY <1>4, <1>1, <1>2 DEF OpenBroken, Index
<1>5. CASE Evict(q)
  BY <1>5, <1>1 DEF Evict
<1> QED
  BY <1>2, <1>3, <1>4, <1>5
     DEF RequestStep, OpenMiss, FetchFail, FetchDone, EvictNone, CreateTemp, Read,
         CloseFill, FinishDrop, CloseStream, CloseHit, Index

(* The budget, the slots and the count of fills survive every step.        *)
LEMMA ReservedStep ==
    CacheInv /\ [Next]_vars =>
        Reserved' /\ bytes' \in Int /\ active' \in Nat /\ lru' \in Seq(Keys)
<1> SUFFICES ASSUME CacheInv, [Next]_vars
             PROVE  Reserved' /\ bytes' \in Int /\ active' \in Nat /\ lru' \in Seq(Keys)
  OBVIOUS
<1>0. /\ TypeOK /\ Reserved
      /\ bytes \in Int /\ active \in Nat /\ lru \in Seq(Keys) /\ Len(lru) \in Nat
      /\ active = Cardinality(Fills)
  BY LenProperties DEF CacheInv, TypeOK, Reserved, Fills
<1>i. bytes \in Int /\ active \in Nat /\ Len(lru) \in Nat
  BY <1>0
<1>s. Len(lru) + active <= MaxEntries /\ active <= MaxActive
  BY <1>0 DEF Reserved
<1>1. /\ bytes + active * ObjectLimit <= Limit
      /\ Len(lru) + active <= MaxEntries /\ active <= MaxActive
      /\ active * ObjectLimit \in Int
  BY <1>0, ProductFacts DEF Reserved
<1>p. PICK p \in Int : p = active * ObjectLimit
  BY <1>1
<1>b. bytes + p <= Limit
  BY <1>1, <1>p
<1>2. ASSUME /\ bytes' \in Int /\ active' \in Int /\ lru' \in Seq(Keys) /\ Len(lru') \in Nat
             /\ bytes' + active' * ObjectLimit <= Limit
             /\ Len(lru') + active' <= MaxEntries /\ active' <= MaxActive
             /\ active' = Cardinality(Fills')
      PROVE  Reserved' /\ bytes' \in Int /\ active' \in Nat /\ lru' \in Seq(Keys)
  <2>1. Cardinality(Fills') \in Nat
    <3>1. Fills' \subseteq Requests
      BY DEF Fills
    <3> QED
      BY <3>1, FiniteRequests, FS_Subset, FS_CardinalityType
  <2> QED
    BY <1>2, <2>1 DEF Reserved, Fills
<1>3. ASSUME NEW q \in Requests, RequestStep(q)
      PROVE  Reserved' /\ bytes' \in Int /\ active' \in Nat /\ lru' \in Seq(Keys)
  <2>1. CASE CreateTemp(q) /\ active' # active
    <3>1. active' = active + 1 /\ bytes' = bytes /\ lru' = lru
      BY <2>1 DEF CreateTemp, Index
    <3>z. PICK z \in Int : z = (active + 1) * ObjectLimit
      BY <1>i, ProductFacts
    <3>2. bytes + z <= Limit /\ Len(lru) + active < MaxEntries
      <4>1. ~(bytes + z > Limit) /\ ~(Len(lru) + active >= MaxEntries)
        BY <2>1, <3>z DEF CreateTemp, Full
      <4> QED
        BY <1>i, <4>1, CacheAssumption
    <3>3. active < MaxActive
      BY <2>1 DEF CreateTemp, CacheInv, Exclusive
    <3>4. Cardinality(Fills') = active + 1
      BY <2>1, <1>0, <1>3, FillsChange, Finite, FS_AddElement
    <3>5. /\ bytes' + active' * ObjectLimit <= Limit
          /\ Len(lru') + active' <= MaxEntries /\ active' <= MaxActive
          /\ active' = Cardinality(Fills')
      <4>1. bytes' + active' * ObjectLimit <= Limit
        BY <3>1, <3>2, <3>z
      <4>2. Len(lru') + active' <= MaxEntries /\ active' <= MaxActive
        BY <1>i, <3>1, <3>2, <3>3, CacheAssumption
      <4> QED
        BY <3>1, <3>4, <4>1, <4>2
    <3>6. bytes' \in Int /\ active' \in Int /\ lru' \in Seq(Keys) /\ Len(lru') \in Nat
      BY <1>0, <3>1
    <3> QED
      BY <1>2, <3>5, <3>6
  <2>2. CASE FinishCommit(q)
    <3>1. Cardinality(Fills') = active - 1
      BY <2>2, <1>0, <1>3, FillsChange, Finite, FS_RemoveElement
    <3>2. req[q].key \in Keys /\ req[q].size \in Nat /\ req[q].size <= ObjectLimit
      BY <2>2 DEF FinishCommit, CacheInv, FillsFit, TypeOK, Request
    <3>3. lru' = <<req[q].key>> \o lru /\ bytes' = bytes + req[q].size /\ active' = active - 1
      BY <2>2 DEF FinishCommit
    <3>4. lru' \in Seq(Keys) /\ Len(lru') = Len(lru) + 1
      BY <1>0, <3>2, <3>3, PushFacts
    <3>5. active' * ObjectLimit = active * ObjectLimit - ObjectLimit
      BY <1>0, <3>3, ProductFacts
    <3>6. bytes + req[q].size + (p - ObjectLimit) <= Limit
      BY <1>0, <1>b, <3>2
    <3>7. bytes' + active' * ObjectLimit <= Limit
      BY <1>p, <3>3, <3>5, <3>6
    <3>8. /\ Len(lru') + active' <= MaxEntries /\ active' <= MaxActive
          /\ bytes' \in Int /\ active' \in Int /\ Len(lru') \in Nat
      BY <1>i, <1>s, <3>2, <3>3, <3>4
    <3> QED
      BY <1>2, <3>1, <3>3, <3>4, <3>7, <3>8
  <2>3. CASE FinishDrop(q)
    <3>1. Cardinality(Fills') = active - 1
      BY <2>3, <1>0, <1>3, FillsChange, Finite, FS_RemoveElement
    <3>2. lru' = lru /\ bytes' = bytes /\ active' = active - 1
      BY <2>3 DEF FinishDrop, Index
    <3>3. active' * ObjectLimit = active * ObjectLimit - ObjectLimit
      BY <1>0, <3>2, ProductFacts
    <3>4. bytes + (p - ObjectLimit) <= Limit
      BY <1>0, <1>b
    <3>5. bytes' + active' * ObjectLimit <= Limit
      BY <1>p, <3>2, <3>3, <3>4
    <3>6. /\ Len(lru') + active' <= MaxEntries /\ active' <= MaxActive
          /\ bytes' \in Int /\ active' \in Int /\ Len(lru') \in Nat /\ lru' \in Seq(Keys)
      BY <1>0, <1>i, <1>s, <3>2
    <3> QED
      BY <1>2, <3>1, <3>2, <3>5, <3>6
  <2>4. CASE ~(CreateTemp(q) /\ active' # active) /\ ~FinishCommit(q) /\ ~FinishDrop(q)
    <3>1. Fills' = Fills /\ active' = active
      BY <2>4, <1>0, <1>3, FillsChange
    <3>2. bytes' \in Int /\ bytes' <= bytes /\ lru' \in Seq(Keys) /\ Len(lru') <= Len(lru)
      BY <2>4, <1>0, <1>3, IndexChange
    <3>3. Len(lru') \in Nat
      BY <3>2, LenProperties
    <3>4. bytes' + p <= Limit
      <4>1. PICK b \in Int : b = bytes'
        BY <3>2
      <4>2. b <= bytes
        BY <3>2, <4>1
      <4>3. b + p <= Limit
        BY <1>i, <1>b, <4>2, LessFits
      <4> QED
        BY <4>1, <4>3
    <3>5. bytes' + active' * ObjectLimit <= Limit
      BY <1>p, <3>1, <3>4
    <3>6. Len(lru') + active' <= MaxEntries /\ active' <= MaxActive
      BY <1>i, <1>s, <3>1, <3>2, <3>3
    <3> QED
      BY <1>0, <1>2, <3>1, <3>2, <3>3, <3>5, <3>6
  <2> QED
    BY <2>1, <2>2, <2>3, <2>4
<1>4. CASE Restart
  <2>1. Fills' = {} /\ bytes' = 0 /\ active' = 0 /\ lru' = <<>>
    BY <1>4 DEF Restart, Fills, Filling, At
  <2> QED
    BY <1>2, <2>1, FS_EmptySet
<1>5. CASE UNCHANGED vars
  <2>1. Fills' = Fills /\ UNCHANGED <<bytes, active, lru>>
    BY <1>5 DEF vars, Fills, Filling
  <2> QED
    BY <1>0, <1>1, <1>2, <2>1
<1> QED
  BY <1>3, <1>4, <1>5, NextCases

-----------------------------------------------------------------------------
(* The hits of a key: opened and closed by their own downloads only.       *)
LEMMA HitsChange ==
    ASSUME TypeOK, NEW q \in Requests, RequestStep(q), NEW k \in Keys
    PROVE  /\ OpenHit(q, k) => Hits(k)' = Hits(k) \cup {q} /\ q \notin Hits(k)
           /\ CloseHit(q) /\ req[q].key = k => Hits(k)' = Hits(k) \ {q} /\ q \in Hits(k)
           /\ ~OpenHit(q, k) /\ ~(CloseHit(q) /\ req[q].key = k) => Hits(k)' = Hits(k)
<1> USE DEF Hits
<1>1. ASSUME NEW r, To(q, r)
      PROVE  /\ req'[q] = r
             /\ \A p \in Requests : p # q => req'[p] = req[p]
  BY <1>1 DEF To, TypeOK
<1>2. ASSUME NEW r, To(q, r), r.phase # "hit" \/ r.key # k,
             req[q].phase # "hit" \/ req[q].key # k
      PROVE  Hits(k)' = Hits(k)
  BY <1>1, <1>2
<1>3. ASSUME OpenHit(q, k) PROVE Hits(k)' = Hits(k) \cup {q} /\ q \notin Hits(k)
  BY <1>1, <1>3 DEF OpenHit, At
<1>4. ASSUME CloseHit(q), req[q].key = k PROVE Hits(k)' = Hits(k) \ {q} /\ q \in Hits(k)
  BY <1>1, <1>4 DEF CloseHit, At
<1>5. ASSUME ~OpenHit(q, k), ~(CloseHit(q) /\ req[q].key = k) PROVE Hits(k)' = Hits(k)
  <2>1. ASSUME NEW l \in Keys, OpenHit(q, l) \/ OpenMiss(q, l) \/ OpenBroken(q, l)
        PROVE  Hits(k)' = Hits(k)
    BY <2>1, <1>2, <1>5 DEF OpenHit, OpenMiss, OpenBroken, At
  <2>2. CASE FetchFail(q) \/ FetchDone(q) \/ EvictNone(q) \/ CreateTemp(q) \/ CloseStream(q)
    BY <2>2, <1>2 DEF FetchFail, FetchDone, EvictNone, CreateTemp, CloseStream, At
  <2>3. CASE Evict(q)
    BY <2>3 DEF Evict
  <2>4. CASE Read(q) \/ CloseFill(q)
    <3>1. PICK r : To(q, r) /\ r.phase \in {"fill", "finish"}
      <4>1. CASE Read(q)
        BY <4>1 DEF Read
      <4>2. CASE CloseFill(q)
        <5>1. [req[q] EXCEPT !.phase = "finish"].phase = "finish"
          BY DEF TypeOK, Request
        <5> QED
          BY <4>2, <5>1 DEF CloseFill
      <4> QED
        BY <2>4, <4>1, <4>2
    <3> QED
      BY <2>4, <3>1, <1>2 DEF Read, CloseFill
  <2>5. CASE FinishCommit(q) \/ FinishDrop(q)
    BY <2>5, <1>2 DEF FinishCommit, FinishDrop, At
  <2>6. CASE CloseHit(q)
    BY <2>6, <1>2, <1>5 DEF CloseHit, At
  <2> QED
    BY <2>1, <2>2, <2>3, <2>4, <2>5, <2>6 DEF RequestStep
<1> QED
  BY <1>3, <1>4, <1>5

(* Readers are counted exactly, and an entry with readers stays.           *)
LEMMA ReadersStep ==
    CacheInv /\ [Next]_vars => ReadersKeepFile' /\ readers' \in [Keys -> Nat]
<1> SUFFICES ASSUME CacheInv, [Next]_vars
             PROVE  ReadersKeepFile' /\ readers' \in [Keys -> Nat]
  OBVIOUS
<1>0. TypeOK /\ ReadersKeepFile /\ lru \in Seq(Keys)
  BY DEF CacheInv, TypeOK
<1>1. SUFFICES /\ readers' = [k \in Keys |-> readers'[k]]
               /\ \A k \in Keys : /\ readers'[k] = Cardinality(Hits(k)')
                                  /\ Hits(k)' # {} => k \in entries'
  <2>1. \A k \in Keys : Hits(k)' \subseteq Requests
    BY DEF Hits
  <2>2. \A k \in Keys : Cardinality(Hits(k)') \in Nat
    BY <2>1, FiniteRequests, FS_Subset, FS_CardinalityType
  <2> QED
    BY <1>1, <2>2 DEF ReadersKeepFile
<1>2. ASSUME NEW q \in Requests, RequestStep(q)
      PROVE  /\ readers' = [k \in Keys |-> readers'[k]]
             /\ \A k \in Keys : /\ readers'[k] = Cardinality(Hits(k)')
                                /\ Hits(k)' # {} => k \in entries'
  <2>1. ASSUME NEW l \in Keys, OpenHit(q, l)
        PROVE  /\ readers' = [k \in Keys |-> readers'[k]]
               /\ \A k \in Keys : /\ readers'[k] = Cardinality(Hits(k)')
                                  /\ Hits(k)' # {} => k \in entries'
    <3>1. readers' = [readers EXCEPT ![l] = @ + 1] /\ entries' = entries /\ l \in entries
      BY <2>1 DEF OpenHit
    <3>2. Cardinality(Hits(l)') = Cardinality(Hits(l)) + 1
      BY <1>0, <1>2, <2>1, HitsChange, Finite, FS_AddElement
    <3>3. \A k \in Keys : k # l => Hits(k)' = Hits(k)
      <4> SUFFICES ASSUME NEW k \in Keys, k # l PROVE Hits(k)' = Hits(k)
        OBVIOUS
      <4>1. ~CloseHit(q)
        BY <2>1 DEF OpenHit, CloseHit
      <4>2. ~OpenHit(q, k)
        <5>1. req'[q].key = l
          BY <1>0, <2>1 DEF OpenHit, To, At, TypeOK
        <5>2. OpenHit(q, k) => req'[q].key = k
          BY <1>0 DEF OpenHit, To, At, TypeOK
        <5> QED
          BY <5>1, <5>2
      <4> QED
        BY <1>0, <1>2, <4>1, <4>2, HitsChange
    <3> QED
      BY <1>0, <3>1, <3>2, <3>3 DEF ReadersKeepFile, TypeOK
  <2>2. CASE CloseHit(q)
    <3>1. PICK l \in Keys : l = req[q].key
      BY <2>2 DEF CloseHit, CacheInv, FillsFit
    <3>2. readers' = [readers EXCEPT ![l] = @ - 1] /\ entries' = entries
      BY <2>2, <3>1 DEF CloseHit
    <3>3. Cardinality(Hits(l)') = Cardinality(Hits(l)) - 1 /\ Hits(l) # {}
      <4>1. Hits(l)' = Hits(l) \ {q} /\ q \in Hits(l)
        BY <1>0, <1>2, <2>2, <3>1, HitsChange
      <4>2. IsFiniteSet(Hits(l))
        BY Finite
      <4> QED
        BY <4>1, <4>2, FS_RemoveElement
    <3>4. \A k \in Keys : k # l => Hits(k)' = Hits(k)
      BY <1>0, <1>2, <2>2, <3>1, HitsChange DEF CloseHit, OpenHit
    <3> QED
      BY <1>0, <3>1, <3>2, <3>3, <3>4 DEF ReadersKeepFile, TypeOK
  <2>3. CASE ~CloseHit(q) /\ \A l \in Keys : ~OpenHit(q, l)
    <3>1. \A k \in Keys : Hits(k)' = Hits(k)
      BY <1>0, <1>2, <2>3, HitsChange
    <3>2. SUFFICES /\ readers' = [k \in Keys |-> readers'[k]]
                   /\ \A k \in Keys : /\ readers'[k] = readers[k]
                                      /\ readers[k] # 0 /\ k \in entries => k \in entries'
      <4>1. \A k \in Keys : Hits(k) # {} => readers[k] # 0 /\ k \in entries
        BY <1>0, Finite, FS_EmptySet DEF ReadersKeepFile
      <4>2. \A k \in Keys : readers[k] = Cardinality(Hits(k))
        BY <1>0 DEF ReadersKeepFile
      <4> QED
        BY <3>1, <3>2, <4>1, <4>2
    <3>3. ASSUME NEW i \in DOMAIN lru, readers[lru[i]] = 0, RemoveEntry(i)
          PROVE  /\ readers' = [k \in Keys |-> readers'[k]]
                 /\ \A k \in Keys : /\ readers'[k] = readers[k]
                                    /\ readers[k] # 0 /\ k \in entries => k \in entries'
      BY <1>0, <3>3 DEF RemoveEntry, TypeOK
    <3>4. CASE FinishCommit(q)
      <4>1. req[q].key \in Keys /\ req[q].key \notin entries
        BY <3>4 DEF FinishCommit, CacheInv, FillsFit
      <4>2. readers[req[q].key] = 0
        BY <1>0, <4>1, FS_EmptySet DEF ReadersKeepFile
      <4> QED
        BY <1>0, <3>4, <4>1, <4>2 DEF FinishCommit, TypeOK
    <3>5. ASSUME UNCHANGED <<readers, entries>>
          PROVE  /\ readers' = [k \in Keys |-> readers'[k]]
                 /\ \A k \in Keys : /\ readers'[k] = readers[k]
                                    /\ readers[k] # 0 /\ k \in entries => k \in entries'
      BY <1>0, <3>5 DEF TypeOK
    <3>6. ASSUME NEW k \in Keys, OpenBroken(q, k)
          PROVE  \/ UNCHANGED <<readers, entries>>
                 \/ \E i \in DOMAIN lru : readers[lru[i]] = 0 /\ RemoveEntry(i)
      BY <3>6 DEF OpenBroken, Index
    <3>7. CASE Evict(q)
      BY <3>7, <3>3 DEF Evict, Evictable
    <3> QED
      BY <1>2, <2>3, <3>3, <3>4, <3>5, <3>6, <3>7
         DEF RequestStep, OpenMiss, FetchFail, FetchDone, EvictNone, CreateTemp, Read,
             CloseFill, FinishDrop, CloseStream, Index
  <2> QED
    BY <2>1, <2>2, <2>3
<1>3. CASE Restart
  <2>1. \A k \in Keys : Hits(k)' = {} /\ readers'[k] = 0
    BY <1>3 DEF Restart, Hits, At
  <2> QED
    BY <1>3, <2>1, FS_EmptySet DEF Restart
<1>4. CASE UNCHANGED vars
  <2>1. UNCHANGED <<readers, entries>> /\ \A k \in Keys : Hits(k)' = Hits(k)
    BY <1>4 DEF vars, Hits
  <2> QED
    BY <1>0, <2>1 DEF ReadersKeepFile, TypeOK
<1> QED
  BY <1>2, <1>3, <1>4, NextCases

-----------------------------------------------------------------------------
(* Entries hold whole objects: a commit renames a file that was read to    *)
(* its end, and nothing else writes a blob of the index.                   *)
LEMMA CompleteStep ==
    CacheInv /\ [Next]_vars =>
        /\ CompleteOnly'
        /\ entries' \in SUBSET Keys
        /\ size' \in [Keys -> Nat] /\ blob' \in [Keys -> Nat \cup {None}]
<1> DEFINE Goal == /\ CompleteOnly'
                   /\ entries' \in SUBSET Keys
                   /\ size' \in [Keys -> Nat] /\ blob' \in [Keys -> Nat \cup {None}]
<1> SUFFICES ASSUME CacheInv, [Next]_vars PROVE Goal
  OBVIOUS
<1>0. TypeOK /\ CompleteOnly
  BY DEF CacheInv
<1>1. ASSUME NEW i \in DOMAIN lru, RemoveEntry(i) PROVE Goal
  BY <1>0, <1>1 DEF RemoveEntry, CompleteOnly, TypeOK
<1>2. ASSUME UNCHANGED <<entries, size, blob>> PROVE Goal
  BY <1>0, <1>2 DEF CompleteOnly, TypeOK
<1>3. ASSUME NEW q \in Requests, FinishCommit(q) PROVE Goal
  <2>1. /\ req[q].key \in Keys /\ req[q].file \in Nat /\ req[q].size \in Nat
        /\ req[q].file = req[q].size /\ req[q].size = Size[req[q].key]
    BY <1>3 DEF FinishCommit, CacheInv, FillsFit, TypeOK, Request
  <2>2. /\ entries' = entries \cup {req[q].key}
        /\ size' = [size EXCEPT ![req[q].key] = req[q].size]
        /\ blob' = [blob EXCEPT ![req[q].key] = req[q].file]
    BY <1>3 DEF FinishCommit
  <2> QED
    BY <1>0, <2>1, <2>2 DEF CompleteOnly, TypeOK
<1>4. CASE Restart
  BY <1>4 DEF Restart, CompleteOnly
<1>5. ASSUME NEW q \in Requests, RequestStep(q) PROVE Goal
  <2> HIDE DEF Goal
  <2>1. ASSUME NEW k \in Keys, OpenBroken(q, k) PROVE Goal
    BY <2>1, <1>1, <1>2 DEF OpenBroken, Index
  <2>2. CASE Evict(q)
    BY <2>2, <1>1 DEF Evict
  <2> QED
    BY <1>2, <1>3, <1>5, <2>1, <2>2
       DEF RequestStep, OpenHit, OpenMiss, FetchFail, FetchDone, EvictNone, CreateTemp,
           Read, CloseFill, FinishDrop, CloseStream, CloseHit, Index
<1>6. CASE UNCHANGED vars
  BY <1>2, <1>6 DEF vars
<1> QED
  BY <1>4, <1>5, <1>6, NextCases

-----------------------------------------------------------------------------
(* The entries are finitely many, so their lengths have a sum.             *)
LEMMA EntriesFinite ==
    ASSUME TypeOK, IndexExact
    PROVE  /\ IsFiniteSet(entries)
           /\ \A k \in entries : k \in Keys /\ size[k] \in Nat
BY ListCount DEF TypeOK, IndexExact

(* remove takes one entry out of the list, the index, the disk and the     *)
(* byte count.                                                             *)
LEMMA RemoveExact ==
    ASSUME TypeOK, IndexExact, NEW i \in DOMAIN lru, RemoveEntry(i)
    PROVE  IndexExact'
<1> DEFINE k == lru[i]
<1>1. lru \in Seq(Keys) /\ IsInjective(lru) /\ entries = Range(lru)
  BY DEF TypeOK, IndexExact
<1>2. k \in Keys /\ k \in entries
  BY <1>1, LenProperties DEF Range
<1>3. lru' = RemoveAt(lru, i) /\ entries' = entries \ {k}
  BY DEF RemoveEntry
<1>4. entries' = Range(lru') /\ IsInjective(lru')
  BY <1>1, <1>3, RemoveAtRange
<1> HIDE DEF k
<1>5. /\ blob' = [blob EXCEPT ![k] = None]
      /\ size' = [size EXCEPT ![k] = 0]
      /\ bytes' = bytes - size[k]
  BY DEF RemoveEntry, k
<1>6. OnDisk' = entries'
  BY <1>2, <1>3, <1>5 DEF OnDisk, TypeOK, IndexExact
<1>7. bytes' = SumFunctionOnSet(size', entries')
  <2>1. IsFiniteSet(entries) /\ \A x \in entries : x \in Keys /\ size[x] \in Nat
    BY EntriesFinite
  <2>2. SumFunctionOnSet(size, entries) = size[k] + SumFunctionOnSet(size, entries \ {k})
    BY <1>2, <2>1, SumTake
  <2>3. IsFiniteSet(entries')
    BY <1>3, <2>1, FS_Subset
  <2>4. \A x \in entries' : size[x] = size'[x]
    BY <1>3, <1>5, <2>1 DEF TypeOK
  <2>5. SumFunctionOnSet(size, entries') = SumFunctionOnSet(size', entries')
    BY <2>3, <2>4, SumSame
  <2>6. SumFunctionOnSet(size, entries') \in Nat /\ size[k] \in Nat
    BY <1>2, <1>3, <2>1, <2>3, SumNat
  <2>7. bytes = size[k] + SumFunctionOnSet(size, entries')
    BY <1>3, <2>2 DEF IndexExact
  <2> QED
    BY <1>5, <2>5, <2>6, <2>7
<1> QED
  BY <1>4, <1>6, <1>7 DEF IndexExact

(* A commit adds one entry to the list, the index, the disk and the byte   *)
(* count.                                                                  *)
LEMMA CommitExact ==
    ASSUME CacheInv, NEW q \in Requests, FinishCommit(q)
    PROVE  IndexExact'
<1> DEFINE k == req[q].key
           n == req[q].size
<1>1. TypeOK /\ IndexExact
  BY DEF CacheInv
<1>2. /\ lru \in Seq(Keys) /\ IsInjective(lru) /\ entries = Range(lru)
      /\ k \in Keys /\ k \notin entries /\ n \in Nat /\ req[q].file \in Nat
  BY <1>1 DEF FinishCommit, CacheInv, FillsFit, TypeOK, Request, IndexExact
<1>3. /\ lru' = <<k>> \o lru /\ entries' = entries \cup {k}
      /\ blob' = [blob EXCEPT ![k] = req[q].file]
      /\ size' = [size EXCEPT ![k] = n]
      /\ bytes' = bytes + n
  BY DEF FinishCommit
<1> HIDE DEF k, n
<1>4. entries' = Range(lru') /\ IsInjective(lru')
  BY <1>2, <1>3, PushFacts
<1>5. OnDisk' = entries'
  <2>1. req[q].file # None
    BY <1>2
  <2> QED
    BY <1>1, <1>2, <1>3, <2>1 DEF OnDisk, TypeOK, IndexExact
<1>6. bytes' = SumFunctionOnSet(size', entries')
  <2>1. IsFiniteSet(entries) /\ \A x \in entries : x \in Keys /\ size[x] \in Nat
    BY <1>1, EntriesFinite
  <2>2. size'[k] = n /\ \A x \in entries : size'[x] = size[x]
    BY <1>1, <1>2, <1>3, <2>1 DEF TypeOK
  <2>3. \A x \in entries \cup {k} : size'[x] \in Nat
    BY <1>2, <2>1, <2>2
  <2>4. SumFunctionOnSet(size', entries \cup {k}) = size'[k] + SumFunctionOnSet(size', entries)
    BY <1>2, <2>1, <2>3, SumAdd
  <2>5. SumFunctionOnSet(size', entries) = SumFunctionOnSet(size, entries)
    BY <2>1, <2>2, SumSame
  <2>6. bytes = SumFunctionOnSet(size, entries) /\ bytes \in Nat
    BY <1>1, <2>1, SumNat DEF IndexExact
  <2> QED
    BY <1>2, <1>3, <2>2, <2>4, <2>5, <2>6
<1> QED
  BY <1>4, <1>5, <1>6 DEF IndexExact

(* A hit moves to the front.                                               *)
LEMMA HitExact ==
    ASSUME TypeOK, IndexExact, NEW q \in Requests, NEW k \in Keys, OpenHit(q, k)
    PROVE  IndexExact'
<1>1. lru \in Seq(Keys) /\ IsInjective(lru) /\ entries = Range(lru)
  BY DEF TypeOK, IndexExact
<1>2. PICK i \in DOMAIN lru : lru[i] = k /\ lru' = <<k>> \o RemoveAt(lru, i)
  BY DEF OpenHit
<1>3. /\ RemoveAt(lru, i) \in Seq(Keys) /\ IsInjective(RemoveAt(lru, i))
      /\ Range(RemoveAt(lru, i)) = entries \ {k}
  BY <1>1, <1>2, RemoveAtFacts, RemoveAtRange
<1>4. k \in entries /\ UNCHANGED <<entries, size, bytes, blob>>
  BY DEF OpenHit
<1>5. Range(lru') = (entries \ {k}) \cup {k} /\ IsInjective(lru')
  BY <1>2, <1>3, PushFacts
<1>6. Range(lru') = entries
  BY <1>4, <1>5
<1> QED
  BY <1>4, <1>5, <1>6 DEF IndexExact, OnDisk

(* The list, the index, the disk and the byte count stay together.         *)
LEMMA IndexStep == CacheInv /\ [Next]_vars => IndexExact'
<1> SUFFICES ASSUME CacheInv, [Next]_vars PROVE IndexExact'
  OBVIOUS
<1>0. TypeOK /\ IndexExact
  BY DEF CacheInv
<1>1. ASSUME UNCHANGED <<entries, lru, size, bytes, blob>> PROVE IndexExact'
  BY <1>0, <1>1 DEF IndexExact, OnDisk
<1>2. ASSUME NEW q \in Requests, RequestStep(q) PROVE IndexExact'
  <2>1. ASSUME NEW k \in Keys, OpenHit(q, k) PROVE IndexExact'
    BY <1>0, <2>1, HitExact
  <2>2. ASSUME NEW k \in Keys, OpenBroken(q, k) PROVE IndexExact'
    BY <1>0, <1>1, <2>2, RemoveExact DEF OpenBroken, Index
  <2>3. CASE Evict(q)
    BY <1>0, <2>3, RemoveExact DEF Evict
  <2>4. CASE FinishCommit(q)
    BY <2>4, CommitExact
  <2> QED
    BY <1>1, <1>2, <2>1, <2>2, <2>3, <2>4
       DEF RequestStep, OpenMiss, FetchFail, FetchDone, EvictNone, CreateTemp, Read,
           CloseFill, FinishDrop, CloseStream, CloseHit, Index
<1>3. CASE Restart
  <2>1. entries' = {} /\ lru' = <<>> /\ bytes' = 0 /\ \A k \in Keys : blob'[k] = None
    BY <1>3 DEF Restart
  <2> QED
    BY <2>1, SumEmpty DEF IndexExact, OnDisk, Range, IsInjective
<1>4. CASE UNCHANGED vars
  BY <1>1, <1>4 DEF vars
<1> QED
  BY <1>2, <1>3, <1>4, NextCases

(* The files of the entries are what the byte count says, and the          *)
(* temporary files fit the reservations.                                   *)
LEMMA BudgetFollows == CacheInv => DiskBudget
<1> SUFFICES ASSUME CacheInv PROVE DiskBudget
  OBVIOUS
<1> DEFINE disk == SumFunctionOnSet(blob, OnDisk)
           temp == SumFunctionOnSet(TempFile, Fills)
<1>1. TypeOK /\ IndexExact
  BY DEF CacheInv
<1>2. IsFiniteSet(entries) /\ \A k \in entries : k \in Keys /\ size[k] \in Nat
  BY <1>1, EntriesFinite
<1>3. disk = bytes
  <2>1. \A k \in entries : blob[k] = size[k]
    BY DEF CacheInv, CompleteOnly
  <2>2. SumFunctionOnSet(blob, entries) = SumFunctionOnSet(size, entries)
    BY <1>2, <2>1, SumSame
  <2> QED
    BY <1>1, <2>2 DEF IndexExact
<1>4. IsFiniteSet(Fills)
  BY Finite
<1>5. \A q \in Fills : TempFile[q] \in Nat /\ TempFile[q] <= ObjectLimit
  BY DEF Fills, Filling, TempFile, CacheInv, FillsFit, TypeOK, Request
<1>6. temp \in Nat /\ temp <= Cardinality(Fills) * ObjectLimit
  BY <1>4, <1>5, SumNat, SumBound
<1>7. /\ active = Cardinality(Fills) /\ bytes + active * ObjectLimit <= Limit
      /\ bytes \in Int /\ active \in Nat
  BY DEF CacheInv, Reserved, TypeOK
<1>8. PICK p \in Int : p = active * ObjectLimit
  BY <1>7, ProductFacts
<1> HIDE DEF disk, temp
<1>9. temp <= p /\ bytes + p <= Limit
  BY <1>6, <1>7, <1>8
<1>10. disk + temp <= Limit
  BY <1>3, <1>6, <1>7, <1>9
<1> QED
  BY <1>10 DEF DiskBudget, disk, temp

(* The conjunction is an invariant.                                        *)
LEMMA Invariance == Spec => []CacheInv
<1>1. Init => CacheInv
  <2> SUFFICES ASSUME Init PROVE CacheInv
    OBVIOUS
  <2>1. Fills = {} /\ \A k \in Keys : Hits(k) = {}
    BY DEF Init, Fills, Filling, Hits, At
  <2>2. TypeOK /\ FillsFit /\ Exclusive /\ CompleteOnly
    BY DEF Init, TypeOK, FillsFit, Exclusive, CompleteOnly, At, Request
  <2>3. Reserved
    <3>1. 0 + 0 * ObjectLimit <= Limit
      OBVIOUS
    <3>2. bytes = 0 /\ active = 0 /\ Len(lru) = 0 /\ 0 = Cardinality(Fills)
      BY <2>1, FS_EmptySet DEF Init
    <3> QED
      BY <3>1, <3>2 DEF Reserved, Fills
  <2>4. ReadersKeepFile
    BY <2>1, FS_EmptySet DEF Init, ReadersKeepFile
  <2>5. IndexExact
    BY SumEmpty DEF Init, IndexExact, OnDisk, Range, IsInjective
  <2> QED
    BY <2>2, <2>3, <2>4, <2>5 DEF CacheInv
<1>2. CacheInv /\ [Next]_vars => CacheInv'
  <2> SUFFICES ASSUME CacheInv, [Next]_vars PROVE CacheInv'
    OBVIOUS
  <2>1. FillsFit' /\ req' \in [Requests -> Request]
    BY FillsFitStep DEF CacheInv
  <2>2. Exclusive'
    BY ExclusiveStep DEF CacheInv
  <2>3. Reserved' /\ bytes' \in Int /\ active' \in Nat /\ lru' \in Seq(Keys)
    BY ReservedStep
  <2>4. ReadersKeepFile' /\ readers' \in [Keys -> Nat]
    BY ReadersStep
  <2>5. /\ CompleteOnly' /\ entries' \in SUBSET Keys
        /\ size' \in [Keys -> Nat] /\ blob' \in [Keys -> Nat \cup {None}]
    BY CompleteStep
  <2>6. TypeOK'
    BY <2>1, <2>3, <2>4, <2>5 DEF TypeOK
  <2>7. IndexExact'
    BY IndexStep
  <2> QED
    BY <2>1, <2>2, <2>3, <2>4, <2>5, <2>6, <2>7 DEF CacheInv
<1> QED
  BY <1>1, <1>2, PTL DEF Spec

(* The state of the cache keeps its shape; no counter becomes negative.    *)
THEOREM TypeCorrect == Spec => []TypeOK
<1>1. CacheInv => TypeOK
  BY DEF CacheInv
<1> QED
  BY <1>1, Invariance, PTL

(* The reservations keep the cache within its budget and its entry slots,  *)
(* and every fill returns its slot exactly once.                           *)
THEOREM ReservedCorrect == Spec => []Reserved
<1>1. CacheInv => Reserved
  BY DEF CacheInv
<1> QED
  BY <1>1, Invariance, PTL

(* What is on disk, finished files and temporary ones, never exceeds       *)
(* IPFS_FILE_CACHE_BYTES, however many downloads fill the cache at a time. *)
THEOREM DiskBudgetCorrect == Spec => []DiskBudget
BY BudgetFollows, Invariance, PTL

(* Only objects that were read to their end are served from the cache,     *)
(* with their length.                                                      *)
THEOREM CompleteOnlyCorrect == Spec => []CompleteOnly
<1>1. CacheInv => CompleteOnly
  BY DEF CacheInv
<1> QED
  BY <1>1, Invariance, PTL

(* No file is taken away from under a hit.                                 *)
THEOREM ReadersKeepFileCorrect == Spec => []ReadersKeepFile
<1>1. CacheInv => ReadersKeepFile
  BY DEF CacheInv
<1> QED
  BY <1>1, Invariance, PTL
=============================================================================
