------------------------- MODULE ManifestCacheProofs -------------------------
(***************************************************************************)
(* What calls that share a fetch may conclude from its result, for any     *)
(* number of calls and CIDs and any sizes and bounds.                      *)
(***************************************************************************)
EXTENDS ManifestCache, CacheLemmas

(* The members of a flight are calls for its CID, its leader among them.   *)
Crew == \A c \in Cids : flight[c].at # "none" =>
          /\ flight[c].leader \in Calls
          /\ \A p \in flight[c].members : call[p].cid = c

(* What a flight holds: "canceled" only of a leader who has left, an error *)
(* or a manifest only as some fetch returned it.  While it is fetching it  *)
(* holds nothing yet.                                                      *)
FlightTrue == \A c \in Cids :
    /\ flight[c].at \in {"get", "fetch"} => flight[c].res = "ok"
    /\ flight[c].at = "put" => flight[c].res = "ok" /\ c \in fetched
    /\ flight[c].at = "land" /\ flight[c].res = "ok" => c \in fetched
    /\ flight[c].at = "land" /\ flight[c].res = "failed" => c \in failed
    /\ flight[c].at = "land" /\ flight[c].res = "canceled" => ~call[flight[c].leader].alive

(* What a call was sent is true of it: unless it shared the flight, a      *)
(* cancellation was its own.                                               *)
SentTrue == \A p \in Calls : chan[p] # None =>
    /\ chan[p].res = "ok" => call[p].cid \in fetched
    /\ chan[p].res = "failed" => call[p].cid \in failed
    /\ chan[p].res = "canceled" /\ ~chan[p].shared => ~call[p].alive

(* No manifest is in the list twice.                                       *)
OnceEach == IsInjective(lru)

(* Inductive.                                                              *)
ManifestInv == /\ TypeOK /\ Crew /\ FlightTrue /\ SentTrue
               /\ NoBorrowedCancel /\ NoBlame /\ OnlyFetched
               /\ OnceEach /\ Budget

(* Moving an entry to the front adds none and, in a list without           *)
(* duplicates, loses none.                                                 *)
LEMMA TouchedEntries ==
    ASSUME lru \in Seq(Cids), NEW c \in Entries
    PROVE  /\ Touched(c) \in Seq(Cids)
           /\ Range(Touched(c)) \subseteq Entries
           /\ OnceEach => /\ Range(Touched(c)) = Entries
                          /\ IsInjective(Touched(c))
                          /\ Len(Touched(c)) = Len(lru)
<1> DEFINE i == CHOOSE i \in DOMAIN lru : lru[i] = c
           s == RemoveAt(lru, i)
<1>1. i \in DOMAIN lru /\ lru[i] = c
  BY DEF Entries, Range
<1>2. Touched(c) = <<c>> \o s
  BY DEF Touched
<1> HIDE DEF i
<1>3. c \in Cids /\ Len(lru) \in Nat /\ DOMAIN lru = 1..Len(lru)
  BY <1>1, LenProperties
<1>4. /\ s \in Seq(Cids) /\ Len(s) = Len(lru) - 1
      /\ \A j \in 1..Len(lru) - 1 : s[j] = IF j < i THEN lru[j] ELSE lru[j + 1]
  BY <1>1, RemoveAtFacts
<1> HIDE DEF s
<1>t. c \in Cids /\ s \in Seq(Cids)
  BY <1>3, <1>4
<1>5. Range(s) \subseteq Entries
  <2>1. DOMAIN s = 1..Len(lru) - 1
    BY <1>4, LenProperties
  <2>2. \A j \in 1..Len(lru) - 1 : j \in DOMAIN lru /\ j + 1 \in DOMAIN lru
    BY <1>3
  <2>3. \A j \in 1..Len(lru) - 1 : s[j] \in Entries
    BY <1>4, <2>2 DEF Entries, Range
  <2> QED
    BY <2>1, <2>3 DEF Range
<1>6. /\ <<c>> \o s \in Seq(Cids) /\ Len(<<c>> \o s) = Len(s) + 1
      /\ Range(<<c>> \o s) = Range(s) \cup {c}
      /\ IsInjective(s) /\ c \notin Range(s) => IsInjective(<<c>> \o s)
  BY <1>t, PushFacts
<1>7. ASSUME OnceEach PROVE Range(s) = Entries \ {c} /\ IsInjective(s)
  BY <1>1, <1>7, RemoveAtRange DEF OnceEach, Entries, s
<1>8. Len(<<c>> \o s) = Len(lru)
  <2>1. Len(lru) \in Nat /\ Len(s) = Len(lru) - 1 /\ Len(<<c>> \o s) = Len(s) + 1
    BY <1>3, <1>4, <1>6
  <2>2. \A l \in Nat : (l - 1) + 1 = l
    OBVIOUS
  <2> QED
    BY <2>1, <2>2, Zenon
<1> QED
  BY <1>2, <1>5, <1>6, <1>7, <1>8

(* Nor does a put add another entry than its own.                          *)
LEMMA PutEntries ==
    ASSUME lru \in Seq(Cids), NEW c \in Cids, NEW n \in 0..Len(lru)
    PROVE  /\ <<c>> \o SubSeq(lru, 1, n) \in Seq(Cids)
           /\ Range(<<c>> \o SubSeq(lru, 1, n)) \subseteq Entries \cup {c}
<1> DEFINE s == SubSeq(lru, 1, n)
<1>1. s \in Seq(Cids) /\ \A k \in DOMAIN s : s[k] \in Entries
  BY DEF Entries, Range
<1> HIDE DEF s
<1>2. <<c>> \o s \in Seq(Cids) /\ \A k \in DOMAIN (<<c>> \o s) : (<<c>> \o s)[k] \in Entries \cup {c}
  BY <1>1
<1> QED
  BY <1>2 DEF Range, s

LEMMA InvInit == Init => ManifestInv
<1> SUFFICES ASSUME Init PROVE ManifestInv
  OBVIOUS
<1>1. PICK want \in [Calls -> Cids] :
        call = [p \in Calls |-> [at |-> "idle", cid |-> want[p], alive |-> TRUE, ret |-> None]]
  BY DEF Init
<1>2. TypeOK
  BY <1>1, ManifestAssumption DEF Init, TypeOK, NoFlight, Flight, Outcome
<1>3. Crew /\ FlightTrue /\ SentTrue
  BY DEF Init, Crew, FlightTrue, SentTrue, NoFlight
<1>4. NoBorrowedCancel /\ NoBlame
  BY <1>1, ManifestAssumption DEF NoBorrowedCancel, NoBlame
<1>5. OnlyFetched
  BY <1>1, ManifestAssumption DEF Init, OnlyFetched, Entries, Range
<1>6. OnceEach /\ Budget
  <2>1. lru = <<>> /\ bytes = 0 /\ limit \in Nat /\ Len(lru) = 0
    BY ManifestAssumption DEF Init
  <2>2. Entries = {} /\ OnceEach
    BY <2>1 DEF Entries, Range, OnceEach, IsInjective
  <2>3. Total({}) = 0 /\ Cardinality({}) = 0
    BY SumEmpty, FS_EmptySet DEF Total
  <2> QED
    BY <2>1, <2>2, <2>3, ManifestAssumption DEF Budget
<1> QED
  BY <1>2, <1>3, <1>4, <1>5, <1>6 DEF ManifestInv

CallState == [at : {"idle", "again", "join", "wait", "done"}, cid : Cids,
              alive : BOOLEAN, ret : Outcome \cup {None}]

(* A call that moves on, loses its client or returns, and a flight that    *)
(* moves on, keep their shape.                                             *)
LEMMA CallShape ==
    ASSUME TypeOK, NEW p \in Calls,
           NEW at \in {"idle", "again", "join", "wait", "done"}, NEW ret \in Outcome
    PROVE  /\ [call EXCEPT ![p].at = at] \in [Calls -> CallState]
           /\ [call EXCEPT ![p].at = at, ![p].ret = ret] \in [Calls -> CallState]
           /\ [call EXCEPT ![p].alive = FALSE] \in [Calls -> CallState]
<1>1. call \in [Calls -> CallState] /\ call[p] \in CallState
  BY DEF TypeOK, CallState
<1>2. [call[p] EXCEPT !.at = at] \in CallState
  BY <1>1 DEF CallState
<1>3. [call[p] EXCEPT !.at = at, !.ret = ret] \in CallState
  BY <1>1 DEF CallState
<1>4. [call[p] EXCEPT !.alive = FALSE] \in CallState
  BY <1>1 DEF CallState
<1> QED
  BY <1>1, <1>2, <1>3, <1>4

LEMMA ReturnShape ==
    ASSUME TypeOK, NEW p \in Calls, NEW ret \in Outcome, Return(p, ret)
    PROVE  call' \in [Calls -> CallState]
<1> QED
  BY CallShape DEF Return

LEMMA FlightShape ==
    ASSUME TypeOK, NEW c \in Cids, NEW at \in {"get", "fetch", "put", "land"},
           NEW res \in Outcome
    PROVE  /\ [flight EXCEPT ![c].at = at] \in [Cids -> Flight]
           /\ [flight EXCEPT ![c].at = at, ![c].res = res] \in [Cids -> Flight]
<1>1. flight \in [Cids -> Flight] /\ flight[c] \in Flight
  BY DEF TypeOK
<1>2. [flight[c] EXCEPT !.at = at] \in Flight /\ [flight[c] EXCEPT !.at = at, !.res = res] \in Flight
  BY <1>1 DEF Flight
<1> QED
  BY <1>1, <1>2

(* Each step keeps the shape.                                              *)
LEMMA TypeNext == TypeOK /\ Crew /\ [Next]_vars => TypeOK'
<1> SUFFICES ASSUME TypeOK, Crew, [Next]_vars PROVE TypeOK'
  OBVIOUS
<1> USE DEF Outcome
<1>1. ASSUME NEW p \in Calls, Cancel(p) PROVE TypeOK'
  <2>1. call' \in [Calls -> CallState]
    <3>1. "ok" \in Outcome
      OBVIOUS
    <3> QED
      BY <1>1, <3>1, CallShape DEF Cancel
  <2> QED
    BY <1>1, <2>1 DEF TypeOK, Cancel, CallState
<1>2. ASSUME NEW p \in Calls, LoadDirect(p) PROVE TypeOK'
  <2>1. call' \in [Calls -> CallState]
    BY <1>2, ReturnShape DEF LoadDirect
  <2>2. call[p].cid \in Cids
    BY DEF TypeOK
  <2> QED
    BY <1>2, <2>1, <2>2 DEF TypeOK, LoadDirect, CallState
<1>3. ASSUME NEW p \in Calls, Check(p) PROVE TypeOK'
  <2>1. lru' \in Seq(Cids)
    BY <1>3, TouchedEntries DEF TypeOK, Check
  <2>2. call' \in [Calls -> CallState]
    <3>1. [call EXCEPT ![p].at = "join"] \in [Calls -> CallState]
      BY DEF TypeOK, CallState
    <3> QED
      BY <1>3, <3>1, ReturnShape DEF Check
  <2> QED
    BY <1>3, <2>1, <2>2 DEF TypeOK, Check, CallState
<1>4. ASSUME NEW p \in Calls, Join(p) PROVE TypeOK'
  <2>1. flight' \in [Cids -> Flight]
    <3> DEFINE c == call[p].cid
    <3>1. c \in Cids /\ flight[c] \in Flight
      BY DEF TypeOK
    <3>2. [flight[c] EXCEPT !.members = @ \cup {p}] \in Flight
      BY <3>1 DEF Flight
    <3>3. [at |-> "get", leader |-> p, members |-> {p}, res |-> "ok"] \in Flight
      BY DEF Flight
    <3> QED
      BY <1>4, <3>1, <3>2, <3>3 DEF TypeOK, Join
  <2>2. call' \in [Calls -> CallState]
    <3>1. "ok" \in Outcome
      OBVIOUS
    <3> QED
      BY <1>4, <3>1, CallShape DEF Join
  <2> QED
    BY <1>4, <2>1, <2>2 DEF TypeOK, Join, CallState
<1>5. ASSUME NEW p \in Calls, Leave(p) PROVE TypeOK'
  <2>1. call' \in [Calls -> CallState]
    BY <1>5, ReturnShape DEF Leave
  <2> QED
    BY <1>5, <2>1 DEF TypeOK, Leave, CallState
<1>6. ASSUME NEW p \in Calls, Receive(p) PROVE TypeOK'
  <2>1. chan[p] \in [res : Outcome, shared : BOOLEAN]
    BY <1>6 DEF TypeOK, Receive
  <2>2. call' \in [Calls -> CallState]
    <3>1. [call EXCEPT ![p].at = "again"] \in [Calls -> CallState]
      BY DEF TypeOK, CallState
    <3>2. chan[p].res \in Outcome
      BY <2>1
    <3> QED
      BY <1>6, <3>1, <3>2, ReturnShape DEF Receive
  <2>3. chan' \in [Calls -> [res : Outcome, shared : BOOLEAN] \cup {None}]
    BY <1>6 DEF TypeOK, Receive
  <2> QED
    BY <1>6, <2>2, <2>3 DEF TypeOK, Receive, CallState
<1>7. ASSUME NEW c \in Cids, FlightGet(c) PROVE TypeOK'
  <2>1. lru' \in Seq(Cids)
    BY <1>7, TouchedEntries DEF TypeOK, FlightGet
  <2>2. flight' \in [Cids -> Flight]
    <3>1. /\ [flight EXCEPT ![c].at = "land"] \in [Cids -> Flight]
          /\ [flight EXCEPT ![c].at = "fetch"] \in [Cids -> Flight]
      BY FlightShape, "ok" \in Outcome
    <3> QED
      BY <1>7, <3>1 DEF FlightGet
  <2> QED
    BY <1>7, <2>1, <2>2 DEF TypeOK, FlightGet
<1>8. ASSUME NEW c \in Cids, FlightFetch(c) PROVE TypeOK'
  <2>1. flight' \in [Cids -> Flight]
    <3>1. /\ [flight EXCEPT ![c].at = "put"] \in [Cids -> Flight]
          /\ [flight EXCEPT ![c].at = "land", ![c].res = "failed"] \in [Cids -> Flight]
          /\ [flight EXCEPT ![c].at = "land", ![c].res = "canceled"] \in [Cids -> Flight]
      BY FlightShape, "ok" \in Outcome
    <3> QED
      BY <1>8, <3>1 DEF FlightFetch
  <2> QED
    BY <1>8, <2>1 DEF TypeOK, FlightFetch
<1>9. ASSUME NEW c \in Cids, FlightPut(c) PROVE TypeOK'
  <2>1. flight' \in [Cids -> Flight]
    BY <1>9, FlightShape DEF FlightPut
  <2>2. lru' \in Seq(Cids)
    <3>1. lru \in Seq(Cids) /\ (lru' = lru \/ \E n \in 0..Len(lru) : lru' = <<c>> \o SubSeq(lru, 1, n))
      BY <1>9 DEF TypeOK, FlightPut
    <3>2. CASE lru' = lru
      BY <3>1, <3>2
    <3>3. ASSUME NEW n \in 0..Len(lru), lru' = <<c>> \o SubSeq(lru, 1, n) PROVE lru' \in Seq(Cids)
      BY <3>1, <3>3, PutEntries
    <3> QED
      BY <3>1, <3>2, <3>3
  <2> QED
    BY <1>9, <2>1, <2>2 DEF TypeOK, FlightPut
<1>10. ASSUME NEW c \in Cids, FlightLand(c) PROVE TypeOK'
  <2>1. flight' \in [Cids -> Flight]
    BY <1>10 DEF TypeOK, FlightLand, Flight, NoFlight
  <2>2. chan' \in [Calls -> [res : Outcome, shared : BOOLEAN] \cup {None}]
    BY <1>10 DEF TypeOK, FlightLand, Flight
  <2> QED
    BY <1>10, <2>1, <2>2 DEF TypeOK, FlightLand
<1>11. CASE UNCHANGED vars
  BY <1>11 DEF TypeOK, vars
<1> QED
  BY <1>1, <1>2, <1>3, <1>4, <1>5, <1>6, <1>7, <1>8, <1>9, <1>10, <1>11
     DEF Next, Step, FlightStep

(* Nobody comes back, nobody changes what he asks for, and what a fetch    *)
(* has returned it has returned.                                           *)
LEMMA Monotone ==
    ASSUME TypeOK, [Next]_vars
    PROVE  /\ \A p \in Calls : call'[p].cid = call[p].cid /\ (call'[p].alive => call[p].alive)
           /\ fetched \subseteq fetched' /\ failed \subseteq failed'
<1>1. ASSUME NEW p \in Calls, Cancel(p) \/ Step(p)
      PROVE  \A q \in Calls : call'[q].cid = call[q].cid /\ (call'[q].alive => call[q].alive)
  <2>1. \/ call' = [call EXCEPT ![p].alive = FALSE]
        \/ \E a \in {"join", "wait", "again"} : call' = [call EXCEPT ![p].at = a]
        \/ \E o : call' = [call EXCEPT ![p].at = "done", ![p].ret = o]
    BY <1>1 DEF Cancel, Step, LoadDirect, Check, Join, Leave, Receive, Return
  <2> QED
    BY <2>1 DEF TypeOK
<1>2. ASSUME NEW c \in Cids, FlightStep(c) PROVE call' = call
  <2>1. CASE FlightGet(c)
    BY <2>1 DEF FlightGet
  <2>2. CASE FlightFetch(c)
    BY <2>2 DEF FlightFetch
  <2>3. CASE FlightPut(c)
    BY <2>3 DEF FlightPut
  <2>4. CASE FlightLand(c)
    BY <2>4, Zenon DEF FlightLand
  <2> QED
    BY <1>2, <2>1, <2>2, <2>3, <2>4 DEF FlightStep
<1>3. fetched \subseteq fetched' /\ failed \subseteq failed'
  BY DEF Next, vars, Cancel, Step, LoadDirect, Check, Join, Leave, Receive, FlightStep,
         FlightGet, FlightFetch, FlightPut, FlightLand
<1> QED
  BY <1>1, <1>2, <1>3 DEF Next, vars

(* The steps of calls that only move a call.                               *)
Quiet(p) == Cancel(p) \/ LoadDirect(p) \/ Check(p) \/ Leave(p) \/ Receive(p)

(* A flight's result concerns those who are in it.                         *)
LEMMA FlightNext ==
    ASSUME ManifestInv, [Next]_vars
    PROVE  Crew' /\ FlightTrue'
<1> USE DEF ManifestInv
<1>1. /\ \A p \in Calls : call'[p].cid = call[p].cid /\ (call'[p].alive => call[p].alive)
      /\ fetched \subseteq fetched' /\ failed \subseteq failed'
  BY Monotone
<1>2. \A c \in Cids : flight[c] \in Flight /\ \A p \in flight[c].members : p \in Calls
  BY DEF TypeOK, Flight
<1>3. CASE flight' = flight
  BY <1>1, <1>2, <1>3 DEF Crew, FlightTrue
<1>4. ASSUME NEW p \in Calls, Join(p) PROVE Crew' /\ FlightTrue'
  <2> DEFINE c == call[p].cid
  <2>1. c \in Cids
    BY DEF TypeOK
  <2>2. \A d \in Cids \ {c} : flight'[d] = flight[d]
    BY <1>4, <2>1 DEF Join, TypeOK
  <2>3. CASE flight[c].at # "none"
    <3>1. /\ flight'[c].at = flight[c].at /\ flight'[c].leader = flight[c].leader
          /\ flight'[c].res = flight[c].res /\ flight'[c].members = flight[c].members \cup {p}
      BY <1>2, <1>4, <2>1, <2>3 DEF Join, TypeOK, Flight
    <3> HIDE DEF c
    <3>2. Crew'
      <4>1. \A q \in flight'[c].members : call'[q].cid = c
        BY <1>1, <1>2, <2>1, <2>3, <3>1 DEF Crew, c
      <4> QED
        BY <1>1, <1>2, <2>1, <2>2, <2>3, <3>1, <4>1 DEF Crew
    <3>3. FlightTrue'
      BY <1>1, <1>2, <2>1, <2>2, <2>3, <3>1 DEF FlightTrue, Crew
    <3> QED
      BY <3>2, <3>3
  <2>4. CASE flight[c].at = "none"
    <3>1. flight'[c] = [at |-> "get", leader |-> p, members |-> {p}, res |-> "ok"]
      BY <1>4, <2>1, <2>4 DEF Join, TypeOK
    <3>2. call'[p].cid = c
      BY <1>1
    <3> HIDE DEF c
    <3> QED
      BY <1>1, <1>2, <2>1, <2>2, <3>1, <3>2 DEF Crew, FlightTrue
  <2> QED
    BY <2>3, <2>4
<1>5. ASSUME NEW c \in Cids, FlightGet(c) PROVE Crew' /\ FlightTrue'
  <2>1. /\ \A d \in Cids \ {c} : flight'[d] = flight[d]
        /\ flight'[c].leader = flight[c].leader /\ flight'[c].members = flight[c].members
        /\ flight'[c].res = flight[c].res
        /\ flight'[c].at = IF c \in Entries THEN "land" ELSE "fetch"
    BY <1>2, <1>5 DEF FlightGet, TypeOK, Flight
  <2>2. flight[c].at = "get" /\ (c \in Entries => c \in fetched)
    BY <1>5 DEF FlightGet, OnlyFetched
  <2> QED
    BY <1>1, <1>2, <2>1, <2>2 DEF Crew, FlightTrue
<1>6. ASSUME NEW c \in Cids, FlightFetch(c) PROVE Crew' /\ FlightTrue'
  <2>1. /\ \A d \in Cids \ {c} : flight'[d] = flight[d]
        /\ flight'[c].leader = flight[c].leader /\ flight'[c].members = flight[c].members
        /\ \/ flight'[c].at = "put" /\ flight'[c].res = flight[c].res /\ c \in fetched'
           \/ flight'[c].at = "land" /\ flight'[c].res = "failed" /\ c \in failed'
           \/ flight'[c].at = "land" /\ flight'[c].res = "canceled" /\ ~call[flight[c].leader].alive
    BY <1>2, <1>6 DEF FlightFetch, TypeOK, Flight
  <2>2. flight[c].at = "fetch" /\ flight[c].res = "ok" /\ flight[c].leader \in Calls
    BY <1>6 DEF FlightFetch, FlightTrue, Crew
  <2> QED
    BY <1>1, <1>2, <2>1, <2>2 DEF Crew, FlightTrue
<1>7. ASSUME NEW c \in Cids, FlightPut(c) PROVE Crew' /\ FlightTrue'
  <2>1. /\ \A d \in Cids \ {c} : flight'[d] = flight[d]
        /\ flight'[c].leader = flight[c].leader /\ flight'[c].members = flight[c].members
        /\ flight'[c].res = flight[c].res /\ flight'[c].at = "land"
    BY <1>2, <1>7 DEF FlightPut, TypeOK, Flight
  <2>2. flight[c].at = "put" /\ flight[c].res = "ok" /\ c \in fetched
    BY <1>7 DEF FlightPut, FlightTrue
  <2> QED
    BY <1>1, <1>2, <2>1, <2>2 DEF Crew, FlightTrue
<1>8. ASSUME NEW c \in Cids, FlightLand(c) PROVE Crew' /\ FlightTrue'
  <2>1. /\ \A d \in Cids \ {c} : flight'[d] = flight[d]
        /\ flight'[c].at = "none"
    BY <1>8 DEF FlightLand, TypeOK, NoFlight
  <2> QED
    BY <1>1, <1>2, <2>1 DEF Crew, FlightTrue
<1>9. ASSUME NEW p \in Calls, Quiet(p) PROVE flight' = flight
  BY <1>9 DEF Quiet, Cancel, LoadDirect, Check, Leave, Receive
<1> QED
  BY <1>3, <1>4, <1>5, <1>6, <1>7, <1>8, <1>9 DEF Next, Step, FlightStep, Quiet, vars

(* What a call is sent is true of it, and of what it answers.              *)
LEMMA AnswerNext ==
    ASSUME ManifestInv, [Next]_vars
    PROVE  SentTrue' /\ NoBorrowedCancel' /\ NoBlame' /\ OnlyFetched'
<1> USE DEF ManifestInv
<1> DEFINE Answered == \A p \in Calls :
             /\ call[p].ret = "canceled" => ~call[p].alive
             /\ call[p].ret = "failed" => call[p].cid \in failed
             /\ call[p].ret = "ok" => call[p].cid \in fetched
<1>1. /\ \A p \in Calls : call'[p].cid = call[p].cid /\ (call'[p].alive => call[p].alive)
      /\ fetched \subseteq fetched' /\ failed \subseteq failed'
  BY Monotone
<1>2. \A p \in Calls : call[p].cid \in Cids
  BY DEF TypeOK
<1>3. Answered
  BY DEF NoBorrowedCancel, NoBlame, OnlyFetched
<1>4. SentTrue'
  <2>1. ASSUME NEW c \in Cids, FlightLand(c) PROVE SentTrue'
    <3> SUFFICES ASSUME NEW p \in Calls, chan'[p] # None
                 PROVE  /\ chan'[p].res = "ok" => call'[p].cid \in fetched'
                        /\ chan'[p].res = "failed" => call'[p].cid \in failed'
                        /\ chan'[p].res = "canceled" /\ ~chan'[p].shared => ~call'[p].alive
      BY DEF SentTrue
    <3>1. CASE p \in flight[c].members /\ call[p].at = "wait"
      <4>1. chan'[p] = [res |-> flight[c].res, shared |-> flight[c].members # {flight[c].leader}]
        BY <2>1, <3>1 DEF FlightLand
      <4>2. call[p].cid = c /\ flight[c].at = "land"
        BY <2>1, <3>1 DEF FlightLand, Crew
      <4>3. flight[c].members = {flight[c].leader} => p = flight[c].leader
        BY <3>1
      <4>4. ~chan'[p].shared => p = flight[c].leader
        <5>1. CASE flight[c].members = {flight[c].leader}
          BY <4>3, <5>1
        <5>2. CASE flight[c].members # {flight[c].leader}
          <6>1. chan'[p] = [res |-> flight[c].res, shared |-> TRUE]
            BY <4>1, <5>2
          <6> QED
            BY <6>1
        <5> QED
          BY <5>1, <5>2
      <4> QED
        BY <1>1, <4>1, <4>2, <4>4 DEF FlightTrue
    <3>2. CASE ~(p \in flight[c].members /\ call[p].at = "wait")
      <4>1. chan'[p] = chan[p]
        BY <2>1, <3>2 DEF FlightLand
      <4> QED
        BY <1>1, <4>1 DEF SentTrue
    <3> QED
      BY <3>1, <3>2
  <2>2. CASE \A p \in Calls : chan'[p] \in {chan[p], None}
    BY <1>1, <2>2 DEF SentTrue
  <2>3. ASSUME NEW p \in Calls, Cancel(p) \/ Step(p)
        PROVE  \A q \in Calls : chan'[q] \in {chan[q], None}
    BY <2>3 DEF Cancel, Step, LoadDirect, Check, Join, Leave, Receive, TypeOK
  <2>4. ASSUME NEW c \in Cids, FlightGet(c) \/ FlightFetch(c) \/ FlightPut(c) PROVE chan' = chan
    BY <2>4 DEF FlightGet, FlightFetch, FlightPut
  <2> QED
    BY <2>1, <2>2, <2>3, <2>4 DEF Next, FlightStep, vars
<1>5. Entries' \subseteq fetched'
  <2>1. Entries \subseteq fetched /\ lru \in Seq(Cids)
    BY DEF OnlyFetched, TypeOK
  <2>2. CASE lru' = lru
    BY <1>1, <2>1, <2>2 DEF Entries
  <2>3. ASSUME NEW c \in Entries, lru' = Touched(c) PROVE Entries' \subseteq fetched'
    BY <1>1, <2>1, <2>3, TouchedEntries DEF Entries
  <2>4. ASSUME NEW c \in Cids, FlightPut(c) PROVE Entries' \subseteq fetched'
    <3>1. c \in fetched
      BY <2>4 DEF FlightPut, FlightTrue
    <3>2. lru' = lru \/ \E n \in 0..Len(lru) : lru' = <<c>> \o SubSeq(lru, 1, n)
      BY <2>4 DEF FlightPut
    <3>3. ASSUME NEW n \in 0..Len(lru), lru' = <<c>> \o SubSeq(lru, 1, n)
          PROVE  Entries' \subseteq fetched'
      BY <1>1, <2>1, <3>1, <3>3, PutEntries DEF Entries
    <3> QED
      BY <2>2, <3>2, <3>3
  <2>5. ASSUME NEW p \in Calls, Cancel(p) \/ Step(p)
        PROVE  lru' = lru \/ \E c \in Entries : lru' = Touched(c)
    BY <2>5 DEF Cancel, Step, LoadDirect, Check, Join, Leave, Receive
  <2>6. ASSUME NEW c \in Cids, FlightGet(c) \/ FlightFetch(c) \/ FlightLand(c)
        PROVE  lru' = lru \/ \E d \in Entries : lru' = Touched(d)
    BY <2>6 DEF FlightGet, FlightFetch, FlightLand
  <2> QED
    BY <2>2, <2>3, <2>4, <2>5, <2>6 DEF Next, FlightStep, vars
<1>6. Answered'
  <2>1. CASE \A p \in Calls : call'[p].ret = call[p].ret
    BY <1>1, <1>3, <2>1
  <2>2. ASSUME NEW p \in Calls, NEW ret,
               call' = [call EXCEPT ![p].at = "done", ![p].ret = ret],
               ret = "canceled" => ~call[p].alive,
               ret = "failed" => call[p].cid \in failed',
               ret = "ok" => call[p].cid \in fetched'
        PROVE  Answered'
    <3>1. call'[p].ret = ret /\ \A q \in Calls \ {p} : call'[q].ret = call[q].ret
      BY <2>2 DEF TypeOK
    <3> QED
      BY <1>1, <1>3, <2>2, <3>1
  <2> HIDE DEF Answered
  <2>3. ASSUME NEW p \in Calls, LoadDirect(p) PROVE Answered'
    BY <2>2, <2>3 DEF LoadDirect, Return
  <2>4. ASSUME NEW p \in Calls, Check(p) PROVE Answered'
    <3>1. CASE ~call[p].alive /\ Return(p, "canceled")
      BY <2>2, <3>1 DEF Return
    <3>2. CASE call[p].cid \in Entries /\ Return(p, "ok")
      <4>1. call[p].cid \in fetched'
        BY <1>1, <3>2 DEF OnlyFetched
      <4>2. call' = [call EXCEPT ![p].at = "done", ![p].ret = "ok"]
        BY <3>2 DEF Return
      <4>3. "ok" # "canceled" /\ "ok" # "failed"
        OBVIOUS
      <4> QED
        BY <2>2, <4>1, <4>2, <4>3, Zenon
    <3>3. CASE call' = [call EXCEPT ![p].at = "join"]
      BY <2>1, <3>3 DEF TypeOK
    <3> QED
      BY <2>4, <3>1, <3>2, <3>3 DEF Check
  <2>5. ASSUME NEW p \in Calls, Leave(p) PROVE Answered'
    BY <2>2, <2>5 DEF Leave, Return
  <2>6. ASSUME NEW p \in Calls, Receive(p) PROVE Answered'
    <3>1. CASE call' = [call EXCEPT ![p].at = "again"]
      BY <2>1, <3>1 DEF TypeOK
    <3>2. CASE /\ ~(chan[p].shared /\ call[p].alive /\ chan[p].res = "canceled")
               /\ Return(p, chan[p].res)
      <4>1. /\ chan[p].res = "canceled" => ~call[p].alive
            /\ chan[p].res = "failed" => call[p].cid \in failed'
            /\ chan[p].res = "ok" => call[p].cid \in fetched'
        BY <1>1, <2>6, <3>2 DEF SentTrue, Receive
      <4> QED
        BY <2>2, <3>2, <4>1 DEF Return
    <3> QED
      BY <2>6, <3>1, <3>2 DEF Receive
  <2>7. ASSUME NEW p \in Calls, Cancel(p) \/ Join(p) PROVE \A q \in Calls : call'[q].ret = call[q].ret
    <3>1. \/ call' = [call EXCEPT ![p].alive = FALSE]
          \/ call' = [call EXCEPT ![p].at = "wait"]
      BY <2>7 DEF Cancel, Join
    <3> QED
      BY <3>1 DEF TypeOK
  <2>8. ASSUME NEW c \in Cids, FlightStep(c) PROVE call' = call
    BY <2>8 DEF FlightStep, FlightGet, FlightFetch, FlightPut, FlightLand
  <2> QED
    BY <2>1, <2>3, <2>4, <2>5, <2>6, <2>7, <2>8 DEF Next, Step, vars
<1>7. NoBorrowedCancel' /\ NoBlame' /\ OnlyFetched'
  BY <1>5, <1>6 DEF NoBorrowedCancel, NoBlame, OnlyFetched
<1> QED
  BY <1>4, <1>7

-----------------------------------------------------------------------------
(* A hit changes the order of the list only.                               *)
LEMMA BudgetTouched ==
    ASSUME TypeOK, OnceEach, Budget, NEW c \in Entries,
           lru' = Touched(c), UNCHANGED <<limit, bytes>>
    PROVE  OnceEach' /\ Budget'
<1>1. Entries' = Entries /\ IsInjective(lru') /\ Len(lru') = Len(lru)
  BY TouchedEntries DEF TypeOK, Entries
<1> QED
  BY <1>1 DEF OnceEach, Budget

(* put gives back the bytes of what it evicts and counts the new entry,    *)
(* for which there is room then.                                           *)
LEMMA BudgetPut ==
    ASSUME TypeOK, OnceEach, Budget, NEW c \in Cids, c \notin Entries,
           NEW n \in 0..Len(lru), Fits(n, c), UNCHANGED limit,
           lru' = <<c>> \o SubSeq(lru, 1, n), bytes' = BytesOf(n) + Cost[c]
    PROVE  OnceEach' /\ Budget'
<1> DEFINE front == SubSeq(lru, 1, n)
           back == SubSeq(lru, n + 1, Len(lru))
           F == Range(front)
           B == Range(back)
<1>1. lru \in Seq(Cids) /\ IsInjective(lru) /\ limit \in Nat
  BY ManifestAssumption DEF TypeOK, OnceEach
<1>2. /\ front \in Seq(Cids) /\ Len(front) = n /\ IsInjective(front)
      /\ Entries = F \cup B /\ F \cap B = {}
  BY <1>1, CutFacts DEF Entries
<1>3. bytes' = bytes - Total(B) + Cost[c] /\ bytes' <= limit /\ n < MaxEntries
  BY DEF BytesOf, Fits
<1>4. lru' = <<c>> \o front
  OBVIOUS
<1> HIDE DEF front, back, F, B
<1>5. IsFiniteSet(Entries) /\ Entries \subseteq Cids
  BY <1>1, ListCount, LenProperties DEF Entries, Range
<1>6. IsFiniteSet(F) /\ IsFiniteSet(B)
  BY <1>2, <1>5, FS_Subset
<1>7. \A x \in Cids : Cost[x] \in Nat
  BY ManifestAssumption
<1>8. bytes = Total(F) + Total(B) /\ Total(F) \in Nat /\ Total(B) \in Nat
  <2>1. /\ \A x \in F \cup B : Cost[x] \in Nat
        /\ \A x \in F : Cost[x] \in Nat
        /\ \A x \in B : Cost[x] \in Nat
    BY <1>2, <1>5, <1>7
  <2> QED
    BY <1>2, <1>6, <2>1, SumUnion, SumNat DEF Total, Budget
<1>9. c \notin F
  BY <1>2
<1>10. Total(F \cup {c}) = Cost[c] + Total(F)
  <2>1. \A x \in F \cup {c} : Cost[x] \in Nat
    BY <1>2, <1>5, <1>7
  <2> QED
    BY <1>6, <1>9, <2>1, SumAdd DEF Total
<1>11. lru' \in Seq(Cids) /\ Entries' = F \cup {c} /\ IsInjective(lru') /\ Len(lru') = n + 1
  <2>1. front \in Seq(Cids) /\ IsInjective(front) /\ c \notin Range(front) /\ Len(front) = n
    BY <1>2, <1>9 DEF F
  <2>2. /\ <<c>> \o front \in Seq(Cids) /\ Len(<<c>> \o front) = Len(front) + 1
        /\ Range(<<c>> \o front) = Range(front) \cup {c}
        /\ IsInjective(<<c>> \o front)
    BY <2>1, PushFacts
  <2> QED
    BY <1>4, <2>1, <2>2 DEF Entries, F
<1>12. Cardinality(Entries') = Len(lru')
  BY <1>11, ListCount DEF Entries
<1>13. bytes' = Total(Entries') /\ bytes' \in 0..limit'
  <2>1. Cost[c] \in Nat
    BY <1>7
  <2> QED
    BY <1>1, <1>3, <1>8, <1>10, <1>11, <2>1
<1>14. Len(lru') <= MaxEntries
  <2>1. n \in Nat /\ MaxEntries \in Nat
    BY <1>1, LenProperties, ManifestAssumption
  <2> QED
    BY <1>3, <1>11, <2>1
<1> QED
  BY <1>11, <1>12, <1>13, <1>14 DEF OnceEach, Budget

(* The byte count stays exact and within the limit.                        *)
LEMMA BudgetNext ==
    ASSUME ManifestInv, [Next]_vars
    PROVE  OnceEach' /\ Budget'
<1>0. TypeOK /\ OnceEach /\ Budget
  BY DEF ManifestInv
<1>1. ASSUME UNCHANGED <<limit, lru, bytes>> PROVE OnceEach' /\ Budget'
  BY <1>0, <1>1 DEF OnceEach, Budget, Entries
<1>2. ASSUME NEW p \in Calls, Check(p) PROVE OnceEach' /\ Budget'
  BY <1>0, <1>1, <1>2, BudgetTouched DEF Check
<1>3. ASSUME NEW c \in Cids, FlightGet(c) PROVE OnceEach' /\ Budget'
  BY <1>0, <1>1, <1>3, BudgetTouched DEF FlightGet
<1>4. ASSUME NEW c \in Cids, FlightPut(c) PROVE OnceEach' /\ Budget'
  BY <1>0, <1>1, <1>4, BudgetPut DEF FlightPut, Kept, Refused
<1> QED
  BY <1>1, <1>2, <1>3, <1>4
     DEF Next, Step, FlightStep, Cancel, LoadDirect, Join, Leave, Receive, FlightFetch,
         FlightLand, vars

LEMMA InvNext == ManifestInv /\ [Next]_vars => ManifestInv'
BY TypeNext, FlightNext, AnswerNext, BudgetNext DEF ManifestInv

LEMMA InvAlways == Spec => []ManifestInv
BY InvInit, InvNext, PTL DEF Spec

(* The state keeps its shape.                                              *)
THEOREM TypeCorrect == Spec => []TypeOK
<1>1. ManifestInv => TypeOK
  BY DEF ManifestInv
<1> QED
  BY <1>1, InvAlways, PTL

(* load never answers a live caller with the cancellation of another one   *)
(* whose fetch it shared, however often the leader changes.                *)
THEOREM NoBorrowedCancelCorrect == Spec => []NoBorrowedCancel
<1>1. ManifestInv => NoBorrowedCancel
  BY DEF ManifestInv
<1> QED
  BY <1>1, InvAlways, PTL

(* load fails only with the error of a fetch whose leader was still there. *)
THEOREM NoBlameCorrect == Spec => []NoBlame
<1>1. ManifestInv => NoBlame
  BY DEF ManifestInv
<1> QED
  BY <1>1, InvAlways, PTL

(* get and put count exactly the bytes of what is in the list, each        *)
(* manifest once, and keep within the limits of bytes and of entries.      *)
THEOREM BudgetCorrect == Spec => []Budget
<1>1. ManifestInv => Budget
  BY DEF ManifestInv
<1> QED
  BY <1>1, InvAlways, PTL

(* Without any entry a manifest of at most limit bytes fits, for the count *)
(* is exact; so there is a largest number of entries it fits beside.       *)
LEMMA RoomFollows == ManifestInv => PutFindsRoom
<1> SUFFICES ASSUME ManifestInv, NEW c \in Cids, ~Refused(c)
             PROVE  \E n \in 0..Len(lru) : Kept(n, c)
  BY DEF PutFindsRoom
<1> DEFINE F == {n \in 0..Len(lru) : Fits(n, c)}
<1>1. lru \in Seq(Cids) /\ Len(lru) \in Nat /\ limit \in Nat /\ Budget /\ OnceEach
  BY LenProperties, ManifestAssumption DEF ManifestInv, TypeOK
<1>2. Fits(0, c)
  <2>1. SubSeq(lru, 0 + 1, Len(lru)) = lru
    BY <1>1
  <2>b. bytes = Total(Range(lru)) /\ bytes \in 0..limit
    BY <1>1 DEF Budget, Entries
  <2>2. BytesOf(0) = bytes - bytes /\ bytes \in Int
    <3>1. BytesOf(0) = bytes - Total(Range(lru))
      BY <2>1 DEF BytesOf
    <3> QED
      BY <1>1, <2>b, <3>1
  <2>3. Cost[c] \in Nat /\ Cost[c] <= limit /\ 0 < MaxEntries
    BY <1>1, ManifestAssumption DEF Refused
  <2> QED
    BY <2>2, <2>3 DEF Fits
<1>3. PICK n \in F : \A m \in F : m <= n
  <2>1. 0 \in F /\ F \in SUBSET (0..Len(lru))
    BY <1>1, <1>2
  <2> HIDE DEF F
  <2> QED
    BY <1>1, <2>1, Largest
<1>4. \A m \in n+1..Len(lru) : ~Fits(m, c)
  <2> SUFFICES ASSUME NEW m \in n+1..Len(lru), Fits(m, c) PROVE FALSE
    OBVIOUS
  <2>1. n \in Int /\ n >= 0
    BY <1>1
  <2>2. m \in 0..Len(lru) /\ ~(m <= n)
    BY <1>1, <2>1
  <2> QED
    BY <1>3, <2>2
<1> QED
  BY <1>4 DEF Kept

(* put never evicts from an empty list.                                    *)
THEOREM PutFindsRoomCorrect == Spec => []PutFindsRoom
BY RoomFollows, InvAlways, PTL

(* get, put and the flights return and keep only what a fetch returned.    *)
THEOREM OnlyFetchedCorrect == Spec => []OnlyFetched
<1>1. ManifestInv => OnlyFetched
  BY DEF ManifestInv
<1> QED
  BY <1>1, InvAlways, PTL
=============================================================================
