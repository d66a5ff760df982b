------------------------ MODULE UploadAdmissionProofs ------------------------
(***************************************************************************)
(* What an upload holds is given back, and what it may take is bounded,    *)
(* for any number of uploads, sessions, sizes, days and slots.             *)
(***************************************************************************)
EXTENDS UploadAdmission, FiniteSetTheorems, TLAPS

HoldAts == {"transcode", "posters", "store"}

VideoAts == {"probe", "queue"} \cup HoldAts

(* An upload and its deferred calls: the slot's is registered from the     *)
(* transcode on, every temporary file of a live process has one, none is   *)
(* registered before the form or left after the answer.                    *)
RowOK(p) ==
    /\ "slot" \in req[p].defers <=> req[p].at \in HoldAts
    /\ req[p].at \in {"new", "parse", "done"} => req[p].defers = {}
    /\ req[p].at \in VideoAts => req[p].kind = "video"
    /\ req[p].code = "ok" => req[p].at = "done"
    /\ req[p].kind = "batch" /\ req[p].code = "ok" => \A f \in Files : req[p].files[f] = "stored"
    /\ p \notin crashed => \A d \in Cleanups : <<p, d>> \in disk => d \in req[p].defers

HoldType ==
    /\ req \in [Requests -> Request]
    /\ slots \in 0..TranscodeSlots
    /\ disk \in SUBSET (Requests \X {"form", "input", "output"})
    /\ crashed \in SUBSET Requests

HoldInv == HoldType /\ SlotsHeld /\ \A p \in Requests : RowOK(p)

(* The budget in memory is of today or of a day before, and holds what was *)
(* let in on its day but for what it was not asked about; nothing was let  *)
(* in on a day to come.                                                    *)
Accounted ==
    /\ budget.day # None => budget.day <= day
    /\ \A k \in Tokens : accepted[day][k] = unmetered[day][k] +
                              IF budget.day = day THEN budget.used[k] ELSE 0
    /\ \A d \in Days, k \in Tokens : d > day => accepted[d][k] = 0 /\ unmetered[d][k] = 0

QuotaType ==
    /\ limit \in Limits
    /\ day \in Days
    /\ budget \in [day : Days \cup {None}, used : [Tokens -> Nat]]
    /\ accepted \in [Days -> [Tokens -> Nat]]
    /\ unmetered \in [Days -> [Tokens -> Nat]]

QuotaInv == QuotaType /\ Accounted /\ QuotaHeld

-----------------------------------------------------------------------------
(* A step of one upload leaves the rows of the others alone and changes    *)
(* the places taken by its own.                                            *)
LEMMA OneRow ==
    ASSUME HoldInv, NEW p \in Requests,
           req' \in [Requests -> Request], \A q \in Requests \ {p} : req'[q] = req[q],
           crashed' = crashed,
           disk' \in SUBSET (Requests \X {"form", "input", "output"}),
           \A q \in Requests \ {p}, d \in Cleanups : <<q, d>> \in disk' => <<q, d>> \in disk,
           RowOK(p)',
           \/ (p \in Holding <=> p \in Holding') /\ slots' = slots
           \/ p \notin Holding /\ p \in Holding' /\ slots < TranscodeSlots /\ slots' = slots + 1
           \/ p \in Holding /\ p \notin Holding' /\ slots' = slots - 1
    PROVE  HoldInv'
<1>1. \A q \in Requests : RowOK(q)'
  BY DEF HoldInv, RowOK
<1>2. IsFiniteSet(Holding) /\ IsFiniteSet(Holding \ {p})
  BY AdmissionAssumption, FS_Subset DEF Holding
<1>3. slots = Cardinality(Holding) /\ slots \in 0..TranscodeSlots /\ TranscodeSlots \in Nat
  BY AdmissionAssumption DEF HoldInv, HoldType, SlotsHeld
<1>4. \A q \in Requests \ {p} : q \in Holding' <=> q \in Holding
  BY DEF Holding
<1>5. slots' = Cardinality(Holding') /\ slots' \in 0..TranscodeSlots
  <2>1. CASE (p \in Holding <=> p \in Holding') /\ slots' = slots
    <3>1. Holding' = Holding
      BY <1>4, <2>1 DEF Holding
    <3> QED
      BY <1>3, <2>1, <3>1
  <2>2. CASE p \notin Holding /\ p \in Holding' /\ slots < TranscodeSlots /\ slots' = slots + 1
    <3>1. Holding' = Holding \cup {p}
      BY <1>4, <2>2 DEF Holding
    <3>2. Cardinality(Holding \cup {p}) = Cardinality(Holding) + 1
      BY <1>2, <2>2, FS_AddElement
    <3> QED
      BY <1>3, <2>2, <3>1, <3>2
  <2>3. CASE p \in Holding /\ p \notin Holding' /\ slots' = slots - 1
    <3>1. Holding' = Holding \ {p}
      BY <1>4, <2>3 DEF Holding
    <3>2. Cardinality(Holding \ {p}) = Cardinality(Holding) - 1 /\ Cardinality(Holding \ {p}) \in Nat
      BY <1>2, <2>3, FS_RemoveElement, FS_CardinalityType
    <3> QED
      BY <1>3, <2>3, <3>1, <3>2
  <2> QED
    BY <2>1, <2>2, <2>3
<1> QED
  BY <1>1, <1>5 DEF HoldInv, HoldType, SlotsHeld

(* The deferred calls give back all an upload holds.                       *)
LEMMA FinishRow ==
    ASSUME HoldInv, NEW p \in Requests, NEW code \in {"ok", "error"},
           Finish(p, code), crashed' = crashed,
           code = "ok" /\ req[p].kind = "batch" => \A f \in Files : req[p].files[f] = "stored"
    PROVE  HoldInv'
<1>1. req[p] \in Request /\ RowOK(p) /\ HoldType
  BY DEF HoldInv, HoldType
<1>2. req'[p] = [req[p] EXCEPT !.at = "done", !.session = None, !.metered = FALSE, !.size = 0, !.defers = {}, !.code = code]
  BY <1>1 DEF Finish, HoldType
<1>3. req'[p] \in Request
  BY <1>1, <1>2 DEF Request
<1>4. req' \in [Requests -> Request] /\ \A q \in Requests \ {p} : req'[q] = req[q]
  BY <1>1, <1>3 DEF Finish, HoldType
<1>5. disk' \subseteq disk /\ \A d \in req[p].defers : <<p, d>> \notin disk'
  BY DEF Finish
<1>6. /\ req'[p].at = "done" /\ req'[p].kind = req[p].kind /\ req'[p].files = req[p].files
      /\ req'[p].code = code /\ req'[p].defers = {}
  BY <1>1, <1>2 DEF Request
<1>7. RowOK(p)'
  BY <1>1, <1>5, <1>6 DEF RowOK, HoldAts, VideoAts
<1>8. p \notin Holding'
  BY <1>6 DEF Holding
<1>9. IF p \in Holding THEN slots' = slots - 1 ELSE slots' = slots
  BY <1>1 DEF Finish, RowOK, HoldAts, Holding
<1> QED
  BY <1>1, <1>4, <1>5, <1>7, <1>8, <1>9, OneRow DEF HoldType

(* A handler that goes on keeps what it holds.                             *)
LEMMA GoRow ==
    ASSUME HoldInv, NEW p \in Requests,
           NEW at \in {"copy", "take", "types", "process", "probe", "posters", "store"},
           Go(p, at), UNCHANGED <<slots, disk, crashed>>,
           req[p].at \notin {"new", "parse", "done"},
           req[p].at \in HoldAts <=> at \in HoldAts,
           at \in VideoAts => req[p].kind = "video"
    PROVE  HoldInv'
<1>1. req[p] \in Request /\ RowOK(p) /\ HoldType
  BY DEF HoldInv, HoldType
<1>2. req'[p] = [req[p] EXCEPT !.at = at]
  BY <1>1 DEF Go, HoldType
<1>3. req'[p] \in Request
  BY <1>1, <1>2 DEF Request
<1>4. req' \in [Requests -> Request] /\ \A q \in Requests \ {p} : req'[q] = req[q]
  BY <1>1, <1>3 DEF Go, HoldType
<1>5. /\ req'[p].at = at /\ req'[p].kind = req[p].kind /\ req'[p].files = req[p].files
      /\ req'[p].code = req[p].code /\ req'[p].defers = req[p].defers
  BY <1>1, <1>2 DEF Request
<1>6. RowOK(p)'
  BY <1>1, <1>5 DEF RowOK
<1>7. p \in Holding <=> p \in Holding'
  BY <1>5 DEF Holding, HoldAts
<1> QED
  BY <1>1, <1>4, <1>6, <1>7, OneRow DEF HoldType

(* An upload that is let in goes on with what it holds.                    *)
LEMMA AdmitRow ==
    ASSUME HoldInv, NEW p \in Requests, Admit(p), req[p].at = "take",
           UNCHANGED <<slots, disk, crashed>>
    PROVE  HoldInv'
<1> DEFINE at == AfterTake(req[p].kind)
<1>1. req[p] \in Request /\ RowOK(p) /\ HoldType
  BY DEF HoldInv, HoldType
<1>2. at \in {"probe", "process", "types"} /\ (at = "probe" => req[p].kind = "video")
  BY <1>1, AdmissionAssumption DEF AfterTake, Request
<1> HIDE DEF at
<1>3. req'[p] = [req[p] EXCEPT !.at = at, !.session = None, !.metered = FALSE, !.size = 0]
  BY <1>1 DEF Admit, HoldType, at
<1>4. req'[p] \in Request
  BY <1>1, <1>2, <1>3 DEF Request
<1>5. req' \in [Requests -> Request] /\ \A q \in Requests \ {p} : req'[q] = req[q]
  BY <1>1, <1>4 DEF Admit, HoldType
<1>6. /\ req'[p].at = at /\ req'[p].kind = req[p].kind /\ req'[p].files = req[p].files
      /\ req'[p].code = req[p].code /\ req'[p].defers = req[p].defers
  BY <1>1, <1>3 DEF Request
<1>7. RowOK(p)'
  BY <1>1, <1>2, <1>6 DEF RowOK, HoldAts, VideoAts
<1>8. p \notin Holding /\ p \notin Holding'
  BY <1>2, <1>6 DEF Holding
<1> QED
  BY <1>1, <1>5, <1>7, <1>8, OneRow DEF HoldType

(* A temporary file comes with its deferred removal.                       *)
LEMMA CreateRow ==
    ASSUME HoldInv, NEW p \in Requests, NEW file \in {"form", "input", "output"},
           NEW at \in {"copy", "queue"},
           Create(p, file, at), crashed' = crashed,
           req[p].at \in {"open", "probe"}, req[p].kind = "video"
    PROVE  HoldInv'
<1>1. req[p] \in Request /\ RowOK(p) /\ HoldType
  BY DEF HoldInv, HoldType
<1>2. req'[p] = [req[p] EXCEPT !.at = at, !.defers = @ \cup {file}]
  BY <1>1 DEF Create, HoldType
<1>3. req'[p] \in Request
  <2>1. req[p].defers \cup {file} \in SUBSET Cleanups
    BY <1>1 DEF Request, Cleanups
  <2> QED
    BY <1>1, <1>2, <2>1 DEF Request
<1>4. req' \in [Requests -> Request] /\ \A q \in Requests \ {p} : req'[q] = req[q]
  BY <1>1, <1>3 DEF Create, HoldType
<1>5. /\ req'[p].at = at /\ req'[p].kind = req[p].kind /\ req'[p].files = req[p].files
      /\ req'[p].code = req[p].code /\ req'[p].defers = req[p].defers \cup {file}
  BY <1>1, <1>2 DEF Request
<1>6. /\ disk' \in SUBSET (Requests \X {"form", "input", "output"})
      /\ \A q \in Requests, d \in Cleanups : <<q, d>> \in disk' => <<q, d>> \in disk \/ (q = p /\ d = file)
  BY <1>1 DEF Create, HoldType
<1>7. RowOK(p)'
  BY <1>1, <1>5, <1>6 DEF RowOK, HoldAts, VideoAts
<1>8. p \notin Holding /\ p \notin Holding' /\ slots' = slots
  BY <1>5 DEF Holding, Create
<1> QED
  BY <1>4, <1>6, <1>7, <1>8, OneRow

-----------------------------------------------------------------------------
(* The steps that change a row in a way of their own.                      *)
LEMMA AuthRow ==
    ASSUME HoldInv, NEW p \in Requests, Auth(p)
    PROVE  HoldInv'
<1>1. req[p] \in Request /\ RowOK(p) /\ HoldType /\ crashed' = crashed
  BY DEF HoldInv, HoldType, Auth, Quiet
<1>2. CASE Fail(p)
  BY <1>1, <1>2, FinishRow DEF Fail
<1>3. ASSUME NEW s \in Tokens \cup {None}, NEW m \in BOOLEAN,
             req' = [req EXCEPT ![p].at = "parse", ![p].session = s, ![p].metered = m],
             UNCHANGED <<slots, disk>>
      PROVE  HoldInv'
  <2>1. req'[p] = [req[p] EXCEPT !.at = "parse", !.session = s, !.metered = m]
    BY <1>1, <1>3 DEF HoldType
  <2>2. req'[p] \in Request
    BY <1>1, <2>1 DEF Request
  <2>3. req' \in [Requests -> Request] /\ \A q \in Requests \ {p} : req'[q] = req[q]
    BY <1>1, <1>3, <2>2 DEF HoldType
  <2>4. /\ req'[p].at = "parse" /\ req'[p].kind = req[p].kind /\ req'[p].files = req[p].files
        /\ req'[p].code = req[p].code /\ req'[p].defers = req[p].defers
    BY <1>1, <2>1 DEF Request
  <2>5. req[p].at = "new"
    BY DEF Auth, At
  <2>6. RowOK(p)'
    BY <1>1, <1>3, <2>4, <2>5 DEF RowOK, HoldAts, VideoAts
  <2>7. p \notin Holding /\ p \notin Holding'
    BY <2>4, <2>5 DEF Holding
  <2> QED
    BY <1>1, <1>3, <2>3, <2>6, <2>7, OneRow DEF HoldType
<1> QED
  BY <1>2, <1>3 DEF Auth

LEMMA ParseRow ==
    ASSUME HoldInv, NEW p \in Requests, Parse(p)
    PROVE  HoldInv'
<1>1. req[p] \in Request /\ RowOK(p) /\ HoldType /\ crashed' = crashed
  BY DEF HoldInv, HoldType, Parse, Quiet
<1>2. CASE Fail(p)
  BY <1>1, <1>2, FinishRow DEF Fail
<1>3. ASSUME NEW n \in Sizes,
             req' = [req EXCEPT ![p].at = "open", ![p].size = n, ![p].defers = {"form"}],
             disk' = disk \cup {<<p, "form">>}, UNCHANGED slots
      PROVE  HoldInv'
  <2>1. req'[p] = [req[p] EXCEPT !.at = "open", !.size = n, !.defers = {"form"}]
    BY <1>1, <1>3 DEF HoldType
  <2>2. req'[p] \in Request
    <3>1. {"form"} \in SUBSET Cleanups
      BY DEF Cleanups
    <3> QED
      BY <1>1, <2>1, <3>1 DEF Request
  <2>3. req' \in [Requests -> Request] /\ \A q \in Requests \ {p} : req'[q] = req[q]
    BY <1>1, <1>3, <2>2 DEF HoldType
  <2>4. /\ req'[p].at = "open" /\ req'[p].kind = req[p].kind /\ req'[p].files = req[p].files
        /\ req'[p].code = req[p].code /\ req'[p].defers = {"form"}
    BY <1>1, <2>1 DEF Request
  <2>5. req[p].at = "parse"
    BY DEF Parse, At
  <2>6. /\ disk' \in SUBSET (Requests \X {"form", "input", "output"})
        /\ \A q \in Requests, d \in Cleanups : <<q, d>> \in disk' => <<q, d>> \in disk \/ (q = p /\ d = "form")
    BY <1>1, <1>3 DEF HoldType
  <2>7. RowOK(p)'
    BY <1>1, <1>3, <2>4, <2>5, <2>6 DEF RowOK, HoldAts, VideoAts
  <2>8. p \notin Holding /\ p \notin Holding'
    BY <2>4, <2>5 DEF Holding
  <2> QED
    BY <1>1, <1>3, <2>3, <2>6, <2>7, <2>8, OneRow
<1> QED
  BY <1>2, <1>3 DEF Parse

LEMMA CancelRow ==
    ASSUME HoldInv, NEW p \in Requests, Cancel(p)
    PROVE  HoldInv'
<1>1. req[p] \in Request /\ RowOK(p) /\ HoldType /\ UNCHANGED <<slots, disk, crashed>>
  BY DEF HoldInv, HoldType, Cancel, Quiet
<1>2. req'[p] = [req[p] EXCEPT !.alive = FALSE]
  BY <1>1 DEF Cancel, HoldType
<1>3. req'[p] \in Request
  BY <1>1, <1>2 DEF Request
<1>4. req' \in [Requests -> Request] /\ \A q \in Requests \ {p} : req'[q] = req[q]
  BY <1>1, <1>3 DEF Cancel, HoldType
<1>5. /\ req'[p].at = req[p].at /\ req'[p].kind = req[p].kind /\ req'[p].files = req[p].files
      /\ req'[p].code = req[p].code /\ req'[p].defers = req[p].defers
  BY <1>1, <1>2 DEF Request
<1>6. RowOK(p)' /\ (p \in Holding <=> p \in Holding')
  BY <1>1, <1>5 DEF RowOK, Holding
<1> QED
  BY <1>1, <1>4, <1>6, OneRow DEF HoldType

LEMMA AcquireRow ==
    ASSUME HoldInv, NEW p \in Requests, Acquire(p)
    PROVE  HoldInv'
<1>1. req[p] \in Request /\ RowOK(p) /\ HoldType /\ UNCHANGED <<disk, crashed>>
  BY DEF HoldInv, HoldType, Acquire, Quiet
<1>2. req'[p] = [req[p] EXCEPT !.at = "transcode", !.defers = @ \cup {"slot"}]
  BY <1>1 DEF Acquire, HoldType
<1>3. req'[p] \in Request
  <2>1. req[p].defers \cup {"slot"} \in SUBSET Cleanups
    BY <1>1 DEF Request, Cleanups
  <2> QED
    BY <1>1, <1>2, <2>1 DEF Request
<1>4. req' \in [Requests -> Request] /\ \A q \in Requests \ {p} : req'[q] = req[q]
  BY <1>1, <1>3 DEF Acquire, HoldType
<1>5. /\ req'[p].at = "transcode" /\ req'[p].kind = req[p].kind /\ req'[p].files = req[p].files
      /\ req'[p].code = req[p].code /\ req'[p].defers = req[p].defers \cup {"slot"}
  BY <1>1, <1>2 DEF Request
<1>6. req[p].at = "queue" /\ slots < TranscodeSlots /\ slots' = slots + 1
  BY DEF Acquire, At
<1>7. RowOK(p)'
  BY <1>1, <1>5, <1>6 DEF RowOK, HoldAts, VideoAts
<1>8. p \notin Holding /\ p \in Holding'
  BY <1>5, <1>6 DEF Holding
<1> QED
  BY <1>1, <1>4, <1>6, <1>7, <1>8, OneRow DEF HoldType

LEMMA BatchFileRow ==
    ASSUME HoldInv, NEW p \in Requests, NEW f \in Files, BatchFile(p, f)
    PROVE  HoldInv'
<1>1. req[p] \in Request /\ RowOK(p) /\ HoldType /\ UNCHANGED <<slots, disk, crashed>>
  BY DEF HoldInv, HoldType, BatchFile, Quiet
<1>2. PICK res \in {"stored", "failed"} : req' = [req EXCEPT ![p].files[f] = res]
  BY DEF BatchFile
<1>3. req'[p] = [req[p] EXCEPT !.files[f] = res]
  BY <1>1, <1>2 DEF HoldType
<1>4. req'[p] \in Request
  <2>1. [req[p].files EXCEPT ![f] = res] \in [Files -> {"run", "stored", "failed"}]
    BY <1>1 DEF Request
  <2>2. req'[p] = [req[p] EXCEPT !.files = [req[p].files EXCEPT ![f] = res]]
    BY <1>1, <1>3 DEF Request
  <2> QED
    BY <1>1, <2>1, <2>2 DEF Request
<1>5. req' \in [Requests -> Request] /\ \A q \in Requests \ {p} : req'[q] = req[q]
  BY <1>1, <1>2, <1>4 DEF HoldType
<1>6. /\ req'[p].at = req[p].at /\ req'[p].kind = req[p].kind
      /\ req'[p].code = req[p].code /\ req'[p].defers = req[p].defers
  BY <1>1, <1>3 DEF Request
<1>7. req[p].at = "process" /\ req[p].code # "ok"
  BY <1>1 DEF BatchFile, At, RowOK
<1>8. RowOK(p)' /\ (p \in Holding <=> p \in Holding')
  BY <1>1, <1>6, <1>7 DEF RowOK, Holding
<1> QED
  BY <1>1, <1>5, <1>8, OneRow DEF HoldType

(* A crash ends every upload that was running and frees every place.       *)
LEMMA CrashRows ==
    ASSUME HoldInv, Crash
    PROVE  HoldInv'
<1>1. HoldType /\ \A p \in Requests : req[p] \in Request /\ RowOK(p)
  BY DEF HoldInv, HoldType
<1>2. ASSUME NEW p \in Requests PROVE req'[p] \in Request /\ RowOK(p)' /\ p \notin Holding'
  <2>1. CASE At(p, "new") \/ At(p, "done")
    <3>1. req'[p] = req[p] /\ disk' = disk /\ (p \notin crashed' => p \notin crashed)
      BY <2>1 DEF Crash
    <3> QED
      BY <1>1, <2>1, <3>1 DEF RowOK, Holding, At
  <2>2. CASE ~At(p, "new") /\ ~At(p, "done")
    <3>1. /\ req'[p] = [req[p] EXCEPT !.at = "done", !.session = None, !.metered = FALSE, !.size = 0, !.defers = {}, !.code = "lost"]
          /\ p \in crashed'
      BY <2>2 DEF Crash
    <3>2. req'[p] \in Request /\ req'[p].at = "done" /\ req'[p].defers = {} /\ req'[p].code = "lost"
      BY <1>1, <3>1 DEF Request
    <3> QED
      BY <3>1, <3>2 DEF RowOK, Holding, HoldAts, VideoAts
  <2> QED
    BY <2>1, <2>2
<1>3. Holding' = {} /\ slots' = 0
  BY <1>2 DEF Holding, Crash
<1>4. Cardinality({}) = 0 /\ 0 \in 0..TranscodeSlots
  BY FS_EmptySet, AdmissionAssumption
<1>5. SlotsHeld' /\ slots' \in 0..TranscodeSlots
  BY <1>3, <1>4 DEF SlotsHeld
<1>6. req' \in [Requests -> Request]
  BY <1>2 DEF Crash
<1>7. crashed' \in SUBSET Requests /\ disk' = disk
  BY <1>1 DEF Crash, HoldType
<1> QED
  BY <1>1, <1>2, <1>5, <1>6, <1>7 DEF HoldInv, HoldType

LEMMA HoldInit == Init => HoldInv
<1> SUFFICES ASSUME Init PROVE HoldInv
  OBVIOUS
<1>1. PICK kind \in [Requests -> Kinds] :
        req = [p \in Requests |-> [at |-> "new", kind |-> kind[p], session |-> None,
                                   metered |-> FALSE, size |-> 0, alive |-> TRUE, defers |-> {},
                                   files |-> [f \in Files |-> "run"], code |-> ""]]
  BY DEF Init
<1>2. \A p \in Requests : req[p] \in Request
  BY <1>1 DEF Request
<1>3. \A p \in Requests : req[p].at = "new" /\ req[p].defers = {} /\ req[p].code = ""
  BY <1>1
<1>4. \A p \in Requests : RowOK(p)
  BY <1>3 DEF RowOK, Init, HoldAts, VideoAts
<1>5. Holding = {}
  BY <1>3 DEF Holding
<1>6. SlotsHeld /\ slots \in 0..TranscodeSlots
  <2>1. Cardinality({}) = 0 /\ 0 \in 0..TranscodeSlots
    BY FS_EmptySet, AdmissionAssumption
  <2> QED
    BY <1>5, <2>1 DEF Init, SlotsHeld
<1> QED
  BY <1>1, <1>2, <1>4, <1>6 DEF HoldInv, HoldType, Init

LEMMA HoldNext == HoldInv /\ [Next]_vars => HoldInv'
<1> SUFFICES ASSUME HoldInv, [Next]_vars PROVE HoldInv'
  OBVIOUS
<1> USE DEF At
<1>1. ASSUME NEW p \in Requests, crashed' = crashed, Fail(p) PROVE HoldInv'
  BY <1>1, FinishRow DEF Fail
<1>2. ASSUME NEW p \in Requests PROVE req[p] \in Request /\ RowOK(p)
  BY DEF HoldInv, HoldType
<1>3. ASSUME NEW p \in Requests, Open(p) PROVE HoldInv'
  <2>1. CASE Fail(p)
    BY <1>1, <1>3, <2>1 DEF Open, Quiet
  <2>2. CASE req[p].kind = "video" /\ Create(p, "input", "copy")
    BY <1>3, <2>2, CreateRow DEF Open, Quiet
  <2>3. ASSUME NEW at \in {"copy", "take"}, Go(p, at), UNCHANGED <<slots, disk>> PROVE HoldInv'
    BY <1>3, <2>3, GoRow DEF Open, Quiet, HoldAts, VideoAts
  <2> QED
    BY <1>3, <2>1, <2>2, <2>3 DEF Open
<1>4. ASSUME NEW p \in Requests, Copy(p) PROVE HoldInv'
  <2>1. CASE Go(p, "take") /\ UNCHANGED <<slots, disk>>
    BY <1>4, <2>1, GoRow DEF Copy, Quiet, HoldAts, VideoAts
  <2> QED
    BY <1>1, <1>4, <2>1 DEF Copy, Quiet
<1>5. ASSUME NEW p \in Requests, Take(p) PROVE HoldInv'
  <2>1. CASE Admit(p) /\ UNCHANGED <<slots, disk>>
    BY <1>5, <2>1, AdmitRow DEF Take
  <2> QED
    BY <1>1, <1>5, <2>1 DEF Take
<1>6. ASSUME NEW p \in Requests, FileProcess(p) PROVE HoldInv'
  BY <1>6, FinishRow DEF FileProcess, Fail, Quiet
<1>7. ASSUME NEW p \in Requests, BatchTypes(p) PROVE HoldInv'
  <2>1. CASE Go(p, "process") /\ UNCHANGED <<slots, disk>>
    BY <1>7, <2>1, GoRow DEF BatchTypes, Quiet, HoldAts, VideoAts
  <2> QED
    BY <1>1, <1>7, <2>1 DEF BatchTypes, Quiet
<1>8. ASSUME NEW p \in Requests, BatchDone(p) PROVE HoldInv'
  <2> DEFINE results == {req[p].files[f] : f \in Files}
             code == IF "failed" \in results THEN "error" ELSE "ok"
  <2>1. code \in {"ok", "error"} /\ Finish(p, code) /\ crashed' = crashed /\ "run" \notin results
    BY <1>8 DEF BatchDone, Quiet
  <2>2. code = "ok" => \A f \in Files : req[p].files[f] = "stored"
    <3> SUFFICES ASSUME code = "ok", NEW f \in Files PROVE req[p].files[f] = "stored"
      OBVIOUS
    <3>1. req[p].files[f] \in {"run", "stored", "failed"}
      BY <1>2 DEF Request
    <3>2. req[p].files[f] \in results
      OBVIOUS
    <3>3. "failed" \notin results
      OBVIOUS
    <3> HIDE DEF results
    <3> QED
      BY <2>1, <3>1, <3>2, <3>3
  <2> HIDE DEF code
  <2> QED
    BY <2>1, <2>2, FinishRow
<1>9. ASSUME NEW p \in Requests, VideoProbe(p) PROVE HoldInv'
  <2>1. req[p].kind = "video" /\ crashed' = crashed /\ req[p].at = "probe"
    BY <1>2, <1>9 DEF VideoProbe, RowOK, VideoAts, Quiet
  <2>2. CASE Create(p, "output", "queue")
    BY <2>1, <2>2, CreateRow
  <2> QED
    BY <1>1, <1>9, <2>1, <2>2 DEF VideoProbe
<1>10. ASSUME NEW p \in Requests, Transcode(p) \/ Posters(p) PROVE HoldInv'
  <2>1. req[p].at \in HoldAts /\ req[p].kind = "video" /\ crashed' = crashed
    BY <1>2, <1>10 DEF Transcode, Posters, RowOK, HoldAts, VideoAts, Quiet
  <2>2. ASSUME NEW at \in {"posters", "store"}, Go(p, at), UNCHANGED <<slots, disk>> PROVE HoldInv'
    BY <2>1, <2>2, GoRow DEF HoldAts
  <2> QED
    BY <1>1, <1>10, <2>1, <2>2 DEF Transcode, Posters
<1>11. ASSUME NEW p \in Requests, Store(p) PROVE HoldInv'
  <2>1. req[p].kind = "video" /\ crashed' = crashed
    BY <1>2, <1>11 DEF Store, RowOK, HoldAts, VideoAts, Quiet
  <2> QED
    BY <1>11, <2>1, FinishRow DEF Store, Fail
<1>12. ASSUME NEW p \in Requests, GiveUp(p) PROVE HoldInv'
  BY <1>1, <1>12 DEF GiveUp, Quiet
<1>13. CASE Midnight \/ UNCHANGED vars
  BY <1>13 DEF Midnight, vars, HoldInv, HoldType, SlotsHeld, Holding, RowOK
<1> QED
  BY <1>3, <1>4, <1>5, <1>6, <1>7, <1>8, <1>9, <1>10, <1>11, <1>12, <1>13,
     AuthRow, ParseRow, CancelRow, AcquireRow, BatchFileRow, CrashRows
     DEF Next, Local, Remote

-----------------------------------------------------------------------------
LEMMA QuotaInit == Init => QuotaInv
<1> SUFFICES ASSUME Init PROVE QuotaInv
  OBVIOUS
<1>0. 0 \in Days /\ 0 # None
  <2>1. 0 \in 0..LastDay
    BY AdmissionAssumption
  <2> QED
    BY <2>1, AdmissionAssumption DEF Days
<1>1. QuotaType
  BY <1>0 DEF Init, QuotaType, NothingUsed
<1>2. \A d \in Days, k \in Tokens : accepted[d][k] = 0 /\ unmetered[d][k] = 0
  BY DEF Init, NothingUsed
<1>3. budget.day = None /\ day = 0 /\ day # None /\ day \in Days
  BY <1>0 DEF Init
<1>4. Accounted
  BY <1>2, <1>3 DEF Accounted
<1>5. QuotaHeld
  BY <1>1, <1>2, AdmissionAssumption DEF QuotaHeld, QuotaType
<1> QED
  BY <1>1, <1>4, <1>5 DEF QuotaInv

(* take counts what it lets in on the day it is let in.                    *)
LEMMA TakeQuota ==
    ASSUME QuotaInv, HoldInv, NEW p \in Requests, Take(p)
    PROVE  QuotaInv'
<1> DEFINE t == req[p].session
           k == SessionKey(p)
           n == req[p].size
           used == IF budget.day = day THEN budget.used ELSE NothingUsed
<1>1. /\ limit \in Nat /\ day \in Days /\ day \in Nat
      /\ n \in Nat /\ used \in [Tokens -> Nat]
      /\ limit' = limit /\ day' = day
      /\ k \in Tokens \cup {None} /\ t \in Tokens \cup {None}
  <2>1. req[p] \in Request
    BY DEF HoldInv, HoldType
  <2>2. limit \in Nat /\ day \in Days /\ day \in Nat
    BY AdmissionAssumption DEF QuotaInv, QuotaType, Days
  <2>3. budget.used \in [Tokens -> Nat] /\ NothingUsed \in [Tokens -> Nat]
    BY DEF QuotaInv, QuotaType, NothingUsed
  <2>4. n \in Nat /\ t \in Tokens \cup {None}
    <3>1. req[p].size \in Sizes \cup {0} /\ req[p].session \in Tokens \cup {None}
      BY <2>1 DEF Request
    <3>2. Sizes \cup {0} \subseteq Nat
      BY AdmissionAssumption
    <3> QED
      BY <3>1, <3>2
  <2>5. limit' = limit /\ day' = day
    BY DEF Take
  <2>6. k \in Tokens \cup {None}
    BY <2>4 DEF SessionKey
  <2> QED
    BY <2>2, <2>3, <2>4, <2>5, <2>6
<1>2. day # None
  BY <1>1, AdmissionAssumption DEF Days
<1>3. \A j \in Tokens : accepted[day][j] = unmetered[day][j] + used[j]
  BY DEF QuotaInv, Accounted, NothingUsed
<1>4. accepted \in [Days -> [Tokens -> Nat]] /\ unmetered \in [Days -> [Tokens -> Nat]]
  BY DEF QuotaInv, QuotaType
<1>5. CASE UNCHANGED <<budget, accepted, unmetered>>
  BY <1>1, <1>5 DEF QuotaInv, QuotaType, Accounted, QuotaHeld
<1>6. CASE /\ limit > 0 /\ k # None /\ used[k] + n <= limit
           /\ budget' = [day |-> day, used |-> [used EXCEPT ![k] = @ + n]]
           /\ accepted' = [accepted EXCEPT ![day][k] = @ + n]
           /\ unmetered' = unmetered
  <2> HIDE DEF k, n, used
  <2>1. k \in Tokens
    BY <1>1, <1>6
  <2>2. budget'.day = day /\ budget'.used = [used EXCEPT ![k] = @ + n]
    BY <1>6
  <2>3. budget' \in [day : Days \cup {None}, used : [Tokens -> Nat]]
    BY <1>1, <1>6, <2>1
  <2>4. /\ accepted' \in [Days -> [Tokens -> Nat]]
        /\ \A d \in Days \ {day} : accepted'[d] = accepted[d]
        /\ accepted'[day] = [accepted[day] EXCEPT ![k] = @ + n]
    BY <1>1, <1>4, <1>6, <2>1
  <2>5. ASSUME NEW j \in Tokens
        PROVE  /\ accepted'[day][j] = unmetered'[day][j] + budget'.used[j]
               /\ accepted'[day][j] <= limit + unmetered'[day][j]
    <3>1. /\ accepted[day][j] \in Nat /\ unmetered[day][j] \in Nat /\ used[j] \in Nat
          /\ accepted[day][j] = unmetered[day][j] + used[j] /\ unmetered'[day][j] = unmetered[day][j]
      BY <1>1, <1>3, <1>4, <1>6
    <3>2. CASE j = k
      <4>1. accepted'[day][j] = accepted[day][j] + n /\ budget'.used[j] = used[j] + n
        BY <1>1, <1>4, <2>1, <2>2, <2>4, <3>2
      <4> QED
        BY <1>1, <1>6, <3>1, <3>2, <4>1
    <3>3. CASE j # k
      <4>1. accepted'[day][j] = accepted[day][j] /\ budget'.used[j] = used[j]
        BY <1>1, <1>4, <2>2, <2>4, <3>3
      <4> QED
        BY <1>1, <1>6, <3>1, <4>1 DEF QuotaInv, QuotaHeld
    <3> QED
      BY <3>2, <3>3
  <2>6. QuotaType'
    BY <1>1, <1>4, <1>6, <2>3, <2>4 DEF QuotaInv, QuotaType
  <2>7. Accounted'
    BY <1>1, <1>2, <1>6, <2>2, <2>4, <2>5 DEF QuotaInv, Accounted
  <2>8. QuotaHeld'
    BY <1>1, <1>6, <2>4, <2>5 DEF QuotaInv, QuotaHeld
  <2> QED
    BY <2>6, <2>7, <2>8 DEF QuotaInv
<1>7. CASE budget' = [day |-> day, used |-> used] /\ UNCHANGED <<accepted, unmetered>>
  <2> HIDE DEF used
  <2>1. budget'.day = day /\ budget'.used = used
    BY <1>7
  <2>2. QuotaType'
    BY <1>1, <1>7 DEF QuotaInv, QuotaType
  <2>3. Accounted'
    BY <1>1, <1>3, <1>7, <2>1 DEF QuotaInv, Accounted
  <2>4. QuotaHeld'
    BY <1>1, <1>7 DEF QuotaInv, QuotaHeld
  <2> QED
    BY <2>2, <2>3, <2>4 DEF QuotaInv
<1>8. CASE /\ t # None /\ budget' = budget
           /\ accepted' = [accepted EXCEPT ![day][t] = @ + n]
           /\ unmetered' = [unmetered EXCEPT ![day][t] = @ + n]
  <2> HIDE DEF t, n, used
  <2>1. t \in Tokens
    BY <1>1, <1>8
  <2>2. /\ accepted' \in [Days -> [Tokens -> Nat]] /\ unmetered' \in [Days -> [Tokens -> Nat]]
        /\ \A d \in Days \ {day} : accepted'[d] = accepted[d] /\ unmetered'[d] = unmetered[d]
        /\ accepted'[day] = [accepted[day] EXCEPT ![t] = @ + n]
        /\ unmetered'[day] = [unmetered[day] EXCEPT ![t] = @ + n]
    BY <1>1, <1>4, <1>8, <2>1
  <2>3. \A j \in Tokens : \E i \in Nat : /\ accepted'[day][j] = accepted[day][j] + i
                                         /\ unmetered'[day][j] = unmetered[day][j] + i
    <3> SUFFICES ASSUME NEW j \in Tokens
                 PROVE  \E i \in Nat : /\ accepted'[day][j] = accepted[day][j] + i
                                        /\ unmetered'[day][j] = unmetered[day][j] + i
      OBVIOUS
    <3>1. accepted[day][j] \in Nat /\ unmetered[day][j] \in Nat
      BY <1>1, <1>4
    <3>2. CASE j = t
      BY <1>1, <1>4, <2>1, <2>2, <3>2
    <3>3. CASE j # t
      <4>1. accepted'[day][j] = accepted[day][j] + 0 /\ unmetered'[day][j] = unmetered[day][j] + 0
        BY <1>1, <1>4, <2>2, <3>1, <3>3
      <4> QED
        BY <4>1
    <3> QED
      BY <3>2, <3>3
  <2>4. ASSUME NEW j \in Tokens
        PROVE  /\ accepted'[day][j] = unmetered'[day][j] + used[j]
               /\ limit > 0 => accepted'[day][j] <= limit + unmetered'[day][j]
    <3>1. /\ accepted[day][j] \in Nat /\ unmetered[day][j] \in Nat /\ used[j] \in Nat
          /\ accepted[day][j] = unmetered[day][j] + used[j]
          /\ limit > 0 => accepted[day][j] <= limit + unmetered[day][j]
      BY <1>1, <1>3, <1>4 DEF QuotaInv, QuotaHeld
    <3>2. PICK i \in Nat : /\ accepted'[day][j] = accepted[day][j] + i
                           /\ unmetered'[day][j] = unmetered[day][j] + i
      BY <2>3
    <3> QED
      BY <1>1, <3>1, <3>2
  <2>5. QuotaType'
    BY <1>1, <1>8, <2>2 DEF QuotaInv, QuotaType
  <2>6. Accounted'
    <3>1. \A j \in Tokens : used[j] = IF budget'.day = day' THEN budget'.used[j] ELSE 0
      BY <1>1, <1>8 DEF used, NothingUsed
    <3> QED
      BY <1>1, <1>8, <2>2, <2>4, <3>1 DEF QuotaInv, Accounted
  <2>7. QuotaHeld'
    BY <1>1, <2>2, <2>4 DEF QuotaInv, QuotaHeld
  <2> QED
    BY <2>5, <2>6, <2>7 DEF QuotaInv
<1> QED
  BY <1>5, <1>6, <1>7, <1>8 DEF Take, Count, counts

LEMMA QuotaNext == QuotaInv /\ HoldInv /\ [Next]_vars => QuotaInv'
<1> SUFFICES ASSUME QuotaInv, HoldInv, [Next]_vars PROVE QuotaInv'
  OBVIOUS
<1>1. CASE UNCHANGED <<limit, day, budget, accepted, unmetered>>
  BY <1>1 DEF QuotaInv, QuotaType, Accounted, QuotaHeld
<1>2. CASE Midnight
  <2>1. day' = day + 1 /\ day' \in Days /\ day \in Nat /\ UNCHANGED <<limit, budget, accepted, unmetered>>
    BY <1>2, AdmissionAssumption DEF Midnight, QuotaInv, QuotaType, Days
  <2>2. budget.day # day'
    <3>1. CASE budget.day = None
      BY <2>1, <3>1, AdmissionAssumption DEF Days
    <3>2. CASE budget.day # None
      BY <2>1, <3>2 DEF QuotaInv, QuotaType, Accounted, Days
    <3> QED
      BY <3>1, <3>2
  <2>3. QuotaType'
    BY <2>1 DEF QuotaInv, QuotaType
  <2>4. Accounted'
    <3>1. budget'.day # None => budget'.day <= day'
      BY <2>1 DEF QuotaInv, QuotaType, Accounted, Days
    <3>2. \A d \in Days, k \in Tokens : d >= day' => accepted'[d][k] = 0 /\ unmetered'[d][k] = 0
      BY <2>1 DEF QuotaInv, Accounted, Days
    <3>3. \A k \in Tokens : accepted'[day'][k] = 0 /\ unmetered'[day'][k] = 0
      BY <2>1, <3>2 DEF Days
    <3>4. \A d \in Days, k \in Tokens : d > day' => accepted'[d][k] = 0 /\ unmetered'[d][k] = 0
      BY <2>1, <3>2 DEF Days
    <3> QED
      BY <2>1, <2>2, <3>1, <3>3, <3>4 DEF Accounted
  <2>5. QuotaHeld'
    BY <2>1 DEF QuotaInv, QuotaHeld
  <2> QED
    BY <2>3, <2>4, <2>5 DEF QuotaInv
<1>3. CASE Crash
  <2>1. /\ budget' = [day |-> None, used |-> NothingUsed] /\ UNCHANGED <<limit, day>>
        /\ accepted' = [d \in Days |-> NothingUsed] /\ unmetered' = [d \in Days |-> NothingUsed]
    BY <1>3 DEF Crash
  <2>2. \A d \in Days, k \in Tokens : accepted'[d][k] = 0 /\ unmetered'[d][k] = 0
    BY <2>1 DEF NothingUsed
  <2>3. day \in Days /\ day # None /\ limit \in Nat
    BY AdmissionAssumption DEF QuotaInv, QuotaType, Days
  <2>4. QuotaType'
    BY <2>1 DEF QuotaInv, QuotaType, NothingUsed
  <2>5. budget'.day = None
    BY <2>1
  <2>6. Accounted'
    BY <2>1, <2>2, <2>3, <2>5 DEF Accounted
  <2>7. QuotaHeld'
    BY <2>1, <2>2, <2>3 DEF QuotaHeld
  <2> QED
    BY <2>4, <2>6, <2>7 DEF QuotaInv
<1>4. ASSUME NEW p \in Requests, Auth(p) \/ Cancel(p) \/ Local(p) \/ Remote(p), ~Take(p)
      PROVE  UNCHANGED <<limit, day, budget, accepted, unmetered>>
  BY <1>4 DEF Auth, Cancel, Local, Remote, Open, Copy, BatchTypes, Acquire, GiveUp, Transcode,
              Parse, FileProcess, BatchFile, BatchDone, VideoProbe, Posters, Store, Quiet
<1> QED
  BY <1>1, <1>2, <1>3, <1>4, TakeQuota DEF Next, vars

-----------------------------------------------------------------------------
LEMMA InvAlways == Spec => [](HoldInv /\ QuotaInv)
BY HoldInit, HoldNext, QuotaInit, QuotaNext, PTL DEF Spec

(* The state keeps its shape: no place in transcodeSlots is given back     *)
(* that was not taken.                                                     *)
THEOREM TypeCorrect == Spec => []TypeOK
<1>1. HoldInv /\ QuotaInv => TypeOK
  BY DEF HoldInv, HoldType, QuotaInv, QuotaType, TypeOK
<1> QED
  BY <1>1, InvAlways, PTL

(* The places taken in transcodeSlots are those of the videos between      *)
(* their transcode and their answer.                                       *)
THEOREM SlotsHeldCorrect == Spec => []SlotsHeld
<1>1. HoldInv => SlotsHeld
  BY DEF HoldInv
<1> QED
  BY <1>1, InvAlways, PTL

(* HandleUploadVideo and parseUploadForm leave no temporary file behind on *)
(* any way out.                                                            *)
THEOREM TempOwnedCorrect == Spec => []TempOwned
<1>1. HoldInv => TempOwned
  BY DEF HoldInv, RowOK, TempOwned, At
<1> QED
  BY <1>1, InvAlways, PTL

(* All the bytes let in for a session on a day are under the limit, but    *)
(* for those uploadBudget.take is asked about without a key: its token     *)
(* came as X-API-Key or access_token.                                      *)
THEOREM QuotaHeldCorrect == Spec => []QuotaHeld
<1>1. QuotaInv => QuotaHeld
  BY DEF QuotaInv
<1> QED
  BY <1>1, InvAlways, PTL

(* HandleUploadMultiple answers with results only when all are there.      *)
THEOREM BatchWholeCorrect == Spec => []BatchWhole
<1>1. HoldInv => BatchWhole
  BY DEF HoldInv, RowOK, BatchWhole
<1> QED
  BY <1>1, InvAlways, PTL
=============================================================================
