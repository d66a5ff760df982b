--------------------------- MODULE UploadAdmission ---------------------------
(***************************************************************************)
(* What an upload holds on its way through the server: who it comes from   *)
(* (middleware/auth.go), the form it is parsed into (upload_request.go),   *)
(* its share of the day's bytes and its place among the transcodes         *)
(* (upload_budget.go), and the temporary files of HandleUploadVideo.       *)
(* Cleaning up is left to deferred calls, modelled as the set of those the *)
(* handler has registered so far.                                          *)
(***************************************************************************)
EXTENDS Naturals, FiniteSets

CONSTANTS
    Requests,
    Kinds,         \* of "file", "batch" and "video": the three upload routes
    Files,         \* the files of a batch
    Tokens,        \* what a request may present
    ApiKeys,       \* the tokens among API_KEYS
    Sizes,         \* sizes of an upload in bytes
    Limits,        \* values of UPLOAD_DAILY_BYTES; 0 turns the budget off
    TranscodeSlots,\* 2 in the code
    LastDay,       \* bound on the days of a behaviour
    None

ASSUME AdmissionAssumption ==
    /\ Kinds \subseteq {"file", "batch", "video"}
    /\ IsFiniteSet(Requests)
    /\ ApiKeys \subseteq Tokens /\ None \notin Tokens \cup 0..LastDay
    /\ Sizes \subseteq Nat /\ Limits \subseteq Nat
    /\ TranscodeSlots \in Nat \ {0} /\ LastDay \in Nat

VARIABLES
    limit,     \* the configured budget
    day,       \* today
    budget,    \* the budget in memory: the day it is of and the bytes used
    slots,     \* places taken in transcodeSlots
    req,       \* req[p]: an upload
    disk,      \* temporary files: <<p, "form">>, <<p, "input">>, <<p, "output">>
    accepted,  \* observer: accepted[d][k]: bytes let in for session k on day d
    unmetered, \* observer: unmetered[d][k]: those of them the budget did not see
    crashed    \* observer: uploads that ended with the process

counts == <<accepted, unmetered>>

vars == <<limit, day, budget, slots, req, disk, accepted, unmetered, crashed>>

Days == 0..LastDay

(* Where a token may be; the middleware reads the cookie as the header.    *)
Places == {"header", "cookie", "token", "x_api_key", "access_token"}

Cleanups == {"form", "input", "output", "slot"}

Request == [at : {"new", "parse", "open", "copy", "take", "types", "process", "probe",
                  "queue", "transcode", "posters", "store", "done"},
            kind : Kinds, session : Tokens \cup {None}, metered : BOOLEAN,
            size : Sizes \cup {0}, alive : BOOLEAN,
            defers : SUBSET Cleanups, files : [Files -> {"run", "stored", "failed"}],
            code : {"", "ok", "error", "lost"}]

NothingUsed == [k \in Tokens |-> 0]

Init == /\ limit \in Limits
        /\ day = 0
        /\ budget = [day |-> None, used |-> NothingUsed]
        /\ slots = 0
        /\ \E kind \in [Requests -> Kinds] :
             req = [p \in Requests |-> [at |-> "new", kind |-> kind[p], session |-> None,
                                        metered |-> FALSE, size |-> 0, alive |-> TRUE, defers |-> {},
                                        files |-> [f \in Files |-> "run"], code |-> ""]]
        /\ disk = {}
        /\ accepted = [d \in Days |-> NothingUsed]
        /\ unmetered = [d \in Days |-> NothingUsed]
        /\ crashed = {}

-----------------------------------------------------------------------------
At(p, at) == req[p].at = at

Go(p, at) == req' = [req EXCEPT ![p].at = at]

(* The handler answers and returns: its deferred calls run.                *)
Finish(p, code) ==
    /\ req' = [req EXCEPT ![p].at = "done", ![p].session = None, ![p].metered = FALSE,
                            ![p].size = 0, ![p].defers = {}, ![p].code = code]
    /\ disk' = disk \ {<<p, d>> : d \in req[p].defers}
    /\ slots' = IF "slot" \in req[p].defers THEN slots - 1 ELSE slots

Quiet == UNCHANGED <<limit, day, budget, accepted, unmetered, crashed>>

Fail(p) == Finish(p, "error")

(* A temporary file of p appears and its removal is deferred.              *)
Create(p, file, at) ==
    /\ disk' = disk \cup {<<p, file>>}
    /\ req' = [req EXCEPT ![p].at = at, ![p].defers = @ \cup {file}]
    /\ UNCHANGED slots

(* The client leaves before the answer.                                    *)
Cancel(p) ==
    /\ ~At(p, "new") /\ ~At(p, "done") /\ req[p].alive
    /\ req' = [req EXCEPT ![p].alive = FALSE]
    /\ UNCHANGED <<slots, disk>> /\ Quiet

(* AuthMiddleware: a static key passes, else the script decides.           *)
Authorized(token, lua) == token \in ApiKeys \/ lua = "allow"

(* uploadSessionKey looks for a token in fewer places than extractToken.   *)
SessionPlaces == {"header", "cookie", "token"}

SessionKey(p) == IF req[p].metered THEN req[p].session ELSE None

Auth(p) ==
    /\ At(p, "new")
    /\ \E token \in Tokens \cup {None}, place \in Places, lua \in {"off", "allow", "deny", "error"} :
         IF Authorized(token, lua)
         THEN /\ req' = [req EXCEPT ![p].at = "parse", ![p].session = token,
                                    ![p].metered = (token # None /\ place \in SessionPlaces)]
              /\ UNCHANGED <<slots, disk>>
         ELSE Fail(p)
    /\ Quiet

(* parseUploadForm: the body is spilled to disk, with what was spilled     *)
(* removed when it is too large or not a form.                             *)
Parse(p) ==
    /\ At(p, "parse")
    /\ \/ /\ \E n \in Sizes : req' = [req EXCEPT ![p].at = "open", ![p].size = n,
                                                 ![p].defers = {"form"}]
          /\ disk' = disk \cup {<<p, "form">>}
          /\ UNCHANGED slots
       \/ Fail(p)
    /\ Quiet

(* The file is there and of a kind the route takes; a video needs room     *)
(* for its copy.                                                           *)
Open(p) ==
    /\ At(p, "open")
    /\ \/ req[p].kind = "video" /\ Create(p, "input", "copy")
       \/ req[p].kind = "file" /\ Go(p, "copy") /\ UNCHANGED <<slots, disk>>
       \/ req[p].kind = "batch" /\ Go(p, "take") /\ UNCHANGED <<slots, disk>>
       \/ Fail(p)
    /\ Quiet

(* The file is read with its limit.                                        *)
Copy(p) ==
    /\ At(p, "copy")
    /\ \/ Go(p, "take") /\ UNCHANGED <<slots, disk>>
       \/ Fail(p)
    /\ Quiet

AfterTake(kind) == CASE kind = "video" -> "probe" [] kind = "file" -> "process"
                     [] kind = "batch" -> "types"

(* Bytes of session k are let in today; counted while there is a budget.   *)
Count(k, size, seen) ==
    IF limit = 0 \/ k = None THEN UNCHANGED counts
    ELSE /\ accepted' = [accepted EXCEPT ![day][k] = @ + size]
         /\ unmetered' = IF seen THEN unmetered ELSE [unmetered EXCEPT ![day][k] = @ + size]

(* The upload goes on; whose it is and its size are not looked at again.   *)
Admit(p) ==
    req' = [req EXCEPT ![p].at = AfterTake(req[p].kind), ![p].session = None,
                       ![p].metered = FALSE, ![p].size = 0]

(* Mutant: the map is replaced but not the day it is of.                   *)
TakeMutant(p) ==
    LET k == SessionKey(p)
        used == IF budget.day = day THEN budget.used ELSE NothingUsed
    IN  /\ At(p, "take")
        /\ \/ /\ limit = 0 \/ k = None
              /\ Count(req[p].session, req[p].size, FALSE)
              /\ Admit(p)
              /\ UNCHANGED <<budget, slots, disk>>
           \/ /\ limit > 0 /\ k # None /\ used[k] + req[p].size <= limit
              /\ budget' = [budget EXCEPT !.used = [used EXCEPT ![k] = @ + req[p].size]]
              /\ Count(k, req[p].size, TRUE)
              /\ Admit(p)
              /\ UNCHANGED <<slots, disk>>
        /\ UNCHANGED <<limit, day, crashed>>

(* uploadBudget.take, under its lock: the first upload of a day starts the *)
(* count anew; without a budget or a key everything is let in.             *)
Take(p) ==
    LET k == SessionKey(p)
        used == IF budget.day = day THEN budget.used ELSE NothingUsed
    IN  /\ At(p, "take")
        /\ \/ /\ limit = 0 \/ k = None
              /\ Count(req[p].session, req[p].size, FALSE)
              /\ Admit(p)
              /\ UNCHANGED <<budget, slots, disk>>
           \/ /\ limit > 0 /\ k # None /\ used[k] + req[p].size <= limit
              /\ budget' = [day |-> day, used |-> [used EXCEPT ![k] = @ + req[p].size]]
              /\ Count(k, req[p].size, TRUE)
              /\ Admit(p)
              /\ UNCHANGED <<slots, disk>>
           \/ /\ limit > 0 /\ k # None /\ used[k] + req[p].size > limit
              /\ budget' = [day |-> day, used |-> used]
              /\ Fail(p)
              /\ UNCHANGED counts
        /\ UNCHANGED <<limit, day, crashed>>

-----------------------------------------------------------------------------
(* HandleUpload: the bundle is built and added, or not; a panic on the way *)
(* is answered by PanicRecovery.                                           *)
FileProcess(p) ==
    /\ At(p, "process") /\ req[p].kind = "file"
    /\ Finish(p, "ok") \/ Fail(p)
    /\ Quiet

(* HandleUploadMultiple: the names are checked after the bytes are taken.  *)
BatchTypes(p) ==
    /\ At(p, "types")
    /\ \/ Go(p, "process") /\ UNCHANGED <<slots, disk>>
       \/ Fail(p)
    /\ Quiet

(* One goroutine of a batch ends.                                          *)
BatchFile(p, f) ==
    /\ At(p, "process") /\ req[p].kind = "batch" /\ req[p].files[f] = "run"
    /\ \E result \in {"stored", "failed"} : req' = [req EXCEPT ![p].files[f] = result]
    /\ UNCHANGED <<slots, disk>> /\ Quiet

(* Mutant: the handler answers with the results there are.                 *)
BatchDoneMutant(p) ==
    LET results == {req[p].files[f] : f \in Files}
    IN  /\ At(p, "process") /\ req[p].kind = "batch"
        /\ Finish(p, IF "failed" \in results THEN "error" ELSE "ok")
        /\ Quiet

(* wg.Wait: one failure fails the batch.                                   *)
BatchDone(p) ==
    LET results == {req[p].files[f] : f \in Files}
    IN  /\ At(p, "process") /\ req[p].kind = "batch"
        /\ "run" \notin results
        /\ Finish(p, IF "failed" \in results THEN "error" ELSE "ok")
        /\ Quiet

-----------------------------------------------------------------------------
(* Mutant: the directory is removed at the end of a complete upload only.  *)
VideoProbeMutant(p) ==
    /\ At(p, "probe")
    /\ \/ disk' = disk \cup {<<p, "output">>} /\ Go(p, "queue") /\ UNCHANGED slots
       \/ Fail(p)
    /\ Quiet

(* Validate, then the directory for the output.                            *)
VideoProbe(p) ==
    /\ At(p, "probe")
    /\ \/ Create(p, "output", "queue")
       \/ Fail(p)
    /\ Quiet

(* Mutant: the slot is given back by hand after a successful transcode.    *)
AcquireMutant(p) ==
    /\ At(p, "queue") /\ slots < TranscodeSlots
    /\ slots' = slots + 1
    /\ Go(p, "transcode")
    /\ UNCHANGED disk /\ Quiet

(* acquireTranscodeSlot: a place in the channel ...                        *)
Acquire(p) ==
    /\ At(p, "queue") /\ slots < TranscodeSlots
    /\ slots' = slots + 1
    /\ req' = [req EXCEPT ![p].at = "transcode", ![p].defers = @ \cup {"slot"}]
    /\ UNCHANGED disk /\ Quiet

(* Mutant: the queue is left only by clients that are gone.                *)
GiveUpMutant(p) ==
    /\ At(p, "queue") /\ ~req[p].alive
    /\ Fail(p)
    /\ Quiet

(* ... or the client is gone, or transcodeQueueWait has passed.            *)
GiveUp(p) ==
    /\ At(p, "queue")
    /\ Fail(p)
    /\ Quiet

(* Transcode under transcodeTimeout and the client's context.              *)
Transcode(p) ==
    /\ At(p, "transcode")
    /\ \/ req[p].alive /\ Go(p, "posters") /\ UNCHANGED <<slots, disk>>
       \/ Fail(p)
    /\ Quiet

(* buildVideoPrivacyPosters, with the client's context.                    *)
Posters(p) ==
    /\ At(p, "posters")
    /\ \/ Go(p, "store") /\ UNCHANGED <<slots, disk>>
       \/ Fail(p)
    /\ Quiet

(* Mutant: the output is added with a context of its own.                  *)
StoreMutant(p) ==
    /\ At(p, "store") /\ req[p].alive
    /\ Finish(p, "ok") \/ Fail(p)
    /\ Quiet

(* UploadDir, with the client's context; the group is tracked.             *)
Store(p) ==
    /\ At(p, "store")
    /\ Finish(p, "ok") \/ Fail(p)
    /\ Quiet

-----------------------------------------------------------------------------
(* The clock of take passes midnight.                                      *)
Midnight ==
    /\ day < LastDay
    /\ day' = day + 1
    /\ UNCHANGED <<limit, budget, slots, req, disk, accepted, unmetered, crashed>>

(* The process ends and is started again: the budget and the channel are   *)
(* new, the temporary files are not.                                       *)
Crash ==
    LET running == {p \in Requests : ~At(p, "new") /\ ~At(p, "done")}
    IN  /\ budget' = [day |-> None, used |-> NothingUsed]
        /\ slots' = 0
        /\ req' = [p \in Requests |-> IF p \in running
                     THEN [req[p] EXCEPT !.at = "done", !.session = None, !.metered = FALSE,
                                    !.size = 0, !.defers = {}, !.code = "lost"]
                     ELSE req[p]]
        /\ crashed' = crashed \cup running
        /\ accepted' = [d \in Days |-> NothingUsed]
        /\ unmetered' = [d \in Days |-> NothingUsed]
        /\ UNCHANGED <<limit, day, disk>>

Local(p) == \/ Open(p) \/ Copy(p) \/ Take(p) \/ BatchTypes(p)
            \/ Acquire(p) \/ GiveUp(p) \/ Transcode(p)

Remote(p) == \/ Parse(p) \/ FileProcess(p) \/ (\E f \in Files : BatchFile(p, f)) \/ BatchDone(p)
             \/ VideoProbe(p) \/ Posters(p) \/ Store(p)

Next == \/ \E p \in Requests : Auth(p) \/ Cancel(p) \/ Local(p) \/ Remote(p)
        \/ Midnight \/ Crash

Spec == Init /\ [][Next]_vars

(* Steps of the process itself and those with a timer of their own are     *)
(* taken; one that waits for the client, a node or another program is      *)
(* when the client has left and its context has ended.                     *)
Fairness == \A p \in Requests : /\ WF_vars(Local(p))
                                /\ WF_vars(~req[p].alive /\ Remote(p))

FairSpec == Spec /\ Fairness

-----------------------------------------------------------------------------
(* The shape of the state.                                                 *)
TypeOK ==
    /\ limit \in Limits
    /\ day \in Days
    /\ budget \in [day : Days \cup {None}, used : [Tokens -> Nat]]
    /\ slots \in 0..TranscodeSlots
    /\ req \in [Requests -> Request]
    /\ disk \in SUBSET (Requests \X {"form", "input", "output"})
    /\ accepted \in [Days -> [Tokens -> Nat]]
    /\ unmetered \in [Days -> [Tokens -> Nat]]
    /\ crashed \in SUBSET Requests

Holding == {p \in Requests : req[p].at \in {"transcode", "posters", "store"}}

(* transcodeSlots is how many videos are transcoded at once                *)
(* (upload_budget.go:68): the places taken are those of the videos from    *)
(* their transcode to their answer, on every path out of the handler.      *)
SlotsHeld == slots = Cardinality(Holding)

(* A temporary file belongs to an upload that is still running: whatever   *)
(* goes wrong and wherever, nothing is left behind but by a crash.         *)
TempOwned == \A p \in Requests \ crashed : At(p, "done") => \A d \in Cleanups : <<p, d>> \notin disk

(* "uploadBudget bounds what one session uploads in a day on this          *)
(* instance" (upload_budget.go:14) - as far as it meters them: over uploads*)
(* in flight together and the turn of the day, all the bytes let in for a  *)
(* session on a day, since the process started, are under the limit but    *)
(* for those whose token came as X-API-Key or access_token.  These         *)
(* authenticate (auth.go:92) and are never metered, whatever they add.     *)
QuotaHeld == limit > 0 => \A d \in Days, k \in Tokens : accepted[d][k] <= limit + unmetered[d][k]

(* A batch answered with its results has all of its files stored: the      *)
(* answer waits for the last of them, and a failed one fails the batch.    *)
BatchWhole ==
    \A p \in Requests : req[p].kind = "batch" /\ req[p].code = "ok" =>
        \A f \in Files : req[p].files[f] = "stored"

(* "Videos queue for a transcoding slot, and a transcode that runs past    *)
(* its time is stopped" (video_handler.go:132): a video does not stay in   *)
(* the queue or in ffmpeg, even if those before it keep their slots.       *)
QueueEnds ==
    \A p \in Requests : req[p].at \in {"queue", "transcode"} ~> req[p].at \in {"posters", "done"}

(* Whatever an upload is waiting for, it ends once its client has left,    *)
(* and with it go its slot and its files.                                  *)
GoneEnds == \A p \in Requests : ~req[p].alive ~> At(p, "done")
=============================================================================
