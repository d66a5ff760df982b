------------------------- MODULE MediaDeliveryProofs -------------------------
(***************************************************************************)
(* A download sends what its answer is about, masked and framed as the     *)
(* answer has it, and nothing that was deleted before it came, but for the *)
(* cases the properties name: for any number of requests, files and links, *)
(* and any answers of the policy.                                          *)
(***************************************************************************)
EXTENDS MediaDelivery, TLAPS

CidRoutes == {"file", "master", "segment"}

Rec == [pc : Stages, in : Request \cup {None}, decision : Decision, idx : Nat, answer : Answer]

(* What was decided: without an answer of the policy or a grant nothing is *)
(* known of the file; with one, the mode is the strictest of its rows.     *)
DecisionOK(d) ==
    /\ ~d.managed => d.source = None /\ d.rows = {} /\ ~d.crop
    /\ d.managed => d.source \in CIDs /\ d.mode = Strictest(d.rows)

(* Only links are decided with deny: Resolve refuses it on the CID routes. *)
DenyOK(q, d) == d.managed /\ d.mode = "deny" => q.route \notin CidRoutes

(* A request ready to be served names a part of the file it was decided    *)
(* about, which was not deleted when that was checked; HandleStreamLink    *)
(* checks it later.                                                        *)
ReadyOK(q, d, g) ==
    /\ q.route \in {"file", "master"} /\ d.managed => q.cid = d.source
    /\ q.route = "segment" /\ d.managed => q.cid \in Parts(d.source)
    /\ ~d.managed => q.route \in CidRoutes
    /\ q.route # "streamLink" => d.source \notin g

(* What a decision lets a route show.                                      *)
KindOK(q, d, kind) ==
    d.managed => \/ kind \in Allowed(d.mode)
                 \/ d.mode = "deny" /\ q.route = "fileLink" /\ kind = "blur"
                 \/ d.mode = "deny" /\ q.route = "streamLink"

(* When a framed picture may go out unframed; s is the configuration of    *)
(* the instance.                                                           *)
FrameOK(q, d, kind, framed, s) ==
    d.crop /\ d.source \in Images /\ kind # "manifest" =>
        \/ framed
        \/ q.route \in {"file", "fileLink"} /\ q.want # "size" /\ ~s.cropSize
        \/ q.route \in {"master", "segment"} /\ d.mode = "original"

(* What may be sent although it was deleted.                               *)
GoneOK(q, d, c, g) == c \in g => q.route = "segment" /\ Protected(d)

(* What holds of a response.                                               *)
ResponseOK(q, d, a, g, s) ==
    /\ a.of \in IF d.managed THEN Parts(d.source) ELSE {q.cid}
    /\ KindOK(q, d, a.kind) /\ FrameOK(q, d, a.kind, a.framed, s)
    /\ d.source \notin g /\ GoneOK(q, d, a.of, g)

(* One request and the CIDs deleted ever since it began.                   *)
RowOK(x, g, s) ==
    LET q == x.in
        d == x.decision
    IN  /\ x.pc \notin {"idle", "done"} \/ x.answer.code = 200 => q \in Request
        /\ x.pc \notin {"idle", "done"} /\ q.route \in CidRoutes => q.cid \notin g
        /\ x.pc \in {"idle", "resolve", "again"} => d = NoDecision
        /\ DecisionOK(d) /\ DenyOK(q, d)
        /\ x.pc = "validate" => d.managed /\ q.route \in CidRoutes
        /\ x.pc = "scan" => /\ d.managed /\ q.route = "segment" /\ d.source \in Videos
                            /\ d.mode = "original" /\ d.source \notin g
        /\ x.pc = "serve" => ReadyOK(q, d, g)
        /\ x.pc \in {"playlist", "asset"} =>
             /\ d.managed /\ q.route = "streamLink" /\ d.source \in Videos
             /\ ~HidesStream(d.mode) /\ d.source \notin g
        /\ x.pc = "asset" => q.at[1] \in DOMAIN PlaylistsOf[d.source]
        /\ x.answer.code = 200 =>
             /\ x.pc = "done"
             /\ ResponseOK(q, d, x.answer, g, s)
             /\ q.route \in CidRoutes => q.cid \notin g

(* What was deleted when a request came, and since, is still marked.       *)
GoneMarked == \A r \in Requests : gone[r] \subseteq marks

DeliveryInv == TypeOK /\ GoneMarked /\ \A r \in Requests : RowOK(req[r], gone[r], setup)

-----------------------------------------------------------------------------
LEMMA PartsAreCIDs == \A c \in CIDs : Parts(c) \subseteq CIDs /\ c \in Parts(c)
<1> TAKE c \in CIDs
<1>1. CASE c \notin Videos
  BY <1>1 DEF Parts
<1>2. CASE c \in Videos
  <2>1. PlaylistsOf[c] \in Seq(CIDs) /\ PostersOf[c] \subseteq PosterLine
    BY <1>2, DeliveryAssumption
  <2>2. \A i \in DOMAIN PlaylistsOf[c] :
          /\ PlaylistsOf[c][i] \in CIDs
          /\ \A j \in DOMAIN ChildrenOf[PlaylistsOf[c][i]] : ChildrenOf[PlaylistsOf[c][i]][j] \in CIDs
    <3> TAKE i \in DOMAIN PlaylistsOf[c]
    <3>1. PlaylistsOf[c][i] \in CIDs
      BY <2>1
    <3>2. ChildrenOf[PlaylistsOf[c][i]] \in Seq(CIDs)
      BY <3>1, DeliveryAssumption
    <3> QED
      BY <3>1, <3>2
  <2>3. \A p \in PostersOf[c] : p.cid \in CIDs
    BY <2>1 DEF PosterLine
  <2> QED
    BY <1>2, <2>2, <2>3 DEF Parts
<1> QED
  BY <1>1, <1>2

(* A playlist of a video and what it lists are parts of it.                *)
LEMMA ListedParts ==
    ASSUME NEW v \in Videos, NEW i \in DOMAIN PlaylistsOf[v]
    PROVE  /\ PlaylistsOf[v][i] \in Parts(v)
           /\ \A j \in DOMAIN ChildrenOf[PlaylistsOf[v][i]] :
                ChildrenOf[PlaylistsOf[v][i]][j] \in Parts(v)
BY DEF Parts

(* Every poster videoPosterCID may name is a part of the video and shows   *)
(* what the mode allows; one found for a CID shows that the CID is a part. *)
LEMMA PosterParts ==
    ASSUME NEW v \in Videos, NEW mode \in Modes, NEW requested,
           NEW c \in PosterCIDs(v, requested, mode)
    PROVE  /\ c \in Parts(v) /\ c \in CIDs
           /\ mode # "original" => mode \in Masks /\ Shows[c] = mode
           /\ requested \in CIDs => requested \in Parts(v)
<1>1. \A p \in PostersOf[v] : p.cid \in Parts(v) /\ p \in PosterLine
  BY DeliveryAssumption DEF Parts
<1>2. CASE mode = "original"
  <2>1. PICK p \in PostersOf[v] : c = p.cid /\ requested \in {None, p.cid}
    BY <1>2 DEF PosterCIDs
  <2> QED
    BY <1>1, <1>2, <2>1, DeliveryAssumption DEF PosterLine
<1>3. CASE mode # "original"
  <2>1. PICK q \in PostersOf[v], p \in PostersOf[v] :
          /\ c = q.cid /\ q.variant = mode
          /\ p.variant = "" /\ requested \in {None, p.cid}
    BY <1>3 DEF PosterCIDs
  <2>2. mode \in Masks
    BY <1>1, <1>3, <2>1 DEF PosterLine, Modes
  <2>3. Shows[c] = mode
    BY <2>1, <2>2, PosterAssumption DEF Masks
  <2> QED
    BY <1>1, <1>3, <2>1, <2>2, <2>3, DeliveryAssumption DEF PosterLine
<1> QED
  BY <1>2, <1>3

(* The strictest row exceeds none of them.                                 *)
LEMMA StrictestAllows ==
    ASSUME NEW rows \in SUBSET Modes, NEW m \in rows
    PROVE  Allowed(Strictest(rows)) \subseteq Allowed(m)
BY DEF Strictest, Allowed, Modes, Masks, Kinds

LEMMA StrictestMode == ASSUME NEW rows PROVE Strictest(rows) \in Modes
BY DEF Strictest, Modes, Masks

LEMMA StrictestOne == ASSUME NEW m \in Modes PROVE Strictest({m}) = m
BY DEF Strictest, Modes, Masks

LEMMA DecidedFacts ==
    ASSUME NEW rows \in SUBSET Links, NEW first \in rows, NEW mode,
           \A l \in rows : mode[l] \in Modes
    PROVE  LET d == Decided(rows, first, mode)
           IN  /\ d \in Decision /\ d.managed /\ d.source = SourceOf[first] /\ d.source \in CIDs
               /\ d.mode = Strictest({mode[l] : l \in rows}) /\ d.mode = Strictest(d.rows)
<1> DEFINE d == Decided(rows, first, mode)
           named == {l \in rows : PosterUri[l] # None}
           shown == IF first \in named \/ named = {} THEN PosterUri[first]
                    ELSE PosterUri[CHOOSE l \in named : TRUE]
<1>1. shown \in CIDs \cup {None}
  <2>1. named # {} => (CHOOSE l \in named : TRUE) \in named
    OBVIOUS
  <2> QED
    BY <2>1, DeliveryAssumption
<1>2. Strictest({mode[l] : l \in rows}) \in Modes
  BY StrictestMode
<1>3. SourceOf[first] \in CIDs
  BY DeliveryAssumption
<1>4. d = [mode |-> Strictest({mode[l] : l \in rows}), managed |-> TRUE,
           source |-> SourceOf[first], poster |-> shown,
           crop |-> \E l \in rows : Crop[l], rows |-> {mode[l] : l \in rows}]
  BY DEF Decided
<1>5. (\E l \in rows : Crop[l]) \in BOOLEAN
  OBVIOUS
<1> HIDE DEF shown, d
<1> QED
  BY <1>1, <1>2, <1>3, <1>4, <1>5 DEF Decision, d

-----------------------------------------------------------------------------
LEMMA NoDecisionOK == NoDecision \in Decision /\ DecisionOK(NoDecision) /\ ~NoDecision.managed
BY DEF NoDecision, Decision, DecisionOK, Modes

LEMMA NoAnswerOK == NoAnswer \in Answer /\ NoAnswer.code = 0
BY DEF NoAnswer, Answer

LEMMA InvInit == Init => DeliveryInv
<1> SUFFICES ASSUME Init PROVE DeliveryInv
  OBVIOUS
<1>1. TypeOK
  BY NoDecisionOK, NoAnswerOK DEF Init, TypeOK, Stages
<1>2. GoneMarked
  BY DEF Init, GoneMarked
<1>3. ASSUME NEW r \in Requests PROVE RowOK(req[r], gone[r], setup)
  BY NoDecisionOK, NoAnswerOK DEF Init, RowOK, DenyOK
<1> QED
  BY <1>1, <1>2, <1>3 DEF DeliveryInv

-----------------------------------------------------------------------------
(* A step of one request that leaves its row in order keeps the invariant. *)
LEMMA OneRow ==
    ASSUME DeliveryInv, NEW r \in Requests, NEW x \in Rec, Quiet,
           req' = [req EXCEPT ![r] = x], RowOK(x, gone[r], setup)
    PROVE  DeliveryInv'
<1>1. TypeOK'
  BY DEF DeliveryInv, TypeOK, Rec, Quiet
<1>2. GoneMarked'
  BY DEF DeliveryInv, GoneMarked, Quiet
<1>3. ASSUME NEW p \in Requests PROVE RowOK(req'[p], gone[p], setup)
  BY DEF DeliveryInv, TypeOK
<1> QED
  BY <1>1, <1>2, <1>3 DEF DeliveryInv, Quiet

(* The state of a request as a value.                                      *)
LEMMA RowRec ==
    ASSUME DeliveryInv, NEW r \in Requests
    PROVE  /\ req[r] \in Rec /\ RowOK(req[r], gone[r], setup)
           /\ gone[r] \subseteq marks /\ gone[r] \subseteq CIDs
BY DEF DeliveryInv, TypeOK, Rec, GoneMarked

Errors == {400, 401, 403, 404, 503}

LEMMA RefuseKeeps ==
    ASSUME DeliveryInv, NEW r \in Requests, NEW n \in Errors,
           Refuse(r, n), Quiet
    PROVE  DeliveryInv'
<1> DEFINE a == [NoAnswer EXCEPT !.code = n]
           x == [req[r] EXCEPT !.pc = "done", !.in = None, !.decision = NoDecision,
                               !.idx = 0, !.answer = a]
<1>1. req' = [req EXCEPT ![r] = x]
  BY DEF Refuse
<1>2. a \in Answer /\ a.code = n
  <2>1. n \in {0, 200, 400, 401, 403, 404, 503}
    BY DEF Errors
  <2> QED
    BY <2>1, NoAnswerOK DEF Answer
<1>3. x \in Rec /\ x.pc = "done" /\ x.in = None /\ x.decision = NoDecision /\ x.answer = a
  BY <1>2, RowRec, NoDecisionOK DEF Rec, Stages
<1>4. RowOK(x, gone[r], setup)
  <2> HIDE DEF x, a
  <2> QED
    BY <1>2, <1>3, NoDecisionOK DEF RowOK, DenyOK, Errors
<1> QED
  BY <1>1, <1>3, <1>4, OneRow

LEMMA GotoKeeps ==
    ASSUME DeliveryInv, NEW r \in Requests, NEW pc \in Stages, Goto(r, pc), Quiet,
           RowOK([req[r] EXCEPT !.pc = pc], gone[r], setup)
    PROVE  DeliveryInv'
<1> DEFINE x == [req[r] EXCEPT !.pc = pc]
<1>1. req' = [req EXCEPT ![r] = x]
  BY DEF Goto
<1>2. x \in Rec
  BY RowRec DEF Rec
<1> QED
  BY <1>1, <1>2, OneRow

LEMMA SendKeeps ==
    ASSUME DeliveryInv, NEW r \in Requests, NEW c \in CIDs, NEW kind \in Kinds,
           NEW framed \in BOOLEAN, Send(r, c, kind, framed), Quiet,
           req[r].pc \notin {"idle", "done"},
           ResponseOK(req[r].in, req[r].decision,
                      [code |-> 200, of |-> c, kind |-> kind, framed |-> framed], gone[r], setup)
    PROVE  DeliveryInv'
<1> DEFINE a == [code |-> 200, of |-> c, kind |-> kind, framed |-> framed]
           x == [req[r] EXCEPT !.pc = "done", !.answer = a]
<1>1. req' = [req EXCEPT ![r] = x]
  BY DEF Send
<1>2. a \in Answer
  BY DEF Answer
<1>3. x \in Rec /\ x.pc = "done" /\ x.answer = a /\ x.in = req[r].in /\ x.decision = req[r].decision
  BY <1>2, RowRec, ZenonT(40) DEF Rec, Stages
<1>4. RowOK(x, gone[r], setup)
  <2>1. RowOK(req[r], gone[r], setup)
    BY RowRec
  <2> HIDE DEF x
  <2> QED
    BY <1>3, <2>1 DEF RowOK
<1> QED
  BY <1>1, <1>3, <1>4, OneRow

(* The decision of an answer that is not refused.                          *)
LEMMA DecideKeeps ==
    ASSUME DeliveryInv, NEW r \in Requests, Quiet, NEW pc \in {"validate", "serve"},
           req[r].pc \in {"resolve", "again"},
           NEW d \in Decision, DecisionOK(d), DenyOK(req[r].in, d),
           req' = [req EXCEPT ![r].pc = pc, ![r].decision = d],
           pc = "validate" => d.managed /\ req[r].in.route \in CidRoutes,
           pc = "serve" => ReadyOK(req[r].in, d, gone[r])
    PROVE  DeliveryInv'
<1> DEFINE x == [req[r] EXCEPT !.pc = pc, !.decision = d]
<1>1. req' = [req EXCEPT ![r] = x]
  OBVIOUS
<1>2. x \in Rec /\ x.pc = pc /\ x.answer = req[r].answer /\ x.in = req[r].in /\ x.decision = d
  BY RowRec DEF Rec, Stages
<1>3. RowOK(x, gone[r], setup)
  <2>1. RowOK(req[r], gone[r], setup)
    BY RowRec
  <2> HIDE DEF x
  <2> QED
    BY <1>2, <2>1 DEF RowOK
<1> QED
  BY <1>1, <1>2, <1>3, OneRow

-----------------------------------------------------------------------------
LEMMA BeginKeeps ==
    ASSUME DeliveryInv, NEW r \in Requests, NEW q \in Inputs, Begin(r, q)
    PROVE  DeliveryInv'
<1> DEFINE deleted == q.route \in CidRoutes /\ q.cid \in marks
           a == [NoAnswer EXCEPT !.code = IF deleted THEN 404 ELSE 0]
           pc == IF deleted THEN "done" ELSE "resolve"
           x == [req[r] EXCEPT !.in = q, !.pc = pc, !.answer = a]
<1>1. req' = [req EXCEPT ![r] = x]
  BY DEF Begin, CidRoutes
<1>2. a \in Answer /\ a.code # 200
  BY NoAnswerOK DEF Answer
<1>3. q \in Request
  BY DeliveryAssumption
<1>4. /\ x \in Rec /\ x.pc = pc /\ x.in = q
      /\ x.decision = req[r].decision /\ x.answer = a
  <2>1. pc \in Stages
    BY DEF Stages
  <2> HIDE DEF a, pc
  <2> QED
    BY <1>2, <1>3, <2>1, RowRec DEF Rec
<1>5. req[r].decision = NoDecision
  BY RowRec DEF RowOK, Begin
<1>6. RowOK(x, marks, setup)
  <2> HIDE DEF x, a
  <2> QED
    BY <1>2, <1>3, <1>4, <1>5, NoDecisionOK DEF RowOK, DenyOK
<1>7. gone' = [gone EXCEPT ![r] = marks] /\ UNCHANGED <<setup, marks>>
  BY DEF Begin
<1> HIDE DEF x
<1>8. TypeOK'
  BY <1>1, <1>4, <1>7 DEF DeliveryInv, TypeOK, Rec
<1>9. GoneMarked'
  BY <1>7 DEF DeliveryInv, TypeOK, GoneMarked
<1>10. ASSUME NEW p \in Requests PROVE RowOK(req'[p], gone'[p], setup)
  <2>1. CASE p = r
    BY <2>1, <1>1, <1>6, <1>7 DEF DeliveryInv, TypeOK
  <2>2. CASE p # r
    BY <2>2, <1>1, <1>7 DEF DeliveryInv, TypeOK
  <2> QED
    BY <2>1, <2>2
<1> QED
  BY <1>7, <1>8, <1>9, <1>10 DEF DeliveryInv

LEMMA RefusalsKeep ==
    ASSUME DeliveryInv, NEW r \in Requests,
           PolicyFails(r) \/ PolicyRefuses(r) \/ GrantRefused(r)
    PROVE  DeliveryInv'
<1>1. PICK n \in Errors : Refuse(r, n) /\ Quiet
  BY DEF PolicyFails, PolicyRefuses, GrantRefused, Errors
<1> QED
  BY <1>1, RefuseKeeps

LEMMA UnaskedKeeps ==
    ASSUME DeliveryInv, NEW r \in Requests, ResolveUnasked(r)
    PROVE  DeliveryInv'
<1> DEFINE d == [NoDecision EXCEPT !.mode = "original"]
<1>1. Quiet /\ req[r].pc = "resolve"
  BY DEF ResolveUnasked
<1>2. CASE \E n \in Errors : Refuse(r, n)
  BY <1>1, <1>2, RefuseKeeps
<1>3. CASE /\ req[r].in.route \in CidRoutes
           /\ req' = [req EXCEPT ![r].pc = "serve", ![r].decision = d]
  <2>1. d \in Decision /\ DecisionOK(d) /\ ~d.managed /\ d.source = None
    BY DEF NoDecision, Decision, DecisionOK, Modes
  <2>2. None \notin gone[r]
    BY RowRec, DeliveryAssumption
  <2> HIDE DEF d
  <2>3. ReadyOK(req[r].in, d, gone[r]) /\ DenyOK(req[r].in, d)
    BY <1>3, <2>1, <2>2 DEF ReadyOK, DenyOK, CidRoutes
  <2> QED
    BY <1>1, <1>3, <2>1, <2>3, DecideKeeps
<1>4. 403 \in Errors /\ 503 \in Errors
  BY DEF Errors
<1> QED
  BY <1>2, <1>3, <1>4 DEF ResolveUnasked, CidRoutes

(* The decision about a single link.                                       *)
LEMMA LinkDecided ==
    ASSUME NEW l \in Links, NEW m \in Modes
    PROVE  LET d == Decided({l}, l, [k \in Links |-> m])
           IN  d \in Decision /\ d.managed /\ DecisionOK(d) /\ d.source = SourceOf[l] /\ d.mode = m
<1> DEFINE mode == [k \in Links |-> m]
           d == Decided({l}, l, mode)
<1>1. {mode[k] : k \in {l}} = {m}
  OBVIOUS
<1>2. \A k \in {l} : mode[k] \in Modes
  OBVIOUS
<1> HIDE DEF mode
<1>3. /\ d \in Decision /\ d.managed /\ d.source = SourceOf[l] /\ d.source \in CIDs
      /\ d.mode = Strictest({mode[k] : k \in {l}}) /\ d.mode = Strictest(d.rows)
  BY <1>2, DecidedFacts
<1> QED
  BY <1>1, <1>3, StrictestOne DEF DecisionOK, mode

LEMMA MediaLinkKeeps ==
    ASSUME DeliveryInv, NEW r \in Requests, NEW m \in Modes, ResolveMediaLink(r, m)
    PROVE  DeliveryInv'
<1> DEFINE q == req[r].in
           d == Decided({q.mediaLink}, q.mediaLink, [l \in Links |-> m])
<1>1. /\ Quiet /\ req[r].pc = "resolve" /\ q.route \in CidRoutes /\ q.mediaLink # None
  BY DEF ResolveMediaLink, CidRoutes
<1>2. CASE Refuse(r, 403)
  BY <1>1, <1>2, RefuseKeeps DEF Errors
<1>3. CASE Goto(r, "again")
  <2> DEFINE x == [req[r] EXCEPT !.pc = "again"]
  <2>1. /\ x.pc = "again" /\ x.in = q /\ x.decision = req[r].decision /\ x.answer = req[r].answer
    BY RowRec DEF Rec
  <2>2. RowOK(req[r], gone[r], setup)
    BY RowRec
  <2>3. RowOK(x, gone[r], setup)
    <3> HIDE DEF x
    <3> QED
      BY <1>1, <2>1, <2>2 DEF RowOK
  <2> QED
    BY <1>1, <1>3, <2>3, GotoKeeps DEF Stages
<1>4. CASE m # "deny" /\ req' = [req EXCEPT ![r].pc = "validate", ![r].decision = d]
  <2>1. q.mediaLink \in Links
    BY <1>1, RowRec DEF RowOK, Request
  <2>2. d \in Decision /\ d.managed /\ DecisionOK(d) /\ d.mode = m
    BY <2>1, LinkDecided
  <2> HIDE DEF d
  <2>3. DenyOK(q, d)
    BY <1>4, <2>2 DEF DenyOK
  <2> QED
    BY <1>1, <1>4, <2>2, <2>3, DecideKeeps
<1> QED
  BY <1>2, <1>3, <1>4 DEF ResolveMediaLink

LEMMA CIDKeeps ==
    ASSUME DeliveryInv, NEW r \in Requests, ResolveCID(r)
    PROVE  DeliveryInv'
<1> DEFINE q == req[r].in
           found == {l \in Links : (IF q.root # None THEN q.root ELSE q.cid) \in Mentions[l]}
<1>1. Quiet /\ req[r].pc \in {"resolve", "again"} /\ q.route \in CidRoutes
  BY DEF ResolveCID, CidRoutes
<1>2. PICK rows \in SUBSET found : \E first \in rows, mode \in [rows -> Modes] :
        IF Strictest({mode[l] : l \in rows}) = "deny" THEN Refuse(r, 403)
        ELSE req' = [req EXCEPT ![r].pc = "validate", ![r].decision = Decided(rows, first, mode)]
  BY DEF ResolveCID
<1>3. PICK first \in rows, mode \in [rows -> Modes] :
        IF Strictest({mode[l] : l \in rows}) = "deny" THEN Refuse(r, 403)
        ELSE req' = [req EXCEPT ![r].pc = "validate", ![r].decision = Decided(rows, first, mode)]
  BY <1>2
<1>4. CASE Refuse(r, 403)
  BY <1>1, <1>4, RefuseKeeps DEF Errors
<1>5. CASE Strictest({mode[l] : l \in rows}) # "deny"
  <2> DEFINE d == Decided(rows, first, mode)
  <2>1. rows \in SUBSET Links /\ \A l \in rows : mode[l] \in Modes
    OBVIOUS
  <2>2. /\ d \in Decision /\ d.managed /\ d.source \in CIDs
        /\ d.mode = Strictest({mode[l] : l \in rows}) /\ d.mode = Strictest(d.rows)
    BY <2>1, DecidedFacts
  <2>3. req' = [req EXCEPT ![r].pc = "validate", ![r].decision = d]
    BY <1>3, <1>5
  <2> HIDE DEF d
  <2>4. DecisionOK(d) /\ DenyOK(q, d)
    BY <1>5, <2>2 DEF DecisionOK, DenyOK
  <2> QED
    BY <1>1, <2>2, <2>3, <2>4, DecideKeeps
<1> QED
  BY <1>3, <1>4, <1>5

(* HandleFileLink and HandleStreamLink under a policy or a grant.          *)
LEMMA LinkKeeps ==
    ASSUME DeliveryInv, NEW r \in Requests, NEW m \in Modes,
           ResolveLink(r, m) \/ GrantAccepted(r, m)
    PROVE  DeliveryInv'
<1> DEFINE q == req[r].in
           d == Decided({q.link}, q.link, [l \in Links |-> m])
<1>1. Quiet /\ req[r].pc = "resolve" /\ q.route \in {"fileLink", "streamLink"}
  BY DEF ResolveLink, GrantAccepted
<1>2. CASE Refuse(r, 404)
  BY <1>1, <1>2, RefuseKeeps DEF Errors
<1>3. CASE /\ ~(q.route = "fileLink" /\ SourceOf[q.link] \in marks)
           /\ req' = [req EXCEPT ![r].pc = "serve", ![r].decision = d]
  <2>1. q.link \in Links
    BY <1>1, RowRec DEF RowOK, Request
  <2>2. d \in Decision /\ d.managed /\ DecisionOK(d) /\ d.source = SourceOf[q.link]
    BY <2>1, LinkDecided
  <2>3. gone[r] \subseteq marks
    BY RowRec
  <2> HIDE DEF d
  <2>4. ReadyOK(q, d, gone[r]) /\ DenyOK(q, d)
    BY <1>1, <1>3, <2>2, <2>3 DEF ReadyOK, DenyOK, CidRoutes
  <2> QED
    BY <1>1, <1>3, <2>2, <2>4, DecideKeeps
<1> QED
  BY <1>2, <1>3 DEF ResolveLink, GrantAccepted

-----------------------------------------------------------------------------
(* A step from one point of the handler to another.                        *)
LEMMA MoveKeeps ==
    ASSUME DeliveryInv, NEW r \in Requests, NEW pc \in Stages, Goto(r, pc), Quiet,
           req[r].pc \notin {"idle", "done"}, pc \in {"scan", "serve", "playlist", "asset"},
           pc = "scan" => /\ req[r].decision.managed /\ req[r].in.route = "segment"
                          /\ req[r].decision.source \in Videos
                          /\ req[r].decision.mode = "original"
                          /\ req[r].decision.source \notin gone[r],
           pc = "serve" => ReadyOK(req[r].in, req[r].decision, gone[r]),
           pc \in {"playlist", "asset"} =>
             /\ req[r].decision.managed /\ req[r].in.route = "streamLink"
             /\ req[r].decision.source \in Videos
             /\ ~HidesStream(req[r].decision.mode) /\ req[r].decision.source \notin gone[r],
           pc = "asset" => req[r].in.at[1] \in DOMAIN PlaylistsOf[req[r].decision.source]
    PROVE  DeliveryInv'
<1> DEFINE x == [req[r] EXCEPT !.pc = pc]
<1>1. /\ x.pc = pc /\ x.in = req[r].in /\ x.decision = req[r].decision
      /\ x.answer = req[r].answer
  BY RowRec DEF Rec
<1>2. RowOK(req[r], gone[r], setup)
  BY RowRec
<1>3. RowOK(x, gone[r], setup)
  <2> HIDE DEF x
  <2> QED
    BY <1>1, <1>2 DEF RowOK
<1> QED
  BY <1>3, GotoKeeps

LEMMA ValidateKeeps ==
    ASSUME DeliveryInv, NEW r \in Requests, Validate(r)
    PROVE  DeliveryInv'
<1> DEFINE q == req[r].in
           d == req[r].decision
<1>1. Quiet /\ req[r].pc = "validate"
  BY DEF Validate
<1>2. CASE \E n \in Errors : Refuse(r, n)
  BY <1>1, <1>2, RefuseKeeps
<1>3. /\ d.managed /\ q.route \in CidRoutes /\ q \in Request /\ q.cid \in CIDs
      /\ d.mode \in Modes /\ d.source \in CIDs /\ gone[r] \subseteq marks
  BY <1>1, RowRec DEF RowOK, Rec, Decision, DecisionOK, Request
<1>4. CASE d.source \notin marks /\ q.cid = d.source /\ Goto(r, "serve")
  <2>1. ReadyOK(q, d, gone[r])
    BY <1>3, <1>4, PartsAreCIDs DEF ReadyOK
  <2> QED
    BY <1>1, <1>4, <2>1, MoveKeeps DEF Stages
<1>5. CASE /\ d.source \notin marks /\ q.route = "segment" /\ d.source \in Videos
           /\ PosterCIDs(d.source, q.cid, d.mode) # {} /\ Goto(r, "serve")
  <2>1. q.cid \in Parts(d.source)
    BY <1>3, <1>5, PosterParts
  <2>2. ReadyOK(q, d, gone[r])
    BY <1>3, <1>5, <2>1 DEF ReadyOK
  <2> QED
    BY <1>1, <1>5, <2>2, MoveKeeps DEF Stages
<1>6. CASE /\ d.source \notin marks /\ q.route = "segment" /\ d.source \in Videos
           /\ d.mode = "original" /\ Goto(r, "scan")
  BY <1>1, <1>3, <1>6, MoveKeeps DEF Stages
<1>7. 403 \in Errors /\ 503 \in Errors
  BY DEF Errors
<1> QED
  BY <1>2, <1>4, <1>5, <1>6, <1>7 DEF Validate

LEMMA ScanKeeps ==
    ASSUME DeliveryInv, NEW r \in Requests, Scan(r)
    PROVE  DeliveryInv'
<1> DEFINE q == req[r].in
           d == req[r].decision
           playlists == PlaylistsOf[d.source]
           i == req[r].idx + 1
           children == ChildrenOf[playlists[i]]
<1>1. Quiet /\ req[r].pc = "scan"
  BY DEF Scan
<1>2. /\ d.managed /\ q.route = "segment" /\ d.source \in Videos /\ d.mode = "original"
      /\ d.source \notin gone[r] /\ req[r].idx \in Nat
  BY <1>1, RowRec DEF RowOK, Rec
<1>3. CASE \E n \in Errors : Refuse(r, n)
  BY <1>1, <1>3, RefuseKeeps
<1>4. CASE req' = [req EXCEPT ![r].idx = i]
  <2> DEFINE x == [req[r] EXCEPT !.idx = i]
  <2>1. /\ x \in Rec /\ x.pc = req[r].pc /\ x.in = q /\ x.decision = d
        /\ x.answer = req[r].answer
    BY <1>2, RowRec DEF Rec
  <2>2. RowOK(req[r], gone[r], setup)
    BY RowRec
  <2>3. RowOK(x, gone[r], setup)
    <3> HIDE DEF x
    <3> QED
      BY <2>1, <2>2 DEF RowOK
  <2>4. req' = [req EXCEPT ![r] = x]
    BY <1>4
  <2> QED
    BY <1>1, <2>1, <2>3, <2>4, OneRow
<1>5. CASE /\ i <= Len(playlists) /\ Goto(r, "serve")
           /\ q.cid = playlists[i] \/ q.cid \in {children[j] : j \in DOMAIN children}
  <2>1. i \in DOMAIN playlists
    <3>1. playlists \in Seq(CIDs)
      BY <1>2, DeliveryAssumption
    <3>2. DOMAIN playlists = 1..Len(playlists) /\ Len(playlists) \in Nat
      BY <3>1
    <3> HIDE DEF playlists
    <3> QED
      BY <1>2, <1>5, <3>2
  <2>2. q.cid \in Parts(d.source)
    BY <1>2, <1>5, <2>1, ListedParts
  <2>3. ReadyOK(q, d, gone[r])
    BY <1>2, <2>2 DEF ReadyOK
  <2> QED
    BY <1>1, <1>5, <2>3, MoveKeeps DEF Stages
<1>6. 403 \in Errors /\ 503 \in Errors
  BY DEF Errors
<1> QED
  BY <1>3, <1>4, <1>5, <1>6 DEF Scan

-----------------------------------------------------------------------------
(* serveFile under any decision: what it picks is allowed and framed.      *)
LEMMA FileKeeps ==
    ASSUME DeliveryInv, NEW r \in Requests, NEW c \in CIDs, ServeFile(r, c), Quiet,
           req[r].pc = "serve", req[r].in.route \in {"file", "fileLink"},
           c \in (IF req[r].decision.managed THEN Parts(req[r].decision.source) ELSE {req[r].in.cid}),
           req[r].decision.source \notin gone[r], c \notin gone[r]
    PROVE  DeliveryInv'
<1> DEFINE d == req[r].decision
           q == req[r].in
           key == VariantKey(d, q.want)
           mask == SourceVariant(d, q.mask)
           variant == IF Protected(d) THEN d.mode ELSE key
           drawn == IF mask = "" THEN "original" ELSE mask
           stored == IF variant \in Masks THEN variant ELSE "original"
           Fit(kind, framed) == KindOK(q, d, kind) /\ FrameOK(q, d, kind, framed, setup)
           List == ~Protected(d) /\ Send(r, c, "manifest", FALSE)
           Ready == Bundled(c, d, key, mask) /\ Configured(key) /\ Send(r, c, "original", FALSE)
           Sized == /\ mask = "" \/ mask \in VariantsOf[c]
                    /\ c \in Images /\ Configured(key) /\ Send(r, c, drawn, Cropped(d, key))
           Whole == /\ ~(variant # "" /\ variant \notin VariantsOf[c])
                    /\ c \in Images /\ ~Configured(key) /\ Send(r, c, stored, FALSE)
<1>1. /\ d \in Decision /\ DecisionOK(d) /\ d.mode \in Modes /\ d.crop \in BOOLEAN
      /\ q.mask \in Masks \cup {""} /\ setup.cropSize \in BOOLEAN
      /\ d.managed /\ d.mode = "deny" => q.route = "fileLink"
  BY RowRec DEF RowOK, Rec, Decision, DenyOK, CidRoutes, Request, DeliveryInv, TypeOK, Setups
<1>2. ASSUME NEW n \in Errors, Refuse(r, n) PROVE DeliveryInv'
  BY <1>2, RefuseKeeps
<1>3. ASSUME NEW kind \in Kinds, NEW framed \in BOOLEAN, Send(r, c, kind, framed), Fit(kind, framed)
      PROVE  DeliveryInv'
  <2>1. ResponseOK(q, d, [code |-> 200, of |-> c, kind |-> kind, framed |-> framed], gone[r], setup)
    BY <1>3 DEF ResponseOK, GoneOK
  <2> QED
    BY <1>3, <2>1, SendKeeps
<1>4. CASE List
  <2>1. "manifest" \in Kinds /\ Fit("manifest", FALSE)
    BY <1>1, <1>4 DEF Protected, Allowed, Kinds, KindOK, FrameOK
  <2> QED
    BY <1>3, <1>4, <2>1
<1>5. "deny" \notin Variants /\ "" \notin Masks /\ Masks \subseteq Kinds /\ "original" \in Kinds
  BY DEF Variants, Masks, Kinds
<1>6. mask # "deny" => drawn \in Kinds /\ KindOK(q, d, drawn)
  BY <1>1 DEF SourceVariant, Protected, Modes, Masks, Kinds, Allowed, KindOK
<1>7. CASE Ready
  <2>1. mask = "" /\ ~d.crop
    BY <1>7 DEF Bundled, Cropped
  <2>2. Fit("original", FALSE)
    BY <1>6, <2>1 DEF FrameOK
  <2> QED
    BY <1>3, <1>5, <1>7, <2>2
<1>8. CASE Sized
  <2>1. mask # "deny"
    <3>1. VariantsOf[c] \subseteq Variants
      BY <1>8, DeliveryAssumption
    <3> HIDE DEF mask
    <3> QED
      BY <1>5, <1>8, <3>1
  <2>2. Cropped(d, key) \in BOOLEAN /\ (d.crop => Cropped(d, key))
    BY <1>1, <1>8 DEF Cropped
  <2>3. Fit(drawn, Cropped(d, key))
    BY <1>6, <2>1, <2>2 DEF FrameOK
  <2> HIDE DEF drawn
  <2> QED
    BY <1>3, <1>6, <1>8, <2>1, <2>2, <2>3
<1>9. CASE Whole
  <2>1. ~(Protected(d) /\ d.mode = "deny")
    <3>1. VariantsOf[c] \subseteq Variants
      BY <1>9, DeliveryAssumption
    <3>2. variant # "deny"
      <4> HIDE DEF variant
      <4> QED
        BY <1>5, <1>9, <3>1
    <3> QED
      BY <3>2
  <2>2. stored \in Kinds /\ KindOK(q, d, stored)
    BY <1>1, <2>1 DEF Protected, Allowed, Modes, Masks, Kinds, KindOK
  <2>3. d.crop => q.want # "size" /\ ~setup.cropSize
    BY <1>9 DEF VariantKey, Configured
  <2>4. Fit(stored, FALSE)
    BY <2>2, <2>3 DEF FrameOK
  <2> HIDE DEF stored
  <2> QED
    BY <1>3, <1>9, <2>2, <2>4
<1>10. 403 \in Errors /\ 404 \in Errors /\ 503 \in Errors
  BY DEF Errors
<1>11. \/ Refuse(r, 403) \/ Refuse(r, 404) \/ Refuse(r, 503)
       \/ List \/ Ready \/ Sized \/ Whole
  BY Zenon DEF ServeFile
<1>12. CASE Refuse(r, 403) \/ Refuse(r, 404) \/ Refuse(r, 503)
  BY <1>2, <1>10, <1>12
<1> HIDE DEF List, Ready, Sized, Whole
<1> QED
  BY <1>4, <1>7, <1>8, <1>9, <1>11, <1>12

LEMMA FileRouteKeeps ==
    ASSUME DeliveryInv, NEW r \in Requests, ServeFileRoute(r)
    PROVE  DeliveryInv'
<1> DEFINE d == req[r].decision
           q == req[r].in
<1>1. Quiet /\ req[r].pc = "serve" /\ q.route \in {"file", "fileLink"}
  BY DEF ServeFileRoute
<1>2. /\ q \in Request /\ q.cid \in CIDs /\ DecisionOK(d) /\ ReadyOK(q, d, gone[r])
  BY <1>1, RowRec DEF RowOK, Request
<1>3. d.source \notin gone[r] /\ (q.route = "file" => q.cid \notin gone[r])
  BY <1>1, <1>2, RowRec DEF ReadyOK, RowOK, CidRoutes
<1>4. CASE q.route = "file" /\ ServeFile(r, q.cid)
  <2>1. q.cid \in (IF d.managed THEN Parts(d.source) ELSE {q.cid})
    BY <1>2, <1>4, PartsAreCIDs DEF ReadyOK
  <2> QED
    BY <1>1, <1>2, <1>3, <1>4, <2>1, FileKeeps
<1>5. CASE q.route = "fileLink" /\ ServeFile(r, d.source)
  <2>1. d.managed /\ d.source \in CIDs
    BY <1>2, <1>5 DEF ReadyOK, DecisionOK, CidRoutes
  <2>2. d.source \in Parts(d.source)
    BY <2>1, PartsAreCIDs
  <2> QED
    BY <1>1, <1>3, <1>5, <2>1, <2>2, FileKeeps
<1> QED
  BY <1>4, <1>5 DEF ServeFileRoute

-----------------------------------------------------------------------------
(* Bytes of a stream, its playlists and its posters go out as they are,    *)
(* and so does a picture's original on the stream routes by CID.           *)
LEMMA StreamSendKeeps ==
    ASSUME DeliveryInv, NEW r \in Requests, NEW c \in CIDs, NEW kind \in Kinds,
           Send(r, c, kind, FALSE), Quiet,
           req[r].pc \notin {"idle", "done"},
           c \in (IF req[r].decision.managed THEN Parts(req[r].decision.source) ELSE {req[r].in.cid}),
           KindOK(req[r].in, req[r].decision, kind),
           \/ req[r].decision.source \in Videos
           \/ ~req[r].decision.managed
           \/ req[r].in.route \in {"master", "segment"} /\ req[r].decision.mode = "original",
           req[r].decision.source \notin gone[r],
           GoneOK(req[r].in, req[r].decision, c, gone[r])
    PROVE  DeliveryInv'
<1>1. DecisionOK(req[r].decision)
  BY RowRec DEF RowOK
<1>2. FrameOK(req[r].in, req[r].decision, kind, FALSE, setup)
  BY <1>1, DeliveryAssumption DEF FrameOK, DecisionOK
<1>3. ResponseOK(req[r].in, req[r].decision,
                 [code |-> 200, of |-> c, kind |-> kind, framed |-> FALSE], gone[r], setup)
  BY <1>2 DEF ResponseOK
<1> QED
  BY <1>3, SendKeeps

LEMMA AssetKeeps ==
    ASSUME DeliveryInv, NEW r \in Requests, NEW c \in CIDs, ServeAsset(r, c), Quiet,
           req[r].pc \notin {"idle", "done"},
           c \in (IF req[r].decision.managed THEN Parts(req[r].decision.source) ELSE {req[r].in.cid}),
           KindOK(req[r].in, req[r].decision, Shows[c]),
           \/ req[r].decision.source \in Videos
           \/ ~req[r].decision.managed
           \/ req[r].in.route \in {"master", "segment"} /\ req[r].decision.mode = "original",
           req[r].decision.source \notin gone[r]
    PROVE  DeliveryInv'
<1>1. CASE Refuse(r, 404)
  BY <1>1, RefuseKeeps DEF Errors
<1>2. CASE c \notin marks /\ Send(r, c, Shows[c], FALSE)
  <2>1. Shows[c] \in Kinds
    BY DeliveryAssumption
  <2>2. GoneOK(req[r].in, req[r].decision, c, gone[r])
    BY <1>2, RowRec DEF GoneOK
  <2> QED
    BY <1>2, <2>1, <2>2, StreamSendKeeps
<1> QED
  BY <1>1, <1>2 DEF ServeAsset

(* A stream that is not hidden is sent to those who may see the original,  *)
(* and by /stream/link under deny.                                         *)
LEMMA OpenStream ==
    ASSUME NEW d \in Decision, NEW q, DenyOK(q, d), ~HidesStream(d.mode), d.managed,
           q.route \in CidRoutes \cup {"streamLink"}
    PROVE  /\ q.route \in CidRoutes => d.mode = "original"
           /\ \A kind \in Kinds : KindOK(q, d, kind)
<1>1. d.mode \in {"original", "deny"}
  BY DEF HidesStream, Decision, Modes
<1> QED
  BY <1>1 DEF DenyOK, KindOK, Allowed

LEMMA NoPosterKeeps ==
    ASSUME DeliveryInv, NEW r \in Requests, NEW requested, NoPoster(r, requested), Quiet
    PROVE  DeliveryInv'
BY RefuseKeeps DEF NoPoster, Errors

(* The poster resolveVideoPoster finds.                                    *)
LEMMA PosterFound ==
    ASSUME NEW r \in Requests, NEW requested, NEW c \in Poster(r, requested),
           req[r].decision \in Decision
    PROVE  /\ req[r].decision.source \in Videos /\ req[r].decision.source \notin marks
           /\ c \in CIDs /\ c \in Parts(req[r].decision.source)
           /\ Shows[c] \in Allowed(req[r].decision.mode)
<1>1. /\ req[r].decision.source \in Videos /\ req[r].decision.source \notin marks
      /\ c \in PosterCIDs(req[r].decision.source, requested, req[r].decision.mode)
  BY DEF Poster
<1>2. req[r].decision.mode \in Modes
  BY DEF Decision
<1>3. /\ c \in Parts(req[r].decision.source) /\ c \in CIDs
      /\ req[r].decision.mode # "original" =>
           req[r].decision.mode \in Masks /\ Shows[c] = req[r].decision.mode
  BY <1>1, <1>2, PosterParts
<1>4. Shows[c] \in Kinds
  BY <1>3, DeliveryAssumption
<1> QED
  BY <1>1, <1>3, <1>4 DEF Allowed, Masks

(* What a request about to be served is known to be.                       *)
LEMMA ServeFacts ==
    ASSUME DeliveryInv, NEW r \in Requests, req[r].pc = "serve"
    PROVE  /\ req[r].in \in Request /\ req[r].in.cid \in CIDs
           /\ req[r].decision \in Decision /\ DecisionOK(req[r].decision)
           /\ DenyOK(req[r].in, req[r].decision)
           /\ ReadyOK(req[r].in, req[r].decision, gone[r])
           /\ req[r].in.route \in CidRoutes => req[r].in.cid \notin gone[r]
           /\ gone[r] \subseteq marks
BY RowRec DEF RowOK, Rec, Request

LEMMA MasterKeeps ==
    ASSUME DeliveryInv, NEW r \in Requests, ServeMaster(r)
    PROVE  DeliveryInv'
<1> DEFINE q == req[r].in
           d == req[r].decision
<1>1. Quiet /\ req[r].pc = "serve" /\ q.route = "master"
  BY DEF ServeMaster
<1>2. CASE Refuse(r, 403) \/ Refuse(r, 404)
  BY <1>1, <1>2, RefuseKeeps DEF Errors
<1>3. CASE ~HidesStream(d.mode) /\ Send(r, q.cid, Shows[q.cid], FALSE)
  <2>1. /\ q.cid \in CIDs /\ d \in Decision /\ ReadyOK(q, d, gone[r]) /\ DenyOK(q, d)
        /\ q.cid \notin gone[r]
    BY <1>1, ServeFacts DEF CidRoutes
  <2>2. Shows[q.cid] \in Kinds
    BY <2>1, DeliveryAssumption
  <2>3. q.cid \in (IF d.managed THEN Parts(d.source) ELSE {q.cid}) /\ d.source \notin gone[r]
    BY <1>1, <2>1, PartsAreCIDs DEF ReadyOK
  <2>4. KindOK(q, d, Shows[q.cid]) /\ (d.managed => d.mode = "original")
    BY <1>1, <1>3, <2>1, <2>2, OpenStream DEF KindOK, CidRoutes
  <2>5. GoneOK(q, d, q.cid, gone[r])
    BY <2>1 DEF GoneOK
  <2> QED
    BY <1>1, <1>3, <2>1, <2>2, <2>3, <2>4, <2>5, StreamSendKeeps
<1> QED
  BY <1>2, <1>3 DEF ServeMaster

LEMMA SegmentKeeps ==
    ASSUME DeliveryInv, NEW r \in Requests, ServeSegment(r)
    PROVE  DeliveryInv'
<1> DEFINE q == req[r].in
           d == req[r].decision
           Found == /\ q.want = "poster" /\ d.managed
                    /\ \E c \in Poster(r, q.cid) :
                         \/ Refuse(r, 403) \/ ServeAsset(r, c)
                         \/ d.mode # "original" /\ Send(r, c, Shows[c], FALSE)
           Missing == NoPoster(r, q.cid)
           Part == (~HidesStream(d.mode) \/ ~d.managed) /\ ServeAsset(r, q.cid)
<1>1. Quiet /\ req[r].pc = "serve" /\ q.route = "segment"
  BY DEF ServeSegment
<1>2. /\ q.cid \in CIDs /\ d \in Decision /\ ReadyOK(q, d, gone[r]) /\ DenyOK(q, d)
      /\ d.source \notin gone[r]
  BY <1>1, ServeFacts DEF ReadyOK
<1>3. CASE Refuse(r, 403)
  BY <1>1, <1>3, RefuseKeeps DEF Errors
<1>4. CASE Missing
  BY <1>1, <1>4, NoPosterKeeps
<1>5. CASE Found
  <2>1. PICK c \in Poster(r, q.cid) :
          \/ Refuse(r, 403) \/ ServeAsset(r, c)
          \/ d.mode # "original" /\ Send(r, c, Shows[c], FALSE)
    BY <1>5
  <2>2. /\ c \in CIDs /\ c \in Parts(d.source) /\ d.source \in Videos
        /\ KindOK(q, d, Shows[c]) /\ d.managed
    BY <1>2, <1>5, PosterFound DEF KindOK
  <2>3. Shows[c] \in Kinds
    BY <2>2, DeliveryAssumption
  <2>4. CASE d.mode # "original" /\ Send(r, c, Shows[c], FALSE)
    <3>1. GoneOK(q, d, c, gone[r])
      BY <1>1, <2>2, <2>4 DEF GoneOK, Protected
    <3> QED
      BY <1>1, <1>2, <2>2, <2>3, <2>4, <3>1, StreamSendKeeps
  <2>5. CASE ServeAsset(r, c)
    BY <1>1, <1>2, <2>2, <2>5, AssetKeeps
  <2> QED
    BY <1>3, <2>1, <2>4, <2>5
<1>6. CASE Part
  <2>1. q.cid \in (IF d.managed THEN Parts(d.source) ELSE {q.cid})
    BY <1>1, <1>2 DEF ReadyOK
  <2>2. Shows[q.cid] \in Kinds
    BY <1>2, DeliveryAssumption
  <2>3. KindOK(q, d, Shows[q.cid]) /\ (d.managed => d.mode = "original")
    BY <1>1, <1>2, <1>6, <2>2, OpenStream DEF KindOK, CidRoutes
  <2> QED
    BY <1>1, <1>2, <1>6, <2>1, <2>3, AssetKeeps
<1>7. Refuse(r, 403) \/ Missing \/ Found \/ Part
  BY DEF ServeSegment, HidesStream, Masks
<1> HIDE DEF Missing, Found, Part
<1> QED
  BY <1>3, <1>4, <1>5, <1>6, <1>7

LEMMA StreamLinkKeeps ==
    ASSUME DeliveryInv, NEW r \in Requests, ServeStreamLink(r)
    PROVE  DeliveryInv'
<1> DEFINE q == req[r].in
           d == req[r].decision
           Found == \E c \in Poster(r, d.poster) : ServeAsset(r, c)
           Missing == NoPoster(r, d.poster)
           Open == ~HidesStream(d.mode) /\ d.source \notin marks /\ d.source \in Videos
           Master == Open /\ Send(r, d.source, "stream", FALSE)
           Further == Open /\ Goto(r, "playlist")
<1>1. Quiet /\ req[r].pc = "serve" /\ q.route = "streamLink"
  BY DEF ServeStreamLink
<1>2. /\ d \in Decision /\ DenyOK(q, d) /\ d.managed /\ d.source \in CIDs
      /\ gone[r] \subseteq marks
  BY <1>1, ServeFacts DEF ReadyOK, CidRoutes, DecisionOK
<1>3. CASE Refuse(r, 403) \/ Refuse(r, 404)
  BY <1>1, <1>3, RefuseKeeps DEF Errors
<1>4. CASE Missing
  BY <1>1, <1>4, NoPosterKeeps
<1>5. CASE Found
  <2>1. PICK c \in Poster(r, d.poster) : ServeAsset(r, c)
    BY <1>5
  <2>2. /\ c \in CIDs /\ c \in Parts(d.source) /\ KindOK(q, d, Shows[c])
        /\ d.source \notin marks /\ d.source \in Videos
    BY <1>2, PosterFound DEF KindOK
  <2> QED
    BY <1>1, <1>2, <2>1, <2>2, AssetKeeps
<1>6. CASE Master
  <2>1. "stream" \in Kinds
    BY DEF Kinds
  <2>2. KindOK(q, d, "stream")
    BY <1>1, <1>2, <1>6, <2>1, OpenStream
  <2>3. d.source \in Parts(d.source) /\ GoneOK(q, d, d.source, gone[r])
    BY <1>2, <1>6, PartsAreCIDs DEF GoneOK
  <2> QED
    BY <1>1, <1>2, <1>6, <2>1, <2>2, <2>3, StreamSendKeeps
<1>7. CASE Further
  BY <1>1, <1>2, <1>7, MoveKeeps DEF Stages
<1>8. Refuse(r, 403) \/ Refuse(r, 404) \/ Missing \/ Found \/ Master \/ Further
  BY DEF ServeStreamLink
<1> HIDE DEF Missing, Found, Master, Further
<1> QED
  BY <1>3, <1>4, <1>5, <1>6, <1>7, <1>8

(* What is known while a stream link is followed down to its segment.      *)
LEMMA FollowFacts ==
    ASSUME DeliveryInv, NEW r \in Requests, req[r].pc \in {"playlist", "asset"}
    PROVE  LET q == req[r].in
               d == req[r].decision
           IN  /\ q.route = "streamLink" /\ d.managed /\ d.source \in Videos
               /\ ~HidesStream(d.mode) /\ d.source \notin gone[r]
               /\ req[r].pc = "asset" => q.at[1] \in DOMAIN PlaylistsOf[d.source]
               /\ \A c \in CIDs : KindOK(q, d, Shows[c])
               /\ Parts(d.source) \subseteq CIDs
<1> DEFINE q == req[r].in
           d == req[r].decision
<1>1. /\ q.route = "streamLink" /\ d.managed /\ d.source \in Videos
      /\ ~HidesStream(d.mode) /\ d.source \notin gone[r]
      /\ d \in Decision /\ DenyOK(q, d)
      /\ req[r].pc = "asset" => q.at[1] \in DOMAIN PlaylistsOf[d.source]
  BY RowRec DEF RowOK, Rec
<1>2. \A kind \in Kinds : KindOK(q, d, kind)
  BY <1>1, OpenStream
<1>3. \A c \in CIDs : Shows[c] \in Kinds
  BY DeliveryAssumption
<1>4. Parts(d.source) \subseteq CIDs
  BY <1>1, PartsAreCIDs, DeliveryAssumption
<1> QED
  BY <1>1, <1>2, <1>3, <1>4

LEMMA PlaylistKeeps ==
    ASSUME DeliveryInv, NEW r \in Requests, LinkedPlaylist(r)
    PROVE  DeliveryInv'
<1> DEFINE q == req[r].in
           d == req[r].decision
           p == PlaylistsOf[d.source][q.at[1]]
<1>1. Quiet /\ req[r].pc = "playlist"
  BY DEF LinkedPlaylist
<1>2. /\ q.route = "streamLink" /\ d.managed /\ d.source \in Videos
      /\ ~HidesStream(d.mode) /\ d.source \notin gone[r]
      /\ \A c \in CIDs : KindOK(q, d, Shows[c])
      /\ Parts(d.source) \subseteq CIDs
  BY <1>1, FollowFacts
<1>3. CASE Refuse(r, 404)
  BY <1>1, <1>3, RefuseKeeps DEF Errors
<1>4. CASE q.at[1] \in DOMAIN PlaylistsOf[d.source] /\ p \notin marks /\ Send(r, p, Shows[p], FALSE)
  <2>1. p \in Parts(d.source)
    BY <1>2, <1>4, ListedParts
  <2>2. p \in CIDs /\ Shows[p] \in Kinds
    BY <1>2, <2>1, DeliveryAssumption
  <2>3. GoneOK(q, d, p, gone[r])
    BY <1>4, RowRec DEF GoneOK
  <2> HIDE DEF p
  <2> QED
    BY <1>1, <1>2, <1>4, <2>1, <2>2, <2>3, StreamSendKeeps
<1>5. CASE q.at[1] \in DOMAIN PlaylistsOf[d.source] /\ Goto(r, "asset")
  BY <1>1, <1>2, <1>5, MoveKeeps DEF Stages
<1> QED
  BY <1>3, <1>4, <1>5 DEF LinkedPlaylist

LEMMA LinkedAssetKeeps ==
    ASSUME DeliveryInv, NEW r \in Requests, LinkedAsset(r)
    PROVE  DeliveryInv'
<1> DEFINE q == req[r].in
           d == req[r].decision
           children == ChildrenOf[PlaylistsOf[d.source][q.at[1]]]
           c == children[q.at[2]]
<1>1. Quiet /\ req[r].pc = "asset"
  BY DEF LinkedAsset
<1>2. CASE Refuse(r, 404)
  BY <1>1, <1>2, RefuseKeeps DEF Errors
<1>3. CASE q.at[2] \in DOMAIN children /\ ServeAsset(r, c)
  <2>1. /\ q.route = "streamLink" /\ d.managed /\ d.source \in Videos
        /\ d.source \notin gone[r] /\ q.at[1] \in DOMAIN PlaylistsOf[d.source]
        /\ \A k \in CIDs : KindOK(q, d, Shows[k])
        /\ Parts(d.source) \subseteq CIDs
    BY <1>1, FollowFacts
  <2>2. c \in Parts(d.source)
    BY <1>3, <2>1, ListedParts
  <2> HIDE DEF c
  <2> QED
    BY <1>1, <1>3, <2>1, <2>2, AssetKeeps
<1> QED
  BY <1>2, <1>3 DEF LinkedAsset

-----------------------------------------------------------------------------
(* A row says less when fewer CIDs have stayed deleted.                    *)
LEMMA RowShrinks ==
    ASSUME NEW x, NEW g, NEW h \in SUBSET g, NEW s, RowOK(x, g, s)
    PROVE  RowOK(x, h, s)
BY DEF RowOK, ReadyOK, ResponseOK, GoneOK

LEMMA DeleteKeeps ==
    ASSUME DeliveryInv, NEW c \in CIDs, Delete(c)
    PROVE  DeliveryInv'
<1>1. TypeOK'
  BY PartsAreCIDs DEF DeliveryInv, TypeOK, Delete
<1>2. GoneMarked'
  BY DEF DeliveryInv, GoneMarked, Delete
<1> QED
  BY <1>1, <1>2 DEF DeliveryInv, Delete

LEMMA CollectKeeps ==
    ASSUME DeliveryInv, NEW c \in CIDs, Collect(c)
    PROVE  DeliveryInv'
<1>1. TypeOK'
  BY DEF DeliveryInv, TypeOK, Collect
<1>2. GoneMarked'
  BY DEF DeliveryInv, GoneMarked, Collect
<1>3. ASSUME NEW r \in Requests PROVE RowOK(req[r], gone'[r], setup)
  <2>1. gone'[r] \in SUBSET gone[r]
    BY DEF Collect
  <2> QED
    BY <2>1, RowRec, RowShrinks
<1> QED
  BY <1>1, <1>2, <1>3 DEF DeliveryInv, Collect

LEMMA InvNext == DeliveryInv /\ [Next]_vars => DeliveryInv'
<1> SUFFICES ASSUME DeliveryInv, [Next]_vars PROVE DeliveryInv'
  OBVIOUS
<1>1. CASE UNCHANGED vars
  BY <1>1 DEF DeliveryInv, TypeOK, GoneMarked, vars
<1>2. ASSUME NEW r \in Requests, Handle(r) PROVE DeliveryInv'
  <2>1. CASE \E q \in Inputs : Begin(r, q)
    BY <2>1, BeginKeeps
  <2>2. CASE PolicyFails(r) \/ PolicyRefuses(r) \/ GrantRefused(r)
    BY <2>2, RefusalsKeep
  <2>3. CASE ResolveUnasked(r)
    BY <2>3, UnaskedKeeps
  <2>4. CASE \E m \in Modes : ResolveMediaLink(r, m)
    BY <2>4, MediaLinkKeeps
  <2>5. CASE \E m \in Modes : GrantAccepted(r, m)
    BY <2>5, LinkKeeps
  <2>6. CASE \E m \in Modes : ResolveLink(r, m)
    BY <2>6, LinkKeeps
  <2>7. CASE ResolveCID(r)
    BY <2>7, CIDKeeps
  <2>8. CASE Validate(r)
    BY <2>8, ValidateKeeps
  <2>9. CASE Scan(r)
    BY <2>9, ScanKeeps
  <2>10. CASE ServeFileRoute(r)
    BY <2>10, FileRouteKeeps
  <2>11. CASE ServeMaster(r)
    BY <2>11, MasterKeeps
  <2>12. CASE ServeSegment(r)
    BY <2>12, SegmentKeeps
  <2>13. CASE ServeStreamLink(r)
    BY <2>13, StreamLinkKeeps
  <2>14. CASE LinkedPlaylist(r)
    BY <2>14, PlaylistKeeps
  <2>15. CASE LinkedAsset(r)
    BY <2>15, LinkedAssetKeeps
  <2> QED
    BY <1>2, <2>1, <2>2, <2>3, <2>4, <2>5, <2>6, <2>7, <2>8, <2>9, <2>10, <2>11,
       <2>12, <2>13, <2>14, <2>15 DEF Handle
<1>3. ASSUME NEW c \in CIDs, Delete(c) \/ Collect(c) PROVE DeliveryInv'
  BY <1>3, DeleteKeeps, CollectKeeps
<1> QED
  BY <1>1, <1>2, <1>3 DEF Next

LEMMA InvAlways == Spec => []DeliveryInv
<1> QED
  BY InvInit, InvNext, PTL DEF Spec

-----------------------------------------------------------------------------
(* The download handlers keep the shape of their state.                    *)
THEOREM TypeCorrect == Spec => []TypeOK
<1>1. DeliveryInv => TypeOK
  BY DEF DeliveryInv
<1> QED
  BY <1>1, InvAlways, PTL

(* validateMediaResource and the stream handlers send nothing but parts of *)
(* the file the policy or the grant was about.                             *)
THEOREM OwnBytesCorrect == Spec => []OwnBytes
<1>1. DeliveryInv => OwnBytes
  BY DEF DeliveryInv, OwnBytes, Served, RowOK, ResponseOK
<1> QED
  BY <1>1, InvAlways, PTL

(* No row of an answer is exceeded by what serveFile, the stream handlers  *)
(* and resolveVideoPoster send, whatever the policy answers, but by links  *)
(* under deny: /file/link then sends the blurred picture at most.          *)
THEOREM MaskedBytesCorrect == Spec => []MaskedBytes
<1>1. DeliveryInv => MaskedBytes
  <2> SUFFICES ASSUME DeliveryInv, NEW r \in Requests, Served(r)
               PROVE  \/ \A m \in req[r].decision.rows : req[r].answer.kind \in Allowed(m)
                      \/ /\ "deny" \in req[r].decision.rows
                         /\ req[r].in.route = "fileLink" /\ req[r].answer.kind = "blur"
                      \/ "deny" \in req[r].decision.rows /\ req[r].in.route = "streamLink"
    BY DEF MaskedBytes
  <2> DEFINE d == req[r].decision
  <2>1. d \in Decision /\ DecisionOK(d) /\ KindOK(req[r].in, d, req[r].answer.kind)
    BY RowRec DEF RowOK, Rec, ResponseOK, Served
  <2>2. d.rows \in SUBSET Modes
    BY <2>1 DEF Decision
  <2>3. CASE ~d.managed
    BY <2>1, <2>3 DEF DecisionOK
  <2>4. CASE d.managed
    <3>1. d.mode = Strictest(d.rows)
      BY <2>1, <2>4 DEF DecisionOK
    <3>2. d.mode = "deny" => "deny" \in d.rows
      BY <3>1 DEF Strictest
    <3>3. CASE req[r].answer.kind \in Allowed(d.mode)
      BY <2>2, <3>1, <3>3, StrictestAllows
    <3> QED
      BY <2>1, <2>4, <3>2, <3>3 DEF KindOK
  <2> QED
    BY <2>3, <2>4
<1> QED
  BY <1>1, InvAlways, PTL

(* serveFile sends an avatar as it was framed when there is a size to cut  *)
(* it to, or the list of its files; the stream routes send it whole to     *)
(* those who may see the original.                                         *)
THEOREM FramedOnlyCorrect == Spec => []FramedOnly
<1>1. DeliveryInv => FramedOnly
  BY DEF DeliveryInv, FramedOnly, Served, RowOK, ResponseOK, FrameOK
<1> QED
  BY <1>1, InvAlways, PTL

(* Whatever is deleted when a request comes and stays so is not sent,      *)
(* wherever its handler looks at the unpin store, but for a poster that    *)
(* serveProtectedPoster sends without a look.                              *)
THEOREM DeletedNotServedCorrect == Spec => []DeletedNotServed
<1>1. DeliveryInv => DeletedNotServed
  BY DEF DeliveryInv, DeletedNotServed, Served, RowOK, ResponseOK, GoneOK, CidRoutes
<1> QED
  BY <1>1, InvAlways, PTL
=============================================================================
