---------------------------- MODULE MediaDelivery ----------------------------
(***************************************************************************)
(* How a download is authorised and answered (internal/handler:            *)
(* media_access.go, media_resource.go, media_grants.go, handler.go,        *)
(* video_handler.go).  A request asks the policy service, checks that what *)
(* it names belongs to the file the answer is about, and picks the         *)
(* rendition to send; deletions go on meanwhile.  The policy service is    *)
(* external: it may answer differently at every call.  What is stored is   *)
(* addressed by content and never changes.                                 *)
(***************************************************************************)
EXTENDS Naturals, FiniteSets, Sequences

CONSTANTS
    CIDs, Links, Requests,
    Inputs,          \* the requests clients may send
    Images,          \* bundles of type image; other bundles are of no interest here
    Videos,          \* master playlists
    VariantsOf,      \* [Images -> SUBSET Variants]: what a bundle holds beside the original
    PlaylistsOf,     \* [Videos -> Seq(CIDs)]: what a master lists
    ChildrenOf,      \* [CIDs -> Seq(CIDs)]: what a playlist lists
    PostersOf,       \* [Videos -> sets of poster lines]
    Shows,           \* [CIDs -> Kinds]: what the bytes at a CID show
    SourceOf,        \* [Links -> CIDs]: storage_uri of the link's asset
    PosterUri,       \* [Links -> CIDs or None]: its poster_uri
    Mentions,        \* [Links -> SUBSET CIDs]: CIDs a search finds the link by
    Crop,            \* [Links -> BOOLEAN]: the link frames a part of the picture
    MaxPlaylists,    \* 32: playlists a compatibility scan reads
    None

Masks == {"blur", "blur_faces"}
Modes == Masks \cup {"original", "deny"}

(* Masks, a size that is configured, and fit_1024, which may not be.       *)
Variants == Masks \cup {"size", "fit_1024"}

(* What an answer may show: the picture or video as it is, a mask of it,   *)
(* the list of a bundle's files, or a part of a video's stream.            *)
Kinds == Masks \cup {"original", "manifest", "stream"}

Routes == {"file", "fileLink", "master", "segment", "streamLink"}

(* want: the path after the CID or link; mask: its second part; at: the    *)
(* indexes of a stream link.                                               *)
Request == [route : Routes, cid : CIDs, link : Links, mediaLink : Links \cup {None},
            root : CIDs \cup {None}, grant : BOOLEAN,
            want : {"", "bundle", "poster", "master", "playlist", "segment"} \cup Variants,
            mask : Masks \cup {""}, at : Nat \X Nat]

PosterLine == [cid : CIDs, size : Nat, variant : Masks \cup {""}]

ASSUME DeliveryAssumption ==
    /\ Inputs \subseteq Request
    /\ Images \subseteq CIDs /\ Videos \subseteq CIDs /\ Images \cap Videos = {}
    /\ VariantsOf \in [Images -> SUBSET Variants]
    /\ PlaylistsOf \in [Videos -> Seq(CIDs)] /\ ChildrenOf \in [CIDs -> Seq(CIDs)]
    /\ PostersOf \in [Videos -> SUBSET PosterLine]
    /\ Shows \in [CIDs -> Kinds]
    /\ SourceOf \in [Links -> CIDs] /\ PosterUri \in [Links -> CIDs \cup {None}]
    /\ Mentions \in [Links -> SUBSET CIDs]
    /\ Crop \in [Links -> BOOLEAN]
    /\ MaxPlaylists \in Nat
    /\ None \notin CIDs /\ None \notin Links

(* The upload of a video draws its protected posters as masks.             *)
ASSUME PosterAssumption ==
    \A v \in Videos : \A p \in PostersOf[v] :
        Shows[p.cid] = IF p.variant = "" THEN "original" ELSE p.variant

VARIABLES
    setup,     \* the configuration of this instance
    marks,     \* the unpin store: deleted CIDs
    req,       \* req[r]: the request and how far it is
    gone       \* observer: gone[r]: the CIDs deleted ever since r began

vars == <<setup, marks, req, gone>>

Decision == [mode : Modes, managed : BOOLEAN, source : CIDs \cup {None},
             poster : CIDs \cup {None}, crop : BOOLEAN,
             rows : SUBSET Modes]   \* rows: observer, what was answered

NoDecision == [mode |-> "deny", managed |-> FALSE, source |-> None,
               poster |-> None, crop |-> FALSE, rows |-> {}]

Stages == {"idle", "resolve", "again", "validate", "scan", "serve",
           "playlist", "asset", "done"}

NoAnswer == [code |-> 0, of |-> None, kind |-> "none", framed |-> FALSE]

Answer == [code : {0, 200, 400, 401, 403, 404, 503}, of : CIDs \cup {None},
           kind : Kinds \cup {"none"}, framed : BOOLEAN]

-----------------------------------------------------------------------------
(* Everything that belongs to the file at c: the children of a video are   *)
(* those its own playlists list.                                           *)
Parts(c) ==
    IF c \in Videos
    THEN {c} \cup {p.cid : p \in PostersOf[c]}
             \cup UNION {{PlaylistsOf[c][i]} \cup
                         {ChildrenOf[PlaylistsOf[c][i]][j] : j \in DOMAIN ChildrenOf[PlaylistsOf[c][i]]}
                         : i \in DOMAIN PlaylistsOf[c]}
    ELSE {c}

(* The switch in resolve over the rows of an answer: the order of the rows *)
(* does not matter.                                                        *)
Strictest(modes) == CASE "deny" \in modes -> "deny"
                      [] "deny" \notin modes /\ "blur" \in modes -> "blur"
                      [] modes \cap {"deny", "blur"} = {} /\ "blur_faces" \in modes -> "blur_faces"
                      [] OTHER -> "original"

(* videoPosterCID: which posters the master lets stand for the requested   *)
(* one; the code takes the first of its lines.                             *)
PosterCIDs(v, requested, mode) ==
    LET originals == {p \in PostersOf[v] : p.variant = "" /\ requested \in {None, p.cid}}
    IN  IF mode = "original" THEN {p.cid : p \in originals}
        ELSE {q.cid : q \in {q \in PostersOf[v] :
                               q.variant = mode /\ \E p \in originals : p.size = q.size}}

HidesStream(mode) == mode \in Masks

-----------------------------------------------------------------------------
(* access: the policy service is configured, or it is not and unmanaged    *)
(* files are allowed, or neither; cropSize: fit_1024 is configured.        *)
Setups == [access : {"policy", "unmanaged", "none"}, cropSize : BOOLEAN]

Init == /\ setup \in Setups
        /\ marks = {}
        /\ req = [r \in Requests |-> [pc |-> "idle", in |-> None, decision |-> NoDecision,
                                      idx |-> 0, answer |-> NoAnswer]]
        /\ gone = [r \in Requests |-> {}]

Quiet == UNCHANGED <<setup, marks, gone>>

Goto(r, pc) == req' = [req EXCEPT ![r].pc = pc]

(* The handler returns an error; what it knew is forgotten.                *)
Refuse(r, code) ==
    req' = [req EXCEPT ![r].pc = "done", ![r].in = None, ![r].decision = NoDecision,
                       ![r].idx = 0, ![r].answer = [NoAnswer EXCEPT !.code = code]]

(* Headers and bytes go out.                                               *)
Send(r, c, kind, framed) ==
    req' = [req EXCEPT ![r].pc = "done",
                       ![r].answer = [code |-> 200, of |-> c, kind |-> kind, framed |-> framed]]

(* The handlers of CID routes look the CID up before anything else.        *)
Begin(r, q) ==
    /\ req[r].pc = "idle"
    /\ LET deleted == q.route \in {"file", "master", "segment"} /\ q.cid \in marks
       IN  req' = [req EXCEPT ![r].in = q,
                              ![r].pc = IF deleted THEN "done" ELSE "resolve",
                              ![r].answer = [NoAnswer EXCEPT !.code = IF deleted THEN 404 ELSE 0]]
    /\ gone' = [gone EXCEPT ![r] = marks]
    /\ UNCHANGED <<setup, marks>>

-----------------------------------------------------------------------------
(* The decision from the rows of an answer, one per link; the first names  *)
(* the source, and the first that has one the poster.                      *)
Decided(rows, first, mode) ==
    LET named == {l \in rows : PosterUri[l] # None}
    IN  [mode |-> Strictest({mode[l] : l \in rows}), managed |-> TRUE,
         source |-> SourceOf[first],
         poster |-> IF first \in named \/ named = {} THEN PosterUri[first]
                    ELSE PosterUri[CHOOSE l \in named : TRUE],
         crop |-> \E l \in rows : Crop[l],
         rows |-> {mode[l] : l \in rows}]

(* The service cannot be asked, or its answer cannot be understood.        *)
PolicyFails(r) ==
    /\ req[r].pc \in {"resolve", "again"}
    /\ setup.access = "policy"
    /\ ~req[r].in.grant
    /\ Refuse(r, 503)
    /\ Quiet

(* It answers 401, 403 or 404, "Record not found", no rows, or a row whose *)
(* storage_uri names no CID.                                               *)
PolicyRefuses(r) ==
    /\ req[r].pc \in {"resolve", "again"}
    /\ setup.access = "policy"
    /\ ~req[r].in.grant
    /\ Refuse(r, 403)
    /\ Quiet

(* resolveMediaDelivery for a request it does not ask the policy about.    *)
ResolveUnasked(r) ==
    /\ req[r].pc = "resolve"
    /\ \/ req[r].in.grant /\ req[r].in.route \in {"file", "master", "segment"} /\ Refuse(r, 403)
       \/ /\ ~req[r].in.grant
          /\ setup.access # "policy"
          /\ IF setup.access = "unmanaged" /\ req[r].in.route \in {"file", "master", "segment"}
             THEN req' = [req EXCEPT ![r].pc = "serve",
                                     ![r].decision = [NoDecision EXCEPT !.mode = "original"]]
             ELSE Refuse(r, 503)
    /\ Quiet

(* Resolve for a CID route whose query names a link: a link that is not of *)
(* this file is set aside.                                                 *)
ResolveMediaLink(r, m) ==
    LET q == req[r].in
    IN  /\ req[r].pc = "resolve"
        /\ setup.access = "policy" /\ ~q.grant
        /\ q.route \in {"file", "master", "segment"} /\ q.mediaLink # None
        /\ \/ SourceOf[q.mediaLink] # q.cid /\ Goto(r, "again")
           \/ SourceOf[q.mediaLink] = q.cid /\ m = "deny" /\ Refuse(r, 403)
           \/ /\ SourceOf[q.mediaLink] = q.cid /\ m # "deny"
              /\ req' = [req EXCEPT ![r].pc = "validate",
                                    ![r].decision = Decided({q.mediaLink}, q.mediaLink, [l \in Links |-> m])]
        /\ Quiet

(* Resolve by CID: a search for media_root or the CID, of at most two rows.*)
ResolveCID(r) ==
    LET q == req[r].in
        found == {l \in Links : (IF q.root # None THEN q.root ELSE q.cid) \in Mentions[l]}
    IN  /\ \/ req[r].pc = "resolve" /\ q.mediaLink = None
           \/ req[r].pc = "again"
        /\ setup.access = "policy" /\ ~q.grant
        /\ q.route \in {"file", "master", "segment"}
        /\ \E rows \in SUBSET found : \E first \in rows, mode \in [rows -> Modes] :
             /\ Cardinality(rows) <= 2
             /\ IF Strictest({mode[l] : l \in rows}) = "deny" THEN Refuse(r, 403)
                ELSE req' = [req EXCEPT ![r].pc = "validate",
                                        ![r].decision = Decided(rows, first, mode)]
        /\ Quiet

(* Mutant: a link is followed to a deleted file.                           *)
ResolveLinkMutant(r, m) ==
    LET q == req[r].in
    IN  /\ req[r].pc = "resolve"
        /\ setup.access = "policy" /\ ~q.grant
        /\ q.route \in {"fileLink", "streamLink"}
        /\ req' = [req EXCEPT ![r].pc = "serve",
                              ![r].decision = Decided({q.link}, q.link, [l \in Links |-> m])]
        /\ Quiet

(* ResolveLink, which unlike Resolve passes deny on, and the check of the  *)
(* unpin store HandleFileLink adds.                                        *)
ResolveLink(r, m) ==
    LET q == req[r].in
    IN  /\ req[r].pc = "resolve"
        /\ setup.access = "policy" /\ ~q.grant
        /\ q.route \in {"fileLink", "streamLink"}
        /\ IF q.route = "fileLink" /\ SourceOf[q.link] \in marks THEN Refuse(r, 404)
           ELSE req' = [req EXCEPT ![r].pc = "serve",
                                   ![r].decision = Decided({q.link}, q.link, [l \in Links |-> m])]
        /\ Quiet

(* A grant is opened and checked against the grant state (see GrantState): *)
(* it is not accepted, or names another link or operation, or is the list  *)
(* of a bundle it cannot ask for.                                          *)
GrantRefused(r) ==
    /\ req[r].pc = "resolve"
    /\ req[r].in.grant /\ req[r].in.route \in {"fileLink", "streamLink"}
    /\ \E code \in {401, 403, 503} : Refuse(r, code)
    /\ Quiet

(* claims.validate ties the operations to the file: a picture is no video, *)
(* and a stream is granted for original videos only.                       *)
GrantAccepted(r, m) ==
    LET q == req[r].in
        op == CASE q.route = "fileLink" -> "image"
                [] q.route = "streamLink" /\ q.want = "poster" -> "poster"
                [] OTHER -> "stream"
    IN  /\ req[r].pc = "resolve"
        /\ q.grant /\ q.route \in {"fileLink", "streamLink"}
        /\ m # "deny" /\ q.want # "bundle"
        /\ (op = "image") = (SourceOf[q.link] \notin Videos)
        /\ op = "stream" => m = "original"
        /\ IF q.route = "fileLink" /\ SourceOf[q.link] \in marks THEN Refuse(r, 404)
           ELSE req' = [req EXCEPT ![r].pc = "serve",
                                   ![r].decision = Decided({q.link}, q.link, [l \in Links |-> m])]
        /\ Quiet

-----------------------------------------------------------------------------
(* validateMediaResource, up to the scan of a master's playlists.          *)
Validate(r) ==
    LET q == req[r].in
        d == req[r].decision
    IN  /\ req[r].pc = "validate"
        /\ \/ d.source \in marks /\ Refuse(r, 403)
           \/ /\ d.source \notin marks
              /\ \/ q.cid = d.source /\ (q.route # "segment" \/ d.mode = "original") /\ Goto(r, "serve")
                 \/ q.cid # d.source /\ q.route # "segment" /\ Refuse(r, 403)
                 \/ /\ q.route = "segment" /\ ~(q.cid = d.source /\ d.mode = "original")
                    /\ \/ d.source \notin Videos /\ Refuse(r, 403)
                       \/ d.source \in Videos /\ Refuse(r, 503)     \* the master cannot be read
                       \/ /\ d.source \in Videos
                          /\ IF PosterCIDs(d.source, q.cid, d.mode) # {} THEN Goto(r, "serve")
                             ELSE IF d.mode # "original" THEN Refuse(r, 403)
                             ELSE Goto(r, "scan")
        /\ Quiet

(* Mutant: the scan also accepts what another video's playlist lists.      *)
ScanMutant(r) ==
    LET q == req[r].in
    IN  /\ req[r].pc = "scan"
        /\ IF \E p \in CIDs : q.cid \in {ChildrenOf[p][j] : j \in DOMAIN ChildrenOf[p]}
           THEN Goto(r, "serve") ELSE Refuse(r, 403)
        /\ Quiet

(* One turn of the scan: the playlist itself or one of its children was    *)
(* asked for; a deleted playlist is passed over.                           *)
Scan(r) ==
    LET q == req[r].in
        playlists == PlaylistsOf[req[r].decision.source]
        i == req[r].idx + 1
        children == ChildrenOf[playlists[i]]
        Skip == req' = [req EXCEPT ![r].idx = i]
    IN  /\ req[r].pc = "scan"
        /\ \/ (i > MaxPlaylists \/ i > Len(playlists)) /\ Refuse(r, 403)
           \/ /\ i <= MaxPlaylists /\ i <= Len(playlists)
              /\ \/ q.cid = playlists[i] /\ Goto(r, "serve")
                 \/ q.cid # playlists[i] /\ playlists[i] \in marks /\ Skip
                 \/ /\ q.cid # playlists[i] /\ playlists[i] \notin marks
                    /\ \/ Refuse(r, 503)                             \* it cannot be read
                       \/ IF q.cid \in {children[j] : j \in DOMAIN children} THEN Goto(r, "serve")
                          ELSE Skip
        /\ Quiet

-----------------------------------------------------------------------------
(* serveFile for a bundle that can be read.  A mask in force replaces what *)
(* the path asks for, and a requested mask stays if it is the stronger.    *)
Protected(d) == d.managed /\ d.mode # "original"

(* Mutant: the mask the URL asks for wins over the one of the policy.      *)
SourceVariantMutant(d, requested) ==
    IF Protected(d) /\ requested = "" THEN d.mode ELSE requested

SourceVariant(d, requested) ==
    IF Protected(d) /\ (d.mode = "blur" \/ requested # "blur") THEN d.mode ELSE requested

(* configuredPreview *)
Configured(key) == key = "size" \/ (key = "fit_1024" /\ setup.cropSize)

(* A framed picture is cut to the size asked for, or to fit_1024 when that *)
(* is none; it is not cut at all when neither is configured, but fit_1024  *)
(* is still what is looked for then.                                       *)
VariantKey(d, want) == IF d.crop /\ ~Configured(want) THEN "fit_1024" ELSE want

Cropped(d, key) == d.crop /\ Configured(key)

(* Mutant: a framed picture whose size is in the bundle is sent from it.   *)
BundledMutant(c, d, key, mask) == mask = "" /\ key \in VariantsOf[c]

(* A configured size is sent from the bundle as it was uploaded.           *)
Bundled(c, d, key, mask) == mask = "" /\ key \in VariantsOf[c] /\ ~Cropped(d, key)

(* Masks and sizes drawn after the upload are VariantOverrides' matter.    *)
ServeFile(r, c) ==
    LET d == req[r].decision
        q == req[r].in
        key == VariantKey(d, q.want)
        mask == SourceVariant(d, q.mask)
        variant == IF Protected(d) THEN d.mode ELSE key
        found == q.mask = "" \/ Configured(q.want)      \* a path serveFile knows
    IN  \/ Refuse(r, 404)             \* no manifest, none that can be read, no such path
        \/ /\ c \in Images /\ found /\ q.want = "bundle"
           /\ IF Protected(d) THEN Refuse(r, 403) ELSE Send(r, c, "manifest", FALSE)
        \/ /\ c \in Images /\ found /\ q.want # "bundle" /\ Configured(key)
           /\ IF Bundled(c, d, key, mask) THEN Send(r, c, "original", FALSE)
              ELSE \/ Refuse(r, 503)                     \* the preview cannot be made
                   \/ /\ mask = "" \/ mask \in VariantsOf[c]
                      /\ Send(r, c, IF mask = "" THEN "original" ELSE mask, Cropped(d, key))
        \/ /\ c \in Images /\ found /\ q.want # "bundle" /\ ~Configured(key)
           /\ IF variant # "" /\ variant \notin VariantsOf[c] THEN Refuse(r, 403)
              ELSE Send(r, c, IF variant \in Masks THEN variant ELSE "original", FALSE)

(* serveStreamAsset and fetchVideoAsset: a bundle is read as its original. *)
ServeAsset(r, c) ==
    \/ c \in marks /\ Refuse(r, 404)
    \/ c \notin marks /\ Refuse(r, 404)                 \* it cannot be read
    \/ c \notin marks /\ Send(r, c, Shows[c], FALSE)

(* resolveVideoPoster from the master of the decision: the posters it may  *)
(* name, and the ways it may fail.                                         *)
Poster(r, requested) ==
    LET d == req[r].decision
    IN  IF d.source \in Videos /\ d.source \notin marks
        THEN PosterCIDs(d.source, requested, d.mode) ELSE {}

NoPoster(r, requested) ==
    LET source == req[r].decision.source
    IN  \/ source \notin Videos /\ Refuse(r, 403)
        \/ source \in Videos /\ Refuse(r, 503)          \* deleted or unreadable
        \/ source \in Videos \ marks /\ Poster(r, requested) = {} /\ Refuse(r, 403)

(* The end of HandleFile and HandleFileLink.                               *)
ServeFileRoute(r) ==
    /\ req[r].pc = "serve"
    /\ \/ req[r].in.route = "file" /\ ServeFile(r, req[r].in.cid)
       \/ req[r].in.route = "fileLink" /\ ServeFile(r, req[r].decision.source)
    /\ Quiet

(* HandleStreamMaster and serveStreamMaster.                               *)
ServeMaster(r) ==
    LET q == req[r].in
    IN  /\ req[r].pc = "serve" /\ q.route = "master"
        /\ \/ HidesStream(req[r].decision.mode) /\ Refuse(r, 403)
           \/ /\ ~HidesStream(req[r].decision.mode)
              /\ Refuse(r, 404) \/ Send(r, q.cid, Shows[q.cid], FALSE)
        /\ Quiet

(* HandleStreamSegment and serveProtectedPoster; a poster has the          *)
(* extension of a picture.                                                 *)
ServeSegment(r) ==
    LET q == req[r].in
        d == req[r].decision
        SendProtected(c) == Refuse(r, 403) \/ Send(r, c, Shows[c], FALSE)
    IN  /\ req[r].pc = "serve" /\ q.route = "segment"
        /\ \/ HidesStream(d.mode) /\ q.want # "poster" /\ Refuse(r, 403)
           \/ /\ q.want = "poster" /\ d.managed
              /\ \/ d.source \in Videos /\ NoPoster(r, q.cid)
                 \/ \E c \in Poster(r, q.cid) :
                      IF d.mode # "original" THEN SendProtected(c) ELSE ServeAsset(r, c)
                 \/ d.source \notin Videos /\ d.mode # "original" /\ Refuse(r, 403)
                 \/ d.source \notin Videos /\ d.mode = "original" /\ ServeAsset(r, q.cid)
           \/ /\ ~HidesStream(d.mode) \/ q.want = "poster"
              /\ q.want # "poster" \/ ~d.managed
              /\ ServeAsset(r, q.cid)
        /\ Quiet

(* HandleStreamLink; serveLinkedStreamMaster.                              *)
ServeStreamLink(r) ==
    LET q == req[r].in
        d == req[r].decision
    IN  /\ req[r].pc = "serve" /\ q.route = "streamLink"
        /\ \/ q.want = "poster" /\ NoPoster(r, d.poster)
           \/ q.want = "poster" /\ \E c \in Poster(r, d.poster) : ServeAsset(r, c)
           \/ q.want # "poster" /\ HidesStream(d.mode) /\ Refuse(r, 403)
           \/ /\ q.want # "poster" /\ ~HidesStream(d.mode)
              /\ \/ Refuse(r, 404)            \* deleted, unreadable or no master
                 \/ /\ d.source \notin marks /\ d.source \in Videos
                    /\ IF q.want = "master" THEN Send(r, d.source, "stream", FALSE)
                       ELSE Goto(r, "playlist")
        /\ Quiet

(* serveLinkedStreamPlaylist, and serveLinkedStreamAsset up to its asset.  *)
LinkedPlaylist(r) ==
    LET q == req[r].in
        playlists == PlaylistsOf[req[r].decision.source]
        p == playlists[q.at[1]]
    IN  /\ req[r].pc = "playlist"
        /\ \/ Refuse(r, 404)                  \* deleted, unreadable or no such index
           \/ /\ q.at[1] \in DOMAIN playlists
              /\ p \notin marks
              /\ IF q.want = "playlist" THEN Send(r, p, Shows[p], FALSE) ELSE Goto(r, "asset")
        /\ Quiet

LinkedAsset(r) ==
    LET q == req[r].in
        children == ChildrenOf[PlaylistsOf[req[r].decision.source][q.at[1]]]
    IN  /\ req[r].pc = "asset"
        /\ \/ q.at[2] \notin DOMAIN children /\ Refuse(r, 404)
           \/ q.at[2] \in DOMAIN children /\ ServeAsset(r, children[q.at[2]])
        /\ Quiet

-----------------------------------------------------------------------------
(* A DELETE marks a file, a video with its whole group; the collector      *)
(* removes marks one by one.                                               *)
Delete(c) == /\ c \notin marks
             /\ marks' = marks \cup Parts(c)
             /\ UNCHANGED <<setup, req, gone>>

Collect(c) == /\ c \in marks
              /\ marks' = marks \ {c}
              /\ gone' = [r \in Requests |-> gone[r] \ {c}]
              /\ UNCHANGED <<setup, req>>

Handle(r) ==
    \/ \E q \in Inputs : Begin(r, q)
    \/ PolicyFails(r) \/ PolicyRefuses(r) \/ ResolveUnasked(r) \/ GrantRefused(r)
    \/ \E m \in Modes : ResolveMediaLink(r, m) \/ ResolveLink(r, m) \/ GrantAccepted(r, m)
    \/ ResolveCID(r) \/ Validate(r) \/ Scan(r)
    \/ ServeFileRoute(r) \/ ServeMaster(r) \/ ServeSegment(r)
    \/ ServeStreamLink(r) \/ LinkedPlaylist(r) \/ LinkedAsset(r)

Next == \/ \E r \in Requests : Handle(r)
        \/ \E c \in CIDs : Delete(c) \/ Collect(c)

Spec == Init /\ [][Next]_vars

-----------------------------------------------------------------------------
(* The shape of the state.                                                 *)
TypeOK ==
    /\ setup \in Setups
    /\ marks \in SUBSET CIDs
    /\ req \in [Requests -> [pc : Stages, in : Request \cup {None}, decision : Decision,
                             idx : Nat, answer : Answer]]
    /\ gone \in [Requests -> SUBSET CIDs]

Served(r) == req[r].answer.code = 200

(* "A policy for link A must never authorize bytes from link B"            *)
(* (media_resource.go:10): what is sent under an answer of the policy or a *)
(* grant belongs to the file the answer is about, whatever the path, the   *)
(* media_link and the media_root of the request name.                      *)
OwnBytes ==
    \A r \in Requests : Served(r) =>
        req[r].answer.of \in IF req[r].decision.managed THEN Parts(req[r].decision.source)
                             ELSE {req[r].in.cid}

(* What a mode lets a viewer see.                                          *)
Allowed(mode) == CASE mode = "original" -> Kinds
                   [] mode = "blur" -> {"blur"}
                   [] mode = "blur_faces" -> Masks
                   [] mode = "deny" -> {}

(* No row of the answer is ever exceeded: a picture one of its places      *)
(* shows masked is sent as that mask or a stronger one, a hidden video is  *)
(* only sent as its masked poster, a file denied on a CID route not at     *)
(* all.  Links pass deny on (see DeniedRefused): /file/link sends at most  *)
(* the blurred picture then, /stream/link plays the video.                 *)
MaskedBytes ==
    \A r \in Requests :
        LET q == req[r].in
            d == req[r].decision
        IN  Served(r) =>
              \/ \A m \in d.rows : req[r].answer.kind \in Allowed(m)
              \/ "deny" \in d.rows /\ q.route = "fileLink" /\ req[r].answer.kind = "blur"
              \/ "deny" \in d.rows /\ q.route = "streamLink"

(* "A `deny` row ... answer 403" (MEDIA-ACCESS.md:54): nothing is sent     *)
(* under an answer with a denied row, on any route.                        *)
DeniedRefused == \A r \in Requests : Served(r) => "deny" \notin req[r].decision.rows

(* "An avatar shows only the part of its picture it was framed to"         *)
(* (handler.go:562): /file and /file/link send pixels of a framed picture  *)
(* cut to the frame, whatever mode, size or mask is asked for, as long as  *)
(* that size or fit_1024 is configured.  The stream routes by CID know no  *)
(* frame: they send such a picture whole, but only to viewers the policy   *)
(* lets see the original.                                                  *)
FramedOnly ==
    \A r \in Requests :
        LET q == req[r].in
            d == req[r].decision
        IN  /\ Served(r) /\ d.crop /\ d.source \in Images
            /\ req[r].answer.kind # "manifest"
            => \/ req[r].answer.framed
               \/ q.route \in {"file", "fileLink"} /\ q.want # "size" /\ ~setup.cropSize
               \/ q.route \in {"master", "segment"} /\ d.mode = "original"

(* Nothing that was deleted when the request came and has stayed deleted   *)
(* is sent, nor anything of a deleted file or under the name of one,       *)
(* although the store is asked at different moments on different routes.   *)
(* The one exception is serveProtectedPoster, which does not ask: a masked *)
(* poster deleted by itself, or whose video's mark is collected first, is  *)
(* still sent by /stream/segment.                                          *)
DeletedNotServed ==
    \A r \in Requests :
        LET q == req[r].in
            d == req[r].decision
        IN  Served(r) =>
              /\ d.source \notin gone[r]
              /\ q.route \in {"file", "master", "segment"} => q.cid \notin gone[r]
              /\ req[r].answer.of \in gone[r] => q.route = "segment" /\ Protected(d)
=============================================================================
