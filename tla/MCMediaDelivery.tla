--------------------------- MODULE MCMediaDelivery ---------------------------
(* MediaDelivery with two pictures and two videos, and a bound on the      *)
(* deletions and collections of a behaviour.                               *)
EXTENDS MediaDelivery, TLC

CONSTANTS pic, pic2,     \* pictures: with masks and sizes in the bundle; without
          vid, list, seg, post, blurred,   \* a video: playlist, segment, poster, its mask
          vid2, list2, seg2,               \* another one: playlist, segment
          linkPic, linkVid, linkVid2,
          linkAvatar, linkAvatar2,         \* pic and pic2 with a frame
          Deletable, MaxChanges

VARIABLE changes

mcvars == <<vars, changes>>

MCVariantsOf == (pic :> Variants) @@ (pic2 :> {})
MCPlaylistsOf == (vid :> <<list>>) @@ (vid2 :> <<list2, list>>)
MCChildrenOf == [c \in CIDs |-> CASE c = list -> <<seg>> [] c = list2 -> <<seg2>> [] OTHER -> <<>>]
MCPostersOf == (vid :> {[cid |-> post, size |-> 1, variant |-> ""],
                        [cid |-> blurred, size |-> 1, variant |-> "blur"]}) @@ (vid2 :> {})
MCShows == [c \in CIDs |-> CASE c \in {pic, pic2, post} -> "original"
                             [] c = blurred -> "blur" [] OTHER -> "stream"]
MCSourceOf == (linkPic :> pic) @@ (linkAvatar :> pic) @@ (linkAvatar2 :> pic2)
              @@ (linkVid :> vid) @@ (linkVid2 :> vid2)
MCPosterUri == [l \in Links |-> IF l \in {linkVid, linkVid2} THEN post ELSE None]
(* The asset of linkVid2 names the picture and the poster as its own.      *)
MCMentions == (linkPic :> {pic}) @@ (linkAvatar :> {pic}) @@ (linkAvatar2 :> {pic2})
              @@ (linkVid :> {vid, post}) @@ (linkVid2 :> {vid2, post, pic})
MCCrop == [l \in Links |-> l \in {linkAvatar, linkAvatar2}]

Ask == [route |-> "file", cid |-> pic, link |-> linkPic, mediaLink |-> None, root |-> None,
        grant |-> FALSE, want |-> "", mask |-> "", at |-> <<1, 1>>]

FilePaths == {<<"", "">>, <<"bundle", "">>, <<"size", "">>, <<"size", "blur">>,
              <<"size", "blur_faces">>, <<"blur", "">>, <<"blur_faces", "">>,
              <<"fit_1024", "">>, <<"fit_1024", "blur">>}

StreamLinkInputs ==
    {[Ask EXCEPT !.route = "streamLink", !.link = l, !.grant = g, !.want = w, !.at = <<a, 1>>] :
        l \in {linkVid, linkVid2}, g \in BOOLEAN, a \in {1, 2},
        w \in {"poster", "master", "playlist", "segment"}}

MCInputs ==
    {[Ask EXCEPT !.cid = c, !.mediaLink = l, !.want = w[1], !.mask = w[2]] :
        c \in {pic, vid}, l \in {None, linkAvatar, linkVid2}, w \in FilePaths}
    \cup {[Ask EXCEPT !.cid = pic2, !.want = w[1], !.mask = w[2]] : w \in FilePaths}
    \cup {[Ask EXCEPT !.route = "fileLink", !.link = l, !.grant = g, !.want = w[1], !.mask = w[2]] :
        l \in {linkPic, linkAvatar, linkAvatar2, linkVid}, g \in BOOLEAN, w \in FilePaths}
    \cup {[Ask EXCEPT !.route = "master", !.cid = c, !.mediaLink = l, !.grant = g] :
        c \in {vid, vid2, pic}, l \in {None, linkVid}, g \in BOOLEAN}
    \cup {[Ask EXCEPT !.route = "segment", !.cid = c, !.mediaLink = l, !.root = x, !.want = w] :
        c \in {vid, list, seg, post, seg2, pic}, l \in {None, linkVid2}, x \in {None, vid, vid2},
        w \in {"poster", "segment"}}
    \cup StreamLinkInputs

MCInit == /\ Init /\ changes = 0
          /\ setup.access # "policy" => setup.cropSize

MCNext == \/ \E r \in Requests : Handle(r) /\ UNCHANGED changes
          \/ /\ \E r \in Requests : req[r].pc # "done"
             /\ changes < MaxChanges /\ changes' = changes + 1
             /\ \E c \in Deletable : Delete(c) \/ Collect(c)

MCSpec == MCInit /\ [][MCNext]_mcvars
=============================================================================
