-------------------------- MODULE VariantOverrides --------------------------
(***************************************************************************)
(* Masks drawn again after the upload and the sizes made of them           *)
(* (internal/store/variant_overrides.go, internal/handler/face_masks.go    *)
(* and fit_preview.go).  The map of replacements is changed in memory and  *)
(* written through a temporary file under one lock; sizes are made once    *)
(* per key by a singleflight group, with the context of the first viewer.  *)
(* Version 0 of a mask is the one in the bundle; a drawn one is a file.    *)
(***************************************************************************)
EXTENDS Naturals

CONSTANTS
    Slots,        \* masked variants: a bundle's blur_faces, a poster's mask
    Versions,     \* masks the drawing code can produce, without 0
    Refreshers,   \* items of POST /admin/face-masks/refresh
    Viewers,      \* downloads of a masked variant
    None

ASSUME OverridesAssumption ==
    /\ Versions \subseteq Nat \ {0}
    /\ None \notin Nat /\ None \notin Viewers /\ None \notin Refreshers
    /\ Viewers \cap Refreshers = {}

VARIABLES
    phase,     \* "down", "up", or "nil": the map could not be read
    mem, file, \* the map in memory and on disk
    lock,      \* who is inside Set
    ref,       \* ref[p]: an item being refreshed
    view,      \* view[p]: a download
    flight,    \* flight[k]: the viewer making the size of key k
    unsaved,   \* observer: the last Set could not write the file
    refreshed, \* observer: masks whose refresh was answered "refreshed"
    since      \* observer: since[p]: masks in force since p began

vars == <<phase, mem, file, lock, ref, view, flight, unsaved, refreshed, since>>

Masked == Versions \cup {0}

Keys == Slots \X Masked

(* mask[s] stands in for the mask of s (0: nothing does); preview[k] is    *)
(* the size stored under k, named by the mask it was made of.              *)
Maps == [mask : [Slots -> Masked], preview : [Keys -> Masked \cup {None}]]

Empty == [mask |-> [s \in Slots |-> 0], preview |-> [k \in Keys |-> None]]

(* The key of a size names the file of the mask it is made of.             *)
PreviewKey(s, v) == <<s, v>>

Ref == [pc : {"idle", "add", "set", "rename", "done"}, slot : Slots \cup {None},
        drawn : Masked, status : {"", "failed", "add_failed", "save_failed", "refreshed"}]

View == [pc : {"idle", "look", "join", "again", "make", "set", "rename", "wait", "read", "done"},
         slot : Slots \cup {None}, mask : Masked, got : Masked \cup {None},
         size : BOOLEAN, ok : BOOLEAN]

Init == /\ phase = "down"
        /\ mem = Empty /\ file = Empty
        /\ lock = None
        /\ ref = [p \in Refreshers |-> [pc |-> "idle", slot |-> None, drawn |-> 0, status |-> ""]]
        /\ view = [p \in Viewers |-> [pc |-> "idle", slot |-> None, mask |-> 0,
                                      got |-> None, size |-> FALSE, ok |-> FALSE]]
        /\ flight = [k \in Keys |-> None]
        /\ unsaved = FALSE
        /\ refreshed = {}
        /\ since = [p \in Viewers |-> {}]

-----------------------------------------------------------------------------
(* NewVariantOverrides: the file is read, or there is no map at all.       *)
Start ==
    /\ phase = "down"
    /\ \/ phase' = "up" /\ mem' = file
       \/ phase' = "nil" /\ mem' = Empty
    /\ unsaved' = FALSE
    /\ UNCHANGED <<file, lock, ref, view, flight, refreshed, since>>

(* The process ends with every request in it; a file is replaced by rename *)
(* or not at all.                                                          *)
Crash ==
    /\ phase # "down"
    /\ phase' = "down"
    /\ mem' = Empty
    /\ lock' = None
    /\ ref' = [p \in Refreshers |-> IF ref[p].pc = "idle" THEN ref[p]
                                    ELSE [ref[p] EXCEPT !.pc = "done"]]
    /\ view' = [p \in Viewers |-> IF view[p].pc = "idle" THEN view[p]
                                  ELSE [view[p] EXCEPT !.pc = "done"]]
    /\ flight' = [k \in Keys |-> None]
    /\ UNCHANGED <<file, unsaved, refreshed, since>>

(* Set, first half: the lock is taken and the map in memory changed.       *)
Enter(p, new) ==
    /\ phase = "up" /\ lock = None
    /\ lock' = p
    /\ mem' = new
    /\ since' = [q \in Viewers |-> IF view[q].slot = None THEN since[q]
                                   ELSE since[q] \cup {new.mask[view[q].slot]}]
    /\ UNCHANGED <<phase, file, unsaved>>

(* Mutant: only the changed entry of the map reaches the file.             *)
SavedMutant(p) ==
    /\ lock = p
    /\ lock' = None
    /\ file' = IF p \in Refreshers
               THEN [file EXCEPT !.mask = [file.mask EXCEPT ![ref[p].slot] = mem.mask[ref[p].slot]]]
               ELSE [file EXCEPT !.preview = mem.preview]
    /\ unsaved' = FALSE
    /\ UNCHANGED <<phase, mem, since>>

(* Set, second half: the temporary file replaces the old one ...           *)
Saved(p) ==
    /\ lock = p
    /\ lock' = None
    /\ file' = mem
    /\ unsaved' = FALSE
    /\ UNCHANGED <<phase, mem, since>>

(* ... or it cannot be made, written, closed or renamed.                   *)
NotSaved(p) ==
    /\ lock = p
    /\ lock' = None
    /\ unsaved' = TRUE
    /\ UNCHANGED <<phase, mem, file, since>>

-----------------------------------------------------------------------------
(* refreshBundleFaceMask, refreshPosterFaceMask: the source is read and    *)
(* its mask drawn, or something on the way fails.                          *)
RefreshDraw(p) ==
    /\ ref[p].pc = "idle" /\ phase # "down"
    /\ \E s \in Slots :
         \/ ref' = [ref EXCEPT ![p] = [pc |-> "done", slot |-> s, drawn |-> 0, status |-> "failed"]]
         \/ \E v \in Versions :
              ref' = [ref EXCEPT ![p] = [pc |-> "add", slot |-> s, drawn |-> v, status |-> ""]]
    /\ UNCHANGED <<phase, mem, file, lock, view, flight, unsaved, refreshed, since>>

(* storeFaceMask: ClusterAdd.                                              *)
RefreshAdd(p) ==
    /\ ref[p].pc = "add"
    /\ \/ ref' = [ref EXCEPT ![p].pc = "set"]
       \/ ref' = [ref EXCEPT ![p].pc = "done", ![p].status = "add_failed"]
    /\ UNCHANGED <<phase, mem, file, lock, view, flight, unsaved, refreshed, since>>

(* storeFaceMask: Set with the new file, which fails without a map.        *)
RefreshSet(p) ==
    /\ ref[p].pc = "set"
    /\ \/ /\ Enter(p, [mem EXCEPT !.mask = [mem.mask EXCEPT ![ref[p].slot] = ref[p].drawn]])
          /\ ref' = [ref EXCEPT ![p].pc = "rename"]
       \/ /\ phase = "nil"
          /\ ref' = [ref EXCEPT ![p].pc = "done", ![p].status = "save_failed"]
          /\ UNCHANGED <<phase, mem, file, lock, unsaved, since>>
    /\ UNCHANGED <<view, flight, refreshed>>

(* Mutant: the error of Set is dropped.                                    *)
RefreshDoneMutant(p) ==
    /\ ref[p].pc = "rename"
    /\ Saved(p) \/ NotSaved(p)
    /\ ref' = [ref EXCEPT ![p].pc = "done", ![p].status = "refreshed"]
    /\ refreshed' = refreshed \cup {ref[p].slot}
    /\ UNCHANGED <<view, flight>>

RefreshDone(p) ==
    /\ ref[p].pc = "rename"
    /\ \/ /\ Saved(p)
          /\ ref' = [ref EXCEPT ![p].pc = "done", ![p].status = "refreshed"]
          /\ refreshed' = refreshed \cup {ref[p].slot}
       \/ /\ NotSaved(p)
          /\ ref' = [ref EXCEPT ![p].pc = "done", ![p].status = "save_failed"]
          /\ UNCHANGED refreshed
    /\ UNCHANGED <<view, flight>>

-----------------------------------------------------------------------------
Map == IF phase = "up" THEN mem ELSE Empty

(* A download of the mask itself or of a size of it looks its replacement  *)
(* up.                                                                     *)
ViewBegin(p) ==
    /\ view[p].pc = "idle" /\ phase # "down" /\ lock = None
    /\ \E s \in Slots, pc \in {"read", "look"} :
         /\ view' = [view EXCEPT ![p] = [pc |-> pc, slot |-> s, mask |-> Map.mask[s],
                                         got |-> None, size |-> pc = "look", ok |-> FALSE]]
         /\ since' = [since EXCEPT ![p] = {Map.mask[s]}]
    /\ UNCHANGED <<phase, mem, file, lock, ref, flight, unsaved, refreshed>>

Quiet == UNCHANGED <<phase, file, lock, ref, unsaved, refreshed, since>>

Answer(p, v) == view' = [view EXCEPT ![p].pc = "done", ![p].got = v, ![p].ok = v # None]

(* serveFile, serveProtectedPoster: a replacement that cannot be read      *)
(* gives way to the bundled mask.                                          *)
ReadMask(p) ==
    /\ view[p].pc = "read"
    /\ \E v \in {view[p].mask, 0, None} : Answer(p, v)
    /\ Quiet /\ UNCHANGED <<mem, flight>>

(* ensureConfiguredPreview: the size is known, or has to be made.          *)
Look(p) ==
    /\ view[p].pc = "look"
    /\ \/ phase = "nil" /\ Answer(p, None)
       \/ /\ phase = "up" /\ lock = None
          /\ LET stored == mem.preview[PreviewKey(view[p].slot, view[p].mask)]
             IN  IF stored # None THEN Answer(p, stored)
                 ELSE view' = [view EXCEPT ![p].pc = "join"]
    /\ Quiet /\ UNCHANGED <<mem, flight>>

(* Mutant: the group makes one size per mask, whatever its file.           *)
JoinMutant(p) ==
    LET k == PreviewKey(view[p].slot, view[p].mask)
    IN  /\ view[p].pc = "join"
        /\ IF \E v \in Masked : flight[PreviewKey(view[p].slot, v)] # None
           THEN LET w == CHOOSE v \in Masked : flight[PreviewKey(view[p].slot, v)] # None
                IN  /\ view' = [view EXCEPT ![p].pc = "wait", ![p].mask = w]
                    /\ UNCHANGED flight
           ELSE /\ view' = [view EXCEPT ![p].pc = "again"]
                /\ flight' = [flight EXCEPT ![k] = p]
        /\ Quiet /\ UNCHANGED mem

(* fitPreviewGroup.Do: the first viewer of a key makes it.                 *)
Join(p) ==
    LET k == PreviewKey(view[p].slot, view[p].mask)
    IN  /\ view[p].pc = "join"
        /\ IF flight[k] # None
           THEN view' = [view EXCEPT ![p].pc = "wait"] /\ UNCHANGED flight
           ELSE /\ view' = [view EXCEPT ![p].pc = "again"]
                /\ flight' = [flight EXCEPT ![k] = p]
        /\ Quiet /\ UNCHANGED mem

(* Mutant: a size that could not be made leaves the others waiting.        *)
LandMutant(p, v) ==
    LET k == PreviewKey(view[p].slot, view[p].mask)
        here(q) == q = p \/ (v # None /\ view[q].pc = "wait" /\ PreviewKey(view[q].slot, view[q].mask) = k)
    IN  /\ flight' = [flight EXCEPT ![k] = None]
        /\ view' = [q \in Viewers |-> IF here(q) THEN [view[q] EXCEPT !.pc = "done", !.got = v, !.ok = v # None]
                                      ELSE view[q]]

(* The function of the group returns: the key is free and all who waited   *)
(* for it get the same result.                                             *)
Land(p, v) ==
    LET k == PreviewKey(view[p].slot, view[p].mask)
        here(q) == q = p \/ (view[q].pc = "wait" /\ PreviewKey(view[q].slot, view[q].mask) = k)
    IN  /\ flight' = [flight EXCEPT ![k] = None]
        /\ view' = [q \in Viewers |-> IF here(q) THEN [view[q] EXCEPT !.pc = "done", !.got = v, !.ok = v # None]
                                      ELSE view[q]]

LookAgain(p) ==
    /\ view[p].pc = "again" /\ lock = None
    /\ LET stored == mem.preview[PreviewKey(view[p].slot, view[p].mask)]
       IN  IF stored # None THEN Land(p, stored)
           ELSE view' = [view EXCEPT ![p].pc = "make"] /\ UNCHANGED flight
    /\ Quiet /\ UNCHANGED mem

(* Mutant: the size is made of the mask in force when it is drawn.         *)
MakeMutant(p) ==
    /\ view[p].pc = "make" /\ lock = None
    /\ view' = [view EXCEPT ![p].pc = "set", ![p].got = mem.mask[view[p].slot]]
    /\ UNCHANGED flight
    /\ Quiet /\ UNCHANGED mem

(* The mask is fetched, the size drawn and added; any of it may fail, and  *)
(* does when this viewer has left.                                         *)
Make(p) ==
    /\ view[p].pc = "make"
    /\ \/ view' = [view EXCEPT ![p].pc = "set", ![p].got = view[p].mask] /\ UNCHANGED flight
       \/ Land(p, None)
    /\ Quiet /\ UNCHANGED mem

MakeSet(p) ==
    /\ view[p].pc = "set"
    /\ Enter(p, [mem EXCEPT !.preview =
                   [mem.preview EXCEPT ![PreviewKey(view[p].slot, view[p].mask)] = view[p].got]])
    /\ view' = [view EXCEPT ![p].pc = "rename"]
    /\ UNCHANGED <<ref, flight, refreshed>>

MakeDone(p) ==
    /\ view[p].pc = "rename"
    /\ \/ Saved(p) /\ Land(p, view[p].got)
       \/ NotSaved(p) /\ Land(p, None)
    /\ UNCHANGED <<ref, refreshed>>

Refresh(p) == RefreshDraw(p) \/ RefreshAdd(p) \/ RefreshSet(p) \/ RefreshDone(p)

Viewing(p) == \/ ReadMask(p) \/ Look(p) \/ Join(p) \/ LookAgain(p)
              \/ Make(p) \/ MakeSet(p) \/ MakeDone(p)

Next == \/ Start \/ Crash
        \/ \E p \in Refreshers : Refresh(p)
        \/ \E p \in Viewers : ViewBegin(p) \/ Viewing(p)

Spec == Init /\ [][Next]_vars

(* Whoever holds the lock goes on, and a download does: its calls of the   *)
(* nodes end, if only because its own client leaves.                       *)
Fairness == /\ \A p \in Refreshers : WF_vars(RefreshDone(p))
            /\ \A p \in Viewers : SF_vars(Viewing(p))

FairSpec == Spec /\ Fairness

-----------------------------------------------------------------------------
(* The shape of the state.                                                 *)
TypeOK ==
    /\ phase \in {"down", "up", "nil"}
    /\ mem \in Maps /\ file \in Maps
    /\ lock \in Refreshers \cup Viewers \cup {None}
    /\ ref \in [Refreshers -> Ref]
    /\ view \in [Viewers -> View]
    /\ flight \in [Keys -> Viewers \cup {None}]
    /\ unsaved \in BOOLEAN
    /\ refreshed \in SUBSET Slots
    /\ since \in [Viewers -> SUBSET Masked]

(* "an old preview cannot outlive the replacement mask"                    *)
(* (fit_preview.go:49): the size of a mask a viewer is sent was made of a  *)
(* mask in force since his request came, however many share its making and *)
(* whatever is redrawn meanwhile; only a whole mask may be the bundled one *)
(* in place of a newer file that cannot be read.                           *)
FreshPreview ==
    \A p \in Viewers :
        view[p].pc = "done" /\ view[p].ok =>
            view[p].got \in (IF view[p].size THEN since[p] ELSE since[p] \cup {0})

(* What is stored under the key of a mask was made of that mask, in memory *)
(* and on disk.                                                            *)
PreviewMatchesMask ==
    \A k \in Keys : /\ mem.preview[k] \in {None, k[2]}
                    /\ file.preview[k] \in {None, k[2]}

(* Outside of Set the file holds what is in memory, unless the last Set    *)
(* could not write it: a Set that succeeds repairs an earlier one that did *)
(* not.                                                                    *)
MapsAgree == phase = "up" /\ lock = None /\ ~unsaved => file = mem

(* A mask answered as refreshed has a replacement on disk for good: no     *)
(* crash, no failed write and no later change brings the bundled one back. *)
RefreshKept == \A s \in refreshed : file.mask[s] # 0

(* Every download comes to an end: whoever makes a size for others answers *)
(* them, whether it could be made or not.                                  *)
ViewsEnd == \A p \in Viewers : view[p].pc # "idle" ~> view[p].pc = "done"
=============================================================================
