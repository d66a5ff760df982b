----------------------- MODULE VariantOverridesProofs -----------------------
(***************************************************************************)
(* Redrawn masks are kept and their sizes are fresh, for any number of     *)
(* masked variants, masks, refreshes and downloads.                        *)
(***************************************************************************)
EXTENDS VariantOverrides, TLAPS

(* A download knows a mask that was in force since it began, and the size  *)
(* it is storing, or was sent, is of that mask.                            *)
RowOK(p) ==
    /\ view[p].pc # "idle" => view[p].slot \in Slots /\ view[p].mask \in since[p]
    /\ view[p].pc # "done" => ~view[p].ok
    /\ view[p].pc \in {"set", "rename"} => view[p].got = view[p].mask
    /\ view[p].pc = "read" => ~view[p].size
    /\ view[p].pc = "done" /\ view[p].ok =>
         view[p].got \in (IF view[p].size THEN since[p] ELSE since[p] \cup {0})

Rows == \A p \in Viewers : RowOK(p)

(* A refresh that has drawn a mask carries it; once in the map, something  *)
(* stands in for the mask of its slot until the process ends.              *)
RefOK == \A p \in Refreshers :
    /\ ref[p].pc \in {"add", "set", "rename"} => ref[p].slot \in Slots /\ ref[p].drawn \in Versions
    /\ ref[p].pc = "rename" => phase = "up" /\ mem.mask[ref[p].slot] # 0

(* Set needs a map, and what was answered is in it.                        *)
MemKept ==
    /\ lock # None => phase = "up"
    /\ phase = "up" => \A s \in refreshed : mem.mask[s] # 0

OverInv == TypeOK /\ Rows /\ RefOK /\ MemKept /\ PreviewMatchesMask /\ MapsAgree /\ RefreshKept

LEMMA EmptyMaps == Empty \in Maps /\ \A k \in Keys : Empty.preview[k] = None
BY DEF Empty, Maps, Masked

LEMMA InvInit == Init => OverInv
<1> SUFFICES ASSUME Init PROVE OverInv
  OBVIOUS
<1>1. TypeOK
  BY EmptyMaps DEF Init, TypeOK, Ref, View, Masked
<1>2. Rows
  BY DEF Init, Rows, RowOK
<1>3. RefOK /\ MemKept /\ MapsAgree /\ RefreshKept
  BY DEF Init, RefOK, MemKept, MapsAgree, RefreshKept
<1>4. PreviewMatchesMask
  BY EmptyMaps DEF Init, PreviewMatchesMask
<1> QED
  BY <1>1, <1>2, <1>3, <1>4 DEF OverInv

-----------------------------------------------------------------------------
(* The two changes a Set makes.                                            *)
NewMask(p) == [mem EXCEPT !.mask = [mem.mask EXCEPT ![ref[p].slot] = ref[p].drawn]]

NewPreview(p) == [mem EXCEPT !.preview =
                    [mem.preview EXCEPT ![PreviewKey(view[p].slot, view[p].mask)] = view[p].got]]

LEMMA NewMaskMaps ==
    ASSUME mem \in Maps, NEW p \in Refreshers, ref[p].slot \in Slots, ref[p].drawn \in Versions
    PROVE  /\ NewMask(p) \in Maps /\ NewMask(p).preview = mem.preview
           /\ NewMask(p).mask = [mem.mask EXCEPT ![ref[p].slot] = ref[p].drawn]
BY DEF Maps, NewMask, Masked

LEMMA NewPreviewMaps ==
    ASSUME mem \in Maps, NEW p \in Viewers, view[p] \in View, view[p].slot \in Slots
    PROVE  /\ NewPreview(p) \in Maps /\ NewPreview(p).mask = mem.mask
           /\ NewPreview(p).preview =
                [mem.preview EXCEPT ![PreviewKey(view[p].slot, view[p].mask)] = view[p].got]
<1>1. view[p].mask \in Masked /\ view[p].got \in Masked \cup {None}
  BY DEF View
<1>2. [mem.preview EXCEPT ![PreviewKey(view[p].slot, view[p].mask)] = view[p].got]
        \in [Keys -> Masked \cup {None}]
  BY <1>1 DEF Maps, PreviewKey
<1> QED
  BY <1>2 DEF Maps, NewPreview

(* The records of downloads keep their shape.                              *)
LEMMA ViewShape ==
    ASSUME TypeOK, NEW p \in Viewers
    PROVE  /\ \A v \in Masked \cup {None} :
                [view[p] EXCEPT !.pc = "done", !.got = v, !.ok = v # None] \in View
           /\ \A a \in {"look", "join", "again", "make", "set", "rename", "wait"} :
                [view[p] EXCEPT !.pc = a] \in View
           /\ [view[p] EXCEPT !.pc = "done"] \in View
           /\ [view[p] EXCEPT !.pc = "set", !.got = view[p].mask] \in View
<1>1. view[p] \in View /\ \A v : (v # None) \in BOOLEAN
  BY DEF TypeOK
<1>2. \A v \in Masked \cup {None}, b \in BOOLEAN :
        [view[p] EXCEPT !.pc = "done", !.got = v, !.ok = b] \in View
  BY <1>1 DEF View
<1>3. \A v \in Masked \cup {None} :
        [view[p] EXCEPT !.pc = "done", !.got = v, !.ok = v # None] \in View
  BY <1>1, <1>2
<1>4. /\ \A a \in {"look", "join", "again", "make", "set", "rename", "wait"} :
                [view[p] EXCEPT !.pc = a] \in View
      /\ [view[p] EXCEPT !.pc = "done"] \in View
  BY <1>1 DEF View
<1>5. [view[p] EXCEPT !.pc = "set", !.got = view[p].mask] \in View
  BY <1>1 DEF View
<1> QED
  BY <1>3, <1>4, <1>5

LEMMA AnswerShape ==
    ASSUME TypeOK, NEW p \in Viewers, NEW v \in Masked \cup {None}, Answer(p, v)
    PROVE  view' \in [Viewers -> View]
<1>1. view' = [view EXCEPT ![p] = [view[p] EXCEPT !.pc = "done", !.got = v, !.ok = v # None]]
  BY DEF Answer, TypeOK
<1> QED
  BY <1>1, ViewShape DEF TypeOK

LEMMA LandShape ==
    ASSUME TypeOK, NEW p \in Viewers, NEW v \in Masked \cup {None}, Land(p, v)
    PROVE  view' \in [Viewers -> View] /\ flight' \in [Keys -> Viewers \cup {None}]
<1>1. \A q \in Viewers : view'[q] \in {view[q], [view[q] EXCEPT !.pc = "done", !.got = v, !.ok = v # None]}
  BY DEF Land
<1>2. \A q \in Viewers : view'[q] \in View
  <2> TAKE q \in Viewers
  <2>1. view[q] \in View
    BY DEF TypeOK
  <2>2. [view[q] EXCEPT !.pc = "done", !.got = v, !.ok = v # None] \in View
    BY ViewShape
  <2> QED
    BY <1>1, <2>1, <2>2
<1>3. view' = [q \in Viewers |-> view'[q]]
  BY DEF Land
<1> QED
  BY <1>2, <1>3 DEF Land, TypeOK

LEMMA EnterShape ==
    ASSUME TypeOK, NEW p \in Refreshers \cup Viewers, NEW new \in Maps, Enter(p, new),
           \A q \in Viewers : view[q].pc # "idle" => view[q].slot \in Slots
    PROVE  /\ phase' = phase /\ mem' \in Maps /\ file' \in Maps /\ unsaved' \in BOOLEAN
           /\ lock' \in Refreshers \cup Viewers \cup {None}
           /\ since' \in [Viewers -> SUBSET Masked]
<1>1. \A s \in Slots : new.mask[s] \in Masked
  BY DEF Maps
<1>2. \A q \in Viewers : view[q].slot \in Slots \cup {None}
  BY DEF TypeOK, View
<1>3. since' \in [Viewers -> SUBSET Masked]
  BY <1>1, <1>2 DEF Enter, TypeOK
<1> QED
  BY <1>3 DEF Enter, TypeOK

LEMMA SavedShape ==
    ASSUME TypeOK, NEW p, Saved(p) \/ NotSaved(p)
    PROVE  /\ phase' = phase /\ mem' = mem /\ file' \in Maps /\ unsaved' \in BOOLEAN
           /\ lock' = None /\ since' = since
BY DEF Saved, NotSaved, TypeOK

LEMMA TypeNext ==
    ASSUME OverInv, [Next]_vars
    PROVE  TypeOK'
<1> USE DEF OverInv
<1>0. \A q \in Viewers : view[q] \in View /\ (view[q].pc # "idle" => view[q].slot \in Slots)
  BY DEF TypeOK, Rows, RowOK
<1>1. CASE Start
  BY <1>1, EmptyMaps DEF Start, TypeOK
<1>2. CASE Crash
  <2>1. \A p \in Refreshers : [ref[p] EXCEPT !.pc = "done"] \in Ref
    BY DEF TypeOK, Ref
  <2>2. \A p \in Viewers : [view[p] EXCEPT !.pc = "done"] \in View
    BY ViewShape
  <2>3. ref' \in [Refreshers -> Ref]
    BY <1>2, <2>1 DEF Crash, TypeOK
  <2>4. view' \in [Viewers -> View]
    BY <1>2, <2>2 DEF Crash, TypeOK
  <2> QED
    BY <1>2, <2>3, <2>4, EmptyMaps DEF Crash, TypeOK
<1>3. ASSUME NEW p \in Refreshers, RefreshDraw(p) PROVE TypeOK'
  <2>1. ref' \in [Refreshers -> Ref]
    <3>1. \A s \in Slots : [pc |-> "done", slot |-> s, drawn |-> 0, status |-> "failed"] \in Ref
      BY DEF Ref, Masked
    <3>2. \A s \in Slots, v \in Versions : [pc |-> "add", slot |-> s, drawn |-> v, status |-> ""] \in Ref
      BY DEF Ref, Masked
    <3> QED
      BY <1>3, <3>1, <3>2 DEF RefreshDraw, TypeOK
  <2> QED
    BY <1>3, <2>1 DEF RefreshDraw, TypeOK
<1>4. ASSUME NEW p \in Refreshers
      PROVE  /\ \A a \in {"set", "rename"} : [ref EXCEPT ![p].pc = a] \in [Refreshers -> Ref]
             /\ \A st \in {"add_failed", "save_failed", "refreshed"} :
                  [ref EXCEPT ![p].pc = "done", ![p].status = st] \in [Refreshers -> Ref]
  <2>1. ref[p] \in Ref /\ ref \in [Refreshers -> Ref]
    BY DEF TypeOK
  <2>2. /\ \A a \in {"set", "rename"} : [ref[p] EXCEPT !.pc = a] \in Ref
        /\ \A st \in {"add_failed", "save_failed", "refreshed"} :
                  [ref[p] EXCEPT !.pc = "done", !.status = st] \in Ref
    BY <2>1 DEF Ref
  <2> QED
    BY <2>1, <2>2
<1>5. ASSUME NEW p \in Refreshers, RefreshAdd(p) PROVE TypeOK'
  BY <1>4, <1>5 DEF RefreshAdd, TypeOK
<1>6. ASSUME NEW p \in Refreshers, RefreshSet(p) PROVE TypeOK'
  <2>1. ref' \in [Refreshers -> Ref] /\ UNCHANGED <<view, flight, refreshed>>
    BY <1>4, <1>6 DEF RefreshSet
  <2>2. NewMask(p) \in Maps
    BY <1>6, NewMaskMaps DEF RefreshSet, RefOK, TypeOK
  <2>3. CASE Enter(p, NewMask(p))
    BY <1>0, <2>1, <2>2, <2>3, EnterShape DEF TypeOK
  <2>4. CASE UNCHANGED <<phase, mem, file, lock, unsaved, since>>
    BY <2>1, <2>4 DEF TypeOK
  <2> QED
    BY <1>6, <2>3, <2>4 DEF RefreshSet, NewMask
<1>7. ASSUME NEW p \in Refreshers, RefreshDone(p) PROVE TypeOK'
  <2>1. ref' \in [Refreshers -> Ref] /\ UNCHANGED <<view, flight>>
    BY <1>4, <1>7 DEF RefreshDone
  <2>2. refreshed' \in SUBSET Slots
    BY <1>7 DEF RefreshDone, RefOK, TypeOK
  <2>3. Saved(p) \/ NotSaved(p)
    BY <1>7 DEF RefreshDone
  <2> QED
    BY <2>1, <2>2, <2>3, SavedShape DEF TypeOK
<1>8. ASSUME NEW p \in Viewers, ViewBegin(p) PROVE TypeOK'
  <2>1. PICK s \in Slots, pc \in {"read", "look"} :
          /\ view' = [view EXCEPT ![p] = [pc |-> pc, slot |-> s, mask |-> Map.mask[s],
                                          got |-> None, size |-> pc = "look", ok |-> FALSE]]
          /\ since' = [since EXCEPT ![p] = {Map.mask[s]}]
    BY <1>8 DEF ViewBegin
  <2>2. Map \in Maps
    BY EmptyMaps DEF Map, TypeOK
  <2>3. Map.mask[s] \in Masked
    BY <2>2 DEF Maps
  <2>4. \A b \in BOOLEAN : [pc |-> pc, slot |-> s, mask |-> Map.mask[s],
                            got |-> None, size |-> b, ok |-> FALSE] \in View
    BY <2>3 DEF View
  <2>5. [pc |-> pc, slot |-> s, mask |-> Map.mask[s],
         got |-> None, size |-> pc = "look", ok |-> FALSE] \in View
    <3>1. (pc = "look") \in BOOLEAN
      OBVIOUS
    <3> QED
      BY <2>4, <3>1
  <2>6. view' \in [Viewers -> View] /\ since' \in [Viewers -> SUBSET Masked]
    BY <2>1, <2>3, <2>5 DEF TypeOK
  <2> QED
    BY <1>8, <2>6 DEF ViewBegin, TypeOK
<1>9. ASSUME NEW p \in Viewers, view[p].pc # "idle"
      PROVE  /\ PreviewKey(view[p].slot, view[p].mask) \in Keys
             /\ mem.preview[PreviewKey(view[p].slot, view[p].mask)] \in Masked \cup {None}
             /\ \A a \in {"look", "join", "again", "make", "set", "rename", "wait"} :
                  [view EXCEPT ![p].pc = a] \in [Viewers -> View]
             /\ [view EXCEPT ![p].pc = "set", ![p].got = view[p].mask] \in [Viewers -> View]
             /\ view[p].mask \in Masked /\ view[p].got \in Masked \cup {None} /\ 0 \in Masked
  <2>1. PreviewKey(view[p].slot, view[p].mask) \in Keys
    BY <1>0, <1>9 DEF View, Keys, PreviewKey
  <2>2. mem.preview \in [Keys -> Masked \cup {None}] /\ view \in [Viewers -> View]
    BY DEF TypeOK, Maps
  <2>3. \A a \in {"look", "join", "again", "make", "set", "rename", "wait"} :
          [view EXCEPT ![p].pc = a] \in [Viewers -> View]
    BY <2>2, ViewShape
  <2>4. [view EXCEPT ![p].pc = "set", ![p].got = view[p].mask] \in [Viewers -> View]
    BY <2>2, ViewShape
  <2> QED
    BY <1>0, <2>1, <2>2, <2>3, <2>4 DEF View, Masked
<1>10. ASSUME NEW p \in Viewers, ReadMask(p) PROVE TypeOK'
  <2>1. view' \in [Viewers -> View]
    BY <1>9, <1>10, AnswerShape DEF ReadMask
  <2> QED
    BY <1>10, <2>1 DEF ReadMask, Quiet, TypeOK
<1>11. ASSUME NEW p \in Viewers, Look(p) PROVE TypeOK'
  <2>1. view' \in [Viewers -> View]
    BY <1>9, <1>11, AnswerShape DEF Look
  <2> QED
    BY <1>11, <2>1 DEF Look, Quiet, TypeOK
<1>12. ASSUME NEW p \in Viewers, Join(p) PROVE TypeOK'
  <2>1. view' \in [Viewers -> View] /\ flight' \in [Keys -> Viewers \cup {None}]
    <3>1. view[p].pc # "idle"
      BY <1>12 DEF Join
    <3>2. view' \in [Viewers -> View]
      <4>1. view' = [view EXCEPT ![p].pc = "wait"] \/ view' = [view EXCEPT ![p].pc = "again"]
        BY <1>12 DEF Join
      <4>2. /\ [view EXCEPT ![p].pc = "wait"] \in [Viewers -> View]
            /\ [view EXCEPT ![p].pc = "again"] \in [Viewers -> View]
        BY <1>9, <3>1
      <4> QED
        BY <4>1, <4>2
    <3>3. flight' \in [Keys -> Viewers \cup {None}]
      BY <1>9, <1>12, <3>1 DEF Join, TypeOK
    <3> QED
      BY <3>2, <3>3
  <2> QED
    BY <1>12, <2>1 DEF Join, Quiet, TypeOK
<1>13. ASSUME NEW p \in Viewers, LookAgain(p) PROVE TypeOK'
  <2>1. view' \in [Viewers -> View] /\ flight' \in [Keys -> Viewers \cup {None}]
    <3>1. CASE view' = [view EXCEPT ![p].pc = "make"] /\ UNCHANGED flight
      BY <1>9, <1>13, <3>1 DEF LookAgain, TypeOK
    <3>2. CASE Land(p, mem.preview[PreviewKey(view[p].slot, view[p].mask)])
      BY <1>9, <1>13, <3>2, LandShape DEF LookAgain
    <3> QED
      BY <1>13, <3>1, <3>2 DEF LookAgain
  <2> QED
    BY <1>13, <2>1 DEF LookAgain, Quiet, TypeOK
<1>14. ASSUME NEW p \in Viewers, Make(p) PROVE TypeOK'
  <2>1. view' \in [Viewers -> View] /\ flight' \in [Keys -> Viewers \cup {None}]
    <3>1. CASE view' = [view EXCEPT ![p].pc = "set", ![p].got = view[p].mask] /\ UNCHANGED flight
      BY <1>9, <1>14, <3>1 DEF Make, TypeOK
    <3>2. CASE Land(p, None)
      BY <3>2, LandShape
    <3> QED
      BY <1>14, <3>1, <3>2 DEF Make
  <2> QED
    BY <1>14, <2>1 DEF Make, Quiet, TypeOK
<1>15. ASSUME NEW p \in Viewers, MakeSet(p) PROVE TypeOK'
  <2>1. view' \in [Viewers -> View] /\ UNCHANGED <<ref, flight, refreshed>>
    BY <1>9, <1>15 DEF MakeSet
  <2>2. NewPreview(p) \in Maps
    BY <1>0, <1>15, NewPreviewMaps DEF MakeSet, TypeOK
  <2>3. Enter(p, NewPreview(p))
    BY <1>15 DEF MakeSet, NewPreview
  <2> QED
    BY <1>0, <2>1, <2>2, <2>3, EnterShape DEF TypeOK
<1>16. ASSUME NEW p \in Viewers, MakeDone(p) PROVE TypeOK'
  <2>1. view' \in [Viewers -> View] /\ flight' \in [Keys -> Viewers \cup {None}]
    BY <1>9, <1>16, LandShape DEF MakeDone
  <2>2. (Saved(p) \/ NotSaved(p)) /\ UNCHANGED <<ref, refreshed>>
    BY <1>16 DEF MakeDone
  <2> QED
    BY <2>1, <2>2, SavedShape DEF TypeOK
<1>17. CASE UNCHANGED vars
  BY <1>17 DEF vars, TypeOK
<1> QED
  BY <1>1, <1>2, <1>3, <1>5, <1>6, <1>7, <1>8, <1>10, <1>11, <1>12, <1>13, <1>14, <1>15, <1>16, <1>17
     DEF Next, Refresh, Viewing

-----------------------------------------------------------------------------
(* What a step may do to the row of a download.                            *)
LEMMA RowSame ==
    ASSUME NEW q \in Viewers, RowOK(q), view'[q] = view[q], since[q] \subseteq since'[q]
    PROVE  RowOK(q)'
BY DEF RowOK

LEMMA RowAnswer ==
    ASSUME NEW q \in Viewers, RowOK(q), view[q] \in View, NEW v, since[q] \subseteq since'[q],
           view[q].pc # "idle",
           view'[q] = [view[q] EXCEPT !.pc = "done", !.got = v, !.ok = v # None],
           v \in {None, view[q].mask} \/ (v = 0 /\ view[q].pc = "read")
    PROVE  RowOK(q)'
<1>1. /\ view'[q].pc = "done" /\ view'[q].got = v /\ view'[q].slot = view[q].slot
      /\ view'[q].mask = view[q].mask /\ view'[q].size = view[q].size
  BY DEF View
<1>2. view'[q].ok => v # None
  <2>1. CASE v = None
    <3>1. view'[q] = [view[q] EXCEPT !.pc = "done", !.got = v, !.ok = FALSE]
      BY <2>1
    <3> QED
      BY <3>1 DEF View
  <2> QED
    BY <2>1
<1>3. view[q].mask \in since'[q] /\ view[q].slot \in Slots
  BY DEF RowOK
<1> QED
  BY <1>1, <1>2, <1>3 DEF RowOK

LEMMA RowMove ==
    ASSUME NEW q \in Viewers, RowOK(q), view[q] \in View, since[q] \subseteq since'[q],
           view[q].pc \notin {"idle", "done"},
           NEW a \in {"join", "again", "make", "set", "rename", "wait"},
           view'[q] = [view[q] EXCEPT !.pc = a],
           a \in {"set", "rename"} => view[q].pc = "set"
    PROVE  RowOK(q)'
<1>1. /\ view'[q].pc = a /\ view'[q].got = view[q].got /\ view'[q].slot = view[q].slot
      /\ view'[q].mask = view[q].mask /\ view'[q].ok = view[q].ok
  BY DEF View
<1> QED
  BY <1>1 DEF RowOK

LEMMA LandRows ==
    ASSUME TypeOK, Rows, NEW p \in Viewers, NEW v, Land(p, v), view[p].pc # "idle",
           v \in {None, view[p].mask}, \A q \in Viewers : since[q] \subseteq since'[q]
    PROVE  Rows'
<1> SUFFICES ASSUME NEW q \in Viewers PROVE RowOK(q)'
  BY DEF Rows
<1>1. view[q] \in View /\ RowOK(q)
  BY DEF TypeOK, Rows
<1>2. CASE view'[q] = view[q]
  BY <1>1, <1>2, RowSame
<1>3. CASE q = p \/ (/\ view[q].pc = "wait"
                     /\ PreviewKey(view[q].slot, view[q].mask) = PreviewKey(view[p].slot, view[p].mask))
  <2>1. view'[q] = [view[q] EXCEPT !.pc = "done", !.got = v, !.ok = v # None]
    BY <1>3 DEF Land
  <2>2. view[q].mask = view[p].mask /\ view[q].pc # "idle"
    BY <1>3 DEF PreviewKey
  <2> QED
    BY <1>1, <2>1, <2>2, RowAnswer
<1> QED
  BY <1>2, <1>3 DEF Land

LEMMA EnterRows ==
    ASSUME TypeOK, Rows, NEW p, NEW new, Enter(p, new)
    PROVE  \A q \in Viewers : since[q] \subseteq since'[q]
BY DEF Enter

LEMMA RowsNext ==
    ASSUME OverInv, [Next]_vars
    PROVE  Rows'
<1> USE DEF OverInv
<1>0. \A q \in Viewers : view[q] \in View /\ RowOK(q)
  BY DEF TypeOK, Rows
<1>1. CASE view' = view /\ \A q \in Viewers : since[q] \subseteq since'[q]
  BY <1>0, <1>1, RowSame DEF Rows
<1>2. CASE Crash
  <2> SUFFICES ASSUME NEW q \in Viewers PROVE RowOK(q)'
    BY DEF Rows
  <2>1. CASE view[q].pc = "idle"
    BY <1>0, <1>2, <2>1, RowSame DEF Crash
  <2>2. CASE view[q].pc # "idle"
    <3>1. view'[q] = [view[q] EXCEPT !.pc = "done"] /\ since'[q] = since[q]
      BY <1>2, <2>2 DEF Crash
    <3>2. /\ view'[q].pc = "done" /\ view'[q].got = view[q].got /\ view'[q].slot = view[q].slot
          /\ view'[q].mask = view[q].mask /\ view'[q].ok = view[q].ok /\ view'[q].size = view[q].size
      BY <1>0, <3>1 DEF View
    <3> QED
      BY <1>0, <2>2, <3>1, <3>2 DEF RowOK
  <2> QED
    BY <2>1, <2>2
<1>3. ASSUME NEW p \in Viewers, ViewBegin(p) PROVE Rows'
  <2>1. PICK s \in Slots, pc \in {"read", "look"} :
          /\ view' = [view EXCEPT ![p] = [pc |-> pc, slot |-> s, mask |-> Map.mask[s],
                                          got |-> None, size |-> pc = "look", ok |-> FALSE]]
          /\ since' = [since EXCEPT ![p] = {Map.mask[s]}]
    BY <1>3 DEF ViewBegin
  <2>2. view'[p].pc = pc /\ view'[p].slot = s /\ view'[p].mask = Map.mask[s] /\ ~view'[p].ok
    BY <2>1 DEF TypeOK
  <2>3. pc = "read" => ~view'[p].size
    <3> SUFFICES ASSUME pc = "read" PROVE ~view'[p].size
      OBVIOUS
    <3>1. view'[p] = [pc |-> pc, slot |-> s, mask |-> Map.mask[s], got |-> None, size |-> FALSE, ok |-> FALSE]
      BY <2>1 DEF TypeOK
    <3> QED
      BY <3>1
  <2>4. since'[p] = {Map.mask[s]}
    BY <2>1 DEF TypeOK
  <2>5. RowOK(p)'
    BY <2>2, <2>3, <2>4 DEF RowOK
  <2>6. ASSUME NEW q \in Viewers \ {p} PROVE RowOK(q)'
    <3>1. view'[q] = view[q] /\ since'[q] = since[q]
      BY <2>1 DEF TypeOK
    <3> QED
      BY <1>0, <3>1, RowSame
  <2> QED
    BY <2>5, <2>6 DEF Rows
<1>4. ASSUME NEW p \in Viewers, \A q \in Viewers \ {p} : view'[q] = view[q],
             \A q \in Viewers : since[q] \subseteq since'[q], RowOK(p)'
      PROVE  Rows'
  <2>1. ASSUME NEW q \in Viewers \ {p} PROVE RowOK(q)'
    BY <1>0, <1>4, RowSame
  <2> QED
    BY <1>4, <2>1 DEF Rows
<1>5. ASSUME NEW p \in Viewers, NEW v, Answer(p, v), since' = since, view[p].pc # "idle",
             v \in {None, view[p].mask} \/ (v = 0 /\ view[p].pc = "read")
      PROVE  Rows'
  <2>1. view'[p] = [view[p] EXCEPT !.pc = "done", !.got = v, !.ok = v # None]
    BY <1>5 DEF Answer, TypeOK
  <2>2. RowOK(p)'
    BY <1>0, <1>5, <2>1, RowAnswer
  <2>3. \A q \in Viewers \ {p} : view'[q] = view[q]
    BY <1>5 DEF Answer, TypeOK
  <2> QED
    BY <1>4, <1>5, <2>2, <2>3
<1>6. ASSUME NEW p \in Viewers, NEW a \in {"join", "again", "make", "set", "rename", "wait"},
             view' = [view EXCEPT ![p].pc = a], view[p].pc \notin {"idle", "done"},
             a \in {"set", "rename"} => view[p].pc = "set",
             \A q \in Viewers : since[q] \subseteq since'[q]
      PROVE  Rows'
  <2>1. view'[p] = [view[p] EXCEPT !.pc = a] /\ \A q \in Viewers \ {p} : view'[q] = view[q]
    BY <1>6 DEF TypeOK
  <2>2. RowOK(p)'
    BY <1>0, <1>6, <2>1, RowMove
  <2> QED
    BY <1>4, <1>6, <2>1, <2>2
<1>7. ASSUME NEW p \in Viewers, view[p].pc # "idle"
      PROVE  mem.preview[PreviewKey(view[p].slot, view[p].mask)] \in {None, view[p].mask}
  <2>1. view[p].slot \in Slots /\ view[p].mask \in Masked
    BY <1>0, <1>7 DEF RowOK, View
  <2> QED
    BY <2>1 DEF PreviewMatchesMask, PreviewKey, Keys
<1>8. ASSUME NEW p \in Viewers, ReadMask(p) PROVE Rows'
  <2>1. PICK v \in {view[p].mask, 0, None} : Answer(p, v)
    BY <1>8 DEF ReadMask
  <2>2. view[p].pc = "read" /\ since' = since
    BY <1>8 DEF ReadMask, Quiet
  <2> QED
    BY <1>5, <2>1, <2>2
<1>9. ASSUME NEW p \in Viewers, Look(p) PROVE Rows'
  <2> DEFINE stored == mem.preview[PreviewKey(view[p].slot, view[p].mask)]
  <2>1. view[p].pc = "look" /\ since' = since /\ stored \in {None, view[p].mask}
    BY <1>7, <1>9 DEF Look, Quiet
  <2>2. \/ Answer(p, None) \/ Answer(p, stored) \/ view' = [view EXCEPT ![p].pc = "join"]
    BY <1>9 DEF Look
  <2> HIDE DEF stored
  <2>3. CASE Answer(p, None)
    BY <1>5, <2>1, <2>3
  <2>4. CASE Answer(p, stored)
    BY <1>5, <2>1, <2>4
  <2>5. CASE view' = [view EXCEPT ![p].pc = "join"]
    BY <1>6, <2>1, <2>5
  <2> QED
    BY <2>2, <2>3, <2>4, <2>5
<1>10. ASSUME NEW p \in Viewers, Join(p) PROVE Rows'
  <2>1. view[p].pc = "join" /\ since' = since /\ \E a \in {"wait", "again"} : view' = [view EXCEPT ![p].pc = a]
    BY <1>10 DEF Join, Quiet
  <2> QED
    BY <1>6, <2>1
<1>11. ASSUME NEW p \in Viewers, LookAgain(p) PROVE Rows'
  <2> DEFINE stored == mem.preview[PreviewKey(view[p].slot, view[p].mask)]
  <2>1. view[p].pc = "again" /\ since' = since /\ stored \in {None, view[p].mask}
    BY <1>7, <1>11 DEF LookAgain, Quiet
  <2>2. Land(p, stored) \/ view' = [view EXCEPT ![p].pc = "make"]
    BY <1>11 DEF LookAgain
  <2> HIDE DEF stored
  <2>3. CASE Land(p, stored)
    BY <2>1, <2>3, LandRows
  <2>4. CASE view' = [view EXCEPT ![p].pc = "make"]
    BY <1>6, <2>1, <2>4
  <2> QED
    BY <2>2, <2>3, <2>4
<1>12. ASSUME NEW p \in Viewers, Make(p) PROVE Rows'
  <2>1. view[p].pc = "make" /\ since' = since
    BY <1>12 DEF Make, Quiet
  <2>2. CASE Land(p, None)
    BY <2>1, <2>2, LandRows
  <2>3. CASE view' = [view EXCEPT ![p].pc = "set", ![p].got = view[p].mask]
    <3>1. /\ view'[p] = [view[p] EXCEPT !.pc = "set", !.got = view[p].mask]
          /\ \A q \in Viewers \ {p} : view'[q] = view[q]
      BY <2>3 DEF TypeOK
    <3>2. /\ view'[p].pc = "set" /\ view'[p].got = view[p].mask /\ view'[p].slot = view[p].slot
          /\ view'[p].mask = view[p].mask /\ view'[p].ok = view[p].ok
      BY <1>0, <3>1 DEF View
    <3>3. RowOK(p)'
      BY <1>0, <2>1, <3>2 DEF RowOK
    <3> QED
      BY <1>4, <2>1, <3>1, <3>3
  <2> QED
    BY <1>12, <2>2, <2>3 DEF Make
<1>13. ASSUME NEW p \in Viewers, MakeSet(p) PROVE Rows'
  <2>1. view[p].pc = "set" /\ view' = [view EXCEPT ![p].pc = "rename"]
    BY <1>13 DEF MakeSet
  <2>2. \A q \in Viewers : since[q] \subseteq since'[q]
    BY <1>13, EnterRows DEF MakeSet
  <2> QED
    BY <1>6, <2>1, <2>2
<1>14. ASSUME NEW p \in Viewers, MakeDone(p) PROVE Rows'
  <2>1. view[p].pc = "rename" /\ view[p].got = view[p].mask /\ since' = since
    BY <1>0, <1>14 DEF MakeDone, RowOK, Saved, NotSaved
  <2>2. Land(p, view[p].mask) \/ Land(p, None)
    BY <1>14, <2>1 DEF MakeDone
  <2> QED
    BY <2>1, <2>2, LandRows
<1>15. ASSUME NEW p \in Refreshers, Refresh(p)
       PROVE  view' = view /\ \A q \in Viewers : since[q] \subseteq since'[q]
  <2>1. CASE RefreshSet(p)
    BY <2>1, EnterRows DEF RefreshSet
  <2> QED
    BY <1>15, <2>1 DEF Refresh, RefreshDraw, RefreshAdd, RefreshDone, Saved, NotSaved
<1>16. CASE Start \/ UNCHANGED vars
  BY <1>1, <1>16 DEF Start, vars
<1> QED
  BY <1>1, <1>2, <1>3, <1>8, <1>9, <1>10, <1>11, <1>12, <1>13, <1>14, <1>15, <1>16 DEF Next, Viewing

-----------------------------------------------------------------------------
MapOK == MemKept /\ PreviewMatchesMask /\ MapsAgree /\ RefreshKept

(* A Set in memory, and its end on disk.                                   *)
LEMMA EnterMaps ==
    ASSUME OverInv, NEW p \in Refreshers \cup Viewers, NEW new \in Maps, Enter(p, new),
           refreshed' = refreshed,
           \A s \in Slots : mem.mask[s] # 0 => new.mask[s] # 0,
           \A k \in Keys : new.preview[k] \in {None, k[2]}
    PROVE  MapOK'
<1> USE DEF OverInv
<1>1. phase = "up" /\ phase' = "up" /\ lock' = p /\ p # None /\ mem' = new /\ file' = file
  BY OverridesAssumption DEF Enter
<1>2. MemKept'
  BY <1>1 DEF MemKept, TypeOK
<1>3. PreviewMatchesMask'
  BY <1>1 DEF PreviewMatchesMask
<1>4. MapsAgree' /\ RefreshKept'
  BY <1>1 DEF MapsAgree, RefreshKept
<1> QED
  BY <1>2, <1>3, <1>4 DEF MapOK

LEMMA SavedMaps ==
    ASSUME OverInv, NEW p \in Refreshers \cup Viewers,
           \/ Saved(p) /\ \A s \in refreshed' : mem.mask[s] # 0
           \/ NotSaved(p) /\ refreshed' = refreshed
    PROVE  MapOK'
<1> USE DEF OverInv
<1>1. lock = p /\ p # None /\ phase = "up"
  BY OverridesAssumption DEF Saved, NotSaved, MemKept
<1>2. CASE Saved(p) /\ \A s \in refreshed' : mem.mask[s] # 0
  BY <1>1, <1>2 DEF Saved, MapOK, MemKept, PreviewMatchesMask, MapsAgree, RefreshKept
<1>3. CASE NotSaved(p) /\ refreshed' = refreshed
  BY <1>1, <1>3 DEF NotSaved, MapOK, MemKept, PreviewMatchesMask, MapsAgree, RefreshKept
<1> QED
  BY <1>2, <1>3

(* What RefreshDraw leaves of a refresh.                                   *)
LEMMA DrawnRow ==
    ASSUME ref \in [Refreshers -> Ref], NEW p \in Refreshers, NEW s \in Slots, NEW v \in Versions,
           ref' = [ref EXCEPT ![p] = [pc |-> "add", slot |-> s, drawn |-> v, status |-> ""]]
    PROVE  ref'[p].pc = "add" /\ ref'[p].slot = s /\ ref'[p].drawn = v
<1>1. ref'[p] = [pc |-> "add", slot |-> s, drawn |-> v, status |-> ""]
  OBVIOUS
<1> QED
  BY <1>1

LEMMA MapNext ==
    ASSUME OverInv, [Next]_vars
    PROVE  RefOK' /\ MapOK'
<1> USE DEF OverInv
<1>0. TypeOK /\ mem \in Maps /\ \A q \in Viewers : view[q] \in View /\ RowOK(q)
  BY DEF TypeOK, Rows
<1>1. CASE UNCHANGED <<phase, mem, file, lock, unsaved, refreshed, ref>>
  BY <1>1 DEF RefOK, MapOK, MemKept, PreviewMatchesMask, MapsAgree, RefreshKept
<1>2. CASE Start
  <2>1. \A p \in Refreshers : ref'[p] = ref[p] /\ ref[p].pc # "rename"
    BY <1>2 DEF Start, RefOK
  <2>2. RefOK'
    BY <2>1 DEF RefOK
  <2>3. PreviewMatchesMask'
    BY <1>2, EmptyMaps DEF Start, PreviewMatchesMask
  <2>4. MemKept' /\ MapsAgree' /\ RefreshKept'
    BY <1>2 DEF Start, MemKept, MapsAgree, RefreshKept
  <2> QED
    BY <2>2, <2>3, <2>4 DEF MapOK
<1>3. CASE Crash
  <2>1. \A p \in Refreshers : ref'[p].pc \notin {"add", "set", "rename"}
    <3> TAKE p \in Refreshers
    <3>1. ref[p] \in Ref
      BY DEF TypeOK
    <3>2. CASE ref[p].pc = "idle"
      BY <1>3, <3>2 DEF Crash
    <3>3. CASE ref[p].pc # "idle"
      BY <1>3, <3>1, <3>3 DEF Crash, Ref
    <3> QED
      BY <3>2, <3>3
  <2>2. RefOK'
    BY <2>1 DEF RefOK
  <2>3. PreviewMatchesMask'
    BY <1>3, EmptyMaps DEF Crash, PreviewMatchesMask
  <2>4. MemKept' /\ MapsAgree' /\ RefreshKept'
    BY <1>3 DEF Crash, MemKept, MapsAgree, RefreshKept
  <2> QED
    BY <2>2, <2>3, <2>4 DEF MapOK
<1>4. ASSUME NEW p \in Refreshers, RefreshDraw(p) \/ RefreshAdd(p) PROVE RefOK' /\ MapOK'
  <2>1. UNCHANGED <<phase, mem, file, lock, unsaved, refreshed>>
    BY <1>4 DEF RefreshDraw, RefreshAdd
  <2>2. \A q \in Refreshers \ {p} : ref'[q] = ref[q]
    BY <1>4 DEF RefreshDraw, RefreshAdd, TypeOK
  <2>3. /\ ref'[p].pc \in {"add", "set"} => ref'[p].slot \in Slots /\ ref'[p].drawn \in Versions
        /\ ref'[p].pc # "rename"
    <3>1. ref[p] \in Ref /\ ref \in [Refreshers -> Ref]
      BY DEF TypeOK
    <3>2. CASE RefreshDraw(p)
      <4>1. ASSUME NEW s \in Slots,
                   ref' = [ref EXCEPT ![p] = [pc |-> "done", slot |-> s, drawn |-> 0, status |-> "failed"]]
            PROVE  ref'[p].pc = "done"
        BY <3>1, <4>1
      <4>2. ASSUME NEW s \in Slots, NEW v \in Versions,
                   ref' = [ref EXCEPT ![p] = [pc |-> "add", slot |-> s, drawn |-> v, status |-> ""]]
            PROVE  ref'[p].pc = "add" /\ ref'[p].slot \in Slots /\ ref'[p].drawn \in Versions
        <5>1. ref'[p].pc = "add" /\ ref'[p].slot = s /\ ref'[p].drawn = v
          BY <3>1, <4>2, DrawnRow
        <5> QED
          BY <5>1
      <4>3. ref'[p].pc = "done" \/ (ref'[p].pc = "add" /\ ref'[p].slot \in Slots /\ ref'[p].drawn \in Versions)
        BY <3>2, <4>1, <4>2, Zenon DEF RefreshDraw
      <4> QED
        BY <4>3
    <3>3. CASE RefreshAdd(p)
      <4>1. ref[p].slot \in Slots /\ ref[p].drawn \in Versions
        BY <3>3 DEF RefreshAdd, RefOK
      <4>2. ref'[p].slot = ref[p].slot /\ ref'[p].drawn = ref[p].drawn /\ ref'[p].pc \in {"set", "done"}
        <5>1. \/ ref'[p] = [ref[p] EXCEPT !.pc = "set"]
              \/ ref'[p] = [ref[p] EXCEPT !.pc = "done", !.status = "add_failed"]
          BY <3>1, <3>3 DEF RefreshAdd
        <5> QED
          BY <3>1, <5>1 DEF Ref
      <4> QED
        BY <4>1, <4>2
    <3> QED
      BY <1>4, <3>2, <3>3
  <2>4. RefOK'
    BY <2>1, <2>2, <2>3 DEF RefOK
  <2> QED
    BY <2>1, <2>4 DEF MapOK, MemKept, PreviewMatchesMask, MapsAgree, RefreshKept
<1>5. ASSUME NEW p \in Refreshers, RefreshSet(p) PROVE RefOK' /\ MapOK'
  <2>1. ref[p].slot \in Slots /\ ref[p].drawn \in Versions /\ ref[p] \in Ref
    BY <1>5 DEF RefreshSet, RefOK, TypeOK
  <2>2. \A q \in Refreshers \ {p} : ref'[q] = ref[q]
    BY <1>5 DEF RefreshSet, TypeOK
  <2>3. CASE Enter(p, NewMask(p)) /\ ref' = [ref EXCEPT ![p].pc = "rename"]
    <3>1. /\ NewMask(p) \in Maps /\ NewMask(p).preview = mem.preview
          /\ NewMask(p).mask = [mem.mask EXCEPT ![ref[p].slot] = ref[p].drawn]
      BY <1>0, <2>1, NewMaskMaps
    <3>2. mem.mask \in [Slots -> Masked] /\ ref[p].drawn # 0
      BY <1>0, <2>1, OverridesAssumption DEF Maps
    <3>3. \A s \in Slots : mem.mask[s] # 0 => NewMask(p).mask[s] # 0
      BY <2>1, <3>1, <3>2
    <3>4. NewMask(p).mask[ref[p].slot] # 0
      BY <2>1, <3>1, <3>2
    <3>5. \A k \in Keys : NewMask(p).preview[k] \in {None, k[2]}
      BY <3>1 DEF PreviewMatchesMask
    <3>6. MapOK'
      BY <1>5, <2>3, <3>1, <3>3, <3>5, EnterMaps DEF RefreshSet
    <3>7. phase = "up" /\ phase' = "up" /\ mem' = NewMask(p)
      BY <2>3 DEF Enter
    <3>8. ref'[p].slot = ref[p].slot /\ ref'[p].drawn = ref[p].drawn /\ ref'[p].pc = "rename"
      BY <2>1, <2>3 DEF TypeOK, Ref
    <3>9. RefOK'
      BY <2>1, <2>2, <3>3, <3>4, <3>7, <3>8 DEF RefOK
    <3> QED
      BY <3>6, <3>9
  <2>4. CASE /\ ref' = [ref EXCEPT ![p].pc = "done", ![p].status = "save_failed"]
             /\ UNCHANGED <<phase, mem, file, lock, unsaved, since, refreshed>>
    <3>1. ref'[p].pc = "done"
      BY <2>1, <2>4 DEF TypeOK, Ref
    <3>2. RefOK'
      BY <2>2, <2>4, <3>1 DEF RefOK
    <3> QED
      BY <2>4, <3>2 DEF MapOK, MemKept, PreviewMatchesMask, MapsAgree, RefreshKept
  <2> QED
    BY <1>5, <2>3, <2>4 DEF RefreshSet, NewMask
<1>6. ASSUME NEW p \in Refreshers, RefreshDone(p) PROVE RefOK' /\ MapOK'
  <2>1. ref[p] \in Ref /\ phase = "up" /\ mem.mask[ref[p].slot] # 0
    BY <1>6 DEF RefreshDone, RefOK, TypeOK
  <2>2. ref'[p].pc = "done" /\ \A q \in Refreshers \ {p} : ref'[q] = ref[q]
    <3>1. PICK t : ref' = [ref EXCEPT ![p].pc = "done", ![p].status = t]
      BY <1>6 DEF RefreshDone
    <3>2. ref \in [Refreshers -> Ref]
      BY DEF TypeOK
    <3> QED
      BY <2>1, <3>1, <3>2 DEF Ref
  <2>3. phase' = phase /\ mem' = mem
    BY <1>6 DEF RefreshDone, Saved, NotSaved
  <2>4. RefOK'
    BY <2>2, <2>3 DEF RefOK
  <2>5. \A s \in refreshed \cup {ref[p].slot} : mem.mask[s] # 0
    BY <2>1 DEF MemKept
  <2>6. MapOK'
    BY <1>6, <2>5, SavedMaps DEF RefreshDone
  <2> QED
    BY <2>4, <2>6
<1>7. ASSUME NEW p \in Viewers, MakeSet(p) PROVE RefOK' /\ MapOK'
  <2>1. view[p].pc = "set" /\ Enter(p, NewPreview(p)) /\ UNCHANGED <<ref, refreshed>>
    BY <1>7 DEF MakeSet, NewPreview
  <2>2. view[p].slot \in Slots /\ view[p].mask \in Masked /\ view[p].got = view[p].mask
    BY <1>0, <2>1 DEF RowOK, View
  <2>3. /\ NewPreview(p) \in Maps /\ NewPreview(p).mask = mem.mask
        /\ NewPreview(p).preview =
             [mem.preview EXCEPT ![PreviewKey(view[p].slot, view[p].mask)] = view[p].got]
    BY <1>0, <2>2, NewPreviewMaps
  <2>4. \A k \in Keys : NewPreview(p).preview[k] \in {None, k[2]}
    <3> TAKE k \in Keys
    <3>1. mem.preview \in [Keys -> Masked \cup {None}] /\ mem.preview[k] \in {None, k[2]}
      BY <1>0 DEF Maps, PreviewMatchesMask
    <3>2. CASE k = PreviewKey(view[p].slot, view[p].mask)
      <4>1. k[2] = view[p].mask
        BY <3>2 DEF PreviewKey
      <4> QED
        BY <2>2, <2>3, <3>1, <3>2, <4>1
    <3>3. CASE k # PreviewKey(view[p].slot, view[p].mask)
      BY <2>3, <3>1, <3>3
    <3> QED
      BY <3>2, <3>3
  <2>5. MapOK'
    BY <2>1, <2>3, <2>4, EnterMaps
  <2>6. phase' = phase /\ mem'.mask = mem.mask
    BY <2>1, <2>3 DEF Enter
  <2>7. RefOK'
    BY <2>1, <2>6 DEF RefOK
  <2> QED
    BY <2>5, <2>7
<1>8. ASSUME NEW p \in Viewers, MakeDone(p) PROVE RefOK' /\ MapOK'
  <2>1. (Saved(p) \/ NotSaved(p)) /\ UNCHANGED <<ref, refreshed>>
    BY <1>8 DEF MakeDone
  <2>2. phase' = phase /\ mem' = mem /\ lock = p /\ p # None
    BY <2>1, OverridesAssumption DEF Saved, NotSaved
  <2>3. \A s \in refreshed : mem.mask[s] # 0
    BY <2>2 DEF MemKept
  <2>4. MapOK'
    BY <2>1, <2>3, SavedMaps
  <2>5. RefOK'
    BY <2>1, <2>2 DEF RefOK
  <2> QED
    BY <2>4, <2>5
<1>9. ASSUME NEW p \in Viewers,
             ViewBegin(p) \/ ReadMask(p) \/ Look(p) \/ Join(p) \/ LookAgain(p) \/ Make(p)
      PROVE  UNCHANGED <<phase, mem, file, lock, unsaved, refreshed, ref>>
  BY <1>9 DEF ViewBegin, ReadMask, Look, Join, LookAgain, Make, Quiet
<1> QED
  BY <1>1, <1>2, <1>3, <1>4, <1>5, <1>6, <1>7, <1>8, <1>9 DEF Next, Refresh, Viewing, vars

LEMMA InvNext == OverInv /\ [Next]_vars => OverInv'
BY TypeNext, RowsNext, MapNext DEF OverInv, MapOK

LEMMA InvAlways == Spec => []OverInv
BY InvInit, InvNext, PTL DEF Spec

(* The state keeps its shape.                                              *)
THEOREM TypeCorrect == Spec => []TypeOK
<1>1. OverInv => TypeOK
  BY DEF OverInv
<1> QED
  BY <1>1, InvAlways, PTL

(* ensureConfiguredPreview sends a size of a mask in force since the       *)
(* request came, whoever made it.                                          *)
THEOREM FreshPreviewCorrect == Spec => []FreshPreview
<1>1. OverInv => FreshPreview
  BY DEF OverInv, Rows, RowOK, FreshPreview
<1> QED
  BY <1>1, InvAlways, PTL

(* Sizes are stored under the key of the mask they were made of.           *)
THEOREM PreviewMatchesMaskCorrect == Spec => []PreviewMatchesMask
<1>1. OverInv => PreviewMatchesMask
  BY DEF OverInv
<1> QED
  BY <1>1, InvAlways, PTL

(* Between two calls of Set the map and its file agree, unless the last    *)
(* one could not be written.                                               *)
THEOREM MapsAgreeCorrect == Spec => []MapsAgree
<1>1. OverInv => MapsAgree
  BY DEF OverInv
<1> QED
  BY <1>1, InvAlways, PTL

(* What the refresh of masks has answered for is on disk for good.         *)
THEOREM RefreshKeptCorrect == Spec => []RefreshKept
<1>1. OverInv => RefreshKept
  BY DEF OverInv
<1> QED
  BY <1>1, InvAlways, PTL
=============================================================================
