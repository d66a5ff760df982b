----------------------------- MODULE UnpinStore -----------------------------
(***************************************************************************)
(* The unpin store of one storage process (internal/store/store.go) with   *)
(* its file, and how NewHandler opens it.  Every change is made in memory  *)
(* and then written by saveUnsafe, under one lock: os.WriteFile truncates  *)
(* the file first and writes it then, and its error is dropped.  A start   *)
(* may fail to read a file that is sound: no permission, no descriptor, a  *)
(* disk error.                                                             *)
(***************************************************************************)
EXTENDS FiniteSets

CONSTANTS
    StoreCIDs,   \* the CIDs that may be marked
    Groups       \* the groups of CIDs callers track

ASSUME StoreAssumption == Groups \subseteq SUBSET StoreCIDs

VARIABLES
    phase,       \* "down", "idle", "save", "write" (truncated), or "nil": no store
    path,        \* the file in use: UNPIN_STORE_PATH or the fallback in /tmp
    mem,         \* the maps entries and groups
    file,        \* file[p]: the file at p
    answered,    \* observer: CIDs whose marking was answered and not undone
    unsaved,     \* observer: the last save failed
    hit          \* observer: a save has failed or was cut short by a crash, or a
                 \* start could not read a file

storeVars == <<phase, path, mem, file, answered, unsaved, hit>>

Paths == {"main", "tmp"}

Maps == [entries : SUBSET StoreCIDs, groups : [StoreCIDs -> SUBSET StoreCIDs]]

Empty == [entries |-> {}, groups |-> [c \in StoreCIDs |-> {}]]

(* A file is missing, not parseable, an array of entries (the old format)  *)
(* or the present object.                                                  *)
File(k, m) == [kind |-> k, maps |-> m]

Files == [kind : {"absent", "torn", "old", "new"}, maps : Maps]

-----------------------------------------------------------------------------
(* Load of a file that can be read: whether it is understood, and what the *)
(* maps are then; NewUnpinStore takes a missing file for an empty one.     *)
Loadable(f) == f.kind # "torn"

(* Mutant: an array of entries is no longer understood.                    *)
LoadedMutant(f) == IF f.kind = "new" THEN f.maps ELSE Empty

Loaded(f) == CASE f.kind = "absent" -> Empty
               [] f.kind = "old" -> [Empty EXCEPT !.entries = f.maps.entries]
               [] OTHER -> f.maps

(* An instance that has never run, or ran a version with the old format.   *)
StoreInit ==
    /\ phase = "down"
    /\ path = "main"
    /\ mem = Empty
    /\ \E s \in SUBSET StoreCIDs, k \in {"absent", "old"} :
         /\ k = "absent" => s = {}
         /\ file = [p \in Paths |->
                      IF p = "main" THEN File(k, [Empty EXCEPT !.entries = s])
                                    ELSE File("absent", Empty)]
         /\ answered = s
    /\ unsaved = FALSE
    /\ hit = FALSE

(* NewUnpinStore on p: readable says whether os.ReadFile works.            *)
Opens(p, readable) == file[p].kind = "absent" \/ (readable /\ Loadable(file[p]))

(* Mutant: the file that cannot be loaded is put aside for the next start. *)
StartMutant ==
    /\ phase = "down"
    /\ phase' = "idle"
    /\ path' = IF Loadable(file["main"]) THEN "main" ELSE "tmp"
    /\ mem' = Loaded(file[path'])
    /\ file' = IF Loadable(file["main"]) THEN file
               ELSE [file EXCEPT !["main"] = File("absent", Empty)]
    /\ unsaved' = FALSE
    /\ UNCHANGED <<answered, hit>>

(* NewHandler: a store that cannot be loaded, for whatever reason, is      *)
(* replaced by one in /tmp; the error of that one is dropped, and the      *)
(* handler has no store.                                                   *)
Start ==
    /\ phase = "down"
    /\ \E readable \in [Paths -> BOOLEAN] :
         /\ \/ Opens("main", readable["main"]) /\ path' = "main"
            \/ ~Opens("main", readable["main"]) /\ path' = "tmp"
         /\ \/ /\ Opens(path', readable[path'])
               /\ phase' = "idle" /\ mem' = Loaded(file[path'])
            \/ /\ ~Opens(path', readable[path'])
               /\ phase' = "nil" /\ mem' = Empty
         /\ hit' = (hit \/ \E p \in Paths : ~readable[p])
    /\ unsaved' = FALSE
    /\ UNCHANGED <<file, answered>>

(* A call takes the lock and changes the maps.                             *)
Change(entries, groups) ==
    /\ phase = "idle"
    /\ mem' = [entries |-> entries, groups |-> groups]
    /\ phase' = "save"
    /\ answered' = answered \cap entries
    /\ UNCHANGED <<path, file, unsaved, hit>>

Add(c) == Change(mem.entries \cup {c}, mem.groups)

AddGroup(m, cids) ==
    Change(mem.entries \cup cids, [mem.groups EXCEPT ![m] = cids])

(* Mutant: a tracked group is not saved.                                   *)
TrackGroupMutant(m, cids) ==
    /\ phase = "idle"
    /\ mem' = [mem EXCEPT !.groups = [mem.groups EXCEPT ![m] = cids]]
    /\ UNCHANGED <<phase, path, file, answered, unsaved, hit>>

TrackGroup(m, cids) == Change(mem.entries, [mem.groups EXCEPT ![m] = cids])

(* Mutant: the group of a removed master is kept.                          *)
StoreRemoveMutant(c) == Change(mem.entries \ {c}, mem.groups)

StoreRemove(c) == Change(mem.entries \ {c}, [mem.groups EXCEPT ![c] = {}])

(* saveUnsafe *)
Truncate ==
    /\ phase = "save"
    /\ file' = [file EXCEPT ![path] = File("torn", Empty)]
    /\ phase' = "write"
    /\ UNCHANGED <<path, mem, answered, unsaved, hit>>

(* The file is complete; the lock is released and the call returns.        *)
Write ==
    /\ phase = "write"
    /\ file' = [file EXCEPT ![path] = File("new", mem)]
    /\ phase' = "idle"
    /\ answered' = mem.entries
    /\ unsaved' = FALSE
    /\ UNCHANGED <<path, mem, hit>>

(* Opening or writing the file fails; the callers do not learn of it.      *)
SaveFails ==
    /\ phase \in {"save", "write"}
    /\ phase' = "idle"
    /\ answered' = mem.entries
    /\ unsaved' = TRUE
    /\ hit' = TRUE
    /\ UNCHANGED <<path, mem, file>>

(* The process ends.  Without a store it ends by itself: the collector     *)
(* calls Expired on a nil pointer.                                         *)
Crash ==
    /\ phase # "down"
    /\ phase' = "down"
    /\ mem' = Empty
    /\ hit' = (hit \/ phase \in {"save", "write"})
    /\ UNCHANGED <<path, file, answered, unsaved>>

StoreNext ==
    \/ Start \/ Truncate \/ Write \/ SaveFails \/ Crash
    \/ \E c \in StoreCIDs :
         \/ Add(c)
         \/ StoreRemove(c)
         \/ \E g \in Groups : AddGroup(c, g) \/ TrackGroup(c, g)

StoreSpec == StoreInit /\ [][StoreNext]_storeVars

-----------------------------------------------------------------------------
(* The shape of the state: both maps exist, whatever was loaded.           *)
StoreTypeOK ==
    /\ phase \in {"down", "idle", "save", "write", "nil"}
    /\ path \in Paths
    /\ mem \in Maps
    /\ file \in [Paths -> Files]
    /\ answered \in SUBSET StoreCIDs
    /\ unsaved \in BOOLEAN
    /\ hit \in BOOLEAN

(* Whenever the lock is free a restart on this path would find what is in  *)
(* memory, whatever crashed before, unless the last write failed: every    *)
(* call of the store saves all it has changed before it returns.           *)
FileFollowsMemory ==
    phase = "idle" /\ ~unsaved => Loadable(file[path]) /\ Loaded(file[path]) = mem

(* Until a crash or a disk error hits a save, or a start cannot read its   *)
(* file, the store is what SoftDelete takes it for: every call is one step *)
(* that outlives restarts.                                                 *)
Durable == INSTANCE MarkStore WITH
    CIDs    <- StoreCIDs,
    marks   <- IF phase = "down" THEN Loaded(file["main"]).entries ELSE mem.entries,
    tracked <- IF phase = "down" THEN Loaded(file["main"]).groups ELSE mem.groups,
    broken  <- hit

ImplementsMarkStore == Durable!Spec

(* README, DELETE: a deleted file answers 404; the process that is up      *)
(* holds every mark whose DELETE was answered and not collected since.     *)
AnsweredHeld == phase = "idle" => answered \subseteq mem.entries

(* The part of AnsweredHeld that the code keeps: whatever restarts there   *)
(* are, and whichever format the first file has, no answered DELETE loses  *)
(* its mark before a crash or a disk error hits a save, or a start cannot  *)
(* read the file and takes the empty store in /tmp.                        *)
AnsweredHeldUnhit == ~hit => AnsweredHeld

(* Lost is UNPIN_STORE_PATH when no running process works on it and what   *)
(* it holds is torn.                                                       *)
MainLost == file["main"].kind = "torn" /\ (phase = "down" \/ path = "tmp")

(* A torn file is never repaired: once a process has ended with            *)
(* UNPIN_STORE_PATH torn, every later one works in /tmp or without a       *)
(* store, whatever can be read, saved or crashes then.  A file that only   *)
(* could not be read is taken up again by the next start that can.         *)
TornForGood == [][MainLost => MainLost']_storeVars
=============================================================================
