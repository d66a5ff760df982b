----------------------------- MODULE SoftDelete -----------------------------
(***************************************************************************)
(* Upload, soft delete, physical unpin and the background collector of     *)
(* several storage instances that share one set of IPFS nodes.             *)
(*                                                                         *)
(* Every instance (cmd/server behind the round-robin proxy) owns an        *)
(* UnpinStore on a volume of its own and an unpin.Worker; all instances    *)
(* write and unpin on the same nodes.  Each RPC of a fan-out (ClusterAdd,  *)
(* ClusterUnpinAll, ClusterReplicate) is a step, so the goroutines of      *)
(* concurrent requests, of the collector and of replicateAsync interleave. *)
(* The unpin store is atomic and durable here: its mutex makes each        *)
(* operation one step.  Torn saves are the subject of module UnpinStore.   *)
(***************************************************************************)
EXTENDS Naturals, FiniteSets

CONSTANTS
    Instances,   \* storage processes
    Nodes,       \* IPFS nodes of the cluster
    Clients,     \* slots for requests in flight: one upload and one delete each
    CIDs,        \* content identifiers
    Roots,       \* the CIDs uploads answer with: file bundles and video masters
    Masters,     \* the roots that are video master playlists
    Added,       \* Added[m]: every CID UploadDir adds for the video m, m included
    AllCIDs,     \* AllCIDs[m]: the group it reports; the playlists it rewrote are
                 \* replaced there by their new CID (replaceInSlice)
    TTL,         \* UNPIN_TTL, in ticks
    ReplTimeout, \* the 30 s a replicateAsync goroutine lives, in ticks
    None

ASSUME ConstantsAssumption ==
    /\ Masters \subseteq Roots /\ Roots \subseteq CIDs
    /\ Added \in [Masters -> SUBSET CIDs]
    /\ AllCIDs \in [Masters -> SUBSET CIDs]
    /\ \A m \in Masters : m \in AllCIDs[m] /\ AllCIDs[m] \subseteq Added[m]
    /\ None \notin CIDs
    /\ None \notin Nat
    /\ None \notin Instances

(* The collector only runs with a positive TTL.                            *)
ASSUME TTLAssumption == TTL \in Nat \ {0}

(* The shipped configuration keeps marks for hours; the code never checks  *)
(* that UNPIN_TTL exceeds the replication timeout.                         *)
ASSUME TimeoutAssumption == ReplTimeout \in Nat /\ ReplTimeout <= TTL

VARIABLES
    entries,     \* entries[i][c]: age of the mark of c in i's store, or None
    groups,      \* groups[i][m]: tracked group of m in i's store, {} if none
    pins,        \* pins[n]: recursively pinned CIDs of node n
    stored,      \* CIDs whose blocks some node has; no node runs repository GC
    upload,      \* upload[k]: the upload k has in flight
    del,         \* del[k]: the delete k has in flight, between GetGroup and the marking
    unpinning,   \* unpin RPCs the goroutines of HandleDelete have still to make
    repl,        \* Fetch+Pin RPCs the goroutines of replicateAsync have still to make
    worker,      \* worker[i]: the gc() call i's collector is in
    (* Observers: they record what was promised and guard no step.         *)
    owed,        \* CIDs acknowledged as stored and not deleted since
    gone         \* CIDs deleted with no upload of them since

vars == <<entries, groups, pins, stored, upload, del, unpinning, repl, worker,
          owed, gone>>

Age == 0..(TTL + 1)    \* ages saturate: beyond TTL every age is expired
RPC == Instances \X CIDs \X Nodes
ReplTask == [inst : Instances, cid : CIDs, node : Nodes, age : 0..ReplTimeout]

(* A fan-out in flight: the CID cur, the nodes still to answer, and        *)
(* whether a node has failed; left are the files still to be added, clean  *)
(* (an observer) those nobody has meant to unpin since the upload began.   *)
UploadState == [inst : Instances \cup {None}, root : Roots \cup {None},
                left : SUBSET CIDs, cur : CIDs \cup {None},
                todo : SUBSET Nodes, failed : BOOLEAN, clean : SUBSET CIDs]
DeleteState == [inst : Instances \cup {None}, cid : CIDs \cup {None},
                group : SUBSET CIDs]
SweepState  == [queue : SUBSET CIDs, cur : CIDs \cup {None},
                todo : SUBSET Nodes, failed : BOOLEAN]

NoUpload == [inst |-> None, root |-> None, left |-> {}, cur |-> None,
             todo |-> {}, failed |-> FALSE, clean |-> {}]
NoDelete == [inst |-> None, cid |-> None, group |-> {}]
NoSweep  == [queue |-> {}, cur |-> None, todo |-> {}, failed |-> FALSE]

(* A file bundle is one directory CID; a video is a master and its files.  *)
AddedBy(r) == IF r \in Masters THEN Added[r] ELSE {r}

Marked(i, c) == entries[i][c] # None
Has(i, c) == Marked(i, c)

(* Nothing in the system still means to unpin c.                           *)
Quiescent(c) == /\ \A i \in Instances : ~Marked(i, c)
                /\ \A i \in Instances, n \in Nodes : unpinning[<<i, c, n>>] = 0

InFlight(c) == \E k \in Clients : /\ upload[k].root # None
                                  /\ c \in AddedBy(upload[k].root)

Sweeping(i) == worker[i].queue \cup ({worker[i].cur} \ {None})

-----------------------------------------------------------------------------
(* UnpinStore *)

(* Mutant: AddGroup marks the master only.                                 *)
MarkAllMutant(i, cids) ==
    entries' = [entries EXCEPT ![i] =
                  [c \in CIDs |-> IF c \in cids \cap Roots THEN 0 ELSE entries[i][c]]]

(* Add and AddGroup: every CID of cids is marked with the current time.    *)
MarkAll(i, cids) ==
    entries' = [entries EXCEPT ![i] =
                  [c \in CIDs |-> IF c \in cids THEN 0 ELSE entries[i][c]]]

Expired(i) == {c \in CIDs : Marked(i, c) /\ entries[i][c] > TTL}

(* Mutant: the group of a removed master is kept.                          *)
RemoveMutant(i, c) ==
    /\ entries' = [entries EXCEPT ![i][c] = None]
    /\ UNCHANGED groups

Remove(i, c) ==
    /\ entries' = [entries EXCEPT ![i][c] = None]
    /\ groups' = [groups EXCEPT ![i][c] = {}]

-----------------------------------------------------------------------------
(* RPCs to a node.  A failed call may have been applied: the reply can be  *)
(* lost, and a call cut off by its context may already have run.           *)

NodeAdd(n, c) == /\ pins' = [pins EXCEPT ![n] = @ \cup {c}]
                 /\ stored' = stored \cup {c}

(* Pin().Rm of a CID that is not pinned is an error.                       *)
NodeUnpin(n, c, ok) ==
    \/ ok /\ c \in pins[n] /\ pins' = [pins EXCEPT ![n] = @ \ {c}]
    \/ ~ok /\ pins' \in {pins, [pins EXCEPT ![n] = @ \ {c}]}

-----------------------------------------------------------------------------
Init ==
    /\ entries = [i \in Instances |-> [c \in CIDs |-> None]]
    /\ groups = [i \in Instances |-> [c \in CIDs |-> {}]]
    /\ pins = [n \in Nodes |-> {}]
    /\ stored = {}
    /\ upload = [k \in Clients |-> NoUpload]
    /\ del = [k \in Clients |-> NoDelete]
    /\ unpinning = [x \in RPC |-> 0]
    /\ repl = {}
    /\ worker = [i \in Instances |-> NoSweep]
    /\ owed = {}
    /\ gone = {}

-----------------------------------------------------------------------------
(* HandleUpload, HandleUploadVideo *)

(* UploadDir adds the files one after the other and the master last.       *)
MayAddNext(r, left) == {c \in left : c = r => left = {r}}

(* A request reaches instance i: the first ClusterAdd / ClusterAddDir fans *)
(* out to all nodes.                                                       *)
UploadBegin(k, i, r) ==
    /\ upload[k].root = None
    /\ \E c \in MayAddNext(r, AddedBy(r)) :
         upload' = [upload EXCEPT ![k] =
                      [inst |-> i, root |-> r, left |-> AddedBy(r) \ {c},
                       cur |-> c, todo |-> Nodes, failed |-> FALSE,
                       clean |-> {d \in AddedBy(r) : Quiescent(d)}]]
    /\ gone' = gone \ AddedBy(r)
    /\ UNCHANGED <<entries, groups, pins, stored, del, unpinning, repl, worker, owed>>

(* One node's Add, which pins what it adds; ok is what the call reports.   *)
AddOnNode(k, n, ok) ==
    /\ n \in upload[k].todo
    /\ \/ NodeAdd(n, upload[k].cur)
       \/ ~ok /\ UNCHANGED <<pins, stored>>
    /\ upload' = [upload EXCEPT ![k] =
                    [upload[k] EXCEPT !.todo = @ \ {n}, !.failed = IF ok THEN @ ELSE TRUE]]
    /\ UNCHANGED <<entries, groups, del, unpinning, repl, worker, owed, gone>>

(* Mutant: the fan-out does not wait for every node.                       *)
AddJoinedMutant(k) == upload[k].root # None

AddJoined(k) == upload[k].root # None /\ upload[k].todo = {}

(* Mutant: an add that failed on some node is not an error.                *)
UploadFailMutant(k) ==
    /\ AddJoined(k) /\ upload[k].failed
    /\ upload' = [upload EXCEPT ![k].failed = FALSE]
    /\ UNCHANGED <<entries, groups, pins, stored, del, unpinning, repl, worker, owed, gone>>

(* collectClusterErrors found an error: the request answers 500 or 503 and *)
(* leaves behind whatever the nodes have already pinned.                   *)
UploadFail(k) ==
    /\ AddJoined(k) /\ upload[k].failed
    /\ upload' = [upload EXCEPT ![k] = NoUpload]
    /\ UNCHANGED <<entries, groups, pins, stored, del, unpinning, repl, worker, owed, gone>>

AddNext(k) ==
    /\ AddJoined(k) /\ ~upload[k].failed
    /\ \E c \in MayAddNext(upload[k].root, upload[k].left) :
         upload' = [upload EXCEPT ![k] =
                      [upload[k] EXCEPT !.left = @ \ {c}, !.cur = c, !.todo = Nodes]]
    /\ UNCHANGED <<entries, groups, pins, stored, del, unpinning, repl, worker, owed, gone>>

(* Everything is on every node.  A file starts replicateAsync, a video is  *)
(* tracked as a group; then the client is told the CID is stored.          *)
UploadDone(k) ==
    LET u == upload[k]
    IN  /\ AddJoined(k) /\ ~u.failed /\ u.left = {}
        /\ IF u.root \in Masters
             THEN /\ groups' = [groups EXCEPT ![u.inst][u.root] = AllCIDs[u.root]]
                  /\ repl' = repl
             ELSE /\ groups' = groups
                  /\ repl' = repl \cup [inst : {u.inst}, cid : {u.root},
                                        node : Nodes, age : {0}]
        /\ owed' = owed \cup u.clean
        /\ upload' = [upload EXCEPT ![k] = NoUpload]
        /\ UNCHANGED <<entries, pins, stored, del, unpinning, worker, gone>>

-----------------------------------------------------------------------------
(* replicateAsync: Fetch then Pin on every node, with retries, for 30 s.   *)

(* Pin ends at once when the CID is already pinned; a Pin that ran but     *)
(* reported an error is retried, so its task stays.                        *)
ReplPin(t, ok) ==
    /\ t \in repl
    /\ pins' = [pins EXCEPT ![t.node] = @ \cup {t.cid}]
    /\ repl' = IF ok THEN repl \ {t} ELSE repl
    /\ UNCHANGED <<entries, groups, stored, upload, del, unpinning, worker, owed, gone>>

(* The retries are used up.                                                *)
ReplGiveUp(t) ==
    /\ t \in repl
    /\ repl' = repl \ {t}
    /\ UNCHANGED <<entries, groups, pins, stored, upload, del, unpinning, worker, owed, gone>>

-----------------------------------------------------------------------------
(* HandleDelete *)

(* GetGroup and, later, the marking take the store's mutex separately.     *)
DeleteBegin(k, i, c) ==
    /\ del[k].cid = None
    /\ del' = [del EXCEPT ![k] = [inst |-> i, cid |-> c, group |-> groups[i][c]]]
    /\ UNCHANGED <<entries, groups, pins, stored, upload, unpinning, repl, worker, owed, gone>>

(* cidsToUnpin: the tracked group, or the CID alone.                       *)
CidsToUnpin(d) == IF d.group # {} THEN d.group ELSE {d.cid}

(* AddGroup or Add, then the answer and the detached goroutine that calls  *)
(* ClusterUnpinAll for each CID.  The order of its RPCs is left open.      *)
DeleteMark(k) ==
    LET d == del[k]
        cids == CidsToUnpin(d)
    IN  /\ d.cid # None
        /\ MarkAll(d.inst, cids)
        /\ groups' = IF d.group # {} THEN [groups EXCEPT ![d.inst][d.cid] = d.group]
                                     ELSE groups
        /\ unpinning' = [x \in RPC |-> IF x[1] = d.inst /\ x[2] \in cids
                                         THEN unpinning[x] + 1 ELSE unpinning[x]]
        /\ del' = [del EXCEPT ![k] = NoDelete]
        /\ upload' = [j \in Clients |-> [upload[j] EXCEPT !.clean = @ \ cids]]
        /\ owed' = owed \ cids
        /\ gone' = gone \cup {c \in cids : ~InFlight(c) /\ c \notin Sweeping(d.inst)}
        /\ UNCHANGED <<pins, stored, repl, worker>>

(* An RPC of that goroutine; its error is ignored, and the goroutine may   *)
(* be out of time before it makes the call.                                *)
DeleteUnpin(i, c, n) ==
    /\ unpinning[<<i, c, n>>] > 0
    /\ \E ok \in BOOLEAN : NodeUnpin(n, c, ok)
    /\ unpinning' = [unpinning EXCEPT ![<<i, c, n>>] = @ - 1]
    /\ UNCHANGED <<entries, groups, stored, upload, del, repl, worker, owed, gone>>

-----------------------------------------------------------------------------
(* unpin.Worker.gc *)

(* The expired CIDs are copied out under the store's lock, which is then   *)
(* released for the rest of the sweep.                                     *)
WorkerScan(i) ==
    /\ worker[i] = NoSweep
    /\ Expired(i) # {}
    /\ worker' = [worker EXCEPT ![i].queue = Expired(i)]
    /\ UNCHANGED <<entries, groups, pins, stored, upload, del, unpinning, repl, owed, gone>>

WorkerNext(i) ==
    /\ worker[i].cur = None
    /\ \E c \in worker[i].queue :
         worker' = [worker EXCEPT ![i] = [queue |-> worker[i].queue \ {c}, cur |-> c,
                                          todo |-> Nodes, failed |-> FALSE]]
    /\ UNCHANGED <<entries, groups, pins, stored, upload, del, unpinning, repl, owed, gone>>

WorkerUnpin(i, n, ok) ==
    /\ n \in worker[i].todo
    /\ NodeUnpin(n, worker[i].cur, ok)
    /\ worker' = [worker EXCEPT ![i] =
                    [worker[i] EXCEPT !.todo = @ \ {n}, !.failed = IF ok THEN @ ELSE TRUE]]
    /\ UNCHANGED <<entries, groups, stored, upload, del, unpinning, repl, owed, gone>>

WorkerJoined(i) == worker[i].cur # None /\ worker[i].todo = {}

(* Mutant: the collector's goroutine ends at the first error.              *)
WorkerSkipStopMutant(i) ==
    /\ WorkerJoined(i) /\ worker[i].failed
    /\ UNCHANGED vars

(* An error on any node: the entry stays for the next sweep.               *)
WorkerSkip(i) ==
    /\ WorkerJoined(i) /\ worker[i].failed
    /\ worker' = [worker EXCEPT ![i] = [NoSweep EXCEPT !.queue = worker[i].queue]]
    /\ UNCHANGED <<entries, groups, pins, stored, upload, del, unpinning, repl, owed, gone>>

WorkerRemove(i) ==
    /\ WorkerJoined(i) /\ ~worker[i].failed
    /\ Remove(i, worker[i].cur)
    /\ worker' = [worker EXCEPT ![i] = [NoSweep EXCEPT !.queue = worker[i].queue]]
    /\ UNCHANGED <<pins, stored, upload, del, unpinning, repl, owed, gone>>

-----------------------------------------------------------------------------
(* Time and failures *)

(* Mutant: replicateAsync runs without a timeout.                          *)
TickMutant ==
    /\ entries' = [i \in Instances |-> [c \in CIDs |->
                     IF Marked(i, c) /\ entries[i][c] <= TTL
                       THEN entries[i][c] + 1 ELSE entries[i][c]]]
    /\ UNCHANGED <<groups, pins, stored, upload, del, unpinning, repl, worker, owed, gone>>

Tick ==
    /\ entries' = [i \in Instances |-> [c \in CIDs |->
                     IF Marked(i, c) /\ entries[i][c] <= TTL
                       THEN entries[i][c] + 1 ELSE entries[i][c]]]
    /\ repl' = {[t EXCEPT !.age = @ + 1] : t \in {s \in repl : s.age < ReplTimeout}}
    /\ UNCHANGED <<groups, pins, stored, upload, del, unpinning, worker, owed, gone>>

(* The process is killed and started again: Load reads the store back, the *)
(* requests and goroutines in flight are lost.                             *)
Restart(i) ==
    /\ upload' = [k \in Clients |-> IF upload[k].inst = i THEN NoUpload ELSE upload[k]]
    /\ del' = [k \in Clients |-> IF del[k].inst = i THEN NoDelete ELSE del[k]]
    /\ unpinning' = [x \in RPC |-> IF x[1] = i THEN 0 ELSE unpinning[x]]
    /\ repl' = {t \in repl : t.inst # i}
    /\ worker' = [worker EXCEPT ![i] = NoSweep]
    /\ UNCHANGED <<entries, groups, pins, stored, owed, gone>>

-----------------------------------------------------------------------------
Requests ==
    \E k \in Clients, i \in Instances :
        \/ \E r \in Roots : UploadBegin(k, i, r)
        \/ \E c \in CIDs : DeleteBegin(k, i, c)

UploadSteps ==
    \E k \in Clients :
        \/ \E n \in Nodes, ok \in BOOLEAN : AddOnNode(k, n, ok)
        \/ UploadFail(k)
        \/ AddNext(k)
        \/ UploadDone(k)

ReplSteps == \E t \in repl : ReplGiveUp(t) \/ \E ok \in BOOLEAN : ReplPin(t, ok)

DeleteSteps == \/ \E k \in Clients : DeleteMark(k)
               \/ \E i \in Instances, c \in CIDs, n \in Nodes : DeleteUnpin(i, c, n)

WorkerSteps ==
    \E i \in Instances :
        \/ WorkerScan(i)
        \/ WorkerNext(i)
        \/ \E n \in Nodes, ok \in BOOLEAN : WorkerUnpin(i, n, ok)
        \/ WorkerSkip(i)
        \/ WorkerRemove(i)

Running == UploadSteps \/ ReplSteps \/ DeleteSteps \/ WorkerSteps \/ Tick

Next == Requests \/ Running \/ \E i \in Instances : Restart(i)

Spec == Init /\ [][Next]_vars
-----------------------------------------------------------------------------
(* What the code's scheduling gives: time passes, and the collector's      *)
(* goroutine runs between its ticks.  That an RPC of gc() returns is an    *)
(* assumption on the nodes, for gc() sets no timeout; so is that a node    *)
(* asked again and again to unpin a CID it has pinned does so in the end.  *)
Fairness ==
    /\ WF_vars(Tick)
    /\ \A i \in Instances :
         /\ WF_vars(WorkerScan(i))
         /\ WF_vars(WorkerNext(i))
         /\ WF_vars(WorkerSkip(i) \/ WorkerRemove(i))
         /\ \A n \in Nodes :
              /\ WF_vars(\E ok \in BOOLEAN : WorkerUnpin(i, n, ok))
              /\ \A c \in CIDs : SF_vars(worker[i].cur = c /\ WorkerUnpin(i, n, TRUE))

-----------------------------------------------------------------------------
(* Properties *)

(* The shape of the state: in particular a sweep only ever holds CIDs that *)
(* are CIDs, and the retry tasks never outlive the replication timeout.    *)
TypeOK ==
    /\ entries \in [Instances -> [CIDs -> Age \cup {None}]]
    /\ groups \in [Instances -> [CIDs -> SUBSET CIDs]]
    /\ pins \in [Nodes -> SUBSET CIDs]
    /\ stored \in SUBSET CIDs
    /\ upload \in [Clients -> UploadState]
    /\ del \in [Clients -> DeleteState]
    /\ unpinning \in [RPC -> Nat]
    /\ repl \in SUBSET ReplTask
    /\ worker \in [Instances -> SweepState]
    /\ owed \in SUBSET CIDs
    /\ gone \in SUBSET CIDs

(* HandleUpload and HandleUploadVideo answer only after every node has     *)
(* pinned the content.  A CID whose upload began when nobody meant to      *)
(* unpin it stays pinned on every node until a DELETE marks it, whatever   *)
(* the collector, failed uploads, other deletes and restarts do meanwhile. *)
AckedStaysPinned == \A c \in owed, n \in Nodes : c \in pins[n]

(* What DELETE took down and nobody uploaded since is never pinned without *)
(* a mark on some instance to have it unpinned later: neither a failed     *)
(* unpin, nor a restart, nor a replication that comes late may leave a pin *)
(* that everybody has forgotten.  A DELETE that meets a sweep of the same  *)
(* CID is left out: it loses its mark (see OnlyExpiredMarksRemoved).       *)
NoForgottenPin ==
    \A c \in gone, n \in Nodes :
        c \in pins[n] => \E i \in Instances : Marked(i, c)

(* A deleted CID is in the end unpinned on every node, or uploaded again.  *)
DeletedEventuallyUnpinned ==
    \A c \in CIDs : c \in gone ~> (c \notin gone \/ \A n \in Nodes : c \notin pins[n])

(* README, soft delete: GET answers 404 once a file was deleted.  GET is   *)
(* answered from the instance's own store and from the nodes' blocks.      *)
DeletedAnswers404 ==
    \A c \in gone, i \in Instances : Has(i, c) \/ c \notin stored

(* README, soft delete: the collector acts on expired entries.             *)
OnlyExpiredMarksRemoved ==
    [][\A i \in Instances, c \in CIDs :
           Marked(i, c) /\ entries'[i][c] = None => c \in Expired(i)]_vars

(* The store of instance i, as far as module MarkStore describes one.      *)
Store(i) == INSTANCE MarkStore WITH
    marks   <- {c \in CIDs : Marked(i, c)},
    tracked <- groups[i],
    broken  <- FALSE

(* Every instance changes its store by the calls of MarkStore alone, which *)
(* module UnpinStore is shown to implement: a DELETE, an upload and the    *)
(* collector make at most one of them a step, and neither time nor a       *)
(* restart nor another instance changes what it holds.                     *)
StoreCalls ==
    [][\A i \in Instances :
           \/ UNCHANGED <<entries[i], groups[i]>>
           \/ [Store(i)!Next]_(Store(i)!vars)]_vars
=============================================================================
