-------------------------- MODULE SoftDeleteProofs --------------------------
(* Proofs about SoftDelete, for any number of instances, nodes and CIDs,   *)
(* and about UnpinStore, the store each instance has: both are shown to    *)
(* meet in MarkStore.                                                      *)
EXTENDS SoftDelete, UnpinStore, TLAPS

-----------------------------------------------------------------------------
(* The empty records have the types of their variables.                    *)
LEMMA IdleRecords ==
    /\ NoUpload \in UploadState
    /\ NoDelete \in DeleteState
    /\ NoSweep \in SweepState
BY DEF NoUpload, NoDelete, NoSweep, UploadState, DeleteState, SweepState

(* An upload only ever adds CIDs, its root among them.                     *)
LEMMA AddedByCIDs ==
    ASSUME NEW r \in Roots
    PROVE  AddedBy(r) \in SUBSET CIDs /\ r \in AddedBy(r)
BY ConstantsAssumption DEF AddedBy

(* A request in flight has an instance, and an upload in flight is adding  *)
(* one of its CIDs: without this a fan-out could pin None.                 *)
Shape ==
    /\ \A k \in Clients :
         LET u == upload[k]
         IN  IF u.root = None
               THEN u.todo = {} /\ u.clean = {}
               ELSE /\ u.inst \in Instances
                    /\ u.cur \in AddedBy(u.root)
                    /\ u.left \subseteq AddedBy(u.root)
    /\ \A k \in Clients : del[k].cid # None => del[k].inst \in Instances
    /\ \A i \in Instances : worker[i].todo # {} => worker[i].cur # None

TypeInv == TypeOK /\ Shape

(* TypeInv is inductive.                                                   *)
LEMMA TypeInvariance == Spec => []TypeInv
<1>1. Init => TypeInv
  BY IdleRecords, TTLAssumption DEF Init, TypeInv, TypeOK, Shape, Age, NoUpload, NoDelete, NoSweep
<1>2. TypeInv /\ [Next]_vars => TypeInv'
  <2> SUFFICES ASSUME TypeInv, [Next]_vars PROVE TypeInv'
    OBVIOUS
  <2>u. upload \in [Clients -> UploadState]
    BY DEF TypeInv, TypeOK
  <2>d. del \in [Clients -> DeleteState]
    BY DEF TypeInv, TypeOK
  <2>w. worker \in [Instances -> SweepState]
    BY DEF TypeInv, TypeOK
  <2>1. ASSUME NEW k \in Clients, NEW i \in Instances, NEW r \in Roots, UploadBegin(k, i, r)
        PROVE TypeInv'
    BY <2>1, AddedByCIDs, ConstantsAssumption DEF UploadBegin, MayAddNext, UploadState, TypeInv, TypeOK, Shape
  <2>2. ASSUME NEW k \in Clients, NEW i \in Instances, NEW c \in CIDs, DeleteBegin(k, i, c)
        PROVE TypeInv'
    BY <2>2 DEF DeleteBegin, DeleteState, TypeInv, TypeOK, Shape
  <2>3. ASSUME NEW k \in Clients, NEW n \in Nodes, NEW ok \in BOOLEAN, AddOnNode(k, n, ok)
        PROVE TypeInv'
    <3>1. upload[k].root # None
      BY <2>3 DEF AddOnNode, TypeInv, TypeOK, Shape
    <3>2. upload[k].cur \in CIDs
      BY <3>1, AddedByCIDs DEF UploadState, TypeInv, TypeOK, Shape
    <3>3. pins' \in [Nodes -> SUBSET CIDs] /\ stored' \in SUBSET CIDs
      BY <2>3, <3>2 DEF AddOnNode, NodeAdd, TypeInv, TypeOK, Shape
    <3>4. upload' \in [Clients -> UploadState]
      <4> [upload[k] EXCEPT !.todo = @ \ {n}, !.failed = IF ok THEN @ ELSE TRUE] \in UploadState
        BY <2>u DEF UploadState
      <4> QED
        BY <2>u, <2>3 DEF AddOnNode
    <3>5. \A j \in Clients : /\ upload'[j].root = upload[j].root
                            /\ upload'[j].inst = upload[j].inst
                            /\ upload'[j].cur = upload[j].cur
                            /\ upload'[j].left = upload[j].left
                            /\ upload'[j].clean = upload[j].clean
                            /\ upload'[j].todo \subseteq upload[j].todo
      BY <2>u, <2>3 DEF AddOnNode, UploadState
    <3> QED
      BY <2>3, <3>3, <3>4, <3>5 DEF AddOnNode, TypeInv, TypeOK, Shape
  <2>4. ASSUME NEW k \in Clients, UploadFail(k) PROVE TypeInv'
    BY <2>4, IdleRecords DEF UploadFail, NoUpload, NoDelete, NoSweep, TypeInv, TypeOK, Shape
  <2>5. ASSUME NEW k \in Clients, AddNext(k) PROVE TypeInv'
    <3>1. PICK c \in upload[k].left :
             upload' = [upload EXCEPT ![k] =
                          [upload[k] EXCEPT !.left = @ \ {c}, !.cur = c, !.todo = Nodes]]
      BY <2>5 DEF AddNext, MayAddNext, TypeInv, TypeOK, Shape
    <3>2. upload' \in [Clients -> UploadState]
      <4> [upload[k] EXCEPT !.left = @ \ {c}, !.cur = c, !.todo = Nodes] \in UploadState
        BY <2>u DEF UploadState
      <4> QED
        BY <2>u, <3>1
    <3>3. /\ upload'[k].root = upload[k].root /\ upload'[k].inst = upload[k].inst
          /\ upload'[k].cur = c /\ upload'[k].left = upload[k].left \ {c}
          /\ upload[k].root # None
          /\ \A j \in Clients \ {k} : upload'[j] = upload[j]
      BY <2>u, <2>5, <3>1 DEF UploadState, AddNext, AddJoined
    <3>4. Shape'
      BY <2>5, <3>3 DEF AddNext, TypeInv, Shape
    <3> QED
      BY <2>5, <3>2, <3>4 DEF AddNext, TypeInv, TypeOK
  <2>6. ASSUME NEW k \in Clients, UploadDone(k) PROVE TypeInv'
    <3>1. upload[k].inst \in Instances /\ upload[k].root \in Roots
      BY <2>6 DEF UploadDone, AddJoined, UploadState, TypeInv, TypeOK, Shape
    <3>2. groups' \in [Instances -> [CIDs -> SUBSET CIDs]]
      <4>1. groups \in [Instances -> [CIDs -> SUBSET CIDs]]
        BY DEF TypeInv, TypeOK
      <4>2. CASE upload[k].root \in Masters
        <5> AllCIDs[upload[k].root] \in SUBSET CIDs
          BY <4>2, ConstantsAssumption
        <5> groups' = [groups EXCEPT ![upload[k].inst][upload[k].root] = AllCIDs[upload[k].root]]
          BY <2>6, <4>2 DEF UploadDone
        <5> QED
          BY <4>1, <3>1
      <4>3. CASE upload[k].root \notin Masters
        BY <2>6, <4>1, <4>3 DEF UploadDone
      <4> QED
        BY <4>2, <4>3
    <3>3. repl' \in SUBSET ReplTask
      BY <2>6, <3>1, ConstantsAssumption, TimeoutAssumption DEF UploadDone, ReplTask, TypeInv, TypeOK, Shape
    <3>4. upload' \in [Clients -> UploadState] /\ owed' \in SUBSET CIDs
      BY <2>6, IdleRecords DEF UploadDone, UploadState, TypeInv, TypeOK, Shape
    <3>5. Shape'
      BY <2>6 DEF UploadDone, NoUpload, TypeInv, TypeOK, Shape
    <3> QED
      BY <2>6, <3>2, <3>3, <3>4, <3>5 DEF UploadDone, TypeInv, TypeOK, Shape
  <2>7. ASSUME NEW t \in repl, ReplGiveUp(t) PROVE TypeInv'
    BY <2>7 DEF ReplGiveUp, TypeInv, TypeOK, Shape
  <2>8. ASSUME NEW t \in repl, NEW ok \in BOOLEAN, ReplPin(t, ok) PROVE TypeInv'
    BY <2>8 DEF ReplPin, ReplTask, TypeInv, TypeOK, Shape
  <2>9. ASSUME NEW k \in Clients, DeleteMark(k) PROVE TypeInv'
    <3>1. /\ del[k].inst \in Instances /\ del[k].cid \in CIDs
          /\ CidsToUnpin(del[k]) \in SUBSET CIDs
      BY <2>9 DEF DeleteMark, CidsToUnpin, DeleteState, TypeInv, TypeOK, Shape
    <3>2. entries' \in [Instances -> [CIDs -> Age \cup {None}]]
      BY <2>9, <3>1, TTLAssumption DEF DeleteMark, MarkAll, Age, TypeInv, TypeOK, Shape
    <3>3. groups' \in [Instances -> [CIDs -> SUBSET CIDs]]
      BY <2>9, <3>1 DEF DeleteMark, DeleteState, TypeInv, TypeOK, Shape
    <3>4. unpinning' \in [RPC -> Nat]
      BY <2>9 DEF DeleteMark, TypeInv, TypeOK, Shape
    <3>5. del' \in [Clients -> DeleteState]
      BY <2>9, IdleRecords DEF DeleteMark, TypeInv, TypeOK, Shape
    <3>6. upload' \in [Clients -> UploadState]
      <4> \A j \in Clients : [upload[j] EXCEPT !.clean = @ \ CidsToUnpin(del[k])] \in UploadState
        BY <2>u DEF UploadState
      <4> QED
        BY <2>9 DEF DeleteMark
    <3>7. owed' \in SUBSET CIDs /\ gone' \in SUBSET CIDs
      BY <2>9, <3>1 DEF DeleteMark, TypeInv, TypeOK, Shape
    <3>8. Shape'
      <4>1. \A j \in Clients : /\ upload'[j].root = upload[j].root
                              /\ upload'[j].inst = upload[j].inst
                              /\ upload'[j].cur = upload[j].cur
                              /\ upload'[j].left = upload[j].left
                              /\ upload'[j].todo = upload[j].todo
                              /\ upload'[j].clean \subseteq upload[j].clean
        BY <2>u, <2>9 DEF DeleteMark, UploadState
      <4>2. \A j \in Clients : del'[j].cid # None => del'[j].inst \in Instances
        BY <2>d, <2>9 DEF DeleteMark, NoDelete, TypeInv, Shape
      <4>3. worker' = worker
        BY <2>9 DEF DeleteMark
      <4> QED
        BY <4>1, <4>2, <4>3 DEF TypeInv, Shape
    <3> QED
      BY <2>9, <3>2, <3>3, <3>4, <3>5, <3>6, <3>7, <3>8 DEF DeleteMark, TypeInv, TypeOK, Shape
  <2>10. ASSUME NEW i \in Instances, NEW c \in CIDs, NEW n \in Nodes, DeleteUnpin(i, c, n)
         PROVE TypeInv'
    <3>1. pins' \in [Nodes -> SUBSET CIDs]
      BY <2>10 DEF DeleteUnpin, NodeUnpin, TypeInv, TypeOK, Shape
    <3>2. unpinning' \in [RPC -> Nat]
      BY <2>10 DEF DeleteUnpin, RPC, TypeInv, TypeOK, Shape
    <3> QED
      BY <2>10, <3>1, <3>2 DEF DeleteUnpin, TypeInv, TypeOK, Shape
  <2>11. ASSUME NEW i \in Instances, WorkerScan(i) PROVE TypeInv'
    BY <2>11 DEF WorkerScan, Expired, NoSweep, SweepState, TypeInv, TypeOK, Shape
  <2>12. ASSUME NEW i \in Instances, WorkerNext(i) PROVE TypeInv'
    BY <2>12, ConstantsAssumption DEF WorkerNext, SweepState, TypeInv, TypeOK, Shape
  <2>13. ASSUME NEW i \in Instances, NEW n \in Nodes, NEW ok \in BOOLEAN, WorkerUnpin(i, n, ok)
         PROVE TypeInv'
    <3>1. pins' \in [Nodes -> SUBSET CIDs]
      BY <2>13 DEF WorkerUnpin, NodeUnpin, TypeInv, TypeOK, Shape
    <3>2. worker' \in [Instances -> SweepState]
      <4> [worker[i] EXCEPT !.todo = @ \ {n}, !.failed = IF ok THEN @ ELSE TRUE] \in SweepState
        BY <2>w DEF SweepState
      <4> QED
        BY <2>w, <2>13 DEF WorkerUnpin
    <3>3. Shape'
      BY <2>w, <2>13 DEF WorkerUnpin, SweepState, TypeInv, Shape
    <3> QED
      BY <2>13, <3>1, <3>2, <3>3 DEF WorkerUnpin, TypeInv, TypeOK, Shape
  <2>14. ASSUME NEW i \in Instances, WorkerSkip(i) PROVE TypeInv'
    BY <2>14, IdleRecords DEF WorkerSkip, NoSweep, SweepState, TypeInv, TypeOK, Shape
  <2>15. ASSUME NEW i \in Instances, WorkerRemove(i) PROVE TypeInv'
    BY <2>15, IdleRecords DEF WorkerRemove, Remove, NoSweep, SweepState, TypeInv, TypeOK, Shape
  <2>16. CASE Tick
    <3>1. entries' \in [Instances -> [CIDs -> Age \cup {None}]]
      BY <2>16, TTLAssumption DEF Tick, Marked, Age, TypeInv, TypeOK, Shape
    <3>2. repl' \in SUBSET ReplTask
      <4> SUFFICES ASSUME NEW t \in repl, t.age < ReplTimeout
                   PROVE  [t EXCEPT !.age = @ + 1] \in ReplTask
        BY <2>16 DEF Tick
      <4> t \in ReplTask
        BY DEF TypeInv, TypeOK
      <4> QED
        BY TimeoutAssumption DEF ReplTask
    <3> QED
      BY <2>16, <3>1, <3>2 DEF Tick, TypeInv, TypeOK, Shape
  <2>17. ASSUME NEW i \in Instances, Restart(i) PROVE TypeInv'
    BY <2>17, IdleRecords DEF Restart, NoUpload, NoDelete, NoSweep, TypeInv, TypeOK, Shape
  <2>18. CASE UNCHANGED vars
    BY <2>18 DEF vars, TypeInv, TypeOK, Shape
  <2> QED
    BY <2>1, <2>2, <2>3, <2>4, <2>5, <2>6, <2>7, <2>8, <2>9, <2>10, <2>11, <2>12,
       <2>13, <2>14, <2>15, <2>16, <2>17, <2>18
    DEF Next, Requests, Running, UploadSteps, ReplSteps, DeleteSteps, WorkerSteps
<1> QED
  BY <1>1, <1>2, PTL DEF Spec

(* Type correctness: every step of every handler and goroutine preserves   *)
(* the shape of the state.                                                 *)
THEOREM TypeCorrect == Spec => []TypeOK
BY TypeInvariance, PTL DEF TypeInv

-----------------------------------------------------------------------------
(* Acknowledged uploads stay pinned.                                       *)

(* The collector only holds CIDs its own store still has marked, and never *)
(* the one it is at twice: nobody else removes marks.                      *)
SweepMarked ==
    \A i \in Instances, c \in CIDs :
        /\ c \in worker[i].queue \/ c = worker[i].cur => Marked(i, c)
        /\ c = worker[i].cur => c \notin worker[i].queue

(* Nobody means to unpin what is owed or what is being uploaded clean.     *)
OwedQuiet == /\ \A c \in owed : Quiescent(c)
             /\ \A k \in Clients : \A c \in upload[k].clean : Quiescent(c)

(* What an upload has put on a node is still there.                        *)
CleanPinned ==
    \A k \in Clients : \A c \in upload[k].clean : \A n \in Nodes :
        /\ c \notin upload[k].left
        /\ c = upload[k].cur => n \notin upload[k].todo /\ ~upload[k].failed
        => c \in pins[n]

AckedInv == SweepMarked /\ OwedQuiet /\ CleanPinned /\ AckedStaysPinned

(* An unpin RPC takes at most its own CID away, from its own node.         *)
LEMMA NodeUnpinPins ==
    ASSUME pins \in [Nodes -> SUBSET CIDs], NEW n \in Nodes, NEW c, NEW ok \in BOOLEAN,
           NodeUnpin(n, c, ok)
    PROVE  /\ \A m \in Nodes : pins'[m] \subseteq pins[m]
           /\ \A m \in Nodes : pins[m] \ {c} \subseteq pins'[m]
           /\ ok => c \notin pins'[n]
<1>1. CASE pins' = pins /\ ~ok
  BY <1>1
<1>2. CASE pins' = [pins EXCEPT ![n] = @ \ {c}]
  BY <1>2
<1> QED
  BY <1>1, <1>2 DEF NodeUnpin

(* Every step preserves AckedInv.                                          *)
LEMMA AckedStep == TypeInv /\ TypeInv' /\ AckedInv /\ [Next]_vars => AckedInv'
<1> SUFFICES ASSUME TypeInv, TypeInv', AckedInv, [Next]_vars PROVE AckedInv'
  OBVIOUS
<1>t. TypeOK /\ TypeOK' /\ Shape /\ None \notin CIDs /\ None \notin Nat
  BY ConstantsAssumption DEF TypeInv
<1>1. ASSUME NEW k \in Clients, NEW i \in Instances, NEW r \in Roots, UploadBegin(k, i, r)
     PROVE  AckedInv'
  BY <1>1, <1>t, AddedByCIDs
  DEF AckedInv, SweepMarked, OwedQuiet, CleanPinned, AckedStaysPinned, Quiescent, Marked,
      TypeOK, UploadState, UploadBegin, MayAddNext
<1>2. ASSUME NEW k \in Clients, NEW i \in Instances, NEW c \in CIDs, DeleteBegin(k, i, c)
     PROVE  AckedInv'
  BY <1>2, <1>t
  DEF AckedInv, SweepMarked, OwedQuiet, CleanPinned, AckedStaysPinned, Quiescent, Marked,
      TypeOK, DeleteBegin
<1>3. ASSUME NEW k \in Clients, NEW n \in Nodes, NEW ok \in BOOLEAN, AddOnNode(k, n, ok)
     PROVE  AckedInv'
  <2>1. SweepMarked' /\ OwedQuiet'
    BY <1>3, <1>t DEF AckedInv, SweepMarked, OwedQuiet, Quiescent, Marked,
                      TypeOK, UploadState, AddOnNode
  <2>2. \A m \in Nodes : pins[m] \subseteq pins'[m]
    BY <1>3, <1>t DEF AddOnNode, NodeAdd, TypeOK
  <2>3. CleanPinned'
    BY <1>3, <1>t DEF AckedInv, CleanPinned, TypeOK, UploadState, AddOnNode, NodeAdd
  <2>4. AckedStaysPinned'
    BY <1>3, <2>2 DEF AckedInv, AckedStaysPinned, AddOnNode
  <2> QED
    BY <2>1, <2>3, <2>4 DEF AckedInv
<1>4. ASSUME NEW k \in Clients, UploadFail(k)
     PROVE  AckedInv'
  BY <1>4, <1>t
  DEF AckedInv, SweepMarked, OwedQuiet, CleanPinned, AckedStaysPinned, Quiescent, Marked,
      TypeOK, UploadFail, NoUpload
<1>5. ASSUME NEW k \in Clients, AddNext(k)
     PROVE  AckedInv'
  BY <1>5, <1>t
  DEF AckedInv, SweepMarked, OwedQuiet, CleanPinned, AckedStaysPinned, Quiescent, Marked,
      TypeOK, UploadState, AddNext, AddJoined, MayAddNext
<1>6. ASSUME NEW k \in Clients, UploadDone(k)
     PROVE  AckedInv'
  <2>1. SweepMarked' /\ OwedQuiet'
    BY <1>6, <1>t DEF AckedInv, SweepMarked, OwedQuiet, Quiescent, Marked,
                      TypeOK, UploadDone, NoUpload
  <2>2. CleanPinned'
    BY <1>6, <1>t DEF AckedInv, CleanPinned, TypeOK, UploadDone, NoUpload
  <2>3. \A c \in upload[k].clean, n \in Nodes : c \in pins[n]
    BY <1>6 DEF AckedInv, CleanPinned, UploadDone, AddJoined
  <2>4. AckedStaysPinned'
    BY <1>6, <2>3 DEF AckedInv, AckedStaysPinned, UploadDone
  <2> QED
    BY <2>1, <2>2, <2>4 DEF AckedInv
<1>7. ASSUME NEW t \in repl, ReplGiveUp(t)
     PROVE  AckedInv'
  BY <1>7, <1>t
  DEF AckedInv, SweepMarked, OwedQuiet, CleanPinned, AckedStaysPinned, Quiescent, Marked,
      TypeOK, ReplGiveUp
<1>8. ASSUME NEW t \in repl, NEW ok \in BOOLEAN, ReplPin(t, ok)
     PROVE  AckedInv'
  BY <1>8, <1>t
  DEF AckedInv, SweepMarked, OwedQuiet, CleanPinned, AckedStaysPinned, Quiescent, Marked,
      TypeOK, ReplPin, ReplTask
<1>9. ASSUME NEW k \in Clients, DeleteMark(k)
     PROVE  AckedInv'
  <2> DEFINE cids == CidsToUnpin(del[k])
  <2>1. \A i \in Instances, c \in CIDs :
           /\ entries[i][c] # None => entries'[i][c] # None
           /\ c \notin cids => entries'[i][c] = entries[i][c]
    BY <1>9, <1>t DEF DeleteMark, MarkAll, Marked, TypeOK
  <2>2. \A i \in Instances, c \in CIDs \ cids, n \in Nodes :
           unpinning'[<<i, c, n>>] = unpinning[<<i, c, n>>]
    BY <1>9, <1>t DEF DeleteMark, RPC
  <2>3. \A c \in CIDs \ cids : Quiescent(c) => Quiescent(c)'
    BY <2>1, <2>2 DEF Quiescent, Marked
  <2>4. \A j \in Clients : /\ upload'[j].clean = upload[j].clean \ cids
                          /\ upload'[j].left = upload[j].left
                          /\ upload'[j].cur = upload[j].cur
                          /\ upload'[j].todo = upload[j].todo
                          /\ upload'[j].failed = upload[j].failed
    BY <1>9, <1>t DEF DeleteMark, TypeOK, UploadState
  <2>5. owed' = owed \ cids /\ pins' = pins /\ worker' = worker
    BY <1>9 DEF DeleteMark
  <2>6. SweepMarked'
    BY <2>1, <2>5 DEF AckedInv, SweepMarked, Marked
  <2>7. OwedQuiet'
    BY <2>3, <2>4, <2>5, <1>t DEF AckedInv, OwedQuiet, TypeOK, UploadState
  <2>8. CleanPinned' /\ AckedStaysPinned'
    BY <2>4, <2>5 DEF AckedInv, CleanPinned, AckedStaysPinned
  <2> QED
    BY <2>6, <2>7, <2>8 DEF AckedInv
<1>10. ASSUME NEW i \in Instances, NEW c \in CIDs, NEW n \in Nodes, DeleteUnpin(i, c, n)
      PROVE  AckedInv'
  <2>1. ~Quiescent(c)
    BY <1>10 DEF DeleteUnpin, Quiescent
  <2>2. \A d \in CIDs \ {c}, m \in Nodes : d \in pins[m] => d \in pins'[m]
    BY <1>10, <1>t DEF DeleteUnpin, NodeUnpin, TypeOK
  <2>3. SweepMarked'
    BY <1>10 DEF AckedInv, SweepMarked, Marked, DeleteUnpin
  <2>4. OwedQuiet'
    BY <1>10, <1>t DEF AckedInv, OwedQuiet, Quiescent, Marked, DeleteUnpin, TypeOK, UploadState, RPC
  <2>5. c \notin owed /\ \A k \in Clients : c \notin upload[k].clean
    BY <2>1 DEF AckedInv, OwedQuiet
  <2>6. AckedStaysPinned'
    BY <1>10, <1>t, <2>2, <2>5 DEF AckedInv, AckedStaysPinned, DeleteUnpin, TypeOK
  <2>7. CleanPinned'
    BY <1>10, <1>t, <2>2, <2>5 DEF AckedInv, CleanPinned, DeleteUnpin, TypeOK, UploadState
  <2> QED
    BY <2>3, <2>4, <2>6, <2>7 DEF AckedInv
<1>11. ASSUME NEW i \in Instances, WorkerScan(i)
     PROVE  AckedInv'
  BY <1>11, <1>t
  DEF AckedInv, SweepMarked, OwedQuiet, CleanPinned, AckedStaysPinned, Quiescent, Marked,
      TypeOK, SweepState, WorkerScan, Expired, NoSweep
<1>12. ASSUME NEW i \in Instances, WorkerNext(i)
     PROVE  AckedInv'
  BY <1>12, <1>t
  DEF AckedInv, SweepMarked, OwedQuiet, CleanPinned, AckedStaysPinned, Quiescent, Marked,
      TypeOK, SweepState, WorkerNext
<1>13. ASSUME NEW i \in Instances, NEW n \in Nodes, NEW ok \in BOOLEAN, WorkerUnpin(i, n, ok)
      PROVE  AckedInv'
  <2>1. worker[i].cur \in CIDs /\ ~Quiescent(worker[i].cur)
    BY <1>13, <1>t DEF AckedInv, SweepMarked, WorkerUnpin, Quiescent, TypeOK, Shape, SweepState
  <2>2. \A d \in CIDs \ {worker[i].cur}, m \in Nodes : d \in pins[m] => d \in pins'[m]
    BY <1>13, <1>t DEF WorkerUnpin, NodeUnpin, TypeOK
  <2>3. SweepMarked'
    BY <1>13, <1>t DEF AckedInv, SweepMarked, Marked, WorkerUnpin, TypeOK, SweepState
  <2>4. OwedQuiet'
    BY <1>13 DEF AckedInv, OwedQuiet, Quiescent, Marked, WorkerUnpin
  <2>5. /\ worker[i].cur \notin owed
        /\ \A k \in Clients : worker[i].cur \notin upload[k].clean
    BY <2>1 DEF AckedInv, OwedQuiet
  <2>6. AckedStaysPinned'
    BY <1>13, <1>t, <2>2, <2>5 DEF AckedInv, AckedStaysPinned, WorkerUnpin, TypeOK
  <2>7. CleanPinned'
    BY <1>13, <1>t, <2>2, <2>5 DEF AckedInv, CleanPinned, WorkerUnpin, TypeOK, UploadState
  <2> QED
    BY <2>3, <2>4, <2>6, <2>7 DEF AckedInv
<1>14. ASSUME NEW i \in Instances, WorkerSkip(i)
     PROVE  AckedInv'
  BY <1>14, <1>t
  DEF AckedInv, SweepMarked, OwedQuiet, CleanPinned, AckedStaysPinned, Quiescent, Marked,
      TypeOK, SweepState, WorkerSkip, NoSweep
<1>15. ASSUME NEW i \in Instances, WorkerRemove(i)
      PROVE  AckedInv'
  <2>1. SweepMarked'
    BY <1>15, <1>t DEF AckedInv, SweepMarked, Marked, WorkerRemove, WorkerJoined, Remove,
                       NoSweep, TypeOK, SweepState
  <2>2. OwedQuiet'
    BY <1>15, <1>t DEF AckedInv, OwedQuiet, Quiescent, Marked, WorkerRemove, Remove, TypeOK,
                       UploadState
  <2>3. CleanPinned' /\ AckedStaysPinned'
    BY <1>15 DEF AckedInv, CleanPinned, AckedStaysPinned, WorkerRemove
  <2> QED
    BY <2>1, <2>2, <2>3 DEF AckedInv
<1>16. CASE Tick
  <2>1. \A i \in Instances, c \in CIDs : entries'[i][c] = None <=> entries[i][c] = None
    BY <1>16, <1>t DEF Tick, Marked, TypeOK, Age
  <2>2. SweepMarked'
    BY <1>16, <2>1 DEF AckedInv, SweepMarked, Marked, Tick
  <2>3. OwedQuiet'
    BY <1>16, <1>t, <2>1 DEF AckedInv, OwedQuiet, Quiescent, Marked, Tick, TypeOK, UploadState
  <2>4. CleanPinned' /\ AckedStaysPinned'
    BY <1>16 DEF AckedInv, CleanPinned, AckedStaysPinned, Tick
  <2> QED
    BY <2>2, <2>3, <2>4 DEF AckedInv
<1>17. ASSUME NEW i \in Instances, Restart(i)
      PROVE  AckedInv'
  <2>1. SweepMarked'
    BY <1>17, <1>t DEF AckedInv, SweepMarked, Marked, Restart, NoSweep, TypeOK
  <2>2. OwedQuiet'
    BY <1>17, <1>t DEF AckedInv, OwedQuiet, Quiescent, Marked, Restart, NoUpload, TypeOK,
                       UploadState, RPC
  <2>3. CleanPinned' /\ AckedStaysPinned'
    BY <1>17 DEF AckedInv, CleanPinned, AckedStaysPinned, Restart, NoUpload
  <2> QED
    BY <2>1, <2>2, <2>3 DEF AckedInv
<1>18. CASE UNCHANGED vars
  BY <1>18, <1>t
  DEF AckedInv, SweepMarked, OwedQuiet, CleanPinned, AckedStaysPinned, Quiescent, Marked,
      TypeOK, vars
<1> QED
  BY <1>1, <1>2, <1>3, <1>4, <1>5, <1>6, <1>7, <1>8, <1>9, <1>10, <1>11,
     <1>12, <1>13, <1>14, <1>15, <1>16, <1>17, <1>18
  DEF Next, Requests, Running, UploadSteps, ReplSteps, DeleteSteps, WorkerSteps

(* An acknowledged upload stays pinned on every node until it is deleted,  *)
(* for any number of instances, nodes, clients and CIDs: what HandleUpload *)
(* and HandleUploadVideo promise holds against every interleaving of the   *)
(* collectors, the unpin goroutines, replications, failures and restarts.  *)
THEOREM AckedStaysPinnedCorrect == Spec => []AckedStaysPinned
<1>1. Init => AckedInv
  BY ConstantsAssumption
  DEF Init, AckedInv, SweepMarked, OwedQuiet, CleanPinned, AckedStaysPinned, NoUpload, NoSweep
<1> QED
  BY <1>1, TypeInvariance, AckedStep, PTL DEF Spec, AckedInv

-----------------------------------------------------------------------------
(* No pin is forgotten.                                                    *)

Replicating(c) == \E t \in repl : t.cid = c

(* Instance i has c marked and will see its unpin through: replications of *)
(* c are at least as old as the mark, so none is left once it has expired, *)
(* and a sweep that has not failed so far leaves no pin behind.            *)
Covers(i, c) ==
    /\ Marked(i, c)
    /\ \A t \in repl : t.cid = c => t.age >= entries[i][c]
    /\ c \in worker[i].queue \/ c = worker[i].cur => ~Replicating(c)
    /\ c = worker[i].cur /\ ~worker[i].failed =>
          \A n \in Nodes \ worker[i].todo : c \notin pins[n]

Unpinned(c) == ~Replicating(c) /\ \A n \in Nodes : c \notin pins[n]

GoneInv ==
    \A c \in gone : /\ ~InFlight(c)
                    /\ Unpinned(c) \/ \E i \in Instances : Covers(i, c)

(* What a step must keep of a CID that was gone before it.                 *)
KeepsGone(c) ==
    /\ ~InFlight(c) => ~InFlight(c)'
    /\ Unpinned(c) => Unpinned(c)'
    /\ \A j \in Instances : Covers(j, c) => Covers(j, c)' \/ Unpinned(c)'

LEMMA KeepsGoneSuffices ==
    ASSUME GoneInv, gone' \subseteq gone, \A c \in gone' : KeepsGone(c)
    PROVE  GoneInv'
<1> SUFFICES ASSUME NEW c \in gone'
             PROVE  ~InFlight(c)' /\ (Unpinned(c)' \/ \E i \in Instances : Covers(i, c)')
  BY DEF GoneInv
<1>1. KeepsGone(c) /\ ~InFlight(c) /\ (Unpinned(c) \/ \E i \in Instances : Covers(i, c))
  BY DEF GoneInv
<1> QED
  BY <1>1 DEF KeepsGone

(* Every step preserves GoneInv.                                           *)
LEMMA GoneStep == TypeInv /\ TypeInv' /\ GoneInv /\ [Next]_vars => GoneInv'
<1> SUFFICES ASSUME TypeInv, TypeInv', GoneInv, [Next]_vars PROVE GoneInv'
  OBVIOUS
<1>t. /\ TypeOK /\ TypeOK' /\ Shape /\ None \notin CIDs /\ None \notin Nat
      /\ TTL \in Nat /\ ReplTimeout \in Nat /\ ReplTimeout <= TTL
  BY ConstantsAssumption, TTLAssumption, TimeoutAssumption DEF TypeInv
<1>1. ASSUME NEW k \in Clients, NEW i \in Instances, NEW r \in Roots, UploadBegin(k, i, r)
     PROVE  GoneInv'
  BY <1>1, <1>t
  DEF GoneInv, InFlight, Covers, Unpinned, Replicating, Marked,
      TypeOK, UploadState, UploadBegin
<1>2. ASSUME NEW k \in Clients, NEW i \in Instances, NEW c \in CIDs, DeleteBegin(k, i, c)
     PROVE  GoneInv'
  BY <1>2, <1>t
  DEF GoneInv, InFlight, Covers, Unpinned, Replicating, Marked,
      TypeOK, DeleteBegin
<1>3. ASSUME NEW k \in Clients, NEW n \in Nodes, NEW ok \in BOOLEAN, AddOnNode(k, n, ok)
     PROVE  GoneInv'
  <2> SUFFICES ASSUME NEW d \in gone PROVE KeepsGone(d)
    BY <1>3, KeepsGoneSuffices DEF AddOnNode
  <2>p. d # upload[k].cur
    BY <1>3, <1>t DEF GoneInv, InFlight, AddOnNode, Shape
  <2>1. ~InFlight(d) => ~InFlight(d)'
    BY <1>3, <1>t DEF InFlight, TypeOK, UploadState, AddOnNode
  <2>2. Unpinned(d) => Unpinned(d)'
    BY <1>3, <1>t, <2>p DEF Unpinned, Replicating, TypeOK, AddOnNode, NodeAdd
  <2>3. ASSUME NEW j \in Instances, Covers(j, d) PROVE Covers(j, d)' \/ Unpinned(d)'
    BY <1>3, <1>t, <2>3, <2>p DEF Covers, Replicating, Marked, TypeOK, AddOnNode, NodeAdd
  <2> QED
    BY <2>1, <2>2, <2>3 DEF KeepsGone
<1>4. ASSUME NEW k \in Clients, UploadFail(k)
     PROVE  GoneInv'
  BY <1>4, <1>t
  DEF GoneInv, InFlight, Covers, Unpinned, Replicating, Marked,
      TypeOK, UploadFail, NoUpload
<1>5. ASSUME NEW k \in Clients, AddNext(k)
     PROVE  GoneInv'
  <2>1. \A j \in Clients : upload'[j].root = upload[j].root
    BY <1>5, <1>t DEF AddNext, TypeOK, UploadState
  <2>2. UNCHANGED <<entries, pins, repl, worker, gone>>
    BY <1>5 DEF AddNext
  <2> QED
    BY <2>1, <2>2 DEF GoneInv, InFlight, Covers, Unpinned, Replicating, Marked
<1>6. ASSUME NEW k \in Clients, UploadDone(k)
     PROVE  GoneInv'
  <2> SUFFICES ASSUME NEW d \in gone PROVE KeepsGone(d)
    BY <1>6, KeepsGoneSuffices DEF UploadDone
  <2>p. d # upload[k].root
    BY <1>6, <1>t, AddedByCIDs DEF GoneInv, InFlight, UploadDone, AddJoined, TypeOK, UploadState
  <2>q. \A t \in repl' : t.cid = d => t \in repl
    BY <1>6, <2>p DEF UploadDone
  <2>1. ~InFlight(d) => ~InFlight(d)'
    BY <1>6, <1>t DEF InFlight, TypeOK, UploadState, UploadDone, NoUpload
  <2>2. Unpinned(d) => Unpinned(d)'
    BY <1>6, <1>t, <2>q DEF Unpinned, Replicating, TypeOK, UploadDone
  <2>3. ASSUME NEW j \in Instances, Covers(j, d) PROVE Covers(j, d)' \/ Unpinned(d)'
    BY <1>6, <1>t, <2>3, <2>q DEF Covers, Replicating, Marked, TypeOK, UploadDone
  <2> QED
    BY <2>1, <2>2, <2>3 DEF KeepsGone
<1>7. ASSUME NEW t \in repl, ReplGiveUp(t)
     PROVE  GoneInv'
  BY <1>7, <1>t
  DEF GoneInv, InFlight, Covers, Unpinned, Replicating, Marked,
      TypeOK, ReplGiveUp
<1>8. ASSUME NEW t \in repl, NEW ok \in BOOLEAN, ReplPin(t, ok)
     PROVE  GoneInv'
  <2> SUFFICES ASSUME NEW d \in gone PROVE KeepsGone(d)
    BY <1>8, KeepsGoneSuffices DEF ReplPin
  <2>1. ~InFlight(d) => ~InFlight(d)'
    BY <1>8, <1>t DEF InFlight, TypeOK, UploadState, ReplPin
  <2>2. Unpinned(d) => Unpinned(d)'
    BY <1>8, <1>t DEF Unpinned, Replicating, TypeOK, ReplPin, ReplTask
  <2>3. ASSUME NEW j \in Instances, Covers(j, d) PROVE Covers(j, d)' \/ Unpinned(d)'
    BY <1>8, <1>t, <2>3 DEF Covers, Replicating, Marked, TypeOK, ReplPin, ReplTask
  <2> QED
    BY <2>1, <2>2, <2>3 DEF KeepsGone
<1>9. ASSUME NEW k \in Clients, DeleteMark(k)
     PROVE  GoneInv'
  <2> DEFINE cids == CidsToUnpin(del[k])
  <2> SUFFICES ASSUME NEW d \in gone'
               PROVE  ~InFlight(d)' /\ (Unpinned(d)' \/ \E i \in Instances : Covers(i, d)')
    BY DEF GoneInv
  <2>1. pins' = pins /\ repl' = repl /\ worker' = worker
    BY <1>9 DEF DeleteMark
  <2>2. InFlight(d)' <=> InFlight(d)
    <3>1. \A j \in Clients : upload'[j].root = upload[j].root
      BY <1>9, <1>t DEF DeleteMark, TypeOK, UploadState
    <3> QED
      BY <3>1 DEF InFlight
  <2>3. \A i \in Instances :
           entries'[i][d] = IF i = del[k].inst /\ d \in cids THEN 0 ELSE entries[i][d]
    BY <1>9, <1>t DEF DeleteMark, MarkAll, TypeOK
  <2>r. \A t \in repl : t.age \in Nat
    BY <1>t DEF TypeOK, ReplTask
  <2>4. CASE d \in gone
    <3>1. ~InFlight(d)'
      BY <2>2, <2>4 DEF GoneInv
    <3>2. Unpinned(d) => Unpinned(d)'
      BY <2>1 DEF Unpinned, Replicating
    <3>3. ASSUME NEW j \in Instances, Covers(j, d) PROVE Covers(j, d)'
      <4>1. entries'[j][d] \in {0, entries[j][d]} /\ entries'[j][d] # None
        BY <1>t, <2>3, <3>3 DEF Covers, Marked
      <4>2. \A t \in repl' : t.cid = d => t.age >= entries'[j][d]
        BY <2>1, <2>r, <3>3, <4>1 DEF Covers
      <4> QED
        BY <2>1, <3>3, <4>1, <4>2 DEF Covers, Replicating, Marked
    <3> QED
      BY <2>4, <3>1, <3>2, <3>3 DEF GoneInv
  <2>5. CASE d \notin gone
    <3>1. d \in cids /\ ~InFlight(d) /\ d \notin Sweeping(del[k].inst)
      BY <1>9, <2>5 DEF DeleteMark
    <3>2. PICK i \in Instances : i = del[k].inst
      BY <1>9, <1>t DEF DeleteMark, Shape
    <3>3. d \in CIDs /\ d \notin worker[i].queue /\ d # worker[i].cur
      BY <3>1, <3>2, <1>t DEF Sweeping, TypeOK
    <3>4. entries'[i][d] = 0
      BY <2>3, <3>1, <3>2
    <3>5. Covers(i, d)'
      BY <1>t, <2>1, <2>r, <3>3, <3>4 DEF Covers, Marked
    <3> QED
      BY <2>2, <3>1, <3>5
  <2> QED
    BY <2>4, <2>5
<1>10. ASSUME NEW i \in Instances, NEW c \in CIDs, NEW n \in Nodes, DeleteUnpin(i, c, n)
     PROVE  GoneInv'
  <2> SUFFICES ASSUME NEW d \in gone PROVE KeepsGone(d)
    BY <1>10, KeepsGoneSuffices DEF DeleteUnpin
  <2>p. \A m \in Nodes : pins'[m] \subseteq pins[m]
    BY <1>10, <1>t, NodeUnpinPins DEF DeleteUnpin, TypeOK
  <2>1. ~InFlight(d) => ~InFlight(d)'
    BY <1>10, <1>t DEF InFlight, TypeOK, UploadState, DeleteUnpin
  <2>2. Unpinned(d) => Unpinned(d)'
    BY <1>10, <1>t, <2>p DEF Unpinned, Replicating, TypeOK, DeleteUnpin
  <2>3. ASSUME NEW j \in Instances, Covers(j, d) PROVE Covers(j, d)' \/ Unpinned(d)'
    BY <1>10, <1>t, <2>3, <2>p DEF Covers, Replicating, Marked, TypeOK, DeleteUnpin
  <2> QED
    BY <2>1, <2>2, <2>3 DEF KeepsGone
<1>11. ASSUME NEW i \in Instances, WorkerScan(i)
     PROVE  GoneInv'
  <2> SUFFICES ASSUME NEW d \in gone PROVE KeepsGone(d)
    BY <1>11, KeepsGoneSuffices DEF WorkerScan
  <2>1. ~InFlight(d) => ~InFlight(d)'
    BY <1>11, <1>t DEF InFlight, TypeOK, UploadState, WorkerScan
  <2>2. Unpinned(d) => Unpinned(d)'
    BY <1>11, <1>t DEF Unpinned, Replicating, TypeOK, WorkerScan, NoSweep, SweepState
  <2>3. ASSUME NEW j \in Instances, Covers(j, d) PROVE Covers(j, d)' \/ Unpinned(d)'
    <3>1. d \in Expired(i) /\ i = j => ~Replicating(d)
      <4>1. \A t \in repl : t.age \in Nat /\ t.age <= ReplTimeout
        BY <1>t DEF TypeOK, ReplTask
      <4>2. ASSUME d \in Expired(i), i = j PROVE entries[j][d] \in Nat /\ entries[j][d] > TTL
        BY <1>t, <4>2 DEF Expired, Marked, TypeOK, Age
      <4> QED
        BY <1>t, <2>3, <4>1, <4>2 DEF Covers, Replicating
    <3>2. d \in worker'[j].queue => d \in worker[j].queue \/ (d \in Expired(i) /\ i = j)
      BY <1>11, <1>t DEF WorkerScan, TypeOK, SweepState
    <3>3. /\ worker'[j].cur = worker[j].cur /\ worker'[j].failed = worker[j].failed
          /\ worker'[j].todo = worker[j].todo
      BY <1>11, <1>t DEF WorkerScan, TypeOK, SweepState
    <3> QED
      BY <1>11, <2>3, <3>1, <3>2, <3>3 DEF Covers, Replicating, Marked, WorkerScan
  <2> QED
    BY <2>1, <2>2, <2>3 DEF KeepsGone
<1>12. ASSUME NEW i \in Instances, WorkerNext(i)
     PROVE  GoneInv'
  <2> SUFFICES ASSUME NEW d \in gone PROVE KeepsGone(d)
    BY <1>12, KeepsGoneSuffices DEF WorkerNext
  <2>1. ~InFlight(d) => ~InFlight(d)'
    BY <1>12, <1>t DEF InFlight, TypeOK, UploadState, WorkerNext
  <2>2. Unpinned(d) => Unpinned(d)'
    BY <1>12, <1>t DEF Unpinned, Replicating, TypeOK, WorkerNext, SweepState
  <2>3. ASSUME NEW j \in Instances, Covers(j, d) PROVE Covers(j, d)' \/ Unpinned(d)'
    BY <1>12, <1>t, <2>3 DEF Covers, Replicating, Marked, TypeOK, WorkerNext, SweepState
  <2> QED
    BY <2>1, <2>2, <2>3 DEF KeepsGone
<1>13. ASSUME NEW i \in Instances, NEW n \in Nodes, NEW ok \in BOOLEAN, WorkerUnpin(i, n, ok)
     PROVE  GoneInv'
  <2> SUFFICES ASSUME NEW d \in gone PROVE KeepsGone(d)
    BY <1>13, KeepsGoneSuffices DEF WorkerUnpin
  <2>p. \A m \in Nodes : pins'[m] \subseteq pins[m]
    BY <1>13, <1>t, NodeUnpinPins DEF WorkerUnpin, TypeOK
  <2>1. ~InFlight(d) => ~InFlight(d)'
    BY <1>13, <1>t DEF InFlight, TypeOK, UploadState, WorkerUnpin
  <2>2. Unpinned(d) => Unpinned(d)'
    BY <1>13, <1>t, <2>p DEF Unpinned, Replicating, TypeOK, WorkerUnpin
  <2>3. ASSUME NEW j \in Instances, Covers(j, d) PROVE Covers(j, d)' \/ Unpinned(d)'
    <3>1. ok => worker[i].cur \notin pins'[n]
      BY <1>13, <1>t DEF WorkerUnpin, NodeUnpin, TypeOK
    <3>2. CASE i # j
      BY <1>13, <1>t, <2>3, <2>p, <3>2 DEF Covers, Replicating, Marked, WorkerUnpin, TypeOK
    <3>3. CASE i = j
      <4>1. /\ worker'[j].queue = worker[j].queue /\ worker'[j].cur = worker[j].cur
            /\ worker'[j].todo = worker[j].todo \ {n}
            /\ worker'[j].failed = IF ok THEN worker[j].failed ELSE TRUE
        BY <1>13, <1>t, <3>3 DEF WorkerUnpin, TypeOK, SweepState
      <4>2. d = worker'[j].cur /\ ~worker'[j].failed =>
               \A m \in Nodes \ worker'[j].todo : d \notin pins'[m]
        BY <2>3, <2>p, <3>1, <3>3, <4>1 DEF Covers
      <4> QED
        BY <1>13, <2>3, <4>1, <4>2 DEF Covers, Replicating, Marked, WorkerUnpin
    <3> QED
      BY <3>2, <3>3
  <2> QED
    BY <2>1, <2>2, <2>3 DEF KeepsGone
<1>14. ASSUME NEW i \in Instances, WorkerSkip(i)
     PROVE  GoneInv'
  <2> SUFFICES ASSUME NEW d \in gone PROVE KeepsGone(d)
    BY <1>14, KeepsGoneSuffices DEF WorkerSkip
  <2>1. ~InFlight(d) => ~InFlight(d)'
    BY <1>14, <1>t DEF InFlight, TypeOK, UploadState, WorkerSkip
  <2>2. Unpinned(d) => Unpinned(d)'
    BY <1>14, <1>t DEF Unpinned, Replicating, TypeOK, WorkerSkip, NoSweep, SweepState
  <2>3. ASSUME NEW j \in Instances, Covers(j, d) PROVE Covers(j, d)' \/ Unpinned(d)'
    BY <1>14, <1>t, <2>3 DEF Covers, Replicating, Marked, TypeOK, WorkerSkip, NoSweep, SweepState
  <2> QED
    BY <2>1, <2>2, <2>3 DEF KeepsGone
<1>15. ASSUME NEW i \in Instances, WorkerRemove(i)
     PROVE  GoneInv'
  <2> SUFFICES ASSUME NEW d \in gone PROVE KeepsGone(d)
    BY <1>15, KeepsGoneSuffices DEF WorkerRemove
  <2>1. ~InFlight(d) => ~InFlight(d)'
    BY <1>15, <1>t DEF InFlight, TypeOK, UploadState, WorkerRemove
  <2>2. Unpinned(d) => Unpinned(d)'
    BY <1>15, <1>t DEF Unpinned, Replicating, TypeOK, WorkerRemove
  <2>3. ASSUME NEW j \in Instances, Covers(j, d) PROVE Covers(j, d)' \/ Unpinned(d)'
    <3>1. CASE i = j /\ d = worker[i].cur
      <4>1. Unpinned(d)
        BY <1>15, <2>3, <3>1 DEF Covers, Unpinned, WorkerRemove, WorkerJoined
      <4> QED
        BY <2>2, <4>1
    <3>2. CASE ~(i = j /\ d = worker[i].cur)
      <4>1. entries'[j][d] = entries[j][d]
        BY <1>15, <1>t, <3>2 DEF WorkerRemove, Remove, TypeOK
      <4>2. /\ d \in worker'[j].queue => d \in worker[j].queue
            /\ d = worker'[j].cur => i # j /\ worker'[j] = worker[j]
        BY <1>15, <1>t DEF WorkerRemove, NoSweep, TypeOK, SweepState
      <4> QED
        BY <1>15, <2>3, <4>1, <4>2 DEF Covers, Replicating, Marked, WorkerRemove
    <3> QED
      BY <3>1, <3>2
  <2> QED
    BY <2>1, <2>2, <2>3 DEF KeepsGone
<1>16. CASE Tick
  <2> SUFFICES ASSUME NEW d \in gone PROVE KeepsGone(d)
    BY <1>16, KeepsGoneSuffices DEF Tick
  <2>p. \A t \in repl' : \E u \in repl : t.cid = u.cid /\ t.age = u.age + 1 /\ u.age \in Nat
    <3> SUFFICES ASSUME NEW t \in repl'
                 PROVE  \E u \in repl : t.cid = u.cid /\ t.age = u.age + 1 /\ u.age \in Nat
      OBVIOUS
    <3>1. PICK u \in repl : t = [u EXCEPT !.age = @ + 1]
      BY <1>16 DEF Tick
    <3>2. u \in ReplTask
      BY <1>t DEF TypeOK
    <3> QED
      BY <3>1, <3>2 DEF ReplTask
  <2>1. ~InFlight(d) => ~InFlight(d)'
    BY <1>16, <1>t DEF InFlight, TypeOK, UploadState, Tick
  <2>2. Unpinned(d) => Unpinned(d)'
    BY <1>16, <2>p DEF Unpinned, Replicating, Tick
  <2>3. ASSUME NEW j \in Instances, Covers(j, d) PROVE Covers(j, d)' \/ Unpinned(d)'
    <3>1. entries'[j][d] \in Nat /\ entries[j][d] \in Nat /\ entries'[j][d] <= entries[j][d] + 1
      BY <1>16, <1>t, <2>3 DEF Tick, Covers, Marked, TypeOK, Age
    <3>3. Replicating(d)' => Replicating(d)
      BY <2>p DEF Replicating
    <3>4. \A t \in repl' : t.cid = d => t.age >= entries'[j][d]
      BY <2>3, <2>p, <3>1 DEF Covers
    <3> QED
      BY <1>16, <1>t, <2>3, <3>1, <3>3, <3>4 DEF Covers, Marked, Tick
  <2> QED
    BY <2>1, <2>2, <2>3 DEF KeepsGone
<1>17. ASSUME NEW i \in Instances, Restart(i)
     PROVE  GoneInv'
  <2> SUFFICES ASSUME NEW d \in gone PROVE KeepsGone(d)
    BY <1>17, KeepsGoneSuffices DEF Restart
  <2>1. ~InFlight(d) => ~InFlight(d)'
    BY <1>17, <1>t DEF InFlight, TypeOK, UploadState, Restart, NoUpload
  <2>2. Unpinned(d) => Unpinned(d)'
    BY <1>17, <1>t DEF Unpinned, Replicating, TypeOK, Restart, NoSweep
  <2>3. ASSUME NEW j \in Instances, Covers(j, d) PROVE Covers(j, d)' \/ Unpinned(d)'
    BY <1>17, <1>t, <2>3 DEF Covers, Replicating, Marked, TypeOK, Restart, NoSweep
  <2> QED
    BY <2>1, <2>2, <2>3 DEF KeepsGone
<1>18. CASE UNCHANGED vars
  BY <1>18, <1>t
  DEF GoneInv, InFlight, Covers, Unpinned, Replicating, Marked,
      TypeOK, vars
<1> QED
  BY <1>1, <1>2, <1>3, <1>4, <1>5, <1>6, <1>7, <1>8, <1>9, <1>10, <1>11,
     <1>12, <1>13, <1>14, <1>15, <1>16, <1>17, <1>18
  DEF Next, Requests, Running, UploadSteps, ReplSteps, DeleteSteps, WorkerSteps

(* A pin of a deleted CID always has a mark that will have it unpinned:    *)
(* HandleDelete's best-effort unpin, a failed sweep, a crash or a late     *)
(* replication never leave one that everybody has forgotten.  The proof    *)
(* needs the assumption that a replication lives no longer than UNPIN_TTL. *)
THEOREM NoForgottenPinCorrect == Spec => []NoForgottenPin
<1>1. Init => GoneInv
  BY DEF Init, GoneInv
<1>2. GoneInv => NoForgottenPin
  BY DEF GoneInv, NoForgottenPin, Unpinned, Covers
<1> QED
  BY <1>1, <1>2, TypeInvariance, GoneStep, PTL DEF Spec

-----------------------------------------------------------------------------
(* The stores.                                                             *)

(* What each step does to the marks and the groups of instance i.          *)
LEMMA StoreStep ==
    ASSUME TypeInv, [Next]_vars, NEW i \in Instances
    PROVE  [Store(i)!Next]_(Store(i)!vars)
<1> DEFINE marks == {c \in CIDs : Marked(i, c)}
<1>t. /\ TypeOK /\ Shape /\ None \notin CIDs /\ None \notin Nat /\ None \notin Instances
      /\ TTL \in Nat
  BY ConstantsAssumption, TTLAssumption DEF TypeInv
<1>1. ASSUME marks' = marks, groups'[i] = groups[i] PROVE [Store(i)!Next]_(Store(i)!vars)
  BY <1>1 DEF Store!vars
<1>2. ASSUME Store(i)!Call PROVE [Store(i)!Next]_(Store(i)!vars)
  BY <1>2 DEF Store!Next
<1>3. ASSUME UNCHANGED <<entries, groups>> PROVE [Store(i)!Next]_(Store(i)!vars)
  BY <1>1, <1>3 DEF Marked
<1>4. ASSUME NEW k \in Clients, UploadDone(k) PROVE [Store(i)!Next]_(Store(i)!vars)
  <2>1. upload[k].root \in Roots /\ entries' = entries
    BY <1>4, <1>t DEF UploadDone, AddJoined, TypeOK, UploadState
  <2>2. CASE upload[k].root \in Masters /\ upload[k].inst = i
    <3>1. groups'[i] = [groups[i] EXCEPT ![upload[k].root] = AllCIDs[upload[k].root]]
      BY <1>4, <1>t, <2>2 DEF UploadDone, TypeOK
    <3>2. Store(i)!Track(upload[k].root, AllCIDs[upload[k].root])
      BY <2>1, <3>1 DEF Store!Track, Marked
    <3>3. upload[k].root \in CIDs /\ AllCIDs[upload[k].root] \in SUBSET CIDs
      BY <2>1, <2>2, ConstantsAssumption
    <3> QED
      BY <1>2, <3>2, <3>3 DEF Store!Call
  <2>3. CASE ~(upload[k].root \in Masters /\ upload[k].inst = i)
    <3>1. groups'[i] = groups[i]
      BY <1>4, <1>t, <2>3 DEF UploadDone, TypeOK
    <3> QED
      BY <1>1, <2>1, <3>1 DEF Marked
  <2> QED
    BY <2>2, <2>3
<1>5. ASSUME NEW k \in Clients, DeleteMark(k) PROVE [Store(i)!Next]_(Store(i)!vars)
  <2> DEFINE d == del[k]
             cids == CidsToUnpin(d)
  <2>1. d \in DeleteState /\ d.cid \in CIDs /\ d.group \in SUBSET CIDs /\ d.inst \in Instances
    BY <1>5, <1>t DEF DeleteMark, TypeOK, Shape, DeleteState
  <2>2. /\ entries' = [entries EXCEPT ![d.inst] =
                         [c \in CIDs |-> IF c \in cids THEN 0 ELSE entries[d.inst][c]]]
        /\ groups' = IF d.group # {} THEN [groups EXCEPT ![d.inst][d.cid] = d.group] ELSE groups
    BY <1>5 DEF DeleteMark, MarkAll
  <2>3. CASE d.inst # i
    <3>1. entries'[i] = entries[i] /\ groups'[i] = groups[i]
      BY <1>t, <2>1, <2>2, <2>3 DEF TypeOK
    <3> QED
      BY <1>1, <3>1 DEF Marked
  <2>4. CASE d.inst = i
    <3>1. \A c \in CIDs : entries'[i][c] = IF c \in cids THEN 0 ELSE entries[i][c]
      BY <1>t, <2>1, <2>2, <2>4 DEF TypeOK
    <3>2. 0 # None
      BY <1>t
    <3>3. cids \in SUBSET CIDs
      BY <2>1 DEF CidsToUnpin
    <3>4. marks' = marks \cup cids
      BY <3>1, <3>2, <3>3 DEF Marked
    <3>5. CASE d.group # {}
      <4>1. groups'[i] = [groups[i] EXCEPT ![d.cid] = d.group] /\ cids = d.group
        BY <1>t, <2>1, <2>2, <2>4, <3>5 DEF TypeOK, CidsToUnpin
      <4>2. Store(i)!MarkGroup(d.cid, d.group)
        BY <3>4, <4>1 DEF Store!MarkGroup
      <4> QED
        BY <1>2, <2>1, <4>2 DEF Store!Call
    <3>6. CASE d.group = {}
      <4>1. groups'[i] = groups[i] /\ cids = {d.cid}
        BY <2>2, <3>6 DEF CidsToUnpin
      <4>2. Store(i)!Mark({d.cid})
        BY <3>4, <4>1 DEF Store!Mark
      <4> QED
        BY <1>2, <2>1, <4>2 DEF Store!Call
    <3> QED
      BY <3>5, <3>6
  <2> QED
    BY <2>3, <2>4
<1>6. ASSUME NEW j \in Instances, WorkerRemove(j) PROVE [Store(i)!Next]_(Store(i)!vars)
  <2> DEFINE c == worker[j].cur
  <2>1. c \in CIDs
    BY <1>6, <1>t DEF WorkerRemove, WorkerJoined, TypeOK, SweepState
  <2>2. entries' = [entries EXCEPT ![j][c] = None] /\ groups' = [groups EXCEPT ![j][c] = {}]
    BY <1>6 DEF WorkerRemove, Remove
  <2> HIDE DEF c
  <2>3. CASE j # i
    <3>1. entries'[i] = entries[i] /\ groups'[i] = groups[i]
      BY <1>t, <2>2, <2>3 DEF TypeOK
    <3> QED
      BY <1>1, <3>1 DEF Marked
  <2>4. CASE j = i
    <3>1. entries'[i] = [entries[i] EXCEPT ![c] = None] /\ groups'[i] = [groups[i] EXCEPT ![c] = {}]
      BY <1>t, <2>2, <2>4 DEF TypeOK
    <3>2. marks' = marks \ {c}
      BY <1>t, <3>1 DEF Marked, TypeOK
    <3>3. Store(i)!Forget(c)
      BY <3>1, <3>2 DEF Store!Forget
    <3> QED
      BY <1>2, <2>1, <3>3 DEF Store!Call
  <2> QED
    BY <2>3, <2>4
<1>7. CASE Tick
  <2>1. \A c \in CIDs : entries'[i][c] = IF Marked(i, c) /\ entries[i][c] <= TTL
                                         THEN entries[i][c] + 1 ELSE entries[i][c]
    BY <1>7 DEF Tick
  <2>2. \A c \in CIDs : Marked(i, c) => entries[i][c] \in Nat
    BY <1>t DEF TypeOK, Marked, Age
  <2>3. marks' = marks
    BY <1>t, <2>1, <2>2 DEF Marked
  <2>4. groups' = groups
    BY <1>7 DEF Tick
  <2> QED
    BY <1>1, <2>3, <2>4
<1> QED
  BY <1>3, <1>4, <1>5, <1>6, <1>7
     DEF Next, Requests, Running, UploadSteps, ReplSteps, DeleteSteps, WorkerSteps, vars,
         UploadBegin, DeleteBegin, AddOnNode, UploadFail, AddNext, ReplPin, ReplGiveUp,
         DeleteUnpin, WorkerScan, WorkerNext, WorkerUnpin, WorkerSkip, Restart

(* The stores start empty.                                                 *)
LEMMA StoreStart == ASSUME Init, NEW i \in Instances PROVE Store(i)!Init
BY DEF Init, Store!Init, Marked

(* Every step of the system is at most one call to each store.             *)
THEOREM StoreCallsCorrect == Spec => StoreCalls
<1>1. TypeInv /\ [Next]_vars =>
        [\A i \in Instances : \/ UNCHANGED <<entries[i], groups[i]>>
                              \/ [Store(i)!Next]_(Store(i)!vars)]_vars
  BY StoreStep
<1> QED
  BY <1>1, TypeInvariance, PTL DEF Spec, StoreCalls

(* The stores of the instances are MarkStores, which UnpinStore implements *)
(* until a fault hits a save or the read of a start.                       *)
THEOREM UsesMarkStores == ASSUME NEW i \in Instances PROVE Spec => Store(i)!Spec
<1>1. Init => Store(i)!Init
  BY StoreStart
<1>2. TypeInv /\ [Next]_vars => [Store(i)!Next]_(Store(i)!vars)
  BY StoreStep
<1> QED
  BY <1>1, <1>2, TypeInvariance, PTL DEF Spec, Store!Spec

-----------------------------------------------------------------------------
(* UnpinStore, for any set of CIDs and groups.                             *)

(* Until a fault hits a save or the read of a start, every save has        *)
(* succeeded, the configured file is in use, and it is parseable except    *)
(* between Truncate and Write.                                             *)
MainGood ==
    ~hit => /\ path = "main"
            /\ phase # "nil"
            /\ phase # "write" => Loadable(file["main"])
            /\ ~unsaved

UnpinInv == StoreTypeOK /\ MainGood /\ FileFollowsMemory

USE StoreAssumption

(* What is loaded from a file are maps.                                    *)
LEMMA LoadedType == \A f \in Files : Loaded(f) \in Maps
<1> SUFFICES ASSUME NEW f \in Files PROVE Loaded(f) \in Maps
  OBVIOUS
<1>1. Empty \in Maps /\ f.maps \in Maps
  BY DEF Empty, Maps, Files
<1>2. [Empty EXCEPT !.entries = f.maps.entries] \in Maps
  BY <1>1 DEF Empty, Maps
<1> QED
  BY <1>1, <1>2 DEF Loaded

(* A file just written is read back as it was.                             *)
LEMMA WrittenIsLoaded == \A m \in Maps : /\ Loadable(File("new", m))
                                         /\ Loaded(File("new", m)) = m
                                         /\ File("new", m) \in Files
BY DEF Loadable, Loaded, File, Files

(* A start that reads what it asks for takes the configured file unless it *)
(* is torn; a file that opens is parseable.                                *)
LEMMA StartFacts ==
    ASSUME StoreTypeOK, Start
    PROVE  /\ path' \in Paths /\ phase' \in {"idle", "nil"} /\ hit' \in BOOLEAN
           /\ UNCHANGED <<file, answered>> /\ unsaved' = FALSE
           /\ phase' = "idle" => Loadable(file[path']) /\ mem' = Loaded(file[path'])
           /\ phase' = "nil" => mem' = Empty
           /\ ~Loadable(file["main"]) => path' = "tmp"
           /\ ~hit' => ~hit
           /\ ~hit' /\ Loadable(file["main"]) => path' = "main" /\ phase' = "idle"
<1>1. PICK readable \in [Paths -> BOOLEAN] :
        /\ \/ Opens("main", readable["main"]) /\ path' = "main"
           \/ ~Opens("main", readable["main"]) /\ path' = "tmp"
        /\ \/ Opens(path', readable[path']) /\ phase' = "idle" /\ mem' = Loaded(file[path'])
           \/ ~Opens(path', readable[path']) /\ phase' = "nil" /\ mem' = Empty
        /\ hit' = (hit \/ \E p \in Paths : ~readable[p])
  BY Zenon DEF Start
<1>2. "main" \in Paths /\ "tmp" \in Paths /\ path' \in Paths
  BY <1>1 DEF Paths
<1>3. ASSUME NEW p \in Paths
      PROVE  /\ Opens(p, readable[p]) => Loadable(file[p])
             /\ readable[p] /\ Loadable(file[p]) => Opens(p, readable[p])
  BY DEF Opens, Loadable
<1>4. hit' \in BOOLEAN /\ (~hit' => ~hit /\ \A p \in Paths : readable[p])
  BY <1>1 DEF StoreTypeOK
<1>5. UNCHANGED <<file, answered>> /\ unsaved' = FALSE
  BY DEF Start
<1> QED
  BY <1>1, <1>2, <1>3, <1>4, <1>5

(* The state keeps its shape, whatever goes wrong.                         *)
LEMMA UnpinTypeStep == StoreTypeOK /\ [StoreNext]_storeVars => StoreTypeOK'
<1> SUFFICES ASSUME StoreTypeOK, [StoreNext]_storeVars PROVE StoreTypeOK'
  OBVIOUS
<1>0. Empty \in Maps /\ File("torn", Empty) \in Files
  BY DEF Empty, Maps, File, Files
<1>1. CASE Start
  <2>1. \A p \in Paths : file[p] \in Files
    BY DEF StoreTypeOK
  <2>2. mem' \in Maps
    BY <1>0, <1>1, <2>1, LoadedType, StartFacts
  <2> QED
    BY <1>1, <2>2, StartFacts DEF StoreTypeOK
<1>2. ASSUME NEW e \in SUBSET StoreCIDs, NEW g \in [StoreCIDs -> SUBSET StoreCIDs], Change(e, g)
      PROVE  StoreTypeOK'
  BY <1>2 DEF Change, StoreTypeOK, Maps
<1>3. mem.entries \in SUBSET StoreCIDs /\ mem.groups \in [StoreCIDs -> SUBSET StoreCIDs]
  BY DEF StoreTypeOK, Maps
<1>4. ASSUME NEW c \in StoreCIDs, NEW g \in Groups, AddGroup(c, g) \/ TrackGroup(c, g)
      PROVE  StoreTypeOK'
  BY <1>2, <1>3, <1>4 DEF AddGroup, TrackGroup
<1>5. ASSUME NEW c \in StoreCIDs, Add(c) \/ StoreRemove(c) PROVE StoreTypeOK'
  BY <1>2, <1>3, <1>5 DEF Add, StoreRemove
<1>6. CASE Truncate
  BY <1>0, <1>6 DEF Truncate, StoreTypeOK
<1>7. CASE Write
  <2>1. File("new", mem) \in Files
    BY WrittenIsLoaded DEF StoreTypeOK
  <2>2. mem.entries \in SUBSET StoreCIDs
    BY <1>3
  <2> QED
    BY <1>7, <2>1, <2>2 DEF Write, StoreTypeOK
<1>8. CASE SaveFails
  BY <1>3, <1>8 DEF SaveFails, StoreTypeOK
<1>9. CASE Crash
  BY <1>0, <1>9 DEF Crash, StoreTypeOK
<1>10. CASE UNCHANGED storeVars
  BY <1>10 DEF storeVars, StoreTypeOK
<1> QED
  BY <1>1, <1>4, <1>5, <1>6, <1>7, <1>8, <1>9, <1>10 DEF StoreNext

(* The maps exist from the start.                                          *)
LEMMA UnpinInitType == StoreInit => StoreTypeOK
<1> SUFFICES ASSUME StoreInit PROVE StoreTypeOK
  OBVIOUS
<1>1. Empty \in Maps
  BY DEF Empty, Maps
<1>2. PICK s \in SUBSET StoreCIDs, k \in {"absent", "old"} :
        /\ file = [p \in Paths |-> IF p = "main" THEN File(k, [Empty EXCEPT !.entries = s])
                                                 ELSE File("absent", Empty)]
        /\ answered = s
  BY DEF StoreInit
<1>3. [Empty EXCEPT !.entries = s] \in Maps
  BY <1>1 DEF Empty, Maps
<1>4. file \in [Paths -> Files]
  BY <1>1, <1>2, <1>3 DEF File, Files
<1> QED
  BY <1>1, <1>2, <1>4 DEF StoreInit, StoreTypeOK, Paths

(* Both maps exist, whatever was loaded and whatever failed.               *)
THEOREM UnpinTypeCorrect == StoreSpec => []StoreTypeOK
BY UnpinInitType, UnpinTypeStep, PTL DEF StoreSpec

-----------------------------------------------------------------------------
(* The file follows the memory.                                            *)
LEMMA UnpinStep == UnpinInv /\ [StoreNext]_storeVars => UnpinInv'
<1> SUFFICES ASSUME UnpinInv, [StoreNext]_storeVars PROVE UnpinInv'
  OBVIOUS
<1>1. StoreTypeOK'
  BY UnpinTypeStep DEF UnpinInv
<1> SUFFICES MainGood' /\ FileFollowsMemory'
  BY <1>1 DEF UnpinInv
<1> USE DEF UnpinInv, MainGood, FileFollowsMemory
<1>2. CASE Start
  BY <1>2, StartFacts DEF Start
<1>3. ASSUME NEW e, NEW g, Change(e, g) PROVE MainGood' /\ FileFollowsMemory'
  BY <1>3 DEF Change
<1>4. CASE Truncate
  BY <1>4 DEF Truncate
<1>5. CASE Write
  <2>1. file'[path] = File("new", mem) /\ mem \in Maps
    BY <1>5 DEF Write, StoreTypeOK, Paths
  <2> QED
    BY <1>5, <2>1, WrittenIsLoaded DEF Write
<1>6. CASE SaveFails
  BY <1>6 DEF SaveFails
<1>7. CASE Crash
  BY <1>7 DEF Crash
<1>8. CASE UNCHANGED storeVars
  BY <1>8 DEF storeVars
<1> QED
  BY <1>2, <1>3, <1>4, <1>5, <1>6, <1>7, <1>8 DEF StoreNext, Add, AddGroup, TrackGroup, StoreRemove

(* The first start finds a file that can be read.                          *)
LEMMA UnpinInit == StoreInit => UnpinInv
<1> SUFFICES ASSUME StoreInit PROVE MainGood /\ FileFollowsMemory
  BY UnpinInitType DEF UnpinInv
<1>1. Loadable(file["main"])
  BY DEF StoreInit, Loadable, File, Paths
<1> QED
  BY <1>1 DEF StoreInit, MainGood, FileFollowsMemory

(* Every step of the store is a step of MarkStore or changes nothing of    *)
(* it: the call takes effect when it takes the lock.                       *)
LEMMA UnpinStepMaps ==
    ASSUME UnpinInv, UnpinInv', [StoreNext]_storeVars
    PROVE  [Durable!Next]_Durable!vars
<1> DEFINE marks == IF phase = "down" THEN Loaded(file["main"]).entries ELSE mem.entries
           tracked == IF phase = "down" THEN Loaded(file["main"]).groups ELSE mem.groups
<1> SUFFICES ASSUME ~hit'
             PROVE  \/ Durable!Call
                    \/ marks' = marks /\ tracked' = tracked
  <2>1. hit \in BOOLEAN /\ hit' \in BOOLEAN
    BY DEF UnpinInv, StoreTypeOK
  <2>2. ~hit' => ~hit
    BY <2>1, StartFacts DEF UnpinInv, StoreNext, storeVars, Truncate, Write, SaveFails, Crash,
                            Change, Add, StoreRemove, AddGroup, TrackGroup
  <2> QED
    BY <2>1, <2>2 DEF Durable!Next, Durable!vars
<1>0. ~hit
  BY StartFacts DEF StoreNext, storeVars, Truncate, Write, SaveFails, Crash, Change,
         Add, StoreRemove, AddGroup, TrackGroup, UnpinInv, StoreTypeOK
<1>1. ASSUME NEW e, NEW g, Change(e, g)
      PROVE  /\ phase # "down" /\ phase' # "down"
             /\ marks = mem.entries /\ tracked = mem.groups
             /\ marks' = e /\ tracked' = g
  BY <1>1 DEF Change
<1>2. ASSUME NEW c \in StoreCIDs, Add(c) PROVE Durable!Call
  <2>1. Durable!Mark({c})
    BY <1>1, <1>2 DEF Add, Durable!Mark
  <2> QED
    BY <2>1 DEF Durable!Call
<1>3. ASSUME NEW c \in StoreCIDs, StoreRemove(c) PROVE Durable!Call
  <2>1. Durable!Forget(c)
    BY <1>1, <1>3 DEF StoreRemove, Durable!Forget
  <2> QED
    BY <2>1 DEF Durable!Call
<1>4. ASSUME NEW c \in StoreCIDs, NEW g \in Groups, AddGroup(c, g) PROVE Durable!Call
  <2>1. Durable!MarkGroup(c, g)
    BY <1>1, <1>4 DEF AddGroup, Durable!MarkGroup
  <2> QED
    BY <2>1 DEF Durable!Call
<1>5. ASSUME NEW c \in StoreCIDs, NEW g \in Groups, TrackGroup(c, g) PROVE Durable!Call
  <2>1. Durable!Track(c, g)
    BY <1>1, <1>5 DEF TrackGroup, Durable!Track
  <2> QED
    BY <2>1 DEF Durable!Call
<1>6. CASE Start
  <2>1. path' = "main" /\ phase' = "idle" /\ mem' = Loaded(file["main"])
    BY <1>0, <1>6, StartFacts DEF Start, UnpinInv, MainGood
  <2> QED
    BY <1>6, <2>1 DEF Start
<1>7. CASE Crash
  BY <1>0, <1>7 DEF Crash, UnpinInv, StoreTypeOK, MainGood, FileFollowsMemory
<1>8. CASE Truncate \/ Write \/ SaveFails
  BY <1>8 DEF Truncate, Write, SaveFails
<1>9. CASE UNCHANGED storeVars
  BY <1>9 DEF storeVars
<1> QED
  BY <1>2, <1>3, <1>4, <1>5, <1>6, <1>7, <1>8, <1>9 DEF StoreNext

(* The store starts as a MarkStore: with the marks of its file.            *)
LEMMA UnpinInitMaps == StoreInit => Durable!Init
<1> SUFFICES ASSUME StoreInit PROVE Durable!Init
  OBVIOUS
<1>1. PICK s \in SUBSET StoreCIDs, k \in {"absent", "old"} :
        /\ k = "absent" => s = {}
        /\ file = [p \in Paths |-> IF p = "main" THEN File(k, [Empty EXCEPT !.entries = s])
                                                 ELSE File("absent", Empty)]
  BY DEF StoreInit
<1>2. file["main"] = File(k, [Empty EXCEPT !.entries = s]) /\ phase = "down"
  BY <1>1 DEF StoreInit, Paths
<1>3. Loaded(file["main"]).entries = s /\ Loaded(file["main"]).groups = [c \in StoreCIDs |-> {}]
  BY <1>1, <1>2 DEF Loaded, File, Empty
<1> QED
  BY <1>2, <1>3 DEF StoreInit, Durable!Init

(* Whenever the lock is free a restart would find what is in memory.       *)
THEOREM FileFollowsMemoryCorrect ==
    StoreSpec => []FileFollowsMemory
<1>1. UnpinInv /\ [StoreNext]_storeVars => UnpinInv'
  BY UnpinStep
<1>2. UnpinInv => FileFollowsMemory
  BY DEF UnpinInv
<1> QED
  BY <1>1, <1>2, UnpinInit, PTL DEF StoreSpec

(* The store implements the durable, atomic one.                           *)
THEOREM ImplementsMarkStoreCorrect ==
    StoreSpec => ImplementsMarkStore
<1>1. UnpinInv /\ [StoreNext]_storeVars => UnpinInv'
  BY UnpinStep
<1>2. UnpinInv /\ UnpinInv' /\ [StoreNext]_storeVars => [Durable!Next]_Durable!vars
  BY UnpinStepMaps
<1> QED
  BY <1>1, <1>2, UnpinInit, UnpinInitMaps, PTL DEF StoreSpec, ImplementsMarkStore, Durable!Spec

(* The file that is loaded holds what was answered before.                 *)
FileHeld == ~hit => answered \subseteq IF phase = "down" THEN Loaded(file["main"]).entries
                                                       ELSE mem.entries

(* Whatever restarts there are between the saves, the process that is up   *)
(* holds every mark it has answered and not collected, until a save or the *)
(* read of a start is hit.                                                 *)
THEOREM AnsweredHeldUnhitCorrect == StoreSpec => []AnsweredHeldUnhit
<1>1. StoreInit => FileHeld
  <2> SUFFICES ASSUME StoreInit PROVE FileHeld
    OBVIOUS
  <2>1. PICK s \in SUBSET StoreCIDs, k \in {"absent", "old"} :
          /\ k = "absent" => s = {}
          /\ file = [p \in Paths |-> IF p = "main" THEN File(k, [Empty EXCEPT !.entries = s])
                                                   ELSE File("absent", Empty)]
          /\ answered = s
    BY DEF StoreInit
  <2>2. file["main"] = File(k, [Empty EXCEPT !.entries = s]) /\ phase = "down"
    BY <2>1 DEF StoreInit, Paths
  <2>3. Loaded(file["main"]).entries = s
    BY <2>1, <2>2 DEF Loaded, File, Empty
  <2> QED
    BY <2>1, <2>2, <2>3 DEF FileHeld
<1>2. UnpinInv /\ FileHeld /\ [StoreNext]_storeVars => FileHeld'
  <2> SUFFICES ASSUME UnpinInv, FileHeld, [StoreNext]_storeVars PROVE FileHeld'
    OBVIOUS
  <2> USE DEF FileHeld
  <2>1. CASE Start
    <3>1. ~hit' => ~hit /\ path' = "main" /\ phase' = "idle" /\ mem' = Loaded(file["main"])
      BY <2>1, StartFacts DEF Start, UnpinInv, MainGood
    <3> QED
      BY <2>1, <3>1 DEF Start
  <2>2. ASSUME NEW e, NEW g, Change(e, g) PROVE FileHeld'
    BY <2>2 DEF Change
  <2>3. CASE Truncate \/ Write \/ SaveFails
    BY <2>3 DEF Truncate, Write, SaveFails
  <2>4. CASE Crash
    BY <2>4 DEF Crash, UnpinInv, StoreTypeOK, MainGood, FileFollowsMemory
  <2>5. CASE UNCHANGED storeVars
    BY <2>5 DEF storeVars
  <2> QED
    BY <2>1, <2>2, <2>3, <2>4, <2>5 DEF StoreNext, Add, AddGroup, TrackGroup, StoreRemove
<1>3. UnpinInv /\ [StoreNext]_storeVars => UnpinInv'
  BY UnpinStep
<1>4. FileHeld => AnsweredHeldUnhit
  BY DEF FileHeld, AnsweredHeldUnhit, AnsweredHeld
<1> QED
  BY <1>1, <1>2, <1>3, <1>4, UnpinInit, PTL DEF StoreSpec

-----------------------------------------------------------------------------
(* A torn UNPIN_STORE_PATH is never taken up again, whatever goes wrong.   *)
THEOREM TornForGoodCorrect == StoreSpec => TornForGood
<1>1. StoreTypeOK /\ [StoreNext]_storeVars => [MainLost => MainLost']_storeVars
  <2> SUFFICES ASSUME StoreTypeOK, StoreNext, MainLost PROVE MainLost'
    OBVIOUS
  <2>1. CASE Start
    BY <2>1, StartFacts DEF MainLost, Loadable
  <2>2. CASE Truncate \/ Write
    BY <2>2 DEF Truncate, Write, MainLost, StoreTypeOK, Paths
  <2>3. CASE SaveFails \/ Crash
    BY <2>3 DEF SaveFails, Crash, MainLost
  <2>4. ASSUME NEW e, NEW g, Change(e, g) PROVE MainLost'
    BY <2>4 DEF Change, MainLost
  <2> QED
    BY <2>1, <2>2, <2>3, <2>4 DEF StoreNext, Add, StoreRemove, AddGroup, TrackGroup
<1> QED
  BY <1>1, UnpinTypeCorrect, PTL DEF StoreSpec, TornForGood
=============================================================================
