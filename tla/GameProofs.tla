----------------------------- MODULE GameProofs -------------------------------
(***************************************************************************)
(* Proofs about the two halves of the game actor: what its commands do to  *)
(* objects (ObjectTransfer) and which commands it offers (GameCommands).   *)
(*                                                                         *)
(* ObjectTransfer, for any number of objects, inventories, keys and        *)
(* actors, any staleness of reads, with lost replies and crashes: type     *)
(* correctness, HeldIsListed, the refinement of Custody, and, under the    *)
(* conditions each needs, IdleObjectInPlace and IdleObjectRecoverable.     *)
(* GameCommands, for any places, blocks, timeouts and restarts: GameInv.   *)
(***************************************************************************)
EXTENDS ObjectTransfer, GameCommands, FiniteSetTheorems, SequenceTheorems, TLAPS

-----------------------------------------------------------------------------
(***************************************************************************)
(* Chaintree logs.                                                         *)
(***************************************************************************)

\* Accepting a block keeps a log a log, one longer, and keeps its past.
LEMMA AppendLog ==
    ASSUME NEW S, NEW log \in Seq(S), NEW e \in S
    PROVE  /\ Append(log, e) \in Seq(S)
           /\ Len(Append(log, e)) = Len(log) + 1
           /\ Append(log, e)[Len(log) + 1] = e
           /\ \A h \in 1..Len(log) : Append(log, e)[h] = log[h]
  OBVIOUS

\* What a read returns is a tip of the log.
LEMMA ViewIsTip ==
    ASSUME NEW S, NEW log \in Seq(S), NEW h \in Views(log)
    PROVE  h \in Nat /\ h \in 1..Len(log) /\ log[h] \in S
  BY DEF Views

-----------------------------------------------------------------------------
(***************************************************************************)
(* Type correctness.                                                       *)
(***************************************************************************)
USE ConstantsAssumption

\* Initially every variable has its type.
LEMMA InitTypeOK == Init => TypeOK
  <1> SUFFICES ASSUME Init PROVE TypeOK
    OBVIOUS
  <1> PICK home \in [Obj -> Inv] :
             /\ objLog = [o \in Obj |-> <<Auths[home[o]]>>]
             /\ invLog = [i \in Inv |-> <<{o \in Obj : home[o] = i}>>]
             /\ holder = home
    BY DEF Init
  <1>1. TreesOK
    BY DEF TreesOK
  <1>2. MessagesOK /\ ActorsOK /\ HandlesOK
    BY DEF Init, MessagesOK, ActorsOK, HandlesOK
  <1> QED
    BY <1>1, <1>2 DEF TypeOK

\* An accepted block on object o leaves the trees well formed, moves o's tip on by
\* one and no other tip, and keeps every handle valid.
LEMMA ObjectBlock ==
    ASSUME TreesOK, NEW o \in Obj, NEW S \in SUBSET Key, UNCHANGED invLog,
           objLog' = [objLog EXCEPT ![o] = Append(@, S)]
    PROVE  /\ TreesOK'
           /\ Len(objLog'[o]) = Len(objLog[o]) + 1
           /\ Owners(o)' = S
           /\ \A p \in Obj \ {o} : objLog'[p] = objLog[p]
           /\ \A p \in Obj : Len(objLog'[p]) >= Len(objLog[p])
  <1>1. /\ Append(objLog[o], S) \in Seq(SUBSET Key)
        /\ Len(Append(objLog[o], S)) = Len(objLog[o]) + 1
        /\ Append(objLog[o], S)[Len(objLog[o]) + 1] = S
    BY AppendLog DEF TreesOK
  <1>2. \A p \in Obj : objLog'[p] = IF p = o THEN Append(objLog[o], S) ELSE objLog[p]
    BY DEF TreesOK
  <1>3. objLog' \in [Obj -> Seq(SUBSET Key)]
    BY <1>1 DEF TreesOK
  <1>4. \A p \in Obj : Len(objLog[p]) \in Nat
    BY DEF TreesOK
  <1> QED
    BY <1>1, <1>2, <1>3, <1>4 DEF TreesOK, Owners

\* The same for a block on inventory i.
LEMMA InventoryBlock ==
    ASSUME TreesOK, NEW i \in Inv, NEW S \in SUBSET Obj, UNCHANGED objLog,
           invLog' = [invLog EXCEPT ![i] = Append(@, S)]
    PROVE  /\ TreesOK'
           /\ Len(invLog'[i]) = Len(invLog[i]) + 1
           /\ Listed(i)' = S
           /\ \A j \in Inv \ {i} : invLog'[j] = invLog[j]
           /\ \A j \in Inv : Len(invLog'[j]) >= Len(invLog[j])
  <1>1. /\ Append(invLog[i], S) \in Seq(SUBSET Obj)
        /\ Len(Append(invLog[i], S)) = Len(invLog[i]) + 1
        /\ Append(invLog[i], S)[Len(invLog[i]) + 1] = S
    BY AppendLog DEF TreesOK
  <1>2. \A j \in Inv : invLog'[j] = IF j = i THEN Append(invLog[i], S) ELSE invLog[j]
    BY DEF TreesOK
  <1>3. invLog' \in [Inv -> Seq(SUBSET Obj)]
    BY <1>1 DEF TreesOK
  <1>4. \A j \in Inv : Len(invLog[j]) \in Nat
    BY DEF TreesOK
  <1> QED
    BY <1>1, <1>2, <1>3, <1>4 DEF TreesOK, Listed

\* A CurrentState can only complete a subscription, never create one.
LEMMA AnnouncedOK ==
    ASSUME ActorsOK, NEW o \in Obj
    PROVE  /\ Announced(o) \in [Worker -> {"off", "starting", "on", "acked"}]
           /\ \A v \in Worker : Announced(o)[v] # "off" => sub[v] # "off"
  BY DEF ActorsOK, Announced

\* Waking goroutines keeps them well formed.
LEMMA WokenOK ==
    ASSUME MessagesOK, NEW o \in Obj
    PROVE  Woken(o) \subseteq Goroutines
  BY DEF MessagesOK, Woken, Goroutines

\* Logs only grow, and subscriptions only end: what every step that plays a block
\* does to the rest of the system.
Grow ==
    /\ TreesOK'
    /\ \A o \in Obj : Len(objLog[o]) <= Len(objLog'[o])
    /\ \A i \in Inv : Len(invLog[i]) <= Len(invLog'[i])

SubsOnlyEnd ==
    /\ sub' \in [Worker -> {"off", "starting", "on", "acked"}]
    /\ \A v \in Worker : sub'[v] # "off" => sub[v] # "off"

\* A handler's message and handles are what they should be.
LEMMA JobOK ==
    ASSUME TypeOK, NEW w \in Worker, pc[w] # "idle"
    PROVE  /\ job[w] \in Message
           /\ job[w].inv \in Inv /\ job[w].obj \in Obj /\ job[w].peer \in Inv
           /\ job[w].inv \in Serves[w]
           /\ Auths[job[w].inv] \in SUBSET Key
           /\ Auths[job[w].peer] \in SUBSET Key
  <1>1. job[w] \in Message /\ job[w].inv \in Serves[w]
    BY DEF TypeOK, ActorsOK
  <1>2. job[w].inv \in Inv /\ job[w].obj \in Obj /\ job[w].peer \in Inv
    BY <1>1 DEF Message
  <1> QED
    BY <1>1, <1>2

\* What the logs hold, tree by tree.
LEMMA LogsOK ==
    ASSUME TreesOK
    PROVE  /\ \A o \in Obj : /\ objLog[o] \in Seq(SUBSET Key)
                             /\ Len(objLog[o]) \in Nat \ {0}
                             /\ \A h \in 1..Len(objLog[o]) : objLog[o][h] \in SUBSET Key
                             /\ Owners(o) \in SUBSET Key
           /\ \A i \in Inv : /\ invLog[i] \in Seq(SUBSET Obj)
                             /\ Len(invLog[i]) \in Nat \ {0}
                             /\ \A h \in 1..Len(invLog[i]) : invLog[i][h] \in SUBSET Obj
                             /\ Listed(i) \in SUBSET Obj
  BY DEF TreesOK, Owners, Listed

\* A handler that has found its inventory holds a list of objects.
LEMMA SeenOK ==
    ASSUME TypeOK, NEW w \in Worker, pc[w] \notin {"idle", "source", "target"}
    PROVE  Seen(w) \in SUBSET Obj /\ invAt[w] \in 1..Len(invLog[job[w].inv])
  <1>1. job[w].inv \in Inv
    BY JobOK
  <1>2. invAt[w] \in 1..Len(invLog[job[w].inv])
    BY DEF TypeOK, HandlesOK
  <1> QED
    BY <1>1, <1>2, LogsOK DEF TypeOK, Seen

\* Growing logs keep a handle valid.
LEMMA HandleStaysOK ==
    ASSUME TypeOK, Grow, NEW v \in Worker, job[v].inv \in Inv, job[v].obj \in Obj
    PROVE  /\ pc[v] \notin {"idle", "source", "target"} =>
                 invAt[v] \in 1..Len(invLog'[job[v].inv])
           /\ pc[v] \notin {"idle", "source", "object", "target", "owner"} =>
                 objAt[v] \in 1..Len(objLog'[job[v].obj])
  <1>1. /\ Len(invLog[job[v].inv]) \in Nat /\ Len(invLog'[job[v].inv]) \in Nat
        /\ Len(objLog[job[v].obj]) \in Nat /\ Len(objLog'[job[v].obj]) \in Nat
    BY DEF TypeOK, TreesOK, Grow
  <1> QED
    BY <1>1 DEF TypeOK, HandlesOK, Grow

\* A handler that ends leaves every actor well formed.
LEMMA FinishOK ==
    ASSUME TypeOK, Grow, SubsOnlyEnd, NEW w \in Worker, Finish(w), pc[w] # "wait"
    PROVE  ActorsOK' /\ HandlesOK'
  <1>1. ActorsOK'
    <2>1. pc' \in [Worker -> {"idle"} \cup RemovePCs \cup AddPCs]
      BY DEF TypeOK, ActorsOK, Finish
    <2>2. /\ job' \in [Worker -> Message \cup {NoJob}]
          /\ invAt' \in [Worker -> Nat] /\ objAt' \in [Worker -> Nat]
          /\ rollbacks' \in [Worker -> 0..2]
      BY DEF TypeOK, ActorsOK, Finish
    <2>3. \A v \in Worker : pc'[v] # "idle" => v # w /\ pc'[v] = pc[v] /\ job'[v] = job[v]
      BY DEF TypeOK, ActorsOK, Finish
    <2>4. \A v \in Worker : sub'[v] # "off" => pc'[v] = "wait"
      BY DEF TypeOK, ActorsOK, Finish, SubsOnlyEnd
    <2>5. \A v \in Worker : pc'[v] # "idle" => job'[v] \in Message /\ job'[v].inv \in Serves[v]
      BY <2>3 DEF TypeOK, ActorsOK
    <2> QED
      BY <2>1, <2>2, <2>4, <2>5 DEF ActorsOK, SubsOnlyEnd
  <1>2. HandlesOK'
    <2> SUFFICES ASSUME NEW v \in Worker, pc'[v] # "idle"
                 PROVE  /\ pc'[v] \notin {"idle", "source", "target"} =>
                             invAt'[v] \in 1..Len(invLog'[job'[v].inv])
                        /\ pc'[v] \notin {"idle", "source", "object", "target", "owner"} =>
                             objAt'[v] \in 1..Len(objLog'[job'[v].obj])
      BY DEF HandlesOK
    <2>1. /\ pc'[v] = pc[v] /\ job'[v] = job[v]
          /\ invAt'[v] = invAt[v] /\ objAt'[v] = objAt[v]
      BY DEF TypeOK, ActorsOK, Finish
    <2>2. job[v].inv \in Inv /\ job[v].obj \in Obj
      BY <2>1, JobOK
    <2> QED
      BY <2>1, <2>2, HandleStaysOK
  <1> QED
    BY <1>1, <1>2

\* Actor w goes on to statement p with handles a and b that exist.
MovesOn(w, p, a, b) ==
    /\ pc[w] # "idle" /\ pc[w] # "wait" /\ Goto(w, p)
    /\ invAt' = [invAt EXCEPT ![w] = a] /\ objAt' = [objAt EXCEPT ![w] = b]
    /\ rollbacks' \in [Worker -> 0..2]
    /\ a \in 1..Len(invLog'[job[w].inv]) /\ b \in 1..Len(objLog'[job[w].obj])

\* A handler that moves on to a statement p with valid handles leaves every actor
\* well formed.
LEMMA GotoOK ==
    ASSUME TypeOK, Grow, SubsOnlyEnd, NEW w \in Worker, NEW p \in RemovePCs \cup AddPCs,
           NEW a \in Nat, NEW b \in Nat, MovesOn(w, p, a, b)
    PROVE  ActorsOK' /\ HandlesOK'
  <1> USE DEF MovesOn
  <1>0. \A v \in Worker : /\ job'[v] = job[v]
                          /\ v # w => /\ pc'[v] = pc[v]
                                      /\ invAt'[v] = invAt[v] /\ objAt'[v] = objAt[v]
    BY DEF TypeOK, ActorsOK, Goto
  <1>1. pc'[w] = p /\ invAt'[w] = a /\ objAt'[w] = b /\ p # "idle"
    BY DEF TypeOK, ActorsOK, Goto, RemovePCs, AddPCs
  <1>2. ActorsOK'
    <2>1. pc' \in [Worker -> {"idle"} \cup RemovePCs \cup AddPCs]
      BY DEF TypeOK, ActorsOK, Goto
    <2>2. /\ job' \in [Worker -> Message \cup {NoJob}]
          /\ invAt' \in [Worker -> Nat] /\ objAt' \in [Worker -> Nat]
      BY DEF TypeOK, ActorsOK, Goto
    <2>3. \A v \in Worker : pc'[v] # "idle" => job'[v] \in Message /\ job'[v].inv \in Serves[v]
      BY <1>0, <1>1 DEF TypeOK, ActorsOK
    <2>4. \A v \in Worker : sub'[v] # "off" => pc'[v] = "wait"
      BY <1>0, <1>1 DEF TypeOK, ActorsOK, SubsOnlyEnd
    <2> QED
      BY <2>1, <2>2, <2>3, <2>4 DEF ActorsOK, SubsOnlyEnd
  <1>3. HandlesOK'
    <2> SUFFICES ASSUME NEW v \in Worker, pc'[v] # "idle", v # w
                 PROVE  /\ pc'[v] \notin {"idle", "source", "target"} =>
                             invAt'[v] \in 1..Len(invLog'[job'[v].inv])
                        /\ pc'[v] \notin {"idle", "source", "object", "target", "owner"} =>
                             objAt'[v] \in 1..Len(objLog'[job'[v].obj])
      BY <1>0, <1>1 DEF HandlesOK
    <2> QED
      BY <1>0, JobOK, HandleStaysOK
  <1> QED
    BY <1>2, <1>3

\* A block on the object of w's message: the trees grow, subscriptions only end.
LEMMA PlayObjectOK ==
    ASSUME TypeOK, NEW w \in Worker, pc[w] # "idle", NEW S \in SUBSET Key,
           PlayObject(w, S), UNCHANGED invLog
    PROVE  /\ Grow
           /\ SubsOnlyEnd
           /\ touch' \subseteq Goroutines
           /\ Len(objLog'[job[w].obj]) = Len(objLog[job[w].obj]) + 1
           /\ objAt[w] = Len(objLog[job[w].obj])
  <1>1. job[w].obj \in Obj
    BY JobOK
  <1>2. SubsOnlyEnd
    BY <1>1, AnnouncedOK DEF PlayObject, TypeOK, SubsOnlyEnd
  <1>3. touch' \subseteq Goroutines
    BY <1>1, WokenOK DEF PlayObject, TypeOK
  <1>4. objLog' = [objLog EXCEPT ![job[w].obj] = Append(@, S)]
    BY DEF PlayObject
  <1>5. /\ TreesOK'
        /\ Len(objLog'[job[w].obj]) = Len(objLog[job[w].obj]) + 1
        /\ \A p \in Obj : Len(objLog'[p]) >= Len(objLog[p])
    BY <1>1, <1>4, ObjectBlock DEF TypeOK
  <1>6. \A p \in Obj : Len(objLog'[p]) \in Nat /\ Len(objLog[p]) \in Nat
    BY <1>5 DEF TypeOK, TreesOK
  <1>7. Grow
    BY <1>5, <1>6, LogsOK DEF Grow, TypeOK
  <1> QED
    BY <1>2, <1>3, <1>5, <1>7 DEF PlayObject, CanPlayObject

\* The same for a block on the inventory of w's message.
LEMMA PlayInventoryOK ==
    ASSUME TypeOK, NEW w \in Worker, pc[w] # "idle", NEW S \in SUBSET Obj,
           PlayInventory(w, S), UNCHANGED objLog
    PROVE  /\ Grow
           /\ Len(invLog'[job[w].inv]) = Len(invLog[job[w].inv]) + 1
           /\ invAt[w] = Len(invLog[job[w].inv])
  <1>1. job[w].inv \in Inv
    BY JobOK
  <1>2. invLog' = [invLog EXCEPT ![job[w].inv] = Append(@, S)]
    BY DEF PlayInventory
  <1>3. /\ TreesOK'
        /\ Len(invLog'[job[w].inv]) = Len(invLog[job[w].inv]) + 1
        /\ \A j \in Inv : Len(invLog'[j]) >= Len(invLog[j])
    BY <1>1, <1>2, InventoryBlock DEF TypeOK
  <1>4. \A j \in Inv : Len(invLog'[j]) \in Nat /\ Len(invLog[j]) \in Nat
    BY <1>3 DEF TypeOK, TreesOK
  <1>5. Grow
    BY <1>3, <1>4, LogsOK DEF Grow, TypeOK
  <1> QED
    BY <1>3, <1>5 DEF PlayInventory, CanPlayInventory

\* Steps that play no block leave the trees as they are.
LEMMA QuietTrees == ASSUME TypeOK, UNCHANGED <<objLog, invLog>> PROVE Grow
  BY LogsOK DEF TypeOK, TreesOK, Grow

\* A step that leaves the subscriptions alone starts none.
LEMMA QuietSubs == ASSUME TypeOK, UNCHANGED sub PROVE SubsOnlyEnd
  BY DEF TypeOK, ActorsOK, SubsOnlyEnd

\* A goroutine touches an object.
LEMMA GoroutineOK == ASSUME TypeOK, NEW g \in touch PROVE g.obj \in Obj
  BY DEF TypeOK, MessagesOK, Goroutines

\* The type invariant survives every step of every actor.
LEMMA NextTypeOK == TypeOK /\ [Next]_vars => TypeOK'
  <1> SUFFICES ASSUME TypeOK, [Next]_vars PROVE TypeOK'
    OBVIOUS
  <1> USE DEF RemovePCs, AddPCs
  <1>1. ASSUME NEW w \in Worker, NEW i \in Inv, NEW j \in Inv, NEW o \in Obj,
               DropObject(w, i, j, o)
        PROVE  TypeOK'
    <2>1. TreesOK' /\ MessagesOK'
      BY <1>1 DEF TypeOK, TreesOK, MessagesOK, Message, Goroutines, DropObject, Start
    <2>2. ActorsOK'
      BY <1>1 DEF TypeOK, MessagesOK, ActorsOK, Message, DropObject, Start
    <2>3. HandlesOK'
      BY <1>1 DEF TypeOK, TreesOK, ActorsOK, HandlesOK, DropObject, Start
    <2> QED
      BY <2>1, <2>2, <2>3 DEF TypeOK
  <1>2. ASSUME NEW w \in Worker, NEW i \in Inv, NEW j \in Inv, NEW o \in Obj,
               TransferObjectCmd(w, i, j, o)
        PROVE  TypeOK'
    <2>1. TreesOK' /\ MessagesOK'
      BY <1>2 DEF TypeOK, TreesOK, MessagesOK, Message, Goroutines, TransferObjectCmd,
             Goroutine, Start
    <2>2. ActorsOK'
      BY <1>2 DEF TypeOK, MessagesOK, ActorsOK, Message, TransferObjectCmd, Goroutine, Start
    <2>3. HandlesOK'
      BY <1>2 DEF TypeOK, TreesOK, ActorsOK, HandlesOK, TransferObjectCmd, Goroutine, Start
    <2> QED
      BY <2>1, <2>2, <2>3 DEF TypeOK
  <1>3. ASSUME NEW w \in Worker, NEW i \in Inv, NEW j \in Inv, NEW o \in Obj,
               TransferObjectRefused(w, i, j, o)
        PROVE  TypeOK'
    <2>1. Goroutine(w, o) \in Goroutines
      BY DEF TypeOK, MessagesOK, Goroutine, Goroutines
    <2>2. MessagesOK'
      BY <1>3, <2>1 DEF TransferObjectRefused, TypeOK, MessagesOK
    <2> QED
      BY <1>3, <2>2 DEF TransferObjectRefused, TypeOK, TreesOK, ActorsOK, HandlesOK
  <1>4. ASSUME NEW w \in Worker, NEW i \in Inv, NEW j \in Inv, NEW o \in Obj,
               PickUpObject(w, i, j, o)
        PROVE  TypeOK'
    <2>1. [inv |-> i, obj |-> o, peer |-> j] \in Message
      BY DEF Message
    <2>2. MessagesOK'
      BY <1>4, <2>1 DEF PickUpObject, TypeOK, MessagesOK
    <2> QED
      BY <1>4, <2>2 DEF PickUpObject, TypeOK, TreesOK, ActorsOK, HandlesOK
  <1>5. ASSUME NEW w \in Worker, NEW j \in Inv, NEW o \in Obj, ReceiveObject(w, j, o)
        PROVE  TypeOK'
    <2>1. TreesOK' /\ MessagesOK'
      BY <1>5 DEF TypeOK, TreesOK, MessagesOK, Message, Goroutines, ReceiveObject
    <2>2. ActorsOK'
      BY <1>5 DEF TypeOK, MessagesOK, ActorsOK, Message, ReceiveObject
    <2>3. HandlesOK'
      BY <1>5 DEF TypeOK, TreesOK, ActorsOK, HandlesOK, ReceiveObject
    <2> QED
      BY <2>1, <2>2, <2>3 DEF TypeOK
  <1>6. ASSUME NEW w \in Worker, NEW m \in asks, HandleRequest(w, m)
        PROVE  TypeOK'
    <2>1. TreesOK' /\ MessagesOK'
      BY <1>6 DEF TypeOK, TreesOK, MessagesOK, Message, Goroutines, HandleRequest, Start
    <2>2. ActorsOK'
      BY <1>6 DEF TypeOK, MessagesOK, ActorsOK, Message, HandleRequest, Start
    <2>3. HandlesOK'
      BY <1>6 DEF TypeOK, TreesOK, ActorsOK, HandlesOK, HandleRequest, Start
    <2> QED
      BY <2>1, <2>2, <2>3 DEF TypeOK
  <1>7. ASSUME NEW w \in Worker, NEW m \in inbox, HandleTransferred(w, m)
        PROVE  TypeOK'
    <2>1. TreesOK' /\ MessagesOK'
      BY <1>7 DEF TypeOK, TreesOK, MessagesOK, Message, Goroutines, HandleTransferred, Start
    <2>2. ActorsOK'
      BY <1>7 DEF TypeOK, MessagesOK, ActorsOK, Message, HandleTransferred, Start
    <2>3. HandlesOK'
      BY <1>7 DEF TypeOK, TreesOK, ActorsOK, HandlesOK, HandleTransferred, Start
    <2> QED
      BY <2>1, <2>2, <2>3 DEF TypeOK
  <1>8. ASSUME NEW w \in Worker, SendTransferred(w)
        PROVE  TypeOK'
    <2>1. job[w] \in Message /\ pc[w] = "send"
      BY <1>8 DEF SendTransferred, TypeOK, ActorsOK
    <2>2. [inv |-> job[w].peer, obj |-> job[w].obj, peer |-> job[w].inv] \in Message
      BY <2>1 DEF Message
    <2>3. TreesOK' /\ MessagesOK'
      BY <1>8, <2>2 DEF SendTransferred, TypeOK, TreesOK, MessagesOK
    <2>4. ActorsOK'
      BY <1>8 DEF SendTransferred, Goto, TypeOK, ActorsOK
    <2>5. HandlesOK'
      BY <1>8 DEF SendTransferred, Goto, TypeOK, ActorsOK, HandlesOK
    <2> QED
      BY <2>3, <2>4, <2>5 DEF TypeOK
  <1>9. ASSUME NEW w \in Worker, SendFails(w)
        PROVE  TypeOK'
    <2>1. TreesOK' /\ MessagesOK'
      BY <1>9 DEF TypeOK, TreesOK, MessagesOK, Message, Goroutines, SendFails, Goto
    <2>2. ActorsOK'
      BY <1>9 DEF TypeOK, MessagesOK, ActorsOK, Message, SendFails, Goto
    <2>3. HandlesOK'
      BY <1>9 DEF TypeOK, TreesOK, ActorsOK, HandlesOK, SendFails, Goto
    <2> QED
      BY <2>1, <2>2, <2>3 DEF TypeOK
  <1>10. ASSUME NEW w \in Worker, SubscriptionStarts(w)
        PROVE  TypeOK'
    <2>1. TreesOK' /\ MessagesOK'
      BY <1>10 DEF TypeOK, TreesOK, MessagesOK, Message, Goroutines, SubscriptionStarts
    <2>2. ActorsOK'
      BY <1>10 DEF TypeOK, MessagesOK, ActorsOK, Message, SubscriptionStarts
    <2>3. HandlesOK'
      BY <1>10 DEF TypeOK, TreesOK, ActorsOK, HandlesOK, SubscriptionStarts
    <2> QED
      BY <2>1, <2>2, <2>3 DEF TypeOK
  <1>11. ASSUME NEW w \in Worker, Confirm(w)
        PROVE  TypeOK'
    <2>1. TreesOK' /\ MessagesOK'
      BY <1>11 DEF Confirm, TypeOK, TreesOK, MessagesOK
    <2>2. ActorsOK'
      BY <1>11 DEF Confirm, Finish, TypeOK, ActorsOK
    <2>3. HandlesOK'
      BY <1>11 DEF Confirm, Finish, TypeOK, ActorsOK, HandlesOK
    <2> QED
      BY <2>1, <2>2, <2>3 DEF TypeOK
  <1>12. ASSUME NEW w \in Worker, RequestFails(w)
        PROVE  TypeOK'
    <2>1. TreesOK' /\ MessagesOK'
      BY <1>12 DEF TypeOK, TreesOK, MessagesOK, Message, Goroutines, RequestFails, Finish
    <2>2. ActorsOK'
      BY <1>12 DEF TypeOK, MessagesOK, ActorsOK, Message, RequestFails, Finish
    <2>3. HandlesOK'
      BY <1>12 DEF TypeOK, TreesOK, ActorsOK, HandlesOK, RequestFails, Finish
    <2> QED
      BY <2>1, <2>2, <2>3 DEF TypeOK
  <1>13. ASSUME NEW w \in Worker, TransferredFails(w)
        PROVE  TypeOK'
    <2>1. TreesOK' /\ MessagesOK'
      BY <1>13 DEF TypeOK, TreesOK, MessagesOK, Message, Goroutines, TransferredFails,
             FinishAdd, Finish
    <2>2. ActorsOK'
      BY <1>13 DEF TypeOK, MessagesOK, ActorsOK, Message, TransferredFails, FinishAdd, Finish
    <2>3. HandlesOK'
      BY <1>13 DEF TypeOK, TreesOK, ActorsOK, HandlesOK, TransferredFails, FinishAdd, Finish
    <2> QED
      BY <2>1, <2>2, <2>3 DEF TypeOK
  <1>14. ASSUME NEW w \in Worker, Timeout(w)
        PROVE  TypeOK'
    <2>1. TreesOK' /\ MessagesOK'
      BY <1>14 DEF TypeOK, TreesOK, MessagesOK, Message, Goroutines, Timeout, Goto
    <2>2. ActorsOK'
      BY <1>14 DEF TypeOK, MessagesOK, ActorsOK, Message, Timeout, Goto
    <2>3. HandlesOK'
      BY <1>14 DEF TypeOK, TreesOK, ActorsOK, HandlesOK, Timeout, Goto
    <2> QED
      BY <2>1, <2>2, <2>3 DEF TypeOK
  <1>15. ASSUME NEW w \in Worker, Crash(w)
        PROVE  TypeOK'
    <2>1. TreesOK' /\ MessagesOK'
      BY <1>15 DEF TypeOK, TreesOK, MessagesOK, Message, Goroutines, Crash, Finish
    <2>2. ActorsOK'
      BY <1>15 DEF TypeOK, MessagesOK, ActorsOK, Message, Crash, Finish
    <2>3. HandlesOK'
      BY <1>15 DEF TypeOK, TreesOK, ActorsOK, HandlesOK, Crash, Finish
    <2> QED
      BY <2>1, <2>2, <2>3 DEF TypeOK
  <1>16. ASSUME NEW w \in Worker, FindSource(w)
        PROVE  TypeOK'
    <2>1. job[w].inv \in Inv /\ invLog[job[w].inv] \in Seq(SUBSET Obj)
      BY <1>16, JobOK, LogsOK DEF FindSource, TypeOK
    <2>2. \A h \in Views(invLog[job[w].inv]) : h \in Nat /\ h \in 1..Len(invLog[job[w].inv])
      BY <2>1, ViewIsTip
    <2> QED
      BY <1>16, <2>1, <2>2
        DEF FindSource, Goto, TypeOK, TreesOK, MessagesOK, ActorsOK, HandlesOK
  <1>17. ASSUME NEW w \in Worker, GetObject(w)
        PROVE  TypeOK'
    <2>1. job[w].obj \in Obj /\ objLog[job[w].obj] \in Seq(SUBSET Key)
      BY <1>17, JobOK, LogsOK DEF GetObject, TypeOK
    <2>2. \A h \in Views(objLog[job[w].obj]) : h \in Nat /\ h \in 1..Len(objLog[job[w].obj])
      BY <2>1, ViewIsTip
    <2> QED
      BY <1>17, <2>1, <2>2
        DEF GetObject, Goto, TypeOK, TreesOK, MessagesOK, ActorsOK, HandlesOK
  <1>18. ASSUME NEW w \in Worker, FindTarget(w)
        PROVE  TypeOK'
    <2>1. job[w].inv \in Inv /\ invLog[job[w].inv] \in Seq(SUBSET Obj)
      BY <1>18, JobOK, LogsOK DEF FindTarget, TypeOK
    <2>2. Grow /\ SubsOnlyEnd
      BY <1>18, QuietTrees, QuietSubs DEF FindTarget
    <2>3. CASE FinishAdd(w)
      <3>1. ActorsOK' /\ HandlesOK'
        BY <1>18, <2>2, <2>3, FinishOK DEF FindTarget, FinishAdd
      <3>2. MessagesOK'
        BY <1>18, <2>3 DEF FindTarget, FinishAdd, TypeOK, MessagesOK
      <3> QED
        BY <2>2, <3>1, <3>2 DEF TypeOK, Grow
    <2>4. CASE \E h \in Views(invLog[job[w].inv]) :
                 /\ invAt' = [invAt EXCEPT ![w] = h]
                 /\ Goto(w, "owner")
                 /\ UNCHANGED <<objAt, rollbacks, expected>>
      <3>1. \A h \in Views(invLog[job[w].inv]) : h \in Nat /\ h \in 1..Len(invLog[job[w].inv])
        BY <2>1, ViewIsTip
      <3>2. PICK h \in Views(invLog[job[w].inv]) :
               /\ invAt' = [invAt EXCEPT ![w] = h] /\ Goto(w, "owner")
               /\ UNCHANGED <<objAt, rollbacks, expected>>
        BY <2>4
      <3>3. h \in Nat /\ h \in 1..Len(invLog[job[w].inv])
        BY <3>1
      <3>4. TreesOK' /\ MessagesOK'
        BY <1>18, <3>2 DEF FindTarget, TypeOK, TreesOK, MessagesOK
      <3>5. ActorsOK'
        BY <1>18, <3>2, <3>3 DEF FindTarget, Goto, TypeOK, ActorsOK
      <3>6. HandlesOK'
        BY <1>18, <3>2, <3>3 DEF FindTarget, Goto, TypeOK, ActorsOK, HandlesOK
      <3> QED
        BY <3>4, <3>5, <3>6 DEF TypeOK
    <2> QED
      BY <1>18, <2>3, <2>4 DEF FindTarget
  <1>19. ASSUME NEW w \in Worker, CheckOwner(w)
        PROVE  TypeOK'
    <2>1. job[w].obj \in Obj /\ objLog[job[w].obj] \in Seq(SUBSET Key)
      BY <1>19, JobOK, LogsOK DEF CheckOwner, TypeOK
    <2>2. Grow /\ SubsOnlyEnd
      BY <1>19, QuietTrees, QuietSubs DEF CheckOwner
    <2>3. CASE FinishAdd(w)
      <3>1. ActorsOK' /\ HandlesOK'
        BY <1>19, <2>2, <2>3, FinishOK DEF CheckOwner, FinishAdd
      <3>2. MessagesOK'
        BY <1>19, <2>3 DEF CheckOwner, FinishAdd, TypeOK, MessagesOK
      <3> QED
        BY <2>2, <3>1, <3>2 DEF TypeOK, Grow
    <2>4. CASE \E h \in Views(objLog[job[w].obj]) :
                 /\ objAt' = [objAt EXCEPT ![w] = h]
                 /\ Goto(w, "add")
                 /\ UNCHANGED <<invAt, rollbacks, expected>>
      <3>1. \A h \in Views(objLog[job[w].obj]) : h \in Nat /\ h \in 1..Len(objLog[job[w].obj])
        BY <2>1, ViewIsTip
      <3> QED
        BY <1>19, <2>1, <2>4, <3>1
          DEF CheckOwner, Goto, TypeOK, TreesOK, MessagesOK, ActorsOK, HandlesOK
    <2> QED
      BY <1>19, <2>3, <2>4 DEF CheckOwner
  <1>20. ASSUME NEW w \in Worker, Offer(w)
        PROVE  TypeOK'
    <2> DEFINE S == Auths[job[w].inv] \cup Auths[job[w].peer]
    <2>0. pc[w] = "offer" /\ job[w].obj \in Obj /\ job[w].inv \in Inv /\ S \in SUBSET Key
      BY <1>20, JobOK DEF Offer
    <2>1. UNCHANGED <<invLog, asks, inbox, expected, jobs, crashes>>
      BY <1>20 DEF Offer
    <2>2. CASE /\ PlayObject(w, S)
               /\ holder' = [holder EXCEPT ![job[w].obj] = NoInv]
               /\ \/ /\ objAt' = [objAt EXCEPT ![w] = @ + 1]
                     /\ rollbacks' = [rollbacks EXCEPT ![w] = 1]
                     /\ Goto(w, "remove")
                     /\ UNCHANGED invAt
                  \/ Finish(w)
      <3>1. /\ Grow /\ SubsOnlyEnd
            /\ touch' \subseteq Goroutines
            /\ Len(objLog'[job[w].obj]) = Len(objLog[job[w].obj]) + 1
            /\ objAt[w] = Len(objLog[job[w].obj])
        BY <2>0, <2>1, <2>2, PlayObjectOK
      <3>2. MessagesOK'
        BY <2>0, <2>1, <2>2, <3>1 DEF TypeOK, MessagesOK
      <3>3. ASSUME Goto(w, "remove"), objAt' = [objAt EXCEPT ![w] = @ + 1],
                   rollbacks' = [rollbacks EXCEPT ![w] = 1], UNCHANGED invAt
            PROVE  ActorsOK' /\ HandlesOK'
        <4>1. /\ invAt' = [invAt EXCEPT ![w] = invAt[w]] /\ invAt[w] \in Nat
              /\ objAt' = [objAt EXCEPT ![w] = objAt[w] + 1] /\ objAt[w] + 1 \in Nat
              /\ rollbacks' \in [Worker -> 0..2]
          BY <3>3 DEF TypeOK, ActorsOK
        <4>2. invAt[w] \in 1..Len(invLog'[job[w].inv]) /\ objAt[w] + 1 \in 1..Len(objLog'[job[w].obj])
          <5>1. Len(objLog[job[w].obj]) \in Nat
            BY <2>0, LogsOK DEF TypeOK
          <5> QED
            BY <2>0, <2>1, <3>1, <5>1, SeenOK
        <4>3. "remove" \in RemovePCs \cup AddPCs /\ pc[w] # "idle" /\ pc[w] # "wait"
          BY <2>0
        <4> HIDE DEF RemovePCs, AddPCs
        <4> QED
          <5>1. MovesOn(w, "remove", invAt[w], objAt[w] + 1)
            BY <2>0, <3>3, <4>1, <4>2, <4>3 DEF MovesOn
          <5>2. invAt[w] \in Nat /\ objAt[w] + 1 \in Nat
            BY <4>1
          <5>3. "remove" \in RemovePCs \cup AddPCs
            BY <4>3
          <5> HIDE DEF S
          <5> QED
            BY <3>1, <5>1, <5>2, <5>3, GotoOK
      <3>4. ActorsOK' /\ HandlesOK'
        BY <2>0, <2>2, <3>1, <3>3, FinishOK
      <3> QED
        BY <3>1, <3>2, <3>4 DEF TypeOK, Grow
    <2>3. CASE PlayObjectFails(w) /\ Finish(w)
      <3>1. Grow /\ SubsOnlyEnd
        BY <2>1, <2>3, QuietTrees, QuietSubs DEF PlayObjectFails
      <3>2. ActorsOK' /\ HandlesOK'
        BY <2>0, <2>3, <3>1, FinishOK
      <3>3. MessagesOK'
        BY <2>1, <2>3 DEF PlayObjectFails, TypeOK, MessagesOK
      <3> QED
        BY <3>1, <3>2, <3>3 DEF TypeOK, Grow
    <2> QED
      BY <1>20, <2>2, <2>3 DEF Offer
  <1>21. ASSUME NEW w \in Worker, UndoOwner(w)
        PROVE  TypeOK'
    <2>0. pc[w] = "undoOwner" /\ job[w].obj \in Obj /\ job[w].inv \in Inv /\ Auths[job[w].inv] \in SUBSET Key
      BY <1>21, JobOK DEF UndoOwner
    <2>1. UNCHANGED <<invLog, asks, inbox, expected, jobs, crashes>>
      BY <1>21 DEF UndoOwner
    <2>2. CASE /\ PlayObject(w, Auths[job[w].inv])
               /\ holder' = [holder EXCEPT ![job[w].obj] = NoInv]
               /\ \/ Goto(w, "undoRemove") /\ UNCHANGED <<invAt, objAt, rollbacks>>
                  \/ Finish(w)
      <3>1. /\ Grow /\ SubsOnlyEnd
            /\ touch' \subseteq Goroutines
        BY <2>0, <2>1, <2>2, PlayObjectOK
      <3>2. MessagesOK'
        BY <2>0, <2>1, <2>2, <3>1 DEF TypeOK, MessagesOK
      <3>3. ASSUME Goto(w, "undoRemove"), UNCHANGED <<invAt, objAt, rollbacks>>
            PROVE  ActorsOK' /\ HandlesOK'
        <4>1. /\ invAt' = [invAt EXCEPT ![w] = invAt[w]] /\ invAt[w] \in Nat
              /\ objAt' = [objAt EXCEPT ![w] = objAt[w]] /\ objAt[w] \in Nat
              /\ rollbacks' \in [Worker -> 0..2]
          BY <3>3 DEF TypeOK, ActorsOK
        <4>2. invAt[w] \in 1..Len(invLog'[job[w].inv]) /\ objAt[w] \in 1..Len(objLog'[job[w].obj])
          BY <2>0, <3>1, HandleStaysOK
        <4> QED
          <5>1. MovesOn(w, "undoRemove", invAt[w], objAt[w])
            BY <2>0, <3>3, <4>1, <4>2 DEF MovesOn
          <5> QED
            BY <3>1, <4>1, <5>1, GotoOK
      <3>4. ActorsOK' /\ HandlesOK'
        BY <2>0, <2>2, <3>1, <3>3, FinishOK
      <3> QED
        BY <3>1, <3>2, <3>4 DEF TypeOK, Grow
    <2>3. CASE PlayObjectFails(w) /\ Finish(w)
      <3>1. Grow /\ SubsOnlyEnd
        BY <2>1, <2>3, QuietTrees, QuietSubs DEF PlayObjectFails
      <3>2. ActorsOK' /\ HandlesOK'
        BY <2>0, <2>3, <3>1, FinishOK
      <3>3. MessagesOK'
        BY <2>1, <2>3 DEF PlayObjectFails, TypeOK, MessagesOK
      <3> QED
        BY <3>1, <3>2, <3>3 DEF TypeOK, Grow
    <2> QED
      BY <1>21, <2>2, <2>3 DEF UndoOwner
  <1>22. ASSUME NEW w \in Worker, Claim(w)
        PROVE  TypeOK'
    <2>0. pc[w] = "claim" /\ job[w].obj \in Obj /\ job[w].inv \in Inv /\ Auths[job[w].inv] \in SUBSET Key
      BY <1>22, JobOK DEF Claim
    <2>1. UNCHANGED <<invLog, asks, inbox, jobs, crashes>> /\ Finish(w)
      BY <1>22 DEF Claim, FinishAdd
    <2>2. expected' \in [Worker -> SUBSET Obj]
      BY <1>22 DEF Claim, FinishAdd, TypeOK, MessagesOK
    <2>3. CASE /\ PlayObject(w, Auths[job[w].inv])
               /\ holder' = [holder EXCEPT ![job[w].obj] = job[w].inv]
      <3>1. /\ Grow /\ SubsOnlyEnd
            /\ touch' \subseteq Goroutines
        BY <2>0, <2>1, <2>3, PlayObjectOK
      <3>2. MessagesOK'
        BY <2>0, <2>1, <2>2, <2>3, <3>1 DEF TypeOK, MessagesOK
      <3> QED
        BY <2>0, <2>1, <3>1, <3>2, FinishOK DEF TypeOK, Grow
    <2>4. CASE PlayObjectFails(w)
      <3>1. Grow /\ SubsOnlyEnd
        BY <2>1, <2>4, QuietTrees, QuietSubs DEF PlayObjectFails
      <3>2. MessagesOK'
        BY <2>1, <2>2, <2>4 DEF PlayObjectFails, TypeOK, MessagesOK
      <3> QED
        BY <2>0, <2>1, <3>1, <3>2, FinishOK DEF TypeOK, Grow
    <2> QED
      BY <1>22, <2>3, <2>4 DEF Claim
  <1>23. ASSUME NEW w \in Worker, RemoveFromSource(w)
        PROVE  TypeOK'
    <2>0. /\ pc[w] = "remove" /\ job[w].obj \in Obj /\ job[w].inv \in Inv
          /\ Seen(w) \in SUBSET Obj /\ invAt[w] \in 1..Len(invLog[job[w].inv])
      BY <1>23, JobOK, SeenOK DEF RemoveFromSource
    <2>1. UNCHANGED <<objLog, asks, inbox, expected, objAt, sub, touch, jobs, crashes, holder>>
      BY <1>23 DEF RemoveFromSource
    <2>2. MessagesOK'
      BY <2>1 DEF TypeOK, MessagesOK
    <2>3. SubsOnlyEnd
      BY <2>1, QuietSubs
    <2>4. /\ objAt' = [objAt EXCEPT ![w] = objAt[w]]
          /\ invAt[w] \in Nat /\ objAt[w] \in Nat
      BY <2>1 DEF TypeOK, ActorsOK
    <2>5. ASSUME NEW p \in {"send", "undoOwner"}, Goto(w, p), Grow, UNCHANGED invAt,
                 rollbacks' \in [Worker -> 0..2]
          PROVE  TypeOK'
      <3>1. invAt' = [invAt EXCEPT ![w] = invAt[w]]
        BY <2>5 DEF TypeOK, ActorsOK
      <3>2. invAt[w] \in 1..Len(invLog'[job[w].inv]) /\ objAt[w] \in 1..Len(objLog'[job[w].obj])
        BY <2>0, <2>5, HandleStaysOK
      <3>3. ActorsOK' /\ HandlesOK'
        <4>1. MovesOn(w, p, invAt[w], objAt[w])
          BY <2>0, <2>4, <2>5, <3>1, <3>2 DEF MovesOn
        <4> QED
          BY <2>3, <2>4, <2>5, <4>1, GotoOK
      <3> QED
        BY <2>2, <2>5, <3>3 DEF TypeOK, Grow
    <2>6. CASE /\ Goto(w, "send")
               /\ rollbacks' = [rollbacks EXCEPT ![w] = 2]
               /\ UNCHANGED <<invLog, invAt>>
      <3>1. Grow /\ rollbacks' \in [Worker -> 0..2]
        BY <2>1, <2>6, QuietTrees DEF TypeOK, ActorsOK
      <3> QED
        BY <2>5, <2>6, <3>1
    <2>7. CASE /\ PlayInventory(w, Seen(w) \ {job[w].obj})
               /\ \/ /\ invAt' = [invAt EXCEPT ![w] = @ + 1]
                     /\ rollbacks' = [rollbacks EXCEPT ![w] = 2]
                     /\ Goto(w, "send")
                  \/ Goto(w, "undoOwner") /\ UNCHANGED <<invAt, rollbacks>>
      <3>1. /\ Grow
            /\ Len(invLog'[job[w].inv]) = Len(invLog[job[w].inv]) + 1
            /\ invAt[w] = Len(invLog[job[w].inv])
        BY <2>0, <2>1, <2>7, PlayInventoryOK
      <3>2. CASE Goto(w, "undoOwner") /\ UNCHANGED <<invAt, rollbacks>>
        <4>1. rollbacks' \in [Worker -> 0..2]
          BY <3>2 DEF TypeOK, ActorsOK
        <4> QED
          BY <2>5, <3>1, <3>2, <4>1
      <3>3. CASE /\ invAt' = [invAt EXCEPT ![w] = @ + 1]
                 /\ rollbacks' = [rollbacks EXCEPT ![w] = 2]
                 /\ Goto(w, "send")
        <4>1. /\ invAt' = [invAt EXCEPT ![w] = invAt[w] + 1] /\ invAt[w] + 1 \in Nat
              /\ rollbacks' \in [Worker -> 0..2]
          BY <3>3 DEF TypeOK, ActorsOK
        <4>2. invAt[w] + 1 \in 1..Len(invLog'[job[w].inv]) /\ objAt[w] \in 1..Len(objLog'[job[w].obj])
          <5>1. objAt[w] \in 1..Len(objLog'[job[w].obj])
            BY <2>0, <3>1, HandleStaysOK
          <5>2. Len(invLog[job[w].inv]) \in Nat
            BY <2>0, LogsOK DEF TypeOK
          <5> QED
            BY <3>1, <5>1, <5>2
        <4>3. ActorsOK' /\ HandlesOK'
          <5>1. MovesOn(w, "send", invAt[w] + 1, objAt[w])
            BY <2>0, <2>4, <3>3, <4>1, <4>2 DEF MovesOn
          <5> QED
            BY <2>3, <2>4, <3>1, <4>1, <5>1, GotoOK
        <4> QED
          BY <2>2, <3>1, <4>3 DEF TypeOK, Grow
      <3> QED
        BY <2>7, <3>2, <3>3
    <2>8. CASE UNCHANGED invLog /\ Goto(w, "undoOwner") /\ UNCHANGED <<invAt, rollbacks>>
      <3>1. Grow /\ rollbacks' \in [Worker -> 0..2]
        BY <2>1, <2>8, QuietTrees DEF TypeOK, ActorsOK
      <3> QED
        BY <2>5, <2>8, <3>1
    <2> QED
      BY <1>23, <2>6, <2>7, <2>8 DEF RemoveFromSource, PlayInventoryFails
  <1>24. ASSUME NEW w \in Worker, UndoRemove(w)
        PROVE  TypeOK'
    <2>0. /\ pc[w] = "undoRemove" /\ job[w].obj \in Obj /\ Seen(w) \in SUBSET Obj
      BY <1>24, JobOK, SeenOK DEF UndoRemove
    <2>1. UNCHANGED <<objLog, asks, inbox, expected, sub, touch, jobs, crashes, holder>> /\ Finish(w)
      BY <1>24 DEF UndoRemove
    <2>2. MessagesOK' /\ SubsOnlyEnd
      BY <2>1, QuietSubs DEF TypeOK, MessagesOK
    <2>3. Grow
      BY <1>24, <2>0, <2>1, PlayInventoryOK, QuietTrees DEF UndoRemove, PlayInventoryFails
    <2> QED
      BY <2>0, <2>1, <2>2, <2>3, FinishOK DEF TypeOK, Grow
  <1>25. ASSUME NEW w \in Worker, AddToTarget(w)
        PROVE  TypeOK'
    <2>0. pc[w] = "add" /\ job[w].obj \in Obj /\ job[w].inv \in Inv /\ Seen(w) \in SUBSET Obj
      BY <1>25, JobOK, SeenOK DEF AddToTarget
    <2>1. UNCHANGED <<objLog, asks, inbox, sub, touch, jobs, crashes, holder>>
      BY <1>25 DEF AddToTarget
    <2>2. MessagesOK' /\ SubsOnlyEnd
      <3>1. expected' \in [Worker -> SUBSET Obj]
        BY <1>25 DEF AddToTarget, FinishAdd, TypeOK, MessagesOK
      <3> QED
        BY <2>1, <3>1, QuietSubs DEF TypeOK, MessagesOK
    <2>3. Grow
      BY <1>25, <2>0, <2>1, PlayInventoryOK, QuietTrees
        DEF AddToTarget, PlayInventoryFails
    <2>4. CASE FinishAdd(w)
      BY <2>0, <2>2, <2>3, <2>4, FinishOK DEF FinishAdd, TypeOK, Grow
    <2>5. CASE Goto(w, "claim") /\ UNCHANGED <<invAt, objAt, rollbacks>>
      <3>1. /\ invAt' = [invAt EXCEPT ![w] = invAt[w]] /\ invAt[w] \in Nat
            /\ objAt' = [objAt EXCEPT ![w] = objAt[w]] /\ objAt[w] \in Nat
            /\ rollbacks' \in [Worker -> 0..2]
        BY <2>5 DEF TypeOK, ActorsOK
      <3>2. invAt[w] \in 1..Len(invLog'[job[w].inv]) /\ objAt[w] \in 1..Len(objLog'[job[w].obj])
        BY <2>0, <2>3, HandleStaysOK
      <3>3. ActorsOK' /\ HandlesOK'
        <4>1. MovesOn(w, "claim", invAt[w], objAt[w])
          BY <2>0, <2>5, <3>1, <3>2 DEF MovesOn
        <4> QED
          BY <2>2, <2>3, <3>1, <4>1, GotoOK
      <3> QED
        BY <2>2, <2>3, <3>3 DEF TypeOK, Grow
    <2> QED
      BY <1>25, <2>4, <2>5 DEF AddToTarget
  <1>26. ASSUME NEW g \in touch, TouchSubscribes(g)
        PROVE  TypeOK'
    <2>1. [g EXCEPT !.st = "armed", !.at = 0] \in Goroutines
      <3>1. g \in Goroutines
        BY DEF TypeOK, MessagesOK
      <3> QED
        BY <3>1 DEF Goroutines
    <2> QED
      BY <1>26, <2>1
        DEF TouchSubscribes, TouchMoves, TypeOK, TreesOK, MessagesOK, ActorsOK,
             HandlesOK
  <1>27. ASSUME NEW g \in touch, TouchReads(g)
        PROVE  TypeOK'
    <2>1. g.obj \in Obj /\ objLog[g.obj] \in Seq(SUBSET Key)
      BY GoroutineOK, LogsOK DEF TypeOK
    <2>2. PICK h \in Views(objLog[g.obj]) : TouchMoves(g, "ready", h)
      BY <1>27 DEF TouchReads
    <2>3. h \in Nat
      BY <2>1, ViewIsTip
    <2>4. [g EXCEPT !.st = "ready", !.at = h] \in Goroutines
      <3>1. g \in Goroutines
        BY DEF TypeOK, MessagesOK
      <3> QED
        BY <2>3, <3>1 DEF Goroutines
    <2> QED
      BY <1>27, <2>2, <2>4
        DEF TouchReads, TouchMoves, TypeOK, TreesOK, MessagesOK, ActorsOK, HandlesOK
  <1>28. ASSUME NEW g \in touch, TouchPlays(g)
        PROVE  TypeOK'
    <2>1. g.obj \in Obj /\ Owners(g.obj) \in SUBSET Key
      BY GoroutineOK, LogsOK DEF TypeOK
    <2>2. TreesOK' /\ \A p \in Obj : Len(objLog'[p]) >= Len(objLog[p])
      BY <1>28, <2>1, ObjectBlock DEF TouchPlays, TypeOK
    <2>3. MessagesOK'
      BY <1>28, <2>1, WokenOK DEF TouchPlays, TypeOK, MessagesOK
    <2>4. ActorsOK'
      <3>1. SubsOnlyEnd
        BY <1>28, <2>1, AnnouncedOK DEF TouchPlays, TypeOK, SubsOnlyEnd
      <3> QED
        BY <1>28, <3>1 DEF TouchPlays, TypeOK, ActorsOK, SubsOnlyEnd
    <2>5. HandlesOK'
      <3>1. Grow
        BY <1>28, <2>2, LogsOK DEF TouchPlays, TypeOK, TreesOK, Grow
      <3>2. \A v \in Worker : pc[v] # "idle" => job[v].inv \in Inv /\ job[v].obj \in Obj
        BY JobOK
      <3> QED
        BY <1>28, <3>1, <3>2, HandleStaysOK DEF TouchPlays, HandlesOK
    <2> QED
      BY <2>2, <2>3, <2>4, <2>5 DEF TypeOK
  <1>29. ASSUME NEW g \in touch, TouchGivesUp(g)
        PROVE  TypeOK'
    <2>1. TreesOK' /\ MessagesOK'
      BY <1>29 DEF TypeOK, TreesOK, MessagesOK, Message, Goroutines, TouchGivesUp
    <2>2. ActorsOK'
      BY <1>29 DEF TypeOK, MessagesOK, ActorsOK, Message, TouchGivesUp
    <2>3. HandlesOK'
      BY <1>29 DEF TypeOK, TreesOK, ActorsOK, HandlesOK, TouchGivesUp
    <2> QED
      BY <2>1, <2>2, <2>3 DEF TypeOK
  <1>30. CASE UNCHANGED vars
    BY <1>30 DEF vars, TypeOK, TreesOK, MessagesOK, ActorsOK, HandlesOK
  <1> QED
    BY <1>1, <1>2, <1>3, <1>4, <1>5, <1>6, <1>7, <1>8, <1>9, <1>10,
       <1>11, <1>12, <1>13, <1>14, <1>15, <1>16, <1>17, <1>18, <1>19, <1>20,
       <1>21, <1>22, <1>23, <1>24, <1>25, <1>26, <1>27, <1>28, <1>29, <1>30
    DEF Next, Command, RemoveStep, AddStep, TouchStep

\* Type correctness: through every interleaving of handlers, goroutines, commands and
\* crashes, every variable keeps its type and no handler runs without a message or
\* with a handle that points outside a log.
THEOREM TypeCorrect == Spec => []TypeOK
  BY InitTypeOK, NextTypeOK, PTL DEF Spec

-----------------------------------------------------------------------------
(***************************************************************************)
(* HeldIsListed for every instance of ObjectTransfer.                      *)
(*                                                                         *)
(* HeldIsListed is not inductive: a claim must find its object listed      *)
(* (ClaimIsListed), and the handler that could take it off the list must   *)
(* have invalidated both the claim and the current holder (RemoveIsUnheld).*)
(* Every step has one of three shapes: it plays no block, it plays a block *)
(* on an object, or it plays a block on an inventory.  One lemma per shape *)
(* says what keeps the three conjuncts; NextTransferInv gives every action *)
(* its shape.                                                              *)
(***************************************************************************)

\* Actor v is where it was, with the same message and handles.
Stays(v) ==
    /\ pc'[v] = pc[v] /\ job'[v] = job[v]
    /\ objAt'[v] = objAt[v] /\ invAt'[v] = invAt[v]

Safe == HeldIsListed /\ ClaimIsListed /\ RemoveIsUnheld

\* Nobody plays a block and nobody comes to "claim" or "remove".
LEMMA QuietStep ==
    ASSUME Safe, UNCHANGED <<objLog, invLog, holder>>,
           \A v \in Worker : pc'[v] \in {"claim", "remove"} => Stays(v)
    PROVE  Safe'
  <1>1. HeldIsListed'
    BY DEF Safe, HeldIsListed, Owners, Listed
  <1>2. ClaimIsListed'
    BY DEF Safe, ClaimIsListed, Listed, Stays
  <1>3. RemoveIsUnheld'
    BY DEF Safe, RemoveIsUnheld, Listed, Stays
  <1> QED
    BY <1>1, <1>2, <1>3 DEF Safe

\* A block on object o with new owners S: only a handler of o may come to "remove",
\* and the new holder of o, if there is one, lists it and is not about to lose it.
ObjectShape(o, S) ==
    /\ UNCHANGED invLog
    /\ objLog' = [objLog EXCEPT ![o] = Append(@, S)]
    /\ \A p \in Obj \ {o} : holder'[p] = holder[p]
    /\ \A v \in Worker : pc'[v] = "claim" => Stays(v)
    /\ \A v \in Worker : pc'[v] = "remove" => Stays(v) \/ job'[v].obj = o
    /\ \A i \in Inv : holder'[o] = i => S = Auths[i] /\ o \in Listed(i)
    /\ \A v \in Worker : /\ pc'[v] = "remove" /\ job'[v].obj = o
                         /\ invAt'[v] = Len(invLog[job'[v].inv])
                         /\ o \in Listed(job'[v].inv)
                         => holder'[o] # job'[v].inv

\* Such a block outdates every claim of o, so it keeps the conjuncts.
LEMMA ObjectStep ==
    ASSUME TypeOK, TypeOK', Safe, NEW o \in Obj, NEW S \in SUBSET Key, ObjectShape(o, S)
    PROVE  Safe'
  <1> USE DEF ObjectShape
  <1>1. /\ Len(objLog'[o]) = Len(objLog[o]) + 1
        /\ Owners(o)' = S
        /\ \A p \in Obj \ {o} : objLog'[p] = objLog[p]
    BY ObjectBlock DEF TypeOK
  <1>2. \A i \in Inv : Listed(i)' = Listed(i)
    BY DEF Listed
  <1>3. Len(objLog[o]) \in Nat
    BY LogsOK DEF TypeOK
  <1>4. \A v \in Worker : pc'[v] = "claim" /\ job'[v].obj = o => objAt'[v] < Len(objLog'[o])
    <2> SUFFICES ASSUME NEW v \in Worker, pc'[v] = "claim", job'[v].obj = o
                 PROVE  objAt'[v] < Len(objLog'[o])
      OBVIOUS
    <2>1. pc[v] = "claim" /\ job[v].obj = o /\ objAt'[v] = objAt[v]
      BY DEF Stays
    <2>2. objAt[v] \in 1..Len(objLog[o])
      BY <2>1 DEF TypeOK, HandlesOK
    <2> QED
      BY <1>1, <1>3, <2>1, <2>2
  <1>5. HeldIsListed'
    <2>1. \A p \in Obj \ {o} : Owners(p)' = Owners(p)
      BY <1>1 DEF Owners
    <2> QED
      BY <1>1, <1>2, <2>1 DEF Safe, HeldIsListed
  <1>6. \A v \in Worker : pc'[v] \in {"claim", "remove"} => job'[v].obj \in Obj /\ job'[v].inv \in Inv
    BY DEF TypeOK, ActorsOK, Message
  <1>7. ClaimIsListed'
    <2> SUFFICES ASSUME NEW v \in Worker, pc'[v] = "claim", job'[v].obj # o,
                        objAt'[v] = Len(objLog'[job'[v].obj])
                 PROVE  job'[v].obj \in Listed(job'[v].inv)
      BY <1>1, <1>2, <1>3, <1>4, <1>6 DEF ClaimIsListed
    <2> QED
      BY <1>1, <1>6 DEF Safe, ClaimIsListed, Stays
  <1>8. RemoveIsUnheld'
    <2> SUFFICES ASSUME NEW w \in Worker, pc'[w] = "remove",
                        invAt'[w] = Len(invLog[job'[w].inv]),
                        job'[w].obj \in Listed(job'[w].inv)
                 PROVE  /\ holder'[job'[w].obj] # job'[w].inv
                        /\ \A v \in Worker :
                              pc'[v] = "claim" /\ job'[v].obj = job'[w].obj /\ job'[v].inv = job'[w].inv =>
                                  objAt'[v] < Len(objLog'[job'[v].obj])
      BY <1>2, <1>6 DEF RemoveIsUnheld
    <2>1. CASE job'[w].obj = o
      BY <1>4, <2>1
    <2>2. CASE job'[w].obj # o
      <3>1. Stays(w) /\ job[w].obj \in Obj \ {o}
        BY <1>6, <2>2 DEF Stays
      <3>2. /\ holder[job[w].obj] # job[w].inv
            /\ \A v \in Worker :
                  pc[v] = "claim" /\ job[v].obj = job[w].obj /\ job[v].inv = job[w].inv =>
                      objAt[v] < Len(objLog[job[v].obj])
        BY <3>1 DEF Safe, RemoveIsUnheld, Stays
      <3> QED
        BY <1>1, <3>1, <3>2 DEF Stays
    <2> QED
      BY <2>1, <2>2
  <1> QED
    BY <1>5, <1>7, <1>8 DEF Safe

\* A block on inventory i that lists S: the objects it drops are neither held there
\* nor about to be claimed, and whoever comes to "claim" has been listed.
InventoryShape(i, S) ==
    /\ UNCHANGED <<objLog, holder>>
    /\ invLog' = [invLog EXCEPT ![i] = Append(@, S)]
    /\ \A o \in Listed(i) \ S :
          /\ holder[o] # i
          /\ \A v \in Worker : pc[v] = "claim" /\ job[v].obj = o /\ job[v].inv = i =>
                                  objAt[v] < Len(objLog[o])
    /\ \A v \in Worker : pc'[v] = "claim" =>
          Stays(v) \/ (job'[v].inv = i /\ job'[v].obj \in S)
    /\ \A v \in Worker : pc'[v] = "remove" => Stays(v)

\* Such a block outdates every handle on i, so no other removal from it can follow.
LEMMA InventoryStep ==
    ASSUME TypeOK, TypeOK', Safe, NEW i \in Inv, NEW S \in SUBSET Obj, InventoryShape(i, S)
    PROVE  Safe'
  <1> USE DEF InventoryShape
  <1> DEFINE Bag(j) == invLog'[j][Len(invLog'[j])]
  <1>1. /\ Len(invLog'[i]) = Len(invLog[i]) + 1
        /\ Bag(i) = S
        /\ \A j \in Inv \ {i} : invLog'[j] = invLog[j]
    BY InventoryBlock DEF TypeOK, Listed
  <1>2. \A j \in Inv \ {i} : Bag(j) = Listed(j)
    BY <1>1 DEF Listed
  <1> HIDE DEF Bag
  <1>3. Len(invLog[i]) \in Nat /\ \A o \in Obj : Len(objLog[o]) \in Nat
    BY LogsOK DEF TypeOK
  <1>4. \A v \in Worker : pc'[v] \in {"claim", "remove"} => job'[v].obj \in Obj /\ job'[v].inv \in Inv
    BY DEF TypeOK, ActorsOK, Message
  <1>5. HeldIsListed'
    <2>1. \A o \in Obj : Owners(o)' = Owners(o)
      BY DEF Owners
    <2>2. \A j \in Inv : Listed(j)' = Bag(j)
      BY DEF Listed, Bag
    <2> QED
      BY <1>1, <1>2, <2>1, <2>2 DEF Safe, HeldIsListed
  <1>6. ClaimIsListed'
    <2> SUFFICES ASSUME NEW v \in Worker, pc'[v] = "claim",
                        objAt'[v] = Len(objLog[job'[v].obj])
                 PROVE  job'[v].obj \in Bag(job'[v].inv)
      BY <1>4 DEF ClaimIsListed, Listed, Bag
    <2> SUFFICES ASSUME Stays(v) PROVE job'[v].obj \in Bag(job'[v].inv)
      BY <1>1
    <2>1. /\ job'[v].obj \in Listed(job'[v].inv)
          /\ pc[v] = "claim" /\ job[v] = job'[v]
          /\ ~(objAt[v] < Len(objLog[job[v].obj]))
      BY <1>3, <1>4 DEF Safe, ClaimIsListed, Stays
    <2> QED
      BY <1>1, <1>2, <1>4, <2>1
  <1>7. RemoveIsUnheld'
    <2> SUFFICES ASSUME NEW w \in Worker, pc'[w] = "remove",
                        invAt'[w] = Len(invLog'[job'[w].inv]),
                        job'[w].obj \in Bag(job'[w].inv)
                 PROVE  /\ holder[job'[w].obj] # job'[w].inv
                        /\ \A v \in Worker :
                              pc'[v] = "claim" /\ job'[v].obj = job'[w].obj /\ job'[v].inv = job'[w].inv =>
                                  objAt'[v] < Len(objLog[job'[v].obj])
      BY <1>4 DEF RemoveIsUnheld, Listed, Bag
    <2>1. Stays(w) /\ job[w].inv \in Inv
      BY <1>4 DEF Stays
    <2>2. job[w].inv # i
      <3>1. pc[w] = "remove" /\ invAt[w] = invAt'[w]
        BY <2>1 DEF Stays
      <3>2. invAt[w] \in 1..Len(invLog[job[w].inv])
        BY <3>1 DEF TypeOK, HandlesOK
      <3> QED
        BY <1>1, <1>3, <2>1, <3>1, <3>2 DEF Stays
    <2>3. /\ holder[job[w].obj] # job[w].inv
          /\ \A v \in Worker :
                pc[v] = "claim" /\ job[v].obj = job[w].obj /\ job[v].inv = job[w].inv =>
                    objAt[v] < Len(objLog[job[v].obj])
      BY <1>1, <1>2, <2>1, <2>2 DEF Safe, RemoveIsUnheld, Stays
    <2> QED
      BY <2>1, <2>2, <2>3 DEF Stays
  <1> QED
    BY <1>5, <1>6, <1>7 DEF Safe

\* TypeOK and Safe survive every step of every actor.
LEMMA NextTransferInv == TransferInv /\ [Next]_vars => TransferInv'
  <1> SUFFICES ASSUME TransferInv, [Next]_vars PROVE TransferInv'
    OBVIOUS
  <1>a. TypeOK /\ Safe
    BY DEF TransferInv, Safe
  <1>b. TypeOK'
    BY <1>a, NextTypeOK
  <1> SUFFICES Safe'
    BY <1>b DEF TransferInv, Safe
  <1>c. /\ pc \in [Worker -> {"idle"} \cup RemovePCs \cup AddPCs]
        /\ job \in [Worker -> Message \cup {NoJob}]
        /\ invAt \in [Worker -> Nat] /\ objAt \in [Worker -> Nat]
        /\ holder \in [Obj -> Inv \cup {NoInv}]
    BY <1>a DEF TypeOK, ActorsOK, MessagesOK
  \* The four ways an actor's control moves, for whoever is at "claim" or "remove".
  <1>d. ASSUME NEW w \in Worker, Finish(w)
        PROVE  \A v \in Worker : pc'[v] \in {"claim", "remove"} => Stays(v)
    BY <1>c, <1>d DEF Finish, Stays
  <1>e. ASSUME NEW w \in Worker, NEW p, Goto(w, p), p \notin {"claim", "remove"},
               \A v \in Worker \ {w} : invAt'[v] = invAt[v] /\ objAt'[v] = objAt[v]
        PROVE  \A v \in Worker : pc'[v] \in {"claim", "remove"} => Stays(v)
    BY <1>c, <1>e DEF Goto, Stays
  <1>f. ASSUME NEW w \in Worker, NEW m, NEW p, Start(w, m, p), p \notin {"claim",
               "remove"}
        PROVE  \A v \in Worker : pc'[v] \in {"claim", "remove"} => Stays(v)
    BY <1>c, <1>f DEF Start, Stays
  <1>g. ASSUME UNCHANGED <<pc, job, invAt, objAt>>
        PROVE  \A v \in Worker : pc'[v] \in {"claim", "remove"} => Stays(v)
    BY <1>g DEF Stays
  <1>1. ASSUME NEW w \in Worker, NEW i \in Inv, NEW j \in Inv, NEW o \in Obj,
               DropObject(w, i, j, o)
        PROVE  Safe'
    BY <1>1, <1>a, <1>f, QuietStep DEF DropObject
  <1>2. ASSUME NEW w \in Worker, NEW i \in Inv, NEW j \in Inv, NEW o \in Obj,
               TransferObjectCmd(w, i, j, o)
        PROVE  Safe'
    BY <1>2, <1>a, <1>f, QuietStep DEF TransferObjectCmd
  <1>3. ASSUME NEW w \in Worker, NEW i \in Inv, NEW j \in Inv, NEW o \in Obj,
               TransferObjectRefused(w, i, j, o)
        PROVE  Safe'
    BY <1>3, <1>a, <1>g, QuietStep DEF TransferObjectRefused
  <1>4. ASSUME NEW w \in Worker, NEW i \in Inv, NEW j \in Inv, NEW o \in Obj,
               PickUpObject(w, i, j, o)
        PROVE  Safe'
    BY <1>4, <1>a, <1>g, QuietStep DEF PickUpObject
  <1>5. ASSUME NEW w \in Worker, NEW j \in Inv, NEW o \in Obj, ReceiveObject(w, j, o)
        PROVE  Safe'
    BY <1>5, <1>a, <1>g, QuietStep DEF ReceiveObject
  <1>6. ASSUME NEW w \in Worker, NEW m \in asks, HandleRequest(w, m)
        PROVE  Safe'
    BY <1>6, <1>a, <1>f, QuietStep DEF HandleRequest
  <1>7. ASSUME NEW w \in Worker, NEW m \in inbox, HandleTransferred(w, m)
        PROVE  Safe'
    BY <1>7, <1>a, <1>f, QuietStep DEF HandleTransferred
  <1>8. ASSUME NEW w \in Worker, SendTransferred(w)
        PROVE  Safe'
    BY <1>8, <1>a, <1>e, QuietStep DEF SendTransferred
  <1>9. ASSUME NEW w \in Worker, SendFails(w)
        PROVE  Safe'
    BY <1>9, <1>a, <1>e, QuietStep DEF SendFails
  <1>10. ASSUME NEW w \in Worker, Timeout(w)
        PROVE  Safe'
    BY <1>10, <1>a, <1>e, QuietStep DEF Timeout
  <1>11. ASSUME NEW w \in Worker, SubscriptionStarts(w)
        PROVE  Safe'
    BY <1>11, <1>a, <1>g, QuietStep DEF SubscriptionStarts
  <1>12. ASSUME NEW w \in Worker, Confirm(w)
        PROVE  Safe'
    BY <1>12, <1>a, <1>d, QuietStep DEF Confirm
  <1>13. ASSUME NEW w \in Worker, Crash(w)
        PROVE  Safe'
    BY <1>13, <1>a, <1>d, QuietStep DEF Crash
  <1>14. ASSUME NEW w \in Worker, RequestFails(w)
        PROVE  Safe'
    BY <1>14, <1>a, <1>d, QuietStep DEF RequestFails
  <1>15. ASSUME NEW w \in Worker, TransferredFails(w)
        PROVE  Safe'
    BY <1>15, <1>a, <1>d, QuietStep DEF TransferredFails, FinishAdd
  <1>16. ASSUME NEW w \in Worker, FindSource(w)
        PROVE  Safe'
    <2>1. /\ Goto(w, "object")
          /\ \A v \in Worker \ {w} : invAt'[v] = invAt[v] /\ objAt'[v] = objAt[v]
          /\ UNCHANGED <<objLog, invLog, holder>>
      BY <1>16, <1>c DEF FindSource
    <2> QED
      BY <1>a, <1>e, <2>1, QuietStep
  <1>17. ASSUME NEW w \in Worker, GetObject(w)
        PROVE  Safe'
    <2>1. /\ Goto(w, "offer")
          /\ \A v \in Worker \ {w} : invAt'[v] = invAt[v] /\ objAt'[v] = objAt[v]
          /\ UNCHANGED <<objLog, invLog, holder>>
      BY <1>17, <1>c DEF GetObject
    <2> QED
      BY <1>a, <1>e, <2>1, QuietStep
  <1>18. ASSUME NEW w \in Worker, FindTarget(w)
        PROVE  Safe'
    <2>1. UNCHANGED <<objLog, invLog, holder>>
      BY <1>18 DEF FindTarget
    <2>2. CASE FinishAdd(w)
      BY <1>a, <1>d, <2>1, <2>2, QuietStep DEF FinishAdd
    <2>3. CASE /\ Goto(w, "owner")
               /\ \A v \in Worker \ {w} : invAt'[v] = invAt[v] /\ objAt'[v] = objAt[v]
      BY <1>a, <1>e, <2>1, <2>3, QuietStep
    <2> QED
      BY <1>18, <1>c, <2>2, <2>3 DEF FindTarget
  <1>19. ASSUME NEW w \in Worker, CheckOwner(w)
        PROVE  Safe'
    <2>1. UNCHANGED <<objLog, invLog, holder>>
      BY <1>19 DEF CheckOwner
    <2>2. CASE FinishAdd(w)
      BY <1>a, <1>d, <2>1, <2>2, QuietStep DEF FinishAdd
    <2>3. CASE /\ Goto(w, "add")
               /\ \A v \in Worker \ {w} : invAt'[v] = invAt[v] /\ objAt'[v] = objAt[v]
      BY <1>a, <1>e, <2>1, <2>3, QuietStep
    <2> QED
      BY <1>19, <1>c, <2>2, <2>3 DEF CheckOwner
  <1>20. ASSUME NEW w \in Worker, Offer(w)
        PROVE  Safe'
    <2> DEFINE S == Auths[job[w].inv] \cup Auths[job[w].peer]
    <2>0. pc[w] = "offer" /\ job[w].obj \in Obj /\ S \in SUBSET Key /\ UNCHANGED invLog
      BY <1>20, <1>a, JobOK DEF Offer
    <2>1. CASE /\ PlayObject(w, S)
               /\ holder' = [holder EXCEPT ![job[w].obj] = NoInv]
               /\ \/ /\ objAt' = [objAt EXCEPT ![w] = @ + 1]
                     /\ Goto(w, "remove")
                     /\ UNCHANGED invAt
                  \/ Finish(w)
      <3>1. /\ \A v \in Worker : pc'[v] = "claim" => Stays(v)
            /\ \A v \in Worker : pc'[v] = "remove" => Stays(v) \/ job'[v].obj = job[w].obj
        <4>1. CASE Finish(w)
          BY <1>d, <4>1
        <4>2. CASE Goto(w, "remove") /\ UNCHANGED invAt /\ objAt' = [objAt EXCEPT ![w] = @ + 1]
          BY <1>c, <4>2 DEF Goto, Stays
        <4> QED
          BY <2>1, <4>1, <4>2
      <3>2. holder'[job[w].obj] = NoInv /\ \A p \in Obj \ {job[w].obj} : holder'[p] = holder[p]
        BY <1>c, <2>0, <2>1
      <3>3. \A v \in Worker : pc'[v] = "remove" => job'[v].inv \in Inv
        BY <1>b DEF TypeOK, ActorsOK, Message
      <3>4. objLog' = [objLog EXCEPT ![job[w].obj] = Append(@, S)]
        BY <2>1 DEF PlayObject
      <3> HIDE DEF S
      <3>8. ObjectShape(job[w].obj, S)
        BY <1>a, <1>b, <2>0, <3>1, <3>2, <3>3, <3>4 DEF ObjectShape
      <3>9. S \in SUBSET Key
        BY <2>0
      <3> QED
        BY <1>a, <1>b, <2>0, <3>8, <3>9, ObjectStep
    <2>2. CASE PlayObjectFails(w) /\ Finish(w)
      BY <1>a, <1>d, <2>0, <2>2, QuietStep DEF PlayObjectFails
    <2> QED
      BY <1>20, <2>1, <2>2 DEF Offer
  <1>21. ASSUME NEW w \in Worker, UndoOwner(w)
        PROVE  Safe'
    <2>0. pc[w] = "undoOwner" /\ job[w].obj \in Obj /\ Auths[job[w].inv] \in SUBSET Key /\ UNCHANGED invLog
      BY <1>21, <1>a, JobOK DEF UndoOwner
    <2>1. CASE /\ PlayObject(w, Auths[job[w].inv])
               /\ holder' = [holder EXCEPT ![job[w].obj] = NoInv]
               /\ \/ Goto(w, "undoRemove") /\ UNCHANGED <<invAt, objAt>>
                  \/ Finish(w)
      <3>1. \A v \in Worker : pc'[v] \in {"claim", "remove"} => Stays(v)
        BY <1>d, <1>e, <2>1
      <3>2. holder'[job[w].obj] = NoInv /\ \A p \in Obj \ {job[w].obj} : holder'[p] = holder[p]
        BY <1>c, <2>0, <2>1
      <3>3. \A v \in Worker : pc'[v] = "remove" => job'[v].inv \in Inv
        BY <1>b DEF TypeOK, ActorsOK, Message
      <3>4. objLog' = [objLog EXCEPT ![job[w].obj] = Append(@, Auths[job[w].inv])]
        BY <2>1 DEF PlayObject
      <3>8. ObjectShape(job[w].obj, Auths[job[w].inv])
        BY <1>a, <1>b, <2>0, <3>1, <3>2, <3>3, <3>4 DEF ObjectShape
      <3>9. Auths[job[w].inv] \in SUBSET Key
        BY <2>0
      <3> QED
        BY <1>a, <1>b, <2>0, <3>8, <3>9, ObjectStep
    <2>2. CASE PlayObjectFails(w) /\ Finish(w)
      BY <1>a, <1>d, <2>0, <2>2, QuietStep DEF PlayObjectFails
    <2> QED
      BY <1>21, <2>1, <2>2 DEF UndoOwner
  <1>22. ASSUME NEW w \in Worker, Claim(w)
        PROVE  Safe'
    <2>0. /\ pc[w] = "claim" /\ job[w].obj \in Obj /\ job[w].inv \in Inv
          /\ Auths[job[w].inv] \in SUBSET Key /\ UNCHANGED invLog
      BY <1>22, <1>a, JobOK DEF Claim
    <2>1. \A v \in Worker : pc'[v] \in {"claim", "remove"} => Stays(v)
      BY <1>22, <1>d DEF Claim, FinishAdd
    <2>2. CASE /\ PlayObject(w, Auths[job[w].inv])
               /\ holder' = [holder EXCEPT ![job[w].obj] = job[w].inv]
      <3>1. objLog' = [objLog EXCEPT ![job[w].obj] = Append(@, Auths[job[w].inv])]
        BY <2>2 DEF PlayObject
      <3>2. holder'[job[w].obj] = job[w].inv /\ \A p \in Obj \ {job[w].obj} : holder'[p] = holder[p]
        BY <1>c, <2>0, <2>2
      <3>3. objAt[w] = Len(objLog[job[w].obj]) /\ Len(objLog[job[w].obj]) \in Nat
        BY <1>a, <2>0, <2>2, LogsOK DEF PlayObject, CanPlayObject, TypeOK
      <3>4. job[w].obj \in Listed(job[w].inv)
        BY <1>a, <2>0, <3>3 DEF Safe, ClaimIsListed
      \* A remover of this very object would have outdated this claim.
      <3>5. \A v \in Worker : /\ pc'[v] = "remove" /\ job'[v].obj = job[w].obj
                              /\ invAt'[v] = Len(invLog[job'[v].inv])
                              /\ job[w].obj \in Listed(job'[v].inv)
                              => holder'[job[w].obj] # job'[v].inv
        BY <1>a, <2>0, <2>1, <3>2, <3>3 DEF Safe, RemoveIsUnheld, Stays
      <3>8. ObjectShape(job[w].obj, Auths[job[w].inv])
        BY <1>a, <1>b, <2>0, <2>1, <3>1, <3>2, <3>4, <3>5 DEF ObjectShape
      <3>9. Auths[job[w].inv] \in SUBSET Key
        BY <2>0
      <3> QED
        BY <1>a, <1>b, <2>0, <3>8, <3>9, ObjectStep
    <2>3. CASE PlayObjectFails(w)
      BY <1>a, <2>0, <2>1, <2>3, QuietStep DEF PlayObjectFails
    <2> QED
      BY <1>22, <2>2, <2>3 DEF Claim
  <1>23. ASSUME NEW g \in touch, TouchPlays(g)
        PROVE  Safe'
    <2>1. g.obj \in Obj /\ Owners(g.obj) \in SUBSET Key
      BY <1>a, GoroutineOK, LogsOK DEF TypeOK
    <2>2. /\ UNCHANGED <<invLog, holder, pc, job, invAt, objAt>>
          /\ objLog' = [objLog EXCEPT ![g.obj] = Append(@, Owners(g.obj))]
      BY <1>23 DEF TouchPlays
    <2>3. \A i \in Inv : holder'[g.obj] = i => Owners(g.obj) = Auths[i] /\ g.obj \in Listed(i)
      BY <1>a, <2>1, <2>2 DEF Safe, HeldIsListed
    <2>4. \A v \in Worker : /\ pc'[v] = "remove" /\ job'[v].obj = g.obj
                            /\ invAt'[v] = Len(invLog[job'[v].inv])
                            /\ g.obj \in Listed(job'[v].inv)
                            => holder'[g.obj] # job'[v].inv
      BY <1>a, <2>2 DEF Safe, RemoveIsUnheld
    <2>5. \A v \in Worker : pc'[v] \in {"claim", "remove"} => Stays(v)
      BY <1>g, <2>2
    <2>8. ObjectShape(g.obj, Owners(g.obj))
      BY <1>a, <1>b, <2>1, <2>2, <2>3, <2>4, <2>5 DEF ObjectShape
    <2>9. Owners(g.obj) \in SUBSET Key
      BY <2>1
    <2> QED
      BY <1>a, <1>b, <2>1, <2>8, <2>9, ObjectStep
  <1>24. ASSUME NEW w \in Worker, RemoveFromSource(w)
        PROVE  Safe'
    <2>0. /\ pc[w] = "remove" /\ job[w].obj \in Obj /\ job[w].inv \in Inv
          /\ Seen(w) \in SUBSET Obj /\ UNCHANGED <<objLog, objAt, holder>>
      BY <1>24, <1>a, JobOK, SeenOK DEF RemoveFromSource
    <2>1. /\ \A v \in Worker : pc'[v] \in {"claim", "remove"} => Stays(v)
      <3>1. PICK p \in {"send", "undoOwner"} : Goto(w, p)
        BY <1>24 DEF RemoveFromSource
      <3>2. \A v \in Worker \ {w} : invAt'[v] = invAt[v] /\ objAt'[v] = objAt[v]
        BY <1>24, <1>c DEF RemoveFromSource
      <3> QED
        BY <1>e, <3>1, <3>2
    <2>2. CASE PlayInventory(w, Seen(w) \ {job[w].obj}) /\ job[w].obj \in Seen(w)
      <3>1. /\ invAt[w] = Len(invLog[job[w].inv]) /\ Seen(w) = Listed(job[w].inv)
            /\ invLog' = [invLog EXCEPT ![job[w].inv] = Append(@, Seen(w) \ {job[w].obj})]
        BY <2>2 DEF PlayInventory, CanPlayInventory, Seen, Listed
      <3>2. \A o \in Listed(job[w].inv) \ (Seen(w) \ {job[w].obj}) : o = job[w].obj
        BY <3>1
      <3>3. /\ holder[job[w].obj] # job[w].inv
            /\ \A v \in Worker :
                  pc[v] = "claim" /\ job[v].obj = job[w].obj /\ job[v].inv = job[w].inv =>
                      objAt[v] < Len(objLog[job[w].obj])
        BY <1>a, <2>0, <2>2, <3>1 DEF Safe, RemoveIsUnheld
      <3>8. InventoryShape(job[w].inv, Seen(w) \ {job[w].obj})
        BY <1>a, <1>b, <2>0, <2>1, <3>1, <3>2, <3>3 DEF InventoryShape
      <3>9. Seen(w) \ {job[w].obj} \in SUBSET Obj
        BY <2>0
      <3> QED
        BY <1>a, <1>b, <2>0, <3>8, <3>9, InventoryStep
    <2>3. CASE UNCHANGED invLog
      BY <1>a, <2>0, <2>1, <2>3, QuietStep
    <2> QED
      BY <1>24, <2>2, <2>3 DEF RemoveFromSource, PlayInventoryFails
  <1>25. ASSUME NEW w \in Worker, UndoRemove(w)
        PROVE  Safe'
    <2>0. /\ pc[w] = "undoRemove" /\ job[w].obj \in Obj /\ job[w].inv \in Inv
          /\ Seen(w) \in SUBSET Obj /\ UNCHANGED <<objLog, holder>>
      BY <1>25, <1>a, JobOK, SeenOK DEF UndoRemove
    <2>1. \A v \in Worker : pc'[v] \in {"claim", "remove"} => Stays(v)
      BY <1>25, <1>d DEF UndoRemove
    <2>2. CASE PlayInventory(w, Seen(w) \cup {job[w].obj})
      <3>1. /\ Seen(w) = Listed(job[w].inv)
            /\ invLog' = [invLog EXCEPT ![job[w].inv] = Append(@, Seen(w) \cup {job[w].obj})]
        BY <2>2 DEF PlayInventory, CanPlayInventory, Seen, Listed
      <3>2. Listed(job[w].inv) \ (Seen(w) \cup {job[w].obj}) = {}
        BY <3>1
      <3>8. InventoryShape(job[w].inv, Seen(w) \cup {job[w].obj})
        BY <1>a, <1>b, <2>0, <2>1, <3>1, <3>2 DEF InventoryShape
      <3>9. Seen(w) \cup {job[w].obj} \in SUBSET Obj
        BY <2>0
      <3> QED
        BY <1>a, <1>b, <2>0, <3>8, <3>9, InventoryStep
    <2>3. CASE UNCHANGED invLog
      BY <1>a, <2>0, <2>1, <2>3, QuietStep
    <2> QED
      BY <1>25, <2>2, <2>3 DEF UndoRemove, PlayInventoryFails
  <1>26. ASSUME NEW w \in Worker, AddToTarget(w)
        PROVE  Safe'
    <2>0. /\ pc[w] = "add" /\ job[w].obj \in Obj /\ job[w].inv \in Inv
          /\ Seen(w) \in SUBSET Obj /\ UNCHANGED <<objLog, holder>>
      BY <1>26, <1>a, JobOK, SeenOK DEF AddToTarget
    <2>1. CASE PlayInventoryFails(w) /\ FinishAdd(w)
      BY <1>a, <1>d, <2>0, <2>1, QuietStep DEF FinishAdd, PlayInventoryFails
    <2>2. CASE /\ PlayInventory(w, Seen(w) \cup {job[w].obj})
               /\ \/ Goto(w, "claim") /\ UNCHANGED <<invAt, objAt>>
                  \/ FinishAdd(w)
      <3>1. /\ Seen(w) = Listed(job[w].inv)
            /\ invLog' = [invLog EXCEPT ![job[w].inv] = Append(@, Seen(w) \cup {job[w].obj})]
        BY <2>2 DEF PlayInventory, CanPlayInventory, Seen, Listed
      <3>2. Listed(job[w].inv) \ (Seen(w) \cup {job[w].obj}) = {}
        BY <3>1
      <3>3. /\ \A v \in Worker : pc'[v] = "claim" => Stays(v) \/ job'[v] = job[w]
            /\ \A v \in Worker : pc'[v] = "remove" => Stays(v)
        <4>1. CASE FinishAdd(w)
          BY <1>d, <4>1 DEF FinishAdd
        <4>2. CASE Goto(w, "claim") /\ UNCHANGED <<invAt, objAt>>
          BY <1>c, <4>2 DEF Goto, Stays
        <4> QED
          BY <2>2, <4>1, <4>2
      <3>8. InventoryShape(job[w].inv, Seen(w) \cup {job[w].obj})
        BY <1>a, <1>b, <2>0, <3>1, <3>2, <3>3 DEF InventoryShape
      <3>9. Seen(w) \cup {job[w].obj} \in SUBSET Obj
        BY <2>0
      <3> QED
        BY <1>a, <1>b, <2>0, <3>8, <3>9, InventoryStep
    <2> QED
      BY <1>26, <2>1, <2>2 DEF AddToTarget
  <1>27. ASSUME NEW g \in touch, TouchSubscribes(g)
        PROVE  Safe'
    BY <1>27, <1>a, <1>g, QuietStep DEF TouchSubscribes
  <1>28. ASSUME NEW g \in touch, TouchReads(g)
        PROVE  Safe'
    BY <1>28, <1>a, <1>g, QuietStep DEF TouchReads
  <1>29. ASSUME NEW g \in touch, TouchGivesUp(g)
        PROVE  Safe'
    BY <1>29, <1>a, <1>g, QuietStep DEF TouchGivesUp
  <1>30. CASE UNCHANGED vars
    BY <1>30, <1>a, <1>g, QuietStep DEF vars
  <1> QED
    BY <1>1, <1>2, <1>3, <1>4, <1>5, <1>6, <1>7, <1>8, <1>9, <1>10,
       <1>11, <1>12, <1>13, <1>14, <1>15, <1>16, <1>17, <1>18, <1>19, <1>20,
       <1>21, <1>22, <1>23, <1>24, <1>25, <1>26, <1>27, <1>28, <1>29, <1>30
    DEF Next, Command, RemoveStep, AddStep, TouchStep

\* Initially every object is at home and nobody is working.
LEMMA InitTransferInv == Init => TransferInv
  <1> SUFFICES ASSUME Init PROVE TransferInv
    OBVIOUS
  <1>1. TypeOK
    BY InitTypeOK
  <1>2. ClaimIsListed /\ RemoveIsUnheld
    BY DEF Init, ClaimIsListed, RemoveIsUnheld
  <1>3. HeldIsListed
    BY DEF Init, HeldIsListed, Owners, Listed
  <1> QED
    BY <1>1, <1>2, <1>3 DEF TransferInv

\* The inductive invariant holds: whoever is about to claim an object with a current
\* handle lists it, and whoever is about to remove one has ended its holder and claims.
THEOREM TransferInvariant == Spec => []TransferInv
  BY InitTransferInv, NextTransferInv, PTL DEF Spec

\* Whatever handlers, sessions, stale reads, lost replies, timeouts and crashes do, an
\* object an inventory has claimed with UnrestrictedAddHandler is owned by that
\* inventory's keys alone and listed there until another transfer of it begins.
THEOREM HeldObjectsAreListed == Spec => []HeldIsListed
  <1>1. TransferInv => HeldIsListed
    BY DEF TransferInv
  <1> QED
    BY <1>1, TransferInvariant, PTL

-----------------------------------------------------------------------------
(***************************************************************************)
(* ObjectTransfer implements Custody: mapped to the owners at the tip of   *)
(* each object, every step of the protocol is an Offer, a Claim, a         *)
(* TakeBack, or changes neither owners nor holder.                         *)
(***************************************************************************)

owners == [o \in Obj |-> Owners(o)]

\* The initial states map to initial states of Custody.
LEMMA InitCustody == Init => CustodySpec!Init
  <1> SUFFICES ASSUME Init PROVE CustodySpec!Init
    OBVIOUS
  <1>1. PICK home \in [Obj -> Inv] :
             objLog = [o \in Obj |-> <<Auths[home[o]]>>] /\ holder = home
    BY DEF Init
  <1>2. [o \in Obj |-> Owners(o)] = [o \in Obj |-> Auths[home[o]]]
    BY <1>1 DEF Owners
  <1> QED
    BY <1>1, <1>2 DEF CustodySpec!Init

\* A step that plays no block on an object is a stuttering step of Custody.
LEMMA Stutter ==
    ASSUME UNCHANGED <<objLog, holder>>
    PROVE  UNCHANGED CustodySpec!custodyVars
  BY DEF CustodySpec!custodyVars, Owners

\* What a block on object o does to the owners of the objects.
LEMMA OwnersBlock ==
    ASSUME TypeOK, NEW o \in Obj, NEW S \in SUBSET Key, UNCHANGED invLog,
           objLog' = [objLog EXCEPT ![o] = Append(@, S)]
    PROVE  owners' = [owners EXCEPT ![o] = S]
  <1>1. Owners(o)' = S /\ \A p \in Obj \ {o} : objLog'[p] = objLog[p]
    BY ObjectBlock DEF TypeOK
  <1>2. \A p \in Obj \ {o} : Owners(p)' = Owners(p)
    BY <1>1 DEF Owners
  <1> QED
    BY <1>1, <1>2 DEF owners

\* The actor that plays the block acts for an owner.
LEMMA ActorMayAct ==
    ASSUME TypeOK, NEW w \in Worker, pc[w] # "idle", NEW S, PlayObject(w, S)
    PROVE  Auths[job[w].inv] \cap owners[job[w].obj] # {}
  <1>1. job[w].inv \in Serves[w] /\ job[w].obj \in Obj
    BY JobOK
  <1>2. KeyOf[w] \in Owners(job[w].obj)
    BY DEF PlayObject, CanPlayObject
  <1>3. KeyOf[w] \in Auths[job[w].inv]
    BY <1>1
  <1> QED
    BY <1>1, <1>2, <1>3 DEF owners

\* Every step of the protocol is a step of Custody or a stuttering step.
LEMMA NextCustody == TypeOK /\ [Next]_vars => [CustodySpec!Next]_(CustodySpec!custodyVars)
  <1> SUFFICES ASSUME TypeOK, [Next]_vars
               PROVE  CustodySpec!Next \/ UNCHANGED CustodySpec!custodyVars
    OBVIOUS
  <1> DEFINE Goal == CustodySpec!Next \/ UNCHANGED CustodySpec!custodyVars
  <1>1. ASSUME NEW w \in Worker, NEW i \in Inv, NEW j \in Inv, NEW o \in Obj,
               DropObject(w, i, j, o) PROVE Goal
    BY <1>1, Stutter DEF DropObject
  <1>2. ASSUME NEW w \in Worker, NEW i \in Inv, NEW j \in Inv, NEW o \in Obj,
               TransferObjectCmd(w, i, j, o) PROVE Goal
    BY <1>2, Stutter DEF TransferObjectCmd
  <1>3. ASSUME NEW w \in Worker, NEW i \in Inv, NEW j \in Inv, NEW o \in Obj,
               TransferObjectRefused(w, i, j, o) PROVE Goal
    BY <1>3, Stutter DEF TransferObjectRefused
  <1>4. ASSUME NEW w \in Worker, NEW i \in Inv, NEW j \in Inv, NEW o \in Obj,
               PickUpObject(w, i, j, o) PROVE Goal
    BY <1>4, Stutter DEF PickUpObject
  <1>5. ASSUME NEW w \in Worker, NEW j \in Inv, NEW o \in Obj, ReceiveObject(w, j,
               o) PROVE Goal
    BY <1>5, Stutter DEF ReceiveObject
  <1>6. ASSUME NEW w \in Worker, NEW m \in asks, HandleRequest(w, m) PROVE Goal
    BY <1>6, Stutter DEF HandleRequest
  <1>7. ASSUME NEW w \in Worker, NEW m \in inbox, HandleTransferred(w, m) PROVE Goal
    BY <1>7, Stutter DEF HandleTransferred
  <1>8. ASSUME NEW w \in Worker, FindSource(w) PROVE Goal
    BY <1>8, Stutter DEF FindSource
  <1>9. ASSUME NEW w \in Worker, GetObject(w) PROVE Goal
    BY <1>9, Stutter DEF GetObject
  <1>10. ASSUME NEW w \in Worker, RemoveFromSource(w) PROVE Goal
    BY <1>10, Stutter DEF RemoveFromSource
  <1>11. ASSUME NEW w \in Worker, SendTransferred(w) PROVE Goal
    BY <1>11, Stutter DEF SendTransferred
  <1>12. ASSUME NEW w \in Worker, SendFails(w) PROVE Goal
    BY <1>12, Stutter DEF SendFails
  <1>13. ASSUME NEW w \in Worker, SubscriptionStarts(w) PROVE Goal
    BY <1>13, Stutter DEF SubscriptionStarts
  <1>14. ASSUME NEW w \in Worker, Confirm(w) PROVE Goal
    BY <1>14, Stutter DEF Confirm
  <1>15. ASSUME NEW w \in Worker, Timeout(w) PROVE Goal
    BY <1>15, Stutter DEF Timeout
  <1>16. ASSUME NEW w \in Worker, UndoRemove(w) PROVE Goal
    BY <1>16, Stutter DEF UndoRemove
  <1>17. ASSUME NEW w \in Worker, FindTarget(w) PROVE Goal
    BY <1>17, Stutter DEF FindTarget
  <1>18. ASSUME NEW w \in Worker, CheckOwner(w) PROVE Goal
    BY <1>18, Stutter DEF CheckOwner
  <1>19. ASSUME NEW w \in Worker, RequestFails(w) PROVE Goal
    BY <1>19, Stutter DEF RequestFails
  <1>20. ASSUME NEW w \in Worker, TransferredFails(w) PROVE Goal
    BY <1>20, Stutter DEF TransferredFails
  <1>21. ASSUME NEW w \in Worker, AddToTarget(w) PROVE Goal
    BY <1>21, Stutter DEF AddToTarget
  <1>22. ASSUME NEW w \in Worker, Crash(w) PROVE Goal
    BY <1>22, Stutter DEF Crash
  <1>23. ASSUME NEW g \in touch, TouchSubscribes(g) PROVE Goal
    BY <1>23, Stutter DEF TouchSubscribes
  <1>24. ASSUME NEW g \in touch, TouchReads(g) PROVE Goal
    BY <1>24, Stutter DEF TouchReads
  <1>25. ASSUME NEW g \in touch, TouchGivesUp(g) PROVE Goal
    BY <1>25, Stutter DEF TouchGivesUp
  <1>26. ASSUME NEW w \in Worker, Offer(w) PROVE Goal
    <2> DEFINE S == Auths[job[w].inv] \cup Auths[job[w].peer]
    <2>0. /\ pc[w] # "idle" /\ job[w].obj \in Obj /\ job[w].inv \in Inv /\ job[w].peer \in Inv
          /\ S \in SUBSET Key /\ UNCHANGED invLog
      BY <1>26, JobOK DEF Offer
    <2>1. CASE /\ PlayObject(w, S)
               /\ holder' = [holder EXCEPT ![job[w].obj] = NoInv]
      <3>1. owners' = [owners EXCEPT ![job[w].obj] = S]
        BY <2>0, <2>1, OwnersBlock DEF PlayObject
      <3>2. Auths[job[w].inv] \cap owners[job[w].obj] # {}
        BY <2>0, <2>1, ActorMayAct
      <3>3. CustodySpec!Offer(job[w].obj, job[w].inv, job[w].peer)
        BY <2>1, <3>1, <3>2 DEF CustodySpec!Offer, CustodySpec!MayAct, owners
      <3> QED
        BY <2>0, <3>3 DEF CustodySpec!Next
    <2>2. CASE PlayObjectFails(w)
      BY <2>2, Stutter DEF PlayObjectFails
    <2> QED
      BY <1>26, <2>1, <2>2 DEF Offer
  <1>27. ASSUME NEW w \in Worker, UndoOwner(w) PROVE Goal
    <2> DEFINE S == Auths[job[w].inv]
    <2>0. /\ pc[w] # "idle" /\ job[w].obj \in Obj /\ job[w].inv \in Inv /\ job[w].peer \in Inv
          /\ S \in SUBSET Key /\ UNCHANGED invLog
      BY <1>27, JobOK DEF UndoOwner
    <2>1. CASE /\ PlayObject(w, S)
               /\ holder' = [holder EXCEPT ![job[w].obj] = NoInv]
      <3>1. owners' = [owners EXCEPT ![job[w].obj] = S]
        BY <2>0, <2>1, OwnersBlock DEF PlayObject
      <3>2. Auths[job[w].inv] \cap owners[job[w].obj] # {}
        BY <2>0, <2>1, ActorMayAct
      <3>3. CustodySpec!TakeBack(job[w].obj, job[w].inv)
        BY <2>1, <3>1, <3>2 DEF CustodySpec!TakeBack, CustodySpec!MayAct, owners
      <3> QED
        BY <2>0, <3>3 DEF CustodySpec!Next
    <2>2. CASE PlayObjectFails(w)
      BY <2>2, Stutter DEF PlayObjectFails
    <2> QED
      BY <1>27, <2>1, <2>2 DEF UndoOwner
  <1>28. ASSUME NEW w \in Worker, Claim(w) PROVE Goal
    <2> DEFINE S == Auths[job[w].inv]
    <2>0. /\ pc[w] # "idle" /\ job[w].obj \in Obj /\ job[w].inv \in Inv /\ job[w].peer \in Inv
          /\ S \in SUBSET Key /\ UNCHANGED invLog
      BY <1>28, JobOK DEF Claim
    <2>1. CASE /\ PlayObject(w, S)
               /\ holder' = [holder EXCEPT ![job[w].obj] = job[w].inv]
      <3>1. owners' = [owners EXCEPT ![job[w].obj] = S]
        BY <2>0, <2>1, OwnersBlock DEF PlayObject
      <3>2. Auths[job[w].inv] \cap owners[job[w].obj] # {}
        BY <2>0, <2>1, ActorMayAct
      <3>3. CustodySpec!Claim(job[w].obj, job[w].inv)
        BY <2>1, <3>1, <3>2 DEF CustodySpec!Claim, CustodySpec!MayAct, owners
      <3> QED
        BY <2>0, <3>3 DEF CustodySpec!Next
    <2>2. CASE PlayObjectFails(w)
      BY <2>2, Stutter DEF PlayObjectFails
    <2> QED
      BY <1>28, <2>1, <2>2 DEF Claim
  \* The goroutine's own block keeps the owners.
  <1>29. ASSUME NEW g \in touch, TouchPlays(g) PROVE Goal
    <2>1. g.obj \in Obj /\ Owners(g.obj) \in SUBSET Key
      BY GoroutineOK, LogsOK DEF TypeOK
    <2>2. owners' = [owners EXCEPT ![g.obj] = Owners(g.obj)]
      BY <1>29, <2>1, OwnersBlock DEF TouchPlays
    <2>3. owners' = owners
      BY <2>1, <2>2 DEF owners
    <2> QED
      BY <1>29, <2>3 DEF TouchPlays, owners, CustodySpec!custodyVars
  <1>30. CASE UNCHANGED vars
    BY <1>30, Stutter DEF vars
  <1> QED
    BY <1>1, <1>2, <1>3, <1>4, <1>5, <1>6, <1>7, <1>8, <1>9, <1>10,
       <1>11, <1>12, <1>13, <1>14, <1>15, <1>16, <1>17, <1>18, <1>19, <1>20,
       <1>21, <1>22, <1>23, <1>24, <1>25, <1>26, <1>27, <1>28, <1>29, <1>30
    DEF Next, Command, RemoveStep, AddStep, TouchStep

\* The transfer protocol implements the ownership promise of Custody: only an owner
\* acting for an inventory shares an object, claims it or takes it back, and nothing
\* else (a lost reply, a crash, a late message, the goroutine's block) changes who
\* owns it.
THEOREM TransferImplementsCustody == Spec => ImplementsCustody
  BY InitCustody, NextCustody, TypeCorrect, PTL
    DEF Spec, ImplementsCustody, CustodySpec!Spec

-----------------------------------------------------------------------------
(***************************************************************************)
(* IdleObjectInPlace, where the network is reliable: reads are current, no *)
(* block is lost, no process dies, no goroutine touches the object, and an *)
(* inventory has one actor.  Then the handler that played the last block   *)
(* on an object answers for it: it has claimed or restored it, or it is    *)
(* still on its way to do so with a handle that nobody has outdated.       *)
(***************************************************************************)

\* The conditions under which players drop and pick up.
Reliable ==
    /\ Lag = 0 /\ Faulty = FALSE /\ TransferCmd = FALSE /\ MaxCrashes = 0
    /\ \A v, w \in Worker : v # w => Serves[v] \cap Serves[w] = {}

\* The statements of a handler that has shared an object and must undo or finish it.
SharePCs == {"remove", "send", "wait", "undoOwner"}
HandlePCs == {"object", "offer", "owner", "add", "undoRemove"} \cup SharePCs

Latest(w) == objAt[w] = Len(objLog[job[w].obj])

\* The only actor of an inventory has a current handle on it.
HandlesFresh ==
    \A w \in Worker : pc[w] \in HandlePCs => invAt[w] = Len(invLog[job[w].inv])

\* Both rollbacks are pushed once the object is off the source's list.
RollbacksPushed ==
    \A w \in Worker : pc[w] \in {"send", "wait", "undoOwner"} => rollbacks[w] = 2

\* A handler whose block is the last one may play the next.
SharersOwn ==
    \A w \in Worker : pc[w] \in SharePCs /\ Latest(w) =>
        Owners(job[w].obj) = Auths[job[w].inv] \cup Auths[job[w].peer]

\* A handler hears of an object only if its own block is not the last any more.
AckedIsStale == \A w \in Worker : sub[w] = "acked" => ~Latest(w)

\* Who answers for an object: an inventory that nobody is taking it from, a handler
\* that shares it, or one that is about to list it again.
InPlace(o) ==
    \E i \in Inv : /\ Owners(o) = Auths[i] /\ o \in Listed(i)
                   /\ \A w \in Worker : pc[w] = "remove" /\ job[w].obj = o => job[w].inv # i
Shared(o) == \E w \in Worker : pc[w] \in SharePCs /\ job[w].obj = o /\ Latest(w)
Restoring(o) ==
    \E w \in Worker : pc[w] = "undoRemove" /\ job[w].obj = o /\ Owners(o) = Auths[job[w].inv]

Placed ==
    /\ HandlesFresh /\ RollbacksPushed /\ SharersOwn /\ AckedIsStale
    /\ \A o \in Obj : InPlace(o) \/ Shared(o) \/ Restoring(o)

PlacedInv == TransferInv /\ touch = {} /\ Placed

\* The other actors stay where they are.
Others(w) ==
    \A v \in Worker \ {w} : Stays(v) /\ rollbacks'[v] = rollbacks[v]

\* No actor moves and no block is played.
LEMMA NobodyMoves ==
    ASSUME Placed, UNCHANGED <<objLog, invLog, pc, job, invAt, objAt, rollbacks>>,
           \A v \in Worker : sub'[v] = "acked" => sub[v] = "acked"
    PROVE  Placed'
  <1>1. HandlesFresh' /\ RollbacksPushed' /\ AckedIsStale'
    BY DEF Placed, HandlesFresh, RollbacksPushed, AckedIsStale, Latest
  <1>2. SharersOwn'
    BY DEF Placed, SharersOwn, Latest, Owners
  <1>3. ASSUME NEW o \in Obj PROVE (InPlace(o) \/ Shared(o) \/ Restoring(o))'
    BY DEF Placed, InPlace, Shared, Restoring, Latest, Owners, Listed
  <1> QED
    BY <1>1, <1>2, <1>3 DEF Placed

\* What the actor that moves has to keep, whatever it plays.
Keeps(w) ==
    /\ pc'[w] \in HandlePCs => invAt'[w] = Len(invLog'[job'[w].inv])
    /\ pc'[w] \in {"send", "wait", "undoOwner"} => rollbacks'[w] = 2

\* A handler that shares an object goes on doing so and no handler begins.
KeepsSharing(w) ==
    /\ pc'[w] \in SharePCs => pc[w] \in SharePCs /\ job'[w] = job[w] /\ objAt'[w] = objAt[w]
    /\ pc[w] \in SharePCs /\ Latest(w) => pc'[w] \in SharePCs
    /\ pc'[w] # "remove"

\* An actor moves and plays no block.
LEMMA ActorMoves ==
    ASSUME TypeOK, Placed, NEW w \in Worker, Others(w), UNCHANGED <<objLog, invLog>>,
           Keeps(w), KeepsSharing(w), pc[w] # "undoRemove",
           \A v \in Worker : sub'[v] = "acked" => v # w /\ sub[v] = "acked"
    PROVE  Placed'
  <1>1. HandlesFresh' /\ RollbacksPushed'
    BY DEF Placed, HandlesFresh, RollbacksPushed, Others, Stays, Keeps
  <1>2. AckedIsStale'
    BY DEF Placed, AckedIsStale, Latest, Others, Stays
  <1>3. SharersOwn'
    <2> SUFFICES ASSUME NEW v \in Worker, pc'[v] \in SharePCs, objAt'[v] = Len(objLog[job'[v].obj])
                 PROVE  objLog[job'[v].obj][Len(objLog[job'[v].obj])]
                           = Auths[job'[v].inv] \cup Auths[job'[v].peer]
      BY DEF SharersOwn, Latest, Owners
    <2>1. pc[v] \in SharePCs /\ job'[v] = job[v] /\ objAt'[v] = objAt[v]
      BY DEF Others, Stays, KeepsSharing
    <2> QED
      BY <2>1 DEF Placed, SharersOwn, Latest, Owners
  <1>4. ASSUME NEW o \in Obj PROVE (InPlace(o) \/ Shared(o) \/ Restoring(o))'
    <2>1. CASE InPlace(o)
      <3>1. \A v \in Worker : pc'[v] = "remove" => pc[v] = "remove" /\ job'[v] = job[v]
        BY DEF Others, Stays, KeepsSharing
      <3>2. InPlace(o)'
        BY <2>1, <3>1 DEF InPlace, Owners, Listed
      <3> QED
        BY <3>2
    <2>2. CASE Shared(o)
      <3>1. PICK v \in Worker : pc[v] \in SharePCs /\ job[v].obj = o /\ Latest(v)
        BY <2>2 DEF Shared
      <3>2. pc'[v] \in SharePCs /\ job'[v] = job[v] /\ objAt'[v] = objAt[v]
        BY <3>1 DEF Others, Stays, KeepsSharing
      <3>3. Shared(o)'
        BY <3>1, <3>2 DEF Shared, Latest
      <3> QED
        BY <3>3
    <2>3. CASE Restoring(o)
      <3>1. Restoring(o)'
        BY <2>3 DEF Restoring, Others, Stays, Owners
      <3> QED
        BY <3>1
    <2> QED
      BY <2>1, <2>2, <2>3 DEF Placed
  <1> QED
    BY <1>1, <1>2, <1>3, <1>4 DEF Placed

\* An actor plays a block on the object of its message: every other handle on it is
\* outdated, and this actor answers for it from now on.
LEMMA ObjectPlayed ==
    ASSUME TypeOK, TypeOK', Placed, NEW w \in Worker, Others(w), UNCHANGED invLog,
           pc[w] \in {"offer", "undoOwner", "claim"}, NEW S \in SUBSET Key, PlayObject(w, S),
           NEW o \in Obj, job[w].obj = o, Keeps(w), pc'[w] = "idle" \/ job'[w] = job[w],
           pc'[w] \in SharePCs => S = Auths[job[w].inv] \cup Auths[job[w].peer],
           (InPlace(o) \/ Shared(o) \/ Restoring(o))'
    PROVE  Placed'
  <1>1. o \in Obj /\ pc[w] # "idle"
    OBVIOUS
  <1>2. /\ objLog' = [objLog EXCEPT ![o] = Append(@, S)] /\ sub' = Announced(o)
        /\ objAt[w] = Len(objLog[o])
    BY DEF PlayObject, CanPlayObject
  <1>3. /\ Len(objLog'[o]) = Len(objLog[o]) + 1
        /\ objLog'[o][Len(objLog'[o])] = S
        /\ \A p \in Obj \ {o} : objLog'[p] = objLog[p]
    <2>1. Owners(o)' = S
      BY <1>1, <1>2, ObjectBlock DEF TypeOK
    <2>2. objLog'[o][Len(objLog'[o])] = S
      BY <2>1 DEF Owners
    <2>3. /\ Len(objLog'[o]) = Len(objLog[o]) + 1
          /\ \A p \in Obj \ {o} : objLog'[p] = objLog[p]
      BY <1>1, <1>2, ObjectBlock DEF TypeOK
    <2> QED
      BY <2>2, <2>3
  <1>4. Len(objLog[o]) \in Nat /\ Len(objLog'[o]) \in Nat
    BY <1>1, LogsOK DEF TypeOK
  <1>5. \A v \in Worker : pc[v] \in SharePCs /\ v # w => job'[v] = job[v] /\ job[v].obj \in Obj
    BY JobOK DEF Others, Stays, SharePCs
  \* Whoever else has a handle on the object is behind.
  <1>6. \A v \in Worker : v # w /\ pc[v] \in SharePCs /\ job[v].obj = o => objAt'[v] < Len(objLog'[o])
    <2> SUFFICES ASSUME NEW v \in Worker, v # w, pc[v] \in SharePCs, job[v].obj = o
                 PROVE  objAt'[v] < Len(objLog'[o])
      OBVIOUS
    <2>1. objAt[v] \in 1..Len(objLog[o]) /\ objAt'[v] = objAt[v]
      BY DEF TypeOK, HandlesOK, Others, Stays, SharePCs
    <2> QED
      BY <1>3, <1>4, <2>1
  <1>7. HandlesFresh' /\ RollbacksPushed'
    BY DEF Placed, HandlesFresh, RollbacksPushed, Others, Stays, Keeps
  <1>8. AckedIsStale'
    <2> SUFFICES ASSUME NEW v \in Worker, sub'[v] = "acked" PROVE ~Latest(v)'
      BY DEF AckedIsStale
    <2>1. sub[v] # "off" /\ (sub[v] = "acked" \/ job[v].obj = o)
      BY <1>2 DEF Announced, TypeOK, ActorsOK
    <2>2. pc[v] = "wait" /\ v # w
      BY <2>1 DEF TypeOK, ActorsOK
    <2>3. job[v].obj \in Obj /\ Stays(v) /\ objAt[v] \in 1..Len(objLog[job[v].obj])
      BY <1>5, <2>2 DEF Others, SharePCs, TypeOK, HandlesOK
    <2>4. CASE job[v].obj = o
      <3>1. objAt'[v] < Len(objLog'[o])
        BY <1>6, <2>2, <2>4 DEF SharePCs
      <3>2. objAt'[v] \in Nat
        BY DEF TypeOK, ActorsOK
      <3> QED
        BY <1>4, <2>3, <2>4, <3>1, <3>2 DEF Latest, Stays
    <2>5. CASE job[v].obj # o
      BY <1>3, <2>1, <2>3, <2>5 DEF Placed, AckedIsStale, Latest, Stays
    <2> QED
      BY <2>4, <2>5
  <1>9. SharersOwn'
    <2> SUFFICES ASSUME NEW v \in Worker, v # w, pc'[v] \in SharePCs,
                        objAt'[v] = Len(objLog'[job'[v].obj])
                 PROVE  objLog'[job'[v].obj][Len(objLog'[job'[v].obj])]
                           = Auths[job'[v].inv] \cup Auths[job'[v].peer]
      <3>1. pc'[w] \in SharePCs =>
               objLog'[job'[w].obj][Len(objLog'[job'[w].obj])]
                  = Auths[job'[w].inv] \cup Auths[job'[w].peer]
        BY <1>3 DEF SharePCs
      <3> QED
        BY <3>1 DEF SharersOwn, Latest, Owners
    <2>1. Stays(v) /\ job[v].obj \in Obj
      BY <1>5 DEF Others, Stays
    <2>2. job[v].obj # o
      <3>1. objAt'[v] \in Nat /\ objAt'[v] = Len(objLog'[job[v].obj])
        BY <2>1 DEF TypeOK, ActorsOK, Stays
      <3> QED
        BY <1>4, <1>6, <2>1, <3>1 DEF Stays
    <2>3. objLog'[job[v].obj] = objLog[job[v].obj]
      BY <1>3, <2>1, <2>2
    <2>4. /\ pc[v] \in SharePCs /\ Latest(v)
          /\ job'[v] = job[v]
      BY <2>1, <2>3 DEF Stays, Latest
    <2>5. Owners(job[v].obj) = Auths[job[v].inv] \cup Auths[job[v].peer]
      BY <2>4 DEF Placed, SharersOwn
    <2> QED
      BY <2>3, <2>4, <2>5 DEF Owners
  <1>10. ASSUME NEW p \in Obj PROVE (InPlace(p) \/ Shared(p) \/ Restoring(p))'
    <2>1. CASE p # o
      <3>1. Owners(p)' = Owners(p) /\ objLog'[p] = objLog[p] /\ \A i \in Inv : Listed(i)' = Listed(i)
        BY <1>3, <2>1 DEF Owners, Listed
      <3>2. CASE InPlace(p)
        <4>1. \A v \in Worker : pc'[v] = "remove" /\ job'[v].obj = p => pc[v] = "remove" /\ job'[v] = job[v]
          BY <2>1 DEF Others, Stays
        <4>2. InPlace(p)'
          BY <3>1, <3>2, <4>1 DEF InPlace
        <4> QED
          BY <4>2
      <3>3. CASE Shared(p)
        <4>1. Shared(p)'
          BY <2>1, <3>1, <3>3 DEF Shared, Latest, Others, Stays
        <4> QED
          BY <4>1
      <3>4. CASE Restoring(p)
        <4>1. Restoring(p)'
          BY <2>1, <3>1, <3>4 DEF Restoring, Others, Stays
        <4> QED
          BY <4>1
      <3> QED
        BY <3>2, <3>3, <3>4 DEF Placed
    <2> QED
      BY <2>1
  <1> QED
    BY <1>7, <1>8, <1>9, <1>10 DEF Placed

\* An actor plays a block on its own inventory: it may only drop the object it shares.
LEMMA InventoryPlayed ==
    ASSUME Reliable, TypeOK, TypeOK', Placed, NEW w \in Worker, Others(w),
           UNCHANGED <<objLog, sub>>, pc[w] \in {"remove", "undoRemove", "add"},
           NEW S \in SUBSET Obj, PlayInventory(w, S), Keeps(w), KeepsSharing(w),
           NEW i \in Inv, job[w].inv = i,
           \A o \in Listed(i) \ S : pc[w] = "remove" /\ o = job[w].obj,
           pc[w] = "undoRemove" => job[w].obj \in S /\ pc'[w] = "idle"
    PROVE  Placed'
  <1>1. i \in Inv /\ i \in Serves[w] /\ job[w].obj \in Obj
    BY JobOK
  <1>2. invLog' = [invLog EXCEPT ![i] = Append(@, S)]
    BY DEF PlayInventory
  <1>3. /\ Listed(i)' = S
        /\ \A j \in Inv \ {i} : invLog'[j] = invLog[j]
    BY <1>1, <1>2, InventoryBlock DEF TypeOK
  \* Nobody else has a handle on the inventory.
  <1>4. \A v \in Worker \ {w} : pc[v] # "idle" => job[v].inv \in Inv \ {i}
    <2> SUFFICES ASSUME NEW v \in Worker \ {w}, pc[v] # "idle" PROVE job[v].inv \in Inv \ {i}
      OBVIOUS
    <2>1. job[v].inv \in Inv /\ job[v].inv \in Serves[v]
      BY JobOK
    <2>2. Serves[v] \cap Serves[w] = {}
      BY DEF Reliable
    <2> QED
      BY <1>1, <2>1, <2>2
  <1>5. HandlesFresh'
    <2>1. ASSUME NEW v \in Worker \ {w}, pc'[v] \in HandlePCs
          PROVE  invAt'[v] = Len(invLog'[job'[v].inv])
      <3>1. Stays(v) /\ pc[v] \in HandlePCs /\ pc[v] # "idle"
        BY <2>1 DEF Others, Stays, HandlePCs, SharePCs
      <3> QED
        BY <1>3, <1>4, <3>1 DEF Placed, HandlesFresh, Stays
    <2> QED
      BY <2>1 DEF HandlesFresh, Keeps
  <1>6. RollbacksPushed'
    BY DEF Placed, RollbacksPushed, Others, Stays, Keeps
  <1>7. AckedIsStale'
    <2>1. sub[w] # "acked"
      BY DEF TypeOK, ActorsOK
    <2> QED
      BY <2>1 DEF Placed, AckedIsStale, Latest, Others, Stays
  <1>8. SharersOwn'
    <2> SUFFICES ASSUME NEW v \in Worker, pc'[v] \in SharePCs, Latest(v)'
                 PROVE  Owners(job[v].obj)' = (Auths[job[v].inv] \cup Auths[job[v].peer])'
      BY DEF SharersOwn
    <2>1. /\ pc[v] \in SharePCs /\ job'[v] = job[v] /\ objAt'[v] = objAt[v]
      BY DEF Others, Stays, KeepsSharing
    <2>2. Latest(v)
      BY <2>1 DEF Latest
    <2>3. Owners(job[v].obj) = Auths[job[v].inv] \cup Auths[job[v].peer]
      BY <2>1, <2>2 DEF Placed, SharersOwn
    <2> QED
      BY <2>1, <2>3 DEF Owners
  <1>9. ASSUME NEW o \in Obj PROVE (InPlace(o) \/ Shared(o) \/ Restoring(o))'
    <2>0. Owners(o)' = Owners(o)
      BY DEF Owners
    <2>1. CASE InPlace(o)
      <3>1. PICK j \in Inv : /\ Owners(o) = Auths[j] /\ o \in Listed(j)
                             /\ \A v \in Worker : pc[v] = "remove" /\ job[v].obj = o => job[v].inv # j
        BY <2>1 DEF InPlace
      <3>2. o \in Listed(j)'
        <4>1. CASE j = i
          BY <1>3, <3>1, <4>1
        <4>2. CASE j # i
          BY <1>3, <3>1, <4>2 DEF Listed
        <4> QED
          BY <4>1, <4>2
      <3>3. \A v \in Worker : pc'[v] = "remove" => pc[v] = "remove" /\ job'[v] = job[v]
        BY DEF Others, Stays, KeepsSharing
      <3>4. InPlace(o)'
        BY <2>0, <3>1, <3>2, <3>3 DEF InPlace
      <3> QED
        BY <3>4
    <2>2. CASE Shared(o)
      <3>1. PICK v \in Worker : pc[v] \in SharePCs /\ job[v].obj = o /\ Latest(v)
        BY <2>2 DEF Shared
      <3>2. pc'[v] \in SharePCs /\ job'[v] = job[v] /\ objAt'[v] = objAt[v]
        BY <3>1 DEF Others, Stays, KeepsSharing
      <3>3. Shared(o)'
        BY <3>1, <3>2 DEF Shared, Latest
      <3> QED
        BY <3>3
    <2>3. CASE Restoring(o)
      <3>1. PICK v \in Worker : pc[v] = "undoRemove" /\ job[v].obj = o /\ Owners(o) = Auths[job[v].inv]
        BY <2>3 DEF Restoring
      <3>2. CASE v # w
        <4>1. Restoring(o)'
          BY <2>0, <3>1, <3>2 DEF Restoring, Others, Stays
        <4> QED
          BY <4>1
      <3>3. CASE v = w
        <4>1. o \in Listed(i)' /\ pc'[w] = "idle" /\ Owners(o) = Auths[i]
          BY <1>3, <3>1, <3>3
        <4>2. \A u \in Worker : pc'[u] = "remove" => job'[u].inv # i
          BY <1>4, <4>1 DEF Others, Stays
        <4>3. InPlace(o)'
          BY <1>1, <2>0, <4>1, <4>2 DEF InPlace
        <4> QED
          BY <4>3
      <3> QED
        BY <3>2, <3>3
    <2> QED
      BY <2>1, <2>2, <2>3 DEF Placed
  <1> QED
    BY <1>5, <1>6, <1>7, <1>8, <1>9 DEF Placed

\* How an actor's control moves, seen from the others.
LEMMA FinishLeaves ==
    ASSUME TypeOK, NEW w \in Worker, Finish(w)
    PROVE  Others(w) /\ pc'[w] = "idle"
  BY DEF TypeOK, ActorsOK, Finish, Others, Stays

\* The same for an actor that moves on to a statement p of its handler.
LEMMA GotoLeaves ==
    ASSUME TypeOK, NEW w \in Worker, NEW p, Goto(w, p),
           \A v \in Worker \ {w} : /\ invAt'[v] = invAt[v] /\ objAt'[v] = objAt[v]
                                   /\ rollbacks'[v] = rollbacks[v]
    PROVE  Others(w) /\ pc'[w] = p /\ job'[w] = job[w]
  BY DEF TypeOK, ActorsOK, Goto, Others, Stays

\* The same for an actor that takes message m.
LEMMA StartLeaves ==
    ASSUME TypeOK, NEW w \in Worker, NEW m, NEW p, Start(w, m, p)
    PROVE  Others(w) /\ pc[w] = "idle" /\ pc'[w] = p
  BY DEF TypeOK, ActorsOK, Start, Others, Stays

\* A read is current and a reply arrives.
LEMMA ReliableReads ==
    ASSUME Reliable, TreesOK
    PROVE  /\ Replies = {TRUE}
           /\ \A o \in Obj : Views(objLog[o]) = {Len(objLog[o])}
           /\ \A i \in Inv : Views(invLog[i]) = {Len(invLog[i])}
  <1>1. Lag = 0 /\ Faulty = FALSE
    BY DEF Reliable
  <1>2. \A o \in Obj : Len(objLog[o]) \in Nat \ {0}
    BY LogsOK
  <1>3. \A i \in Inv : Len(invLog[i]) \in Nat \ {0}
    BY LogsOK
  <1> QED
    BY <1>1, <1>2, <1>3 DEF Replies, Views

\* A handler that ends without a block, and shares nothing with a current handle, leaves
\* every object to whoever answered for it.
LEMMA FinishKeepsPlaced ==
    ASSUME TypeOK, Placed, NEW w \in Worker, Finish(w), UNCHANGED <<objLog, invLog>>,
           pc[w] # "undoRemove", pc[w] \in SharePCs => ~Latest(w),
           \A v \in Worker : sub'[v] = "acked" => v # w /\ sub[v] = "acked"
    PROVE  Placed'
  <1>1. Others(w) /\ pc'[w] = "idle"
    BY FinishLeaves
  <1>2. Keeps(w) /\ KeepsSharing(w)
    BY <1>1 DEF Keeps, KeepsSharing, HandlePCs, SharePCs
  <1> QED
    BY <1>1, <1>2, ActorMoves

\* A handler that takes a message has no handle yet.
LEMMA StartKeepsPlaced ==
    ASSUME TypeOK, Placed, NEW w \in Worker, NEW m, NEW p \in {"source", "target"},
           Start(w, m, p), UNCHANGED <<objLog, invLog, sub>>
    PROVE  Placed'
  <1>1. Others(w) /\ pc[w] = "idle" /\ pc'[w] = p
    BY StartLeaves
  <1>2. Keeps(w) /\ KeepsSharing(w)
    BY <1>1 DEF Keeps, KeepsSharing, HandlePCs, SharePCs
  <1>3. sub[w] # "acked"
    BY <1>1 DEF TypeOK, ActorsOK
  <1> QED
    BY <1>1, <1>2, <1>3, ActorMoves

\* A handler that moves on within its statements before the offer or after it.
LEMMA GotoKeepsPlaced ==
    ASSUME TypeOK, Placed, NEW w \in Worker, NEW p, Goto(w, p), Others(w),
           UNCHANGED <<objLog, invLog>>, Keeps(w), p # "remove", pc[w] # "undoRemove",
           pc[w] \in SharePCs <=> p \in SharePCs,
           pc[w] \in SharePCs => objAt'[w] = objAt[w],
           \A v \in Worker : sub'[v] = "acked" => v # w /\ sub[v] = "acked"
    PROVE  Placed'
  <1>1. pc'[w] = p /\ job'[w] = job[w]
    BY DEF Goto, TypeOK, ActorsOK
  <1>2. KeepsSharing(w)
    BY <1>1 DEF KeepsSharing
  <1> QED
    BY <1>2, ActorMoves

\* Every step of every actor keeps the objects placed.
LEMMA NextPlaced == Reliable /\ PlacedInv /\ [Next]_vars => PlacedInv'
  <1> SUFFICES ASSUME Reliable, PlacedInv, [Next]_vars PROVE PlacedInv'
    OBVIOUS
  <1>a. /\ TypeOK /\ Placed /\ touch = {}
        /\ TransferInv' /\ TypeOK'
    BY NextTransferInv DEF PlacedInv, TransferInv
  <1>b. /\ Lag = 0 /\ Faulty = FALSE /\ TransferCmd = FALSE /\ MaxCrashes = 0
        /\ crashes \in 0..0
    BY <1>a DEF Reliable, TypeOK, MessagesOK
  <1>c. /\ pc \in [Worker -> {"idle"} \cup RemovePCs \cup AddPCs]
        /\ job \in [Worker -> Message \cup {NoJob}]
        /\ invAt \in [Worker -> Nat] /\ objAt \in [Worker -> Nat]
        /\ rollbacks \in [Worker -> 0..2]
        /\ sub \in [Worker -> {"off", "starting", "on", "acked"}]
        /\ \A v \in Worker : sub[v] # "off" => pc[v] = "wait"
    BY <1>a DEF TypeOK, ActorsOK
  <1>d. /\ Replies = {TRUE}
        /\ \A o \in Obj : Views(objLog[o]) = {Len(objLog[o])}
        /\ \A i \in Inv : Views(invLog[i]) = {Len(invLog[i])}
    BY <1>a, ReliableReads DEF TypeOK
  <1>e. \A o \in Obj : Woken(o) = {}
    BY <1>a DEF Woken
  <1>f. /\ \A w \in Worker : pc[w] \in HandlePCs => invAt[w] = Len(invLog[job[w].inv])
        /\ \A w \in Worker : pc[w] \in {"send", "wait", "undoOwner"} => rollbacks[w] = 2
        /\ \A w \in Worker : sub[w] = "acked" => ~Latest(w)
    BY <1>a DEF Placed, HandlesFresh, RollbacksPushed, AckedIsStale
  <1> SUFFICES Placed' /\ touch' = {}
    BY <1>a DEF PlacedInv
  <1> DEFINE Goal == Placed' /\ touch' = {}
  <1>1. ASSUME NEW w \in Worker, NEW i \in Inv, NEW j \in Inv, NEW o \in Obj,
               DropObject(w, i, j, o)
        PROVE  Goal
    BY <1>1, <1>a, StartKeepsPlaced DEF DropObject
  <1>2. ASSUME NEW w \in Worker, NEW i \in Inv, NEW j \in Inv, NEW o \in Obj,
               TransferObjectCmd(w, i, j, o) \/ TransferObjectRefused(w, i, j, o)
        PROVE  Goal
    BY <1>2, <1>b DEF TransferObjectCmd, TransferObjectRefused
  <1>3. ASSUME NEW w \in Worker, NEW i \in Inv, NEW j \in Inv, NEW o \in Obj,
               PickUpObject(w, i, j, o)
        PROVE  Goal
    BY <1>3, <1>a, NobodyMoves DEF PickUpObject
  <1>4. ASSUME NEW w \in Worker, NEW j \in Inv, NEW o \in Obj, ReceiveObject(w, j, o)
        PROVE  Goal
    BY <1>4, <1>a, NobodyMoves DEF ReceiveObject
  <1>5. ASSUME NEW w \in Worker, NEW m \in asks, HandleRequest(w, m)
        PROVE  Goal
    BY <1>5, <1>a, StartKeepsPlaced DEF HandleRequest
  <1>6. ASSUME NEW w \in Worker, NEW m \in inbox, HandleTransferred(w, m)
        PROVE  Goal
    BY <1>6, <1>a, StartKeepsPlaced DEF HandleTransferred
  <1>7. ASSUME NEW w \in Worker, RequestFails(w) \/ TransferredFails(w) \/ Crash(w)
        PROVE  Goal
    BY <1>7, <1>b DEF RequestFails, TransferredFails, Crash
  <1>8. ASSUME NEW w \in Worker, SubscriptionStarts(w)
        PROVE  Goal
    <2>1. \A v \in Worker : sub'[v] = "acked" => sub[v] = "acked"
      BY <1>8, <1>c DEF SubscriptionStarts
    <2> QED
      BY <1>8, <1>a, <2>1, NobodyMoves DEF SubscriptionStarts
  <1>9. ASSUME NEW w \in Worker, FindSource(w)
        PROVE  Goal
    <2>0. pc[w] = "source" /\ job[w].inv \in Inv /\ Goto(w, "object")
          /\ UNCHANGED <<objLog, invLog, objAt, rollbacks, sub, touch>>
      BY <1>9, <1>a, JobOK DEF FindSource
    <2>1. invAt' = [invAt EXCEPT ![w] = Len(invLog[job[w].inv])]
      <3>1. Views(invLog[job[w].inv]) = {Len(invLog[job[w].inv])}
        BY <1>d, <2>0
      <3>2. PICK h \in Views(invLog[job[w].inv]) : invAt' = [invAt EXCEPT ![w] = h]
        BY <1>9 DEF FindSource
      <3> QED
        BY <3>1, <3>2
    <2>2. Others(w) /\ pc'[w] = "object" /\ job'[w] = job[w]
      BY <1>a, <1>c, <2>0, <2>1, GotoLeaves
    <2>3. Keeps(w)
      BY <1>c, <2>0, <2>1, <2>2 DEF Keeps
    <2>4. sub[w] # "acked"
      BY <1>c, <2>0
    <2> QED
      BY <1>a, <2>0, <2>2, <2>3, <2>4, GotoKeepsPlaced DEF SharePCs
  <1>10. ASSUME NEW w \in Worker, GetObject(w)
        PROVE  Goal
    <2>0. /\ pc[w] = "object" /\ Goto(w, "offer")
          /\ UNCHANGED <<objLog, invLog, invAt, rollbacks, sub, touch>>
          /\ \A v \in Worker \ {w} : objAt'[v] = objAt[v]
      BY <1>10, <1>c DEF GetObject
    <2>2. Others(w) /\ pc'[w] = "offer" /\ job'[w] = job[w]
      BY <1>a, <1>c, <2>0, GotoLeaves
    <2>3. Keeps(w)
      BY <1>f, <2>0, <2>2 DEF Keeps, HandlePCs
    <2>4. sub[w] # "acked"
      BY <1>c, <2>0
    <2> QED
      BY <1>a, <2>0, <2>2, <2>3, <2>4, GotoKeepsPlaced DEF SharePCs
  <1>11. ASSUME NEW w \in Worker, FindTarget(w)
        PROVE  Goal
    <2>0. /\ pc[w] = "target" /\ job[w].inv \in Inv
          /\ UNCHANGED <<objLog, invLog, sub, touch>>
      BY <1>11, <1>a, JobOK DEF FindTarget
    <2>4. \A v \in Worker : sub'[v] = "acked" => v # w /\ sub[v] = "acked"
      BY <1>c, <2>0
    <2>1. CASE FinishAdd(w)
      BY <1>a, <2>0, <2>1, <2>4, FinishKeepsPlaced DEF FinishAdd, SharePCs
    <2>2. CASE /\ invAt' = [invAt EXCEPT ![w] = Len(invLog[job[w].inv])]
               /\ Goto(w, "owner")
               /\ UNCHANGED <<objAt, rollbacks>>
      <3>1. Others(w) /\ pc'[w] = "owner" /\ job'[w] = job[w]
        BY <1>a, <1>c, <2>2, GotoLeaves
      <3>2. Keeps(w)
        BY <1>c, <2>0, <2>2, <3>1 DEF Keeps
      <3> QED
        BY <1>a, <2>0, <2>2, <2>4, <3>1, <3>2, GotoKeepsPlaced DEF SharePCs
    <2> QED
      BY <1>11, <1>d, <2>0, <2>1, <2>2 DEF FindTarget
  <1>12. ASSUME NEW w \in Worker, CheckOwner(w)
        PROVE  Goal
    <2>0. pc[w] = "owner" /\ UNCHANGED <<objLog, invLog, sub, touch>>
      BY <1>12 DEF CheckOwner
    <2>4. \A v \in Worker : sub'[v] = "acked" => v # w /\ sub[v] = "acked"
      BY <1>c, <2>0
    <2>1. CASE FinishAdd(w)
      BY <1>a, <2>0, <2>1, <2>4, FinishKeepsPlaced DEF FinishAdd, SharePCs
    <2>2. CASE /\ \A v \in Worker \ {w} : objAt'[v] = objAt[v]
               /\ Goto(w, "add")
               /\ UNCHANGED <<invAt, rollbacks>>
      <3>1. Others(w) /\ pc'[w] = "add" /\ job'[w] = job[w]
        BY <1>a, <1>c, <2>2, GotoLeaves
      <3>2. Keeps(w)
        BY <1>f, <2>0, <2>2, <3>1 DEF Keeps, HandlePCs
      <3> QED
        BY <1>a, <2>0, <2>2, <2>4, <3>1, <3>2, GotoKeepsPlaced DEF SharePCs
    <2> QED
      BY <1>12, <1>c, <2>1, <2>2 DEF CheckOwner
  <1>13. ASSUME NEW w \in Worker, SendTransferred(w) \/ SendFails(w) \/ Timeout(w)
        PROVE  Goal
    <2>0. PICK p \in {"wait", "undoOwner"} : Goto(w, p)
      BY <1>13 DEF SendTransferred, SendFails, Timeout
    <2>1. /\ pc[w] \in {"send", "wait"}
          /\ UNCHANGED <<objLog, invLog, invAt, objAt, rollbacks, touch>>
      BY <1>13 DEF SendTransferred, SendFails, Timeout
    <2>2. \A v \in Worker : sub'[v] = "acked" => v # w /\ sub[v] = "acked"
      BY <1>13, <1>c DEF SendTransferred, SendFails, Timeout
    <2>3. Others(w) /\ pc'[w] = p /\ job'[w] = job[w]
      BY <1>a, <2>0, <2>1, GotoLeaves
    <2>4. Keeps(w)
      BY <1>f, <2>0, <2>1, <2>3 DEF Keeps, HandlePCs, SharePCs
    <2> QED
      BY <1>a, <2>0, <2>1, <2>2, <2>3, <2>4, GotoKeepsPlaced DEF SharePCs
  <1>14. ASSUME NEW w \in Worker, Confirm(w)
        PROVE  Goal
    <2>1. \A v \in Worker : sub'[v] = "acked" => v # w /\ sub[v] = "acked"
      BY <1>14, <1>c DEF Confirm
    <2> QED
      BY <1>14, <1>a, <1>f, <2>1, FinishKeepsPlaced DEF Confirm
  <1>15. ASSUME NEW w \in Worker, Offer(w)
        PROVE  Goal
    <2> DEFINE S == Auths[job[w].inv] \cup Auths[job[w].peer]
    <2>0. /\ pc[w] = "offer" /\ job[w].obj \in Obj /\ job[w].inv \in Inv
          /\ S \in SUBSET Key /\ UNCHANGED invLog
      BY <1>15, <1>a, JobOK DEF Offer
    <2>1. CASE PlayObjectFails(w) /\ Finish(w)
      <3>1. \A v \in Worker : sub'[v] = "acked" => v # w /\ sub[v] = "acked"
        BY <1>c, <2>0, <2>1 DEF PlayObjectFails
      <3> QED
        BY <1>a, <2>0, <2>1, <3>1, FinishKeepsPlaced DEF PlayObjectFails, SharePCs
    <2>2. CASE /\ PlayObject(w, S)
               /\ objAt' = [objAt EXCEPT ![w] = @ + 1]
               /\ rollbacks' = [rollbacks EXCEPT ![w] = 1]
               /\ Goto(w, "remove")
               /\ UNCHANGED invAt
      <3>1. PICK o \in Obj : job[w].obj = o
        BY <2>0
      <3>2. Others(w) /\ pc'[w] = "remove" /\ job'[w] = job[w]
        BY <1>a, <1>c, <2>2, GotoLeaves
      <3>3. Keeps(w)
        BY <1>f, <2>0, <2>2, <3>2 DEF Keeps, HandlePCs
      <3>4. /\ Len(objLog'[o]) = Len(objLog[o]) + 1 /\ objAt[w] = Len(objLog[o])
        BY <1>a, <2>0, <2>2, <3>1, PlayObjectOK
      <3>5. objAt'[w] = Len(objLog'[o])
        BY <1>c, <2>2, <3>4
      <3>6. Shared(o)'
        BY <3>1, <3>2, <3>5 DEF Shared, SharePCs, Latest
      <3>7. touch' = {}
        BY <1>e, <2>2, <3>1 DEF PlayObject
      <3> HIDE DEF S
      <3>8. Placed'
        <4>1. pc'[w] \in SharePCs => S = Auths[job[w].inv] \cup Auths[job[w].peer]
          BY DEF S
        <4> QED
          BY <1>a, <2>0, <2>2, <3>1, <3>2, <3>3, <3>6, <4>1, ObjectPlayed
      <3> QED
        BY <3>7, <3>8
    <2> QED
      BY <1>15, <1>d, <2>1, <2>2 DEF Offer
  <1>16. ASSUME NEW w \in Worker, UndoOwner(w)
        PROVE  Goal
    <2> DEFINE S == Auths[job[w].inv]
    <2>0. /\ pc[w] = "undoOwner" /\ job[w].obj \in Obj /\ job[w].inv \in Inv
          /\ job[w].inv \in Serves[w] /\ S \in SUBSET Key /\ UNCHANGED invLog
      BY <1>16, <1>a, JobOK DEF UndoOwner
    \* The block can only be refused because another one has been played.
    <2>1. CASE PlayObjectFails(w) /\ Finish(w)
      <3>1. \A v \in Worker : sub'[v] = "acked" => v # w /\ sub[v] = "acked"
        BY <1>c, <2>0, <2>1 DEF PlayObjectFails
      <3>2. Latest(w) => KeyOf[w] \in Owners(job[w].obj)
        BY <1>a, <2>0 DEF Placed, SharersOwn, SharePCs
      <3>3. ~Latest(w)
        BY <1>b, <2>1, <3>2 DEF PlayObjectFails, CanPlayObject, Latest
      <3> QED
        BY <1>a, <2>0, <2>1, <3>1, <3>3, FinishKeepsPlaced DEF PlayObjectFails
    <2>2. CASE /\ PlayObject(w, S)
               /\ Goto(w, "undoRemove")
               /\ UNCHANGED <<invAt, objAt, rollbacks>>
      <3>1. PICK o \in Obj : job[w].obj = o
        BY <2>0
      <3>2. Others(w) /\ pc'[w] = "undoRemove" /\ job'[w] = job[w]
        BY <1>a, <1>c, <2>2, GotoLeaves
      <3>3. Keeps(w)
        BY <1>f, <2>0, <2>2, <3>2 DEF Keeps, HandlePCs, SharePCs
      <3>4. objLog' = [objLog EXCEPT ![o] = Append(@, S)] /\ touch' = {}
        BY <1>e, <2>2, <3>1 DEF PlayObject
      <3>5. Owners(o)' = S
        BY <1>a, <2>0, <3>4, ObjectBlock DEF TypeOK
      <3>6. Restoring(o)'
        BY <3>1, <3>2, <3>5 DEF Restoring
      <3>7. pc'[w] \notin SharePCs
        BY <3>2 DEF SharePCs
      <3> HIDE DEF S
      <3>8. Placed'
        BY <1>a, <2>0, <2>2, <3>1, <3>2, <3>3, <3>6, <3>7, ObjectPlayed
      <3> QED
        BY <3>4, <3>8
    <2> QED
      BY <1>16, <1>d, <1>f, <2>0, <2>1, <2>2 DEF UndoOwner
  <1>17. ASSUME NEW w \in Worker, Claim(w)
        PROVE  Goal
    <2> DEFINE S == Auths[job[w].inv]
    <2>0. /\ pc[w] = "claim" /\ job[w].obj \in Obj /\ job[w].inv \in Inv
          /\ job[w].inv \in Serves[w] /\ S \in SUBSET Key
          /\ UNCHANGED invLog /\ Finish(w)
      BY <1>17, <1>a, JobOK DEF Claim, FinishAdd
    <2>1. CASE PlayObjectFails(w)
      <3>1. \A v \in Worker : sub'[v] = "acked" => v # w /\ sub[v] = "acked"
        BY <1>c, <2>0, <2>1 DEF PlayObjectFails
      <3> QED
        BY <1>a, <2>0, <2>1, <3>1, FinishKeepsPlaced DEF PlayObjectFails, SharePCs
    <2>2. CASE PlayObject(w, S)
      <3>1. PICK o \in Obj : job[w].obj = o
        BY <2>0
      <3>2. Others(w) /\ pc'[w] = "idle"
        BY <1>a, <2>0, FinishLeaves
      <3>3. Keeps(w)
        BY <3>2 DEF Keeps, HandlePCs, SharePCs
      <3>4. objLog' = [objLog EXCEPT ![o] = Append(@, S)] /\ touch' = {} /\ objAt[w] = Len(objLog[o])
        BY <1>e, <2>2, <3>1 DEF PlayObject, CanPlayObject
      <3>5. Owners(o)' = S
        BY <1>a, <2>0, <3>4, ObjectBlock DEF TypeOK
      <3>6. PICK i \in Inv : job[w].inv = i
        BY <2>0
      <3>7. InPlace(o)'
        <4>1. o \in Listed(i)
          BY <2>0, <3>1, <3>4, <3>6 DEF PlacedInv, TransferInv, ClaimIsListed
        <4>2. Listed(i)' = Listed(i)
          BY <2>0 DEF Listed
        \* This actor is the only one of the inventory.
        <4>3. \A v \in Worker : pc'[v] = "remove" => job'[v].inv # i
          <5> SUFFICES ASSUME NEW v \in Worker, pc'[v] = "remove", v # w PROVE job'[v].inv # i
            BY <3>2
          <5>1. pc[v] = "remove" /\ job'[v] = job[v]
            BY <3>2 DEF Others, Stays
          <5>2. job[v].inv \in Serves[v]
            BY <1>a, <5>1, JobOK
          <5> QED
            BY <2>0, <3>6, <5>1, <5>2 DEF Reliable
        <4>4. Owners(o)' = Auths[i]
          BY <3>5, <3>6
        <4>5. o \in Listed(i)' /\ i \in Inv
          BY <4>1, <4>2
        <4> QED
          BY <4>3, <4>4, <4>5 DEF InPlace
      <3>8. pc'[w] \notin SharePCs
        BY <3>2 DEF SharePCs
      <3> HIDE DEF S
      <3>9. Placed'
        BY <1>a, <2>0, <2>2, <3>1, <3>2, <3>3, <3>7, <3>8, ObjectPlayed
      <3> QED
        BY <3>4, <3>9
    <2> QED
      BY <1>17, <2>1, <2>2 DEF Claim
  <1>18. ASSUME NEW w \in Worker, RemoveFromSource(w)
        PROVE  Goal
    <2>0. /\ pc[w] = "remove" /\ job[w].obj \in Obj /\ job[w].inv \in Inv
          /\ Seen(w) \in SUBSET Obj /\ UNCHANGED <<objLog, objAt, sub, touch>>
          /\ invAt[w] = Len(invLog[job[w].inv])
      BY <1>18, <1>a, <1>f, JobOK, SeenOK DEF RemoveFromSource, HandlePCs, SharePCs
    <2>1. \A v \in Worker : sub'[v] = "acked" => v # w /\ sub[v] = "acked"
      BY <1>c, <2>0
    <2>2. CASE /\ Goto(w, "send")
               /\ rollbacks' = [rollbacks EXCEPT ![w] = 2]
               /\ UNCHANGED <<invLog, invAt>>
      <3>1. Others(w) /\ pc'[w] = "send" /\ job'[w] = job[w]
        BY <1>a, <1>c, <2>0, <2>2, GotoLeaves
      <3>2. Keeps(w)
        BY <1>c, <2>0, <2>2, <3>1 DEF Keeps
      <3> QED
        BY <1>a, <2>0, <2>1, <2>2, <3>1, <3>2, GotoKeepsPlaced DEF SharePCs
    <2>3. CASE /\ PlayInventory(w, Seen(w) \ {job[w].obj})
               /\ invAt' = [invAt EXCEPT ![w] = @ + 1]
               /\ rollbacks' = [rollbacks EXCEPT ![w] = 2]
               /\ Goto(w, "send")
      <3>1. Others(w) /\ pc'[w] = "send" /\ job'[w] = job[w]
        BY <1>a, <1>c, <2>0, <2>3, GotoLeaves
      <3>2. PICK i \in Inv : job[w].inv = i
        BY <2>0
      <3>3. Seen(w) = Listed(i)
        BY <2>0, <3>2 DEF Seen, Listed
      <3>4. Len(invLog'[i]) = Len(invLog[i]) + 1
        BY <1>a, <2>0, <2>3, <3>2, PlayInventoryOK
      <3>5. Keeps(w)
        BY <1>c, <2>0, <2>3, <3>1, <3>2, <3>4 DEF Keeps
      <3>6. KeepsSharing(w)
        BY <2>0, <3>1 DEF KeepsSharing, SharePCs
      <3> DEFINE S == Seen(w) \ {job[w].obj}
      <3>7. /\ S \in SUBSET Obj /\ PlayInventory(w, S)
            /\ \A o \in Listed(i) \ S : pc[w] = "remove" /\ o = job[w].obj
        BY <2>0, <2>3, <3>3
      <3> HIDE DEF S
      <3>8. Placed'
        BY <1>a, <2>0, <3>1, <3>2, <3>5, <3>6, <3>7, InventoryPlayed
      <3> QED
        BY <1>a, <2>0, <3>8
    <2>4. ~PlayInventoryFails(w)
      BY <1>b, <2>0 DEF PlayInventoryFails, CanPlayInventory
    <2> QED
      BY <1>18, <1>d, <2>2, <2>3, <2>4 DEF RemoveFromSource
  <1>19. ASSUME NEW w \in Worker, UndoRemove(w)
        PROVE  Goal
    <2>0. /\ pc[w] = "undoRemove" /\ job[w].obj \in Obj /\ job[w].inv \in Inv
          /\ Seen(w) \in SUBSET Obj /\ UNCHANGED <<objLog, sub, touch>>
          /\ invAt[w] = Len(invLog[job[w].inv]) /\ Finish(w)
      BY <1>19, <1>a, <1>f, JobOK, SeenOK DEF UndoRemove, HandlePCs
    <2>1. PlayInventory(w, Seen(w) \cup {job[w].obj})
      BY <1>19, <1>b, <2>0 DEF UndoRemove, PlayInventoryFails, CanPlayInventory
    <2>2. Others(w) /\ pc'[w] = "idle"
      BY <1>a, <2>0, FinishLeaves
    <2>3. PICK i \in Inv : job[w].inv = i
      BY <2>0
    <2>4. Seen(w) = Listed(i)
      BY <2>0, <2>3 DEF Seen, Listed
    <2>5. Keeps(w) /\ KeepsSharing(w)
      BY <2>0, <2>2 DEF Keeps, KeepsSharing, HandlePCs, SharePCs
    <2> DEFINE S == Seen(w) \cup {job[w].obj}
    <2>6. /\ S \in SUBSET Obj /\ PlayInventory(w, S) /\ job[w].obj \in S
          /\ Listed(i) \ S = {}
      BY <2>0, <2>1, <2>4
    <2> HIDE DEF S
    <2>7. Placed'
      BY <1>a, <2>0, <2>2, <2>3, <2>5, <2>6, InventoryPlayed
    <2> QED
      BY <1>a, <2>0, <2>7
  <1>20. ASSUME NEW w \in Worker, AddToTarget(w)
        PROVE  Goal
    <2>0. /\ pc[w] = "add" /\ job[w].obj \in Obj /\ job[w].inv \in Inv
          /\ Seen(w) \in SUBSET Obj /\ UNCHANGED <<objLog, sub, touch>>
          /\ invAt[w] = Len(invLog[job[w].inv])
      BY <1>20, <1>a, <1>f, JobOK, SeenOK DEF AddToTarget, HandlePCs
    <2>1. /\ PlayInventory(w, Seen(w) \cup {job[w].obj})
          /\ Goto(w, "claim") /\ UNCHANGED <<invAt, objAt, rollbacks>>
      BY <1>20, <1>b, <1>d, <2>0 DEF AddToTarget, PlayInventoryFails, CanPlayInventory
    <2>2. Others(w) /\ pc'[w] = "claim" /\ job'[w] = job[w]
      BY <1>a, <1>c, <2>1, GotoLeaves
    <2>3. PICK i \in Inv : job[w].inv = i
      BY <2>0
    <2>4. Seen(w) = Listed(i)
      BY <2>0, <2>3 DEF Seen, Listed
    <2>5. Keeps(w) /\ KeepsSharing(w)
      BY <2>0, <2>2 DEF Keeps, KeepsSharing, HandlePCs, SharePCs
    <2> DEFINE S == Seen(w) \cup {job[w].obj}
    <2>6. S \in SUBSET Obj /\ PlayInventory(w, S) /\ Listed(i) \ S = {}
      BY <2>0, <2>1, <2>4
    <2> HIDE DEF S
    <2>7. Placed'
      BY <1>a, <2>0, <2>2, <2>3, <2>5, <2>6, InventoryPlayed
    <2> QED
      BY <1>a, <2>0, <2>7
  <1>21. ASSUME NEW g \in touch
        PROVE  Goal
    BY <1>21, <1>a
  <1>22. CASE UNCHANGED vars
    BY <1>22, <1>a, NobodyMoves DEF vars
  <1> QED
    BY <1>1, <1>2, <1>3, <1>4, <1>5, <1>6, <1>7, <1>8, <1>9, <1>10, <1>11, <1>12,
       <1>13, <1>14, <1>15, <1>16, <1>17, <1>18, <1>19, <1>20, <1>21, <1>22
    DEF Next, Command, RemoveStep, AddStep

\* Initially every object is at home and nobody has a handle.
LEMMA InitPlaced == Init => PlacedInv
  <1> SUFFICES ASSUME Init PROVE PlacedInv
    OBVIOUS
  <1>1. TransferInv
    BY InitTransferInv
  <1>2. /\ touch = {} /\ \A w \in Worker : pc[w] = "idle" /\ sub[w] = "off"
    BY DEF Init
  <1>3. ASSUME NEW o \in Obj PROVE InPlace(o)
    <2> PICK home \in [Obj -> Inv] :
               /\ objLog = [p \in Obj |-> <<Auths[home[p]]>>]
               /\ invLog = [i \in Inv |-> <<{p \in Obj : home[p] = i}>>]
      BY DEF Init
    <2>1. Owners(o) = Auths[home[o]] /\ o \in Listed(home[o]) /\ home[o] \in Inv
      BY DEF Owners, Listed
    <2> QED
      BY <1>2, <2>1 DEF InPlace
  <1> QED
    BY <1>1, <1>2, <1>3
      DEF PlacedInv, Placed, HandlesFresh, RollbacksPushed, SharersOwn, AckedIsStale,
          HandlePCs, SharePCs

\* The inductive invariant holds wherever the network is reliable.
THEOREM PlacedInductive == ASSUME Reliable PROVE Spec => []PlacedInv
  <1>1. PlacedInv /\ [Next]_vars => PlacedInv'
    BY NextPlaced
  <1> QED
    BY <1>1, InitPlaced, PTL DEF Spec

\* Where reads are current, no reply is lost, nobody uses the transfer command and each
\* inventory has one actor, a drop or a pick-up of UnrestrictedRemoveHandler either
\* happens or is rolled back completely, whatever timeouts and late messages do: an
\* object no handler is working on is owned by one inventory alone and listed there.
THEOREM IdleObjectsInPlace == ASSUME Reliable PROVE Spec => []IdleObjectInPlace
  <1>1. PlacedInv => IdleObjectInPlace
    BY DEF PlacedInv, Placed, InPlace, Shared, Restoring, IdleObjectInPlace, Working, SharePCs
  <1> QED
    BY <1>1, PlacedInductive, PTL

-----------------------------------------------------------------------------
(***************************************************************************)
(* IdleObjectRecoverable, between players: with lost blocks and replies,   *)
(* stale reads, crashes, the transfer command and several sessions of one  *)
(* player, an object never leaves the hands of an owner who can ask for    *)
(* it, provided that every actor at work is a player's.                    *)
(***************************************************************************)
PlayersOnly == \A w \in Worker : Serves[w] \subseteq Player

\* A player owns the object, or an inventory that nobody serves lists it.
Kept(o) ==
    \E i \in Inv : /\ Auths[i] \subseteq Owners(o)
                   /\ i \in Player \/ (o \in Listed(i) /\ \A w \in Worker : i \notin Serves[w])

KeptInv == TypeOK /\ \A o \in Obj : Kept(o)

\* A block on an object leaves it to a player or to its owners.
LEMMA KeptByOwners ==
    ASSUME TypeOK, \A p \in Obj : Kept(p), NEW o \in Obj, NEW S \in SUBSET Key, UNCHANGED invLog,
           objLog' = [objLog EXCEPT ![o] = Append(@, S)],
           S = Owners(o) \/ \E i \in Player : Auths[i] \subseteq S
    PROVE  \A p \in Obj : Kept(p)'
  <1>1. Owners(o)' = S /\ \A p \in Obj \ {o} : objLog'[p] = objLog[p]
    BY ObjectBlock DEF TypeOK
  <1>2. \A p \in Obj \ {o} : Owners(p)' = Owners(p)
    BY <1>1 DEF Owners
  <1>3. \A i \in Inv : Listed(i)' = Listed(i)
    BY DEF Listed
  <1>4. Player \subseteq Inv
    OBVIOUS
  <1>5. Kept(o)'
    <2>1. CASE S = Owners(o)
      BY <1>1, <1>3, <2>1 DEF Kept
    <2>2. CASE \E i \in Player : Auths[i] \subseteq S
      BY <1>1, <1>4, <2>2 DEF Kept
    <2> QED
      BY <2>1, <2>2
  <1>6. ASSUME NEW p \in Obj \ {o} PROVE Kept(p)'
    BY <1>2, <1>3 DEF Kept
  <1> QED
    BY <1>5, <1>6

\* A block on a served inventory changes no list that counts.
LEMMA KeptByLists ==
    ASSUME TypeOK, \A p \in Obj : Kept(p), NEW w \in Worker, pc[w] # "idle", UNCHANGED objLog,
           NEW S \in SUBSET Obj, PlayInventory(w, S)
    PROVE  \A p \in Obj : Kept(p)'
  <1>1. PICK i \in Inv : job[w].inv = i /\ i \in Serves[w]
    BY JobOK
  <1>2. \A j \in Inv \ {i} : invLog'[j] = invLog[j]
    BY <1>1, InventoryBlock DEF TypeOK, PlayInventory
  <1>3. \A j \in Inv : (\A v \in Worker : j \notin Serves[v]) => Listed(j)' = Listed(j)
    BY <1>1, <1>2 DEF Listed
  <1>4. \A p \in Obj : Owners(p)' = Owners(p)
    BY DEF Owners
  <1> QED
    BY <1>3, <1>4 DEF Kept

\* Every step of every actor keeps the objects within reach.
LEMMA NextKept == PlayersOnly /\ KeptInv /\ [Next]_vars => KeptInv'
  <1> SUFFICES ASSUME PlayersOnly, KeptInv, [Next]_vars PROVE KeptInv'
    OBVIOUS
  <1>a. TypeOK /\ (\A o \in Obj : Kept(o)) /\ TypeOK'
    BY NextTypeOK DEF KeptInv
  <1> DEFINE Goal == \A o \in Obj : Kept(o)'
  <1> SUFFICES Goal
    BY <1>a DEF KeptInv
  <1>b. ASSUME UNCHANGED <<objLog, invLog>> PROVE Goal
    BY <1>a, <1>b DEF Kept, Owners, Listed
  <1>c. ASSUME NEW w \in Worker, pc[w] # "idle", UNCHANGED invLog,
               NEW S \in SUBSET Key, PlayObject(w, S), Auths[job[w].inv] \subseteq S
        PROVE  Goal
    <2>1. job[w].obj \in Obj /\ job[w].inv \in Player
      BY <1>a, <1>c, JobOK DEF PlayersOnly
    <2>2. objLog' = [objLog EXCEPT ![job[w].obj] = Append(@, S)]
      BY <1>c DEF PlayObject
    <2> QED
      BY <1>a, <1>c, <2>1, <2>2, KeptByOwners
  <1> HIDE DEF Goal
  <1>1. ASSUME NEW w \in Worker, NEW i \in Inv, NEW j \in Inv, NEW o \in Obj,
               \/ DropObject(w, i, j, o) \/ TransferObjectCmd(w, i, j, o)
               \/ TransferObjectRefused(w, i, j, o) \/ PickUpObject(w, i, j, o)
               \/ ReceiveObject(w, j, o)
        PROVE  Goal
    BY <1>1, <1>b
      DEF DropObject, TransferObjectCmd, TransferObjectRefused, PickUpObject, ReceiveObject
  <1>2. ASSUME NEW w \in Worker, NEW m, HandleRequest(w, m) \/ HandleTransferred(w, m)
        PROVE  Goal
    BY <1>2, <1>b DEF HandleRequest, HandleTransferred
  <1>3. ASSUME NEW w \in Worker,
               \/ FindSource(w) \/ GetObject(w) \/ RequestFails(w)
               \/ SendTransferred(w) \/ SendFails(w) \/ Confirm(w) \/ Timeout(w)
               \/ FindTarget(w) \/ CheckOwner(w) \/ TransferredFails(w)
               \/ SubscriptionStarts(w) \/ Crash(w)
        PROVE  Goal
    BY <1>3, <1>b
      DEF FindSource, GetObject, RequestFails, SendTransferred, SendFails, Confirm, Timeout,
          FindTarget, CheckOwner, TransferredFails, SubscriptionStarts, Crash
  <1>4. ASSUME NEW w \in Worker, Offer(w) PROVE Goal
    <2>1. /\ pc[w] # "idle" /\ UNCHANGED invLog
          /\ Auths[job[w].inv] \cup Auths[job[w].peer] \in SUBSET Key
      BY <1>4, <1>a, JobOK DEF Offer
    <2>2. PlayObject(w, Auths[job[w].inv] \cup Auths[job[w].peer]) \/ UNCHANGED objLog
      BY <1>4 DEF Offer, PlayObjectFails
    <2> QED
      BY <1>b, <1>c, <2>1, <2>2
  <1>5. ASSUME NEW w \in Worker, UndoOwner(w) \/ Claim(w) PROVE Goal
    <2>1. pc[w] # "idle" /\ UNCHANGED invLog /\ Auths[job[w].inv] \in SUBSET Key
      BY <1>5, <1>a, JobOK DEF UndoOwner, Claim
    <2>2. PlayObject(w, Auths[job[w].inv]) \/ UNCHANGED objLog
      BY <1>5 DEF UndoOwner, Claim, PlayObjectFails
    <2> QED
      BY <1>b, <1>c, <2>1, <2>2
  <1>6. ASSUME NEW w \in Worker, RemoveFromSource(w) \/ UndoRemove(w) \/ AddToTarget(w)
        PROVE  Goal
    <2>1. /\ pc[w] \in {"remove", "undoRemove", "add"} /\ UNCHANGED objLog
      BY <1>6 DEF RemoveFromSource, UndoRemove, AddToTarget
    <2>2. /\ Seen(w) \ {job[w].obj} \in SUBSET Obj
          /\ Seen(w) \cup {job[w].obj} \in SUBSET Obj
      BY <1>a, <2>1, SeenOK, JobOK
    <2>3. \/ PlayInventory(w, Seen(w) \ {job[w].obj})
          \/ PlayInventory(w, Seen(w) \cup {job[w].obj})
          \/ UNCHANGED invLog
      BY <1>6 DEF RemoveFromSource, UndoRemove, AddToTarget, PlayInventoryFails
    <2>4. CASE PlayInventory(w, Seen(w) \ {job[w].obj})
      BY <1>a, <2>1, <2>2, <2>4, KeptByLists DEF Goal
    <2>5. CASE PlayInventory(w, Seen(w) \cup {job[w].obj})
      BY <1>a, <2>1, <2>2, <2>5, KeptByLists DEF Goal
    <2> QED
      BY <1>b, <2>1, <2>3, <2>4, <2>5
  <1>7. ASSUME NEW g \in touch, TouchStep(g) PROVE Goal
    <2>1. CASE TouchPlays(g)
      <3>1. g.obj \in Obj /\ Owners(g.obj) \in SUBSET Key
        BY <1>a, GoroutineOK, LogsOK DEF TypeOK
      <3>2. UNCHANGED invLog /\ objLog' = [objLog EXCEPT ![g.obj] = Append(@, Owners(g.obj))]
        BY <2>1 DEF TouchPlays
      <3> QED
        BY <1>a, <3>1, <3>2, KeptByOwners DEF Goal
    <2>2. CASE TouchSubscribes(g) \/ TouchReads(g) \/ TouchGivesUp(g)
      BY <1>b, <2>2 DEF TouchSubscribes, TouchReads, TouchGivesUp
    <2> QED
      BY <1>7, <2>1, <2>2 DEF TouchStep
  <1>8. CASE UNCHANGED vars
    BY <1>8, <1>b DEF vars
  <1> QED
    BY <1>1, <1>2, <1>3, <1>4, <1>5, <1>6, <1>7, <1>8 DEF Next, Command, RemoveStep, AddStep

\* An object at home is a player's, or listed by an inventory that nobody serves.
LEMMA InitKept == PlayersOnly /\ Init => KeptInv
  <1> SUFFICES ASSUME PlayersOnly, Init PROVE KeptInv
    OBVIOUS
  <1> PICK home \in [Obj -> Inv] :
             /\ objLog = [p \in Obj |-> <<Auths[home[p]]>>]
             /\ invLog = [i \in Inv |-> <<{p \in Obj : home[p] = i}>>]
    BY DEF Init
  <1>1. ASSUME NEW o \in Obj PROVE Kept(o)
    <2>1. Owners(o) = Auths[home[o]] /\ o \in Listed(home[o]) /\ home[o] \in Inv
      BY DEF Owners, Listed
    <2>2. home[o] \in Player \/ \A w \in Worker : home[o] \notin Serves[w]
      BY DEF PlayersOnly
    <2> QED
      BY <2>1, <2>2 DEF Kept
  <1> QED
    BY <1>1, InitTypeOK DEF KeptInv

\* Between players an object is never lost: whatever lost replies, stale reads, crashes,
\* sessions and goroutines do, when no handler works on it an owner lists it or some
\* player owns it and can still run `receive object`.
THEOREM IdleObjectsRecoverable == ASSUME PlayersOnly PROVE Spec => []IdleObjectRecoverable
  <1>1. KeptInv /\ [Next]_vars => KeptInv'
    BY NextKept
  <1>2. Init => KeptInv
    BY InitKept
  <1>3. KeptInv => IdleObjectRecoverable
    BY DEF KeptInv, Kept, IdleObjectRecoverable
  <1> QED
    BY <1>1, <1>2, <1>3, PTL DEF Spec

-----------------------------------------------------------------------------
(***************************************************************************)
(* The commands a player is offered.                                       *)
(*                                                                         *)
(* OffersThisPlace is not inductive: what is offered comes from the cache, *)
(* which outlives a panic, and from answers, which may be late.  The       *)
(* invariant says that the cache never has the list of a location actor    *)
(* other than the last one (CacheIsHere), and that of all requests in the  *)
(* box of the location actor only the one the game waits for is answered   *)
(* (LastIsAwaited).                                                        *)
(***************************************************************************)
HIDE ConstantsAssumption

\* The actor system numbers its actors: there is always a pid that is not in use.
PidsNeverRunOut == \A S \in SUBSET (Pid \cup {Nil}) : IsFiniteSet(S) => \E q \in Pid : q \notin S

ToActor == [type : {"list", "look", "write"}, id : Nat, to : Place \cup {Nil}]
Actor ==
    [pid : Pid \cup {Nil}, place : Place \cup {Nil},
     pc : {"dead", "starting", "subscribe", "idle", "asking"},
     ver : Nat, iver : Nat, seen : Nat, iseen : Nat, box : Seq(ToActor), told : Nat]
Game ==
    [pc : {"start", "list", "goto", "look", "write", "idle"},
     why : {"none", "init", "enter", "state", "refresh"},
     loc : Pid \cup {Nil}, inv : Pid \cup {Nil}, asked : Pid \cup {Nil},
     todo : SUBSET Pid, to : Place \cup {Nil}]

Typed ==
    /\ here \in Actor /\ game \in Game
    /\ DOMAIN blocks = Tree
    /\ \A t \in Tree : blocks[t] \in Seq(Place \cup {Nil}) /\ blocks[t] # <<>>
    /\ last \in Place \cup {Nil}
    /\ faults \in Nat

\* The pids in use are finitely many.
Named ==
    /\ DOMAIN cache \subseteq Pid /\ IsFiniteSet(DOMAIN cache)
    /\ DOMAIN commands \subseteq Pid /\ IsFiniteSet(DOMAIN commands)
    /\ mail \in Seq(Pid \cup {Nil})

\* A location actor h runs at a place that has a tree, is no newer than its trees, and
\* works on a request while it asks the inventory actor.
PlaceOK(h) ==
    /\ h.pc \in {"subscribe", "idle", "asking"} => h.place \in Place \ Broken
    /\ h.pid # Nil => h.place \in Place
    /\ h.pc = "dead" <=> h.pid = Nil
    /\ h.pid = Nil => h = NoActor
    /\ h.pc = "starting" => h.iver = 0
    /\ h.place \in Place \ Broken =>
          h.ver <= Len(blocks[LocTree(h.place)]) /\ h.iver <= Len(blocks[InvTree(h.place)])
    /\ h.pc = "asking" => h.box # <<>> /\ h.box[1].type = "list"
PlaceExists == PlaceOK(here)

\* The game waits for an answer to a message of this type.
Waits(type) == game.pc = type /\ (type = "list" => game.asked = here.pid)

\* The request the game waits for is the last in the box of the actor, and every
\* other one was given up.
LastIsAwaited ==
    \A i \in 1..Len(here.box) :
        /\ here.box[i].id <= faults
        /\ here.box[i].id = faults => i = Len(here.box) /\ Waits(here.box[i].type)

\* Where the game is: the location actor is the one it has entered with, and it is at
\* a place that has a tree once its first list came.
Settled == game.pc \in {"look", "write", "idle"} \/ (game.pc = "list" /\ game.why \in {"state", "refresh"})
GamePlace ==
    /\ here.pid = Nil \/ (here.pid = game.loc /\ game.loc # game.inv)
    /\ game.pc = "start" => here.pid = Nil
    /\ game.pc = "list" =>
          /\ game.why # "none" /\ game.asked \in Pid
          /\ game.why = "init" => here.pid = Nil /\ game.asked = game.inv
          /\ game.why = "enter" => here.pid # Nil /\ game.asked = here.pid
    /\ game.pc \in {"list", "goto", "look", "write", "idle"} => game.inv \in Pid
    /\ game.pc = "goto" => game.to \in Place
    /\ Settled => here.pid # Nil /\ here.place \notin Broken

\* Only the list of the location the game has entered, or of none, is in the cache, and
\* that is what it offers once it has that list.
CacheIsHere ==
    /\ \A q \in DOMAIN cache : cache[q].ver > 0 => q = game.loc
    /\ Settled => /\ game.loc \in DOMAIN cache /\ game.loc \in DOMAIN commands
                  /\ \A q \in DOMAIN commands : commands[q].ver > 0 => q = game.loc

GameIInv == Typed /\ Named /\ PlaceExists /\ LastIsAwaited /\ GamePlace /\ CacheIsHere

-----------------------------------------------------------------------------
USE PlaceAssumption

\* The types of the two records, field by field.
LEMMA GameFields ==
    ASSUME Typed
    PROVE  /\ here.pid \in Pid \cup {Nil} /\ here.place \in Place \cup {Nil}
           /\ here.pc \in {"dead", "starting", "subscribe", "idle", "asking"}
           /\ here.ver \in Nat /\ here.iver \in Nat /\ here.seen \in Nat /\ here.iseen \in Nat
           /\ here.box \in Seq(ToActor) /\ here.told \in Nat
           /\ game.loc \in Pid \cup {Nil} /\ game.inv \in Pid \cup {Nil}
           /\ game.asked \in Pid \cup {Nil} /\ game.todo \subseteq Pid
           /\ game.to \in Place \cup {Nil}
  BY DEF Typed, Actor, Game

\* What the game is at next, when it keeps its actors.
LEMMA NowIs ==
    ASSUME Typed, NEW at \in {"start", "list", "goto", "look", "write", "idle"},
           NEW g, g = Now(at)
    PROVE  /\ g \in Game /\ g.pc = at /\ g.loc = game.loc /\ g.inv = game.inv
           /\ g.why = "none" /\ g.asked = Nil /\ g.todo = {} /\ g.to = Nil
  <1>1. game.loc \in Pid \cup {Nil} /\ game.inv \in Pid \cup {Nil}
    BY GameFields
  <1>2. g = [pc |-> at, why |-> "none", loc |-> game.loc, inv |-> game.inv, asked |-> Nil,
             todo |-> {}, to |-> Nil]
    BY DEF Now, Starting
  <1> QED
    BY <1>1, <1>2 DEF Game

\* There is a pid that is not in use.
LEMMA FreshIsFresh ==
    ASSUME PidsNeverRunOut, Typed, Named
    PROVE  Fresh \in Pid /\ Fresh \notin Used
  <1> DEFINE mailed == {mail[i] : i \in DOMAIN mail}
  <1>1. mailed \subseteq Pid \cup {Nil} /\ IsFiniteSet(mailed)
    <2>1. mail \in Seq(Pid \cup {Nil}) /\ Len(mail) \in Nat /\ DOMAIN mail = 1..Len(mail)
      BY DEF Named
    <2>2. IsFiniteSet(DOMAIN mail)
      BY <2>1, FS_Interval
    <2>3. mail \in Surjection(DOMAIN mail, mailed)
      BY <2>1 DEF Surjection
    <2>4. IsFiniteSet(mailed)
      BY <2>2, <2>3, FS_Surjection
    <2> QED
      BY <2>1, <2>4
  <1>2. game.loc \in Pid \cup {Nil} /\ game.inv \in Pid \cup {Nil}
    BY GameFields
  <1>3. IsFiniteSet({game.loc, game.inv})
    <2>1. IsFiniteSet({game.loc})
      BY FS_Singleton
    <2>2. IsFiniteSet({game.loc} \cup {game.inv})
      BY <2>1, FS_AddElement
    <2> QED
      BY <2>2
  <1> HIDE DEF mailed
  <1>4. Used = ((DOMAIN cache \cup DOMAIN commands) \cup {game.loc, game.inv}) \cup mailed
    BY DEF Used, mailed
  <1>5. IsFiniteSet(DOMAIN cache \cup DOMAIN commands)
    BY FS_Union DEF Named
  <1>6. IsFiniteSet((DOMAIN cache \cup DOMAIN commands) \cup {game.loc, game.inv})
    BY <1>3, <1>5, FS_Union
  <1>7. IsFiniteSet(Used)
    BY <1>1, <1>4, <1>6, FS_Union
  <1>8. Used \in SUBSET (Pid \cup {Nil})
    BY <1>1, <1>2, <1>4 DEF Named
  <1>9. \E q \in Pid : q \notin Used
    BY <1>7, <1>8 DEF PidsNeverRunOut
  <1> QED
    BY <1>9 DEF Fresh

\* A list goes into the cache.
LEMMA ListSet ==
    ASSUME Named, NEW pid \in Pid, NEW list, SetList(pid, list)
    PROVE  /\ DOMAIN cache' = DOMAIN cache \cup {pid} /\ commands' = cache'
           /\ \A q \in DOMAIN cache' : cache'[q] = IF q = pid THEN list ELSE cache[q]
           /\ DOMAIN cache' \subseteq Pid /\ IsFiniteSet(DOMAIN cache')
  <1>1. /\ DOMAIN cache' = DOMAIN cache \cup {pid} /\ commands' = cache'
        /\ \A q \in DOMAIN cache' : cache'[q] = IF q = pid THEN list ELSE cache[q]
    BY DEF SetList
  <1>2. IsFiniteSet(DOMAIN cache \cup {pid})
    BY FS_AddElement DEF Named
  <1> QED
    BY <1>1, <1>2 DEF Named

-----------------------------------------------------------------------------
(* The box of the location actor. *)

\* Every request in the box of h was given up when n of them were.
GivenUp(h, n) == \A i \in 1..Len(h.box) : h.box[i].id < n

\* A game that waits for no answer has no request in the box.
LEMMA NothingAwaited ==
    ASSUME Typed, LastIsAwaited, ~Waits("list"), ~Waits("look"), ~Waits("write")
    PROVE  GivenUp(here, faults)
  <1> SUFFICES ASSUME NEW i \in 1..Len(here.box) PROVE here.box[i].id < faults
    BY DEF GivenUp
  <1>1. here.box \in Seq(ToActor)
    BY GameFields
  <1>2. here.box[i] \in ToActor
    BY <1>1, ElementOfSeq
  <1>3. here.box[i].type \in {"list", "look", "write"} /\ here.box[i].id \in Nat
    BY <1>2 DEF ToActor
  <1>4. here.box[i].id <= faults /\ here.box[i].id # faults
    BY <1>3 DEF LastIsAwaited
  <1> QED
    BY <1>3, <1>4 DEF Typed

\* The actor takes a message: what is left was given up if it is the awaited one or
\* the game does not wait.
LEMMA Taken ==
    ASSUME Typed, LastIsAwaited, here.box # <<>>
    PROVE  /\ Head(here.box) = here.box[1] /\ Head(here.box) \in ToActor
           /\ Tail(here.box) \in Seq(ToActor)
           /\ \A i \in 1..Len(Tail(here.box)) :
                 /\ Tail(here.box)[i].id <= faults
                 /\ Tail(here.box)[i].id = faults =>
                       i = Len(Tail(here.box)) /\ Waits(Tail(here.box)[i].type)
           /\ Awaited(Head(here.box)) => Len(Tail(here.box)) = 0 /\ Waits(Head(here.box).type)
  <1>1. here.box \in Seq(ToActor)
    BY GameFields
  <1>2. /\ Head(here.box) = here.box[1] /\ Tail(here.box) \in Seq(ToActor) /\ Len(here.box) \in Nat
        /\ 1 \in 1..Len(here.box) /\ Len(Tail(here.box)) = Len(here.box) - 1
        /\ \A i \in 1..Len(Tail(here.box)) :
              i + 1 \in 1..Len(here.box) /\ Tail(here.box)[i] = here.box[i + 1]
    BY <1>1
  <1>3. Head(here.box) \in ToActor
    BY <1>1, <1>2, ElementOfSeq
  <1>4. ASSUME NEW i \in 1..Len(Tail(here.box))
        PROVE  /\ Tail(here.box)[i].id <= faults
               /\ Tail(here.box)[i].id = faults =>
                       i = Len(Tail(here.box)) /\ Waits(Tail(here.box)[i].type)
    <2>1. i + 1 \in 1..Len(here.box) /\ Tail(here.box)[i] = here.box[i + 1]
      BY <1>2
    <2>2. /\ here.box[i + 1].id <= faults
          /\ here.box[i + 1].id = faults => i + 1 = Len(here.box) /\ Waits(here.box[i + 1].type)
      BY <2>1 DEF LastIsAwaited
    <2> QED
      BY <1>2, <2>1, <2>2
  <1>5. ASSUME Awaited(Head(here.box))
        PROVE  Len(Tail(here.box)) = 0 /\ Waits(Head(here.box).type)
    <2>1. here.box[1].id = faults
      BY <1>2, <1>5 DEF Awaited
    <2>2. 1 = Len(here.box) /\ Waits(here.box[1].type)
      BY <1>2, <2>1 DEF LastIsAwaited
    <2>3. Len(Tail(here.box)) = 0
      BY <1>2, <2>2
    <2> QED
      BY <1>2, <2>2, <2>3
  <1> QED
    BY <1>2, <1>3, <1>4, <1>5

\* The game puts a request into the box, and waits for the answer.
LEMMA Asked ==
    ASSUME NEW h \in Actor, faults' \in Nat, GivenUp(h, faults'), NEW m \in ToActor, m.id = faults',
           here' = [h EXCEPT !.box = Append(@, m)], Waits(m.type)',
           PlaceOK(h), h.pid # Nil, UNCHANGED blocks
    PROVE  /\ here' \in Actor /\ here'.pid = h.pid /\ here'.place = h.place
           /\ PlaceExists' /\ LastIsAwaited'
  <1>1. h.box \in Seq(ToActor) /\ Len(h.box) \in Nat
    BY DEF Actor
  <1>2. Append(h.box, m) \in Seq(ToActor)
    BY <1>1
  <1>3. /\ here' \in Actor /\ here'.pid = h.pid /\ here'.place = h.place /\ here'.pc = h.pc
        /\ here'.ver = h.ver /\ here'.iver = h.iver /\ here'.box = Append(h.box, m)
    BY <1>2 DEF Actor
  <1>4. /\ Len(here'.box) = Len(h.box) + 1 /\ here'.box[Len(h.box) + 1] = m
        /\ \A i \in 1..Len(h.box) : here'.box[i] = h.box[i]
    BY <1>1, <1>3
  <1>5. ASSUME NEW i \in 1..Len(here'.box)
        PROVE  /\ here'.box[i].id <= faults'
               /\ here'.box[i].id = faults' => i = Len(here'.box) /\ Waits(here.box[i].type)'
    <2>1. CASE i = Len(h.box) + 1
      <3>1. here'.box[i] = m /\ i = Len(here'.box) /\ faults' \in Nat /\ m.id = faults'
        BY <1>4, <2>1
      <3>2. Waits(here.box[i].type)'
        BY <3>1 DEF Waits
      <3> QED
        BY <3>1, <3>2
    <2>2. CASE i \in 1..Len(h.box)
      <3>1. h.box[i] \in ToActor
        BY <1>1, <2>2, ElementOfSeq
      <3>2. h.box[i].id \in Nat /\ h.box[i].id < faults'
        BY <2>2, <3>1 DEF GivenUp, ToActor
      <3> QED
        BY <1>4, <2>2, <3>2
    <2> QED
      BY <1>1, <1>4, <2>1, <2>2
  <1>6. h.pc = "asking" => here'.box # <<>> /\ here'.box[1].type = "list"
    <2>1. SUFFICES ASSUME h.pc = "asking" PROVE here'.box # <<>> /\ here'.box[1].type = "list"
      OBVIOUS
    <2>2. h.box # <<>> /\ h.box[1].type = "list"
      BY <2>1 DEF PlaceOK
    <2>3. 1 \in 1..Len(h.box)
      BY <1>1, <2>2
    <2> QED
      BY <1>1, <1>2, <1>3, <1>4, <2>2, <2>3
  <1>7. PlaceExists'
    BY <1>3, <1>6 DEF PlaceExists, PlaceOK, LocTree, InvTree
  <1> QED
    BY <1>3, <1>5, <1>7 DEF LastIsAwaited

-----------------------------------------------------------------------------
(* The steps. *)

\* Blocks are only added.
Longer ==
    /\ DOMAIN blocks' = Tree
    /\ \A t \in Tree : /\ blocks'[t] \in Seq(Place \cup {Nil}) /\ blocks'[t] # <<>>
                       /\ Len(blocks[t]) <= Len(blocks'[t])

\* A block makes its tree longer by one.
LEMMA PlayedIsLonger ==
    ASSUME Typed, NEW t \in Tree, NEW p \in Place \cup {Nil},
           blocks' = [blocks EXCEPT ![t] = Append(@, p)]
    PROVE  Longer /\ Len(blocks'[t]) = Len(blocks[t]) + 1
  <1>1. ASSUME NEW s \in Seq(Place \cup {Nil})
        PROVE  /\ Append(s, p) \in Seq(Place \cup {Nil}) /\ Append(s, p) # <<>>
               /\ Len(Append(s, p)) = Len(s) + 1 /\ Len(s) \in Nat
    OBVIOUS
  <1>2. /\ DOMAIN blocks' = Tree /\ blocks'[t] = Append(blocks[t], p)
        /\ \A u \in Tree : u # t => blocks'[u] = blocks[u]
    BY DEF Typed
  <1>3. \A u \in Tree : blocks[u] \in Seq(Place \cup {Nil}) /\ blocks[u] # <<>> /\ Len(blocks[u]) \in Nat
    BY DEF Typed
  <1> QED
    BY <1>1, <1>2, <1>3 DEF Longer

\* The trees of a place that has one.
LEMMA TreesOf ==
    ASSUME Typed, NEW p \in Place \ Broken
    PROVE  /\ LocTree(p) \in Tree /\ InvTree(p) \in Tree
           /\ Len(blocks[LocTree(p)]) \in Nat /\ Len(blocks[InvTree(p)]) \in Nat
  <1>1. LocTree(p) \in Tree /\ InvTree(p) \in Tree
    BY DEF Tree
  <1>2. \A t \in Tree : blocks[t] \in Seq(Place \cup {Nil})
    BY DEF Typed
  <1> QED
    BY <1>1, <1>2

\* The location actor works, or a block is played, and the game does not notice.
Unnoticed ==
    /\ here' \in Actor /\ here'.pid = here.pid /\ here'.place = here.place /\ here'.box = here.box
    /\ here'.pc = "dead" <=> here.pc = "dead"
    /\ here'.pc \in {"subscribe", "idle", "asking"} => here.place \in Place \ Broken
    /\ here'.pc = "starting" => here'.iver = 0
    /\ here'.pc = "asking" => here.box # <<>> /\ here.box[1].type = "list"
    /\ here.pid = Nil => here' = here
    /\ here.place \in Place \ Broken =>
          here'.ver <= Len(blocks[LocTree(here.place)]) /\ here'.iver <= Len(blocks[InvTree(here.place)])
    /\ Longer /\ mail' \in Seq(Pid \cup {Nil})
    /\ UNCHANGED <<game, cache, commands, last, faults>>

\* Such a step keeps the invariant.
LEMMA UnnoticedOK ==
    ASSUME GameIInv, Unnoticed
    PROVE  GameIInv'
  <1> USE DEF GameIInv, Unnoticed
  <1>1. Typed'
    BY DEF Typed, Longer
  <1>2. Named'
    BY DEF Named
  <1>3. PlaceExists'
    <2>1. ASSUME here'.place \in Place \ Broken
          PROVE  /\ here'.ver <= Len(blocks'[LocTree(here'.place)])
                 /\ here'.iver <= Len(blocks'[InvTree(here'.place)])
      <3>1. /\ LocTree(here.place) \in Tree /\ InvTree(here.place) \in Tree
            /\ Len(blocks[LocTree(here.place)]) \in Nat /\ Len(blocks[InvTree(here.place)]) \in Nat
        BY <2>1, TreesOf
      <3>2. /\ LocTree(here.place) \in Tree /\ InvTree(here.place) \in Tree
            /\ Len(blocks'[LocTree(here.place)]) \in Nat /\ Len(blocks'[InvTree(here.place)]) \in Nat
        <4>1. \A t \in Tree : Len(blocks'[t]) \in Nat
          BY DEF Longer
        <4> QED
          BY <3>1, <4>1
      <3>3. here'.ver \in Nat /\ here'.iver \in Nat
        BY DEF Actor
      <3>4. /\ here'.ver <= Len(blocks[LocTree(here.place)])
            /\ here'.iver <= Len(blocks[InvTree(here.place)])
        BY <2>1
      <3>5. /\ Len(blocks[LocTree(here.place)]) <= Len(blocks'[LocTree(here.place)])
            /\ Len(blocks[InvTree(here.place)]) <= Len(blocks'[InvTree(here.place)])
        BY <3>1 DEF Longer
      <3> QED
        BY <3>1, <3>2, <3>3, <3>4, <3>5
    <2> QED
      BY <2>1 DEF PlaceExists, PlaceOK, LocTree, InvTree
  <1>4. LastIsAwaited'
    BY DEF LastIsAwaited, Waits
  <1>5. GamePlace' /\ CacheIsHere'
    BY DEF GamePlace, CacheIsHere, Settled
  <1> QED
    BY <1>1, <1>2, <1>3, <1>4, <1>5

\* These steps are of that kind.
LEMMA ActorUnnoticed ==
    ASSUME GameIInv,
           \/ FetchLocation \/ Subscribe \/ StartInventory \/ LocationState \/ ForwardChange
           \/ LocationList \/ InventoryState
    PROVE  Unnoticed
  <1> DEFINE place == here.place
             n == Len(blocks[LocTree(place)])
             m == Len(blocks[InvTree(place)])
  <1>1. /\ here \in Actor /\ here.pid \in Pid \cup {Nil} /\ here.ver \in Nat /\ here.iver \in Nat
        /\ here.seen \in Nat /\ here.iseen \in Nat /\ here.told \in Nat /\ here.box \in Seq(ToActor)
    BY GameFields DEF GameIInv, Typed
  <1>2. Longer /\ UNCHANGED <<game, cache, commands, last, faults>>
    <2>1. UNCHANGED <<blocks, game, cache, commands, last, faults>>
      BY DEF FetchLocation, Subscribe, StartInventory, LocationState, ForwardChange, LocationList,
             InventoryState, offers, bounds
    <2>2. \A t \in Tree : blocks[t] \in Seq(Place \cup {Nil}) /\ Len(blocks[t]) \in Nat
      BY DEF GameIInv, Typed
    <2> QED
      BY <2>1, <2>2 DEF Longer, GameIInv, Typed
  <1>3. mail' \in Seq(Pid \cup {Nil})
    <2>1. mail' = mail \/ mail' = Append(mail, here.pid)
      BY DEF FetchLocation, Subscribe, StartInventory, LocationState, ForwardChange, LocationList,
             InventoryState
    <2>2. mail \in Seq(Pid \cup {Nil})
      BY DEF GameIInv, Named
    <2>3. here.pid \in Pid \cup {Nil}
      BY <1>1
    <2>4. Append(mail, here.pid) \in Seq(Pid \cup {Nil})
      BY <2>2, <2>3
    <2> QED
      BY <2>1, <2>2, <2>4
  <1>4. here.pid # Nil /\ here.pc # "dead" /\ place \in Place /\ (here.pc # "starting" => place \notin Broken)
    <2>1. here.pc # "dead"
      BY DEF FetchLocation, Subscribe, StartInventory, LocationState, ForwardChange, LocationList,
             InventoryState, Next1, GameIInv, PlaceExists, PlaceOK, NoActor
    <2> QED
      BY <1>1, <2>1 DEF GameIInv, PlaceExists, PlaceOK, Actor
  <1>5. place \notin Broken
    <2>1. CASE here.pc = "starting"
      BY <2>1 DEF FetchLocation, Subscribe, StartInventory, LocationState, ForwardChange,
                  LocationList, InventoryState, Next1, GameIInv, PlaceExists, PlaceOK
    <2>2. CASE here.pc # "starting"
      BY <1>4, <2>2
    <2> QED
      BY <2>1, <2>2
  <1>6. n \in Nat /\ m \in Nat
    BY <1>4, <1>5, TreesOf DEF GameIInv
  <1>7. /\ here.ver <= n /\ here.iver <= m
        /\ here.pc = "asking" => here.box # <<>> /\ here.box[1].type = "list"
    BY <1>4, <1>5 DEF GameIInv, PlaceExists, PlaceOK
  <1> HIDE DEF n, m
  <1>8. /\ here' \in Actor /\ here'.pid = here.pid /\ here'.place = place /\ here'.box = here.box
        /\ here'.pc \notin {"dead", "starting"}
        /\ here'.ver <= n /\ here'.iver <= m
        /\ here'.pc = "asking" => here.box # <<>> /\ here.box[1].type = "list"
    <2> DEFINE Fields(at, ver, iver) ==
                /\ here' \in Actor /\ here'.pid = here.pid /\ here'.place = here.place
                /\ here'.box = here.box /\ here'.pc = at /\ here'.ver = ver /\ here'.iver = iver
    <2>1. CASE FetchLocation
      <3>1. here' = [here EXCEPT !.pc = "subscribe", !.ver = n]
        BY <2>1 DEF FetchLocation, n
      <3>2. Fields("subscribe", n, here.iver)
        BY <1>1, <1>6, <3>1 DEF Actor
      <3> QED
        BY <1>6, <1>7, <3>2
    <2>2. CASE Subscribe
      <3>1. here' = [here EXCEPT !.pc = "idle", !.seen = n]
        BY <2>2 DEF Subscribe, n
      <3>2. Fields("idle", here.ver, here.iver)
        BY <1>1, <1>6, <3>1 DEF Actor
      <3> QED
        BY <1>6, <1>7, <3>2
    <2>3. CASE StartInventory
      <3>1. here' = [here EXCEPT !.iver = m, !.iseen = m] /\ here.pc \in {"idle", "asking"}
        BY <2>3 DEF StartInventory, m
      <3>2. Fields(here.pc, here.ver, m)
        BY <1>1, <1>6, <3>1 DEF Actor
      <3> QED
        BY <1>6, <1>7, <3>1, <3>2
    <2>4. CASE LocationState
      <3> DEFINE k == here.seen + 1
      <3>1. here' = [here EXCEPT !.ver = k, !.seen = k] /\ here.seen < n /\ here.pc = "idle"
        BY <2>4 DEF LocationState, n
      <3>2. k \in Nat /\ k <= n
        BY <1>1, <1>6, <3>1
      <3> HIDE DEF k
      <3>3. Fields("idle", k, here.iver)
        BY <1>1, <3>1, <3>2 DEF Actor
      <3> QED
        BY <1>7, <3>2, <3>3
    <2>5. CASE ForwardChange
      <3>1. here' = [here EXCEPT !.told = here.told - 1] /\ here.told > 0 /\ here.pc = "idle"
        BY <2>5 DEF ForwardChange
      <3> DEFINE told == here.told - 1
      <3>a. told \in Nat /\ here' = [here EXCEPT !.told = told]
        BY <1>1, <3>1
      <3> HIDE DEF told
      <3>2. Fields("idle", here.ver, here.iver)
        BY <1>1, <3>1, <3>a DEF Actor
      <3> QED
        BY <1>7, <3>2
    <2>6. CASE LocationList
      <3>1. here.box # <<>> /\ Head(here.box) = here.box[1] /\ Head(here.box).type = "list"
        BY <1>1, <2>6 DEF LocationList, Next1
      <3>2. here' = [here EXCEPT !.pc = "asking"]
        BY <2>6 DEF LocationList
      <3>3. Fields("asking", here.ver, here.iver)
        BY <1>1, <3>2 DEF Actor
      <3> QED
        BY <1>7, <3>1, <3>3
    <2>7. CASE InventoryState
      <3> DEFINE k == here.iseen + 1
                 told == here.told + 1
      <3>1. here' = [here EXCEPT !.iver = k, !.iseen = k, !.told = told] /\ here.iseen < m
        BY <2>7 DEF InventoryState, m
      <3>2. here.pc \notin {"dead", "starting"}
        BY <1>4, <2>7 DEF InventoryState, GameIInv, PlaceExists, PlaceOK
      <3>3. k \in Nat /\ told \in Nat /\ k <= m
        <4>1. here.iseen \in Nat /\ here.told \in Nat /\ m \in Nat /\ here.iseen < m
          BY <1>1, <1>6, <3>1
        <4> QED
          BY <4>1
      <3> HIDE DEF k, told
      <3>4. Fields(here.pc, here.ver, k)
        BY <1>1, <3>1, <3>3 DEF Actor
      <3> QED
        BY <1>7, <3>2, <3>3, <3>4
    <2> QED
      BY <2>1, <2>2, <2>3, <2>4, <2>5, <2>6, <2>7
  <1> QED
    BY <1>2, <1>3, <1>4, <1>5, <1>8 DEF n, m, Unnoticed, GameIInv, PlaceExists, PlaceOK

\* So is a block of another player.
LEMMA OtherPlayerUnnoticed ==
    ASSUME GameIInv, NEW t \in Tree, NEW p \in Target \cup {Nil}, OtherPlayer(t, p)
    PROVE  Unnoticed
  <1>1. Longer
    BY PlayedIsLonger DEF OtherPlayer, GameIInv
  <1>2. UNCHANGED <<here, game, cache, commands, mail, last, faults>>
    BY DEF OtherPlayer, offers
  <1> QED
    BY <1>1, <1>2 DEF Unnoticed, GameIInv, Typed, Named, PlaceExists, PlaceOK

\* The game asks an actor for its list; one that is not there gets nothing.
LEMMA ListAsked ==
    ASSUME Typed, faults' = faults, NEW h \in Actor, GivenUp(h, faults), NEW q \in Pid, here' = AskList(h, q),
           game'.pc = "list", game'.asked = q, PlaceOK(h), UNCHANGED blocks
    PROVE  /\ here' \in Actor /\ here'.pid = h.pid /\ here'.place = h.place
           /\ PlaceExists' /\ LastIsAwaited'
  <1>1. CASE q = h.pid
    <2>0. PICK m : m = Request("list", Nil)
      OBVIOUS
    <2>1. m \in ToActor /\ m.id = faults /\ m.type = "list"
      BY <2>0 DEF Request, ToActor, Typed
    <2>2. here' = [h EXCEPT !.box = Append(@, m)]
      BY <1>1, <2>0 DEF AskList
    <2>3. here'.pid = h.pid
      BY <2>2 DEF Actor
    <2>4. Waits(m.type)'
      BY <1>1, <2>1, <2>3 DEF Waits
    <2> QED
      BY <1>1, <2>1, <2>2, <2>4, Asked DEF Typed
  <1>2. CASE q # h.pid
    <2>1. here' = h
      BY <1>2 DEF AskList
    <2>2. LastIsAwaited'
      <3> SUFFICES ASSUME NEW i \in 1..Len(here'.box)
                   PROVE  here'.box[i].id <= faults' /\ here'.box[i].id # faults'
        BY DEF LastIsAwaited
      <3>1. h.box \in Seq(ToActor) /\ i \in 1..Len(h.box)
        BY <2>1 DEF Actor
      <3>2. h.box[i] \in ToActor
        BY <3>1, ElementOfSeq
      <3>3. h.box[i].id \in Nat /\ h.box[i].id < faults /\ faults \in Nat
        BY <3>1, <3>2 DEF GivenUp, ToActor, Typed
      <3> QED
        BY <2>1, <3>3
    <2> QED
      BY <2>1, <2>2 DEF PlaceExists, PlaceOK
  <1> QED
    BY <1>1, <1>2

\* The game waits for nothing.
LEMMA StillGivenUp ==
    ASSUME NEW h \in Actor, faults' \in Nat, GivenUp(h, faults'), here' = h
    PROVE  LastIsAwaited'
  <1> SUFFICES ASSUME NEW i \in 1..Len(here'.box)
               PROVE  here'.box[i].id <= faults' /\ here'.box[i].id # faults'
    BY DEF LastIsAwaited
  <1>1. h.box \in Seq(ToActor) /\ i \in 1..Len(h.box)
    BY DEF Actor
  <1>2. h.box[i] \in ToActor
    BY <1>1, ElementOfSeq
  <1>3. h.box[i].id \in Nat /\ h.box[i].id < faults'
    BY <1>1, <1>2 DEF GivenUp, ToActor
  <1> QED
    BY <1>3

\* The game gets a list: from its inventory actor, or from the location actor that has
\* handled the request and is h now.
LEMMA AnsweredOK ==
    ASSUME GameIInv, game.pc = "list", NEW h \in Actor, h.pid = here.pid, h.place = here.place,
           PlaceOK(h), GivenUp(h, faults), NEW list, list.ver > 0 => game.asked = game.loc,
           game.why # "init" => here.place \notin Broken,
           ListAnswered(h, game.asked, list), UNCHANGED <<blocks, mail, last, bounds>>
    PROVE  GameIInv'
  <1> USE DEF GameIInv
  <1>0. UNCHANGED <<blocks, mail, last, faults>>
    BY DEF bounds
  <1>1. /\ game.asked \in Pid /\ game.inv \in Pid /\ game.loc \in Pid \cup {Nil} /\ game.todo \subseteq Pid
        /\ game.why \in {"init", "enter", "state", "refresh"} /\ last \in Place \cup {Nil}
    BY GameFields DEF GamePlace, Typed, Game
  <1>2. /\ DOMAIN cache' = DOMAIN cache \cup {game.asked} /\ commands' = cache'
        /\ \A q \in DOMAIN cache' : cache'[q] = IF q = game.asked THEN list ELSE cache[q]
        /\ DOMAIN cache' \subseteq Pid /\ IsFiniteSet(DOMAIN cache')
    BY <1>1, ListSet DEF ListAnswered
  <1>3. Named'
    BY <1>0, <1>2 DEF Named
  <1>4. \A q \in DOMAIN cache' : cache'[q].ver > 0 => q = game.loc
    BY <1>2 DEF CacheIsHere
  <1>5. game.why # "init" => game.loc \in DOMAIN cache' /\ here.pid # Nil /\ game.loc = here.pid
    BY <1>1, <1>2 DEF GamePlace, CacheIsHere, Settled
  <1>6. ASSUME game' \in Game, here' \in Actor, here'.pid = here.pid, here'.place = here.place,
               game'.loc = game.loc, game'.inv = game.inv, game.why # "init",
               \/ game'.pc \in {"look", "idle"}
               \/ game'.pc = "list" /\ game'.why = "refresh" /\ game'.asked \in Pid
        PROVE  Typed' /\ GamePlace' /\ CacheIsHere'
    <2>1. Typed'
      BY <1>0, <1>6 DEF Typed
    <2>2. GamePlace'
      BY <1>1, <1>5, <1>6 DEF GamePlace, Settled
    <2>3. CacheIsHere'
      BY <1>2, <1>4, <1>5, <1>6 DEF CacheIsHere, Settled
    <2> QED
      BY <2>1, <2>2, <2>3
  <1>7. PICK look : look = Request("look", Nil)
    OBVIOUS
  <1>8. look \in ToActor /\ look.id = faults /\ look.type = "look"
    BY <1>7 DEF Request, ToActor, Typed
  <1>9. ASSUME game.why # "init", game' = Now("look"), here' = [h EXCEPT !.box = Append(@, look)]
        PROVE  GameIInv'
    <2>1. /\ game' \in Game /\ game'.pc = "look" /\ game'.loc = game.loc /\ game'.inv = game.inv
      BY <1>9, NowIs
    <2>2. Waits(look.type)'
      BY <1>8, <2>1 DEF Waits
    <2>3. /\ here' \in Actor /\ here'.pid = h.pid /\ here'.place = h.place
          /\ PlaceExists' /\ LastIsAwaited'
      BY <1>0, <1>5, <1>9, <1>8, <2>2, Asked DEF Typed
    <2> QED
      BY <1>3, <1>6, <1>9, <2>1, <2>3
  <1>10. CASE game.why = "init"
    <2> DEFINE to == IF last = Nil THEN Home ELSE last
    <2>1. game' = [Now("goto") EXCEPT !.to = to] /\ here' = h
      BY <1>10 DEF ListAnswered
    <2>2. to \in Place
      BY <1>1
    <2> HIDE DEF to
    <2>3. PICK g : g = Now("goto")
      OBVIOUS
    <2>4. /\ g \in Game /\ g.pc = "goto" /\ g.loc = game.loc /\ g.inv = game.inv
      BY <2>3, NowIs
    <2>5. game' = [g EXCEPT !.to = to]
      BY <2>1, <2>3
    <2>6. /\ game' \in Game /\ game'.pc = "goto" /\ game'.loc = game.loc /\ game'.inv = game.inv
          /\ game'.to = to
      BY <2>2, <2>4, <2>5 DEF Game
    <2>7. Typed'
      BY <1>0, <2>1, <2>6 DEF Typed
    <2>8. LastIsAwaited'
      BY <1>0, <2>1, StillGivenUp DEF Typed
    <2>9. PlaceExists'
      BY <1>0, <2>1 DEF PlaceExists, PlaceOK
    <2>10. GamePlace'
      BY <1>1, <2>1, <2>2, <2>6 DEF GamePlace, Settled
    <2>11. CacheIsHere'
      BY <1>4, <2>6 DEF CacheIsHere, Settled
    <2> QED
      BY <1>3, <2>7, <2>8, <2>9, <2>10, <2>11
  <1>11. CASE game.why = "enter"
    BY <1>7, <1>9, <1>11 DEF ListAnswered
  <1>12. CASE game.why = "state"
    <2>1. game' = Now("idle") /\ here' = h
      BY <1>12 DEF ListAnswered
    <2>2. /\ game' \in Game /\ game'.pc = "idle" /\ game'.loc = game.loc /\ game'.inv = game.inv
      BY <2>1, NowIs
    <2>3. LastIsAwaited'
      BY <1>0, <2>1, StillGivenUp DEF Typed
    <2>4. PlaceExists'
      BY <1>0, <2>1 DEF PlaceExists, PlaceOK
    <2> QED
      BY <1>3, <1>6, <1>12, <2>1, <2>2, <2>3, <2>4
  <1>13. CASE game.why = "refresh" /\ game.todo = {}
    BY <1>7, <1>9, <1>13 DEF ListAnswered
  <1>14. CASE game.why = "refresh" /\ game.todo # {}
    <2>1. PICK q \in game.todo :
              game' = [game EXCEPT !.asked = q, !.todo = @ \ {q}] /\ here' = AskList(h, q)
      BY <1>14 DEF ListAnswered
    <2>2. q \in Pid
      BY <1>1
    <2>3. /\ game' \in Game /\ game'.pc = "list" /\ game'.why = "refresh" /\ game'.asked = q
          /\ game'.loc = game.loc /\ game'.inv = game.inv
      BY <1>14, <2>1, <2>2 DEF Typed, Game
    <2>4. /\ here' \in Actor /\ here'.pid = h.pid /\ here'.place = h.place
          /\ PlaceExists' /\ LastIsAwaited'
      BY <1>0, <2>1, <2>2, <2>3, ListAsked
    <2> QED
      BY <1>3, <1>6, <1>14, <2>2, <2>3, <2>4
  <1> QED
    BY <1>1, <1>10, <1>11, <1>12, <1>13, <1>14

\* The location actor has handled a message and is h: if the game waited for the answer,
\* nothing in the box is awaited any more, and otherwise nothing has changed for it.
LEMMA Handled ==
    ASSUME Typed, LastIsAwaited, here.box # <<>>, NEW h \in Actor, h.box = Tail(here.box),
           h.pid = here.pid, faults' = faults
    PROVE  /\ Awaited(Head(here.box)) => GivenUp(h, faults)
           /\ here' = h /\ game' = game => LastIsAwaited'
  <1>1. /\ \A i \in 1..Len(h.box) :
              /\ h.box[i].id <= faults
              /\ h.box[i].id = faults => i = Len(h.box) /\ Waits(h.box[i].type)
        /\ Awaited(Head(here.box)) => Len(h.box) = 0
    BY Taken
  <1>2. Awaited(Head(here.box)) => GivenUp(h, faults)
    BY <1>1 DEF GivenUp
  <1>3. ASSUME here' = h, game' = game PROVE LastIsAwaited'
    <2>1. SUFFICES ASSUME NEW i \in 1..Len(h.box)
                   PROVE  h.box[i].id = faults => Waits(here.box[i].type)'
      BY <1>1, <1>3 DEF LastIsAwaited
    <2>2. h.pid = here.pid => (Waits(here.box[i].type)' <=> Waits(h.box[i].type))
      BY <1>3 DEF Waits
    <2> QED
      BY <1>1, <1>3, <2>2 DEF Waits
  <1> QED
    BY <1>2, <1>3

\* The game is done with a command.
LEMMA BackToIdle ==
    ASSUME GameIInv, Settled, here' \in Actor, here'.pid = here.pid, here'.place = here.place,
           game' = Now("idle"), Longer, UNCHANGED <<cache, commands, mail, last>>, faults' \in Nat
    PROVE  Typed' /\ Named' /\ GamePlace' /\ CacheIsHere'
  <1> USE DEF GameIInv
  <1>1. /\ game' \in Game /\ game'.pc = "idle" /\ game'.loc = game.loc /\ game'.inv = game.inv
    BY NowIs
  <1>2. Typed'
    BY <1>1 DEF Typed, Longer
  <1>3. game.inv \in Pid
    BY DEF GamePlace, Settled
  <1>4. GamePlace'
    BY <1>1, <1>3 DEF GamePlace, Settled
  <1> QED
    BY <1>1, <1>2, <1>4 DEF Named, CacheIsHere, Settled

\* The location actor takes the next message.
LEMMA Done1Is ==
    ASSUME GameIInv, here.pc = "idle", here.box # <<>>, NEW h, h = Done1
    PROVE  /\ h \in Actor /\ h.pid = here.pid /\ h.place = here.place /\ h.pc = "idle"
           /\ h.ver = here.ver /\ h.iver = here.iver /\ h.box = Tail(here.box) /\ PlaceOK(h)
           /\ here.place \in Place \ Broken /\ here.pid # Nil
  <1>1. here \in Actor /\ Tail(here.box) \in Seq(ToActor)
    BY Taken DEF GameIInv, Typed
  <1>2. h = [here EXCEPT !.box = Tail(here.box)]
    BY DEF Done1
  <1>3. /\ h \in Actor /\ h.pid = here.pid /\ h.place = here.place /\ h.pc = "idle"
        /\ h.ver = here.ver /\ h.iver = here.iver /\ h.box = Tail(here.box)
    BY <1>1, <1>2 DEF Actor
  <1>4. here.place \in Place \ Broken /\ here.pid # Nil
    BY DEF GameIInv, PlaceExists, PlaceOK
  <1> QED
    BY <1>3, <1>4 DEF GameIInv, PlaceExists, PlaceOK

\* The answer to GetLocation ends the command.
LEMMA LocationLookOK ==
    ASSUME GameIInv, LocationLook
    PROVE  GameIInv'
  <1> USE DEF GameIInv
  <1>1. /\ here.pc = "idle" /\ here.box # <<>> /\ Head(here.box).type = "look" /\ here' = Done1
        /\ game' = IF Awaited(Head(here.box)) THEN Now("idle") ELSE game
        /\ UNCHANGED <<blocks, cache, commands, mail, last, faults>>
    BY DEF LocationLook, Next1, offers, bounds
  <1>2. /\ here' \in Actor /\ here'.pid = here.pid /\ here'.place = here.place
        /\ here'.box = Tail(here.box) /\ PlaceOK(here)'
    <2>1. PICK h : h = Done1
      OBVIOUS
    <2>2. /\ h \in Actor /\ h.pid = here.pid /\ h.place = here.place
          /\ h.box = Tail(here.box) /\ PlaceOK(h)
      BY <1>1, <2>1, Done1Is
    <2> QED
      BY <1>1, <2>1, <2>2 DEF PlaceOK
  <1>3. Longer
    BY <1>1 DEF Longer, Typed
  <1>4. CASE Awaited(Head(here.box))
    <2>1. Settled
      BY <1>1, <1>4, Taken DEF Waits, Settled
    <2>2. PICK h : h = here'
      OBVIOUS
    <2>3. GivenUp(h, faults)
      BY <1>1, <1>2, <1>4, <2>2, Handled
    <2>4. LastIsAwaited'
      BY <1>1, <1>2, <2>2, <2>3, StillGivenUp DEF Typed
    <2>5. Typed' /\ Named' /\ GamePlace' /\ CacheIsHere'
      BY <1>1, <1>2, <1>3, <1>4, <2>1, BackToIdle DEF Typed
    <2> QED
      BY <1>2, <2>4, <2>5 DEF PlaceExists
  <1>5. CASE ~Awaited(Head(here.box))
    <2>1. game' = game
      BY <1>1, <1>5
    <2>2. PICK h : h = here'
      OBVIOUS
    <2>3. LastIsAwaited'
      BY <1>1, <1>2, <2>1, <2>2, Handled
    <2> QED
      BY <1>1, <1>2, <2>1, <2>3
         DEF Typed, Named, PlaceExists, GamePlace, CacheIsHere, Settled
  <1> QED
    BY <1>4, <1>5

\* A change of the portal ends the command, played or refused.
LEMMA LocationWriteOK ==
    ASSUME GameIInv, LocationWrite
    PROVE  GameIInv'
  <1> USE DEF GameIInv
  <1> DEFINE t == LocTree(here.place)
  <1>1. /\ here.pc = "idle" /\ here.box # <<>> /\ Head(here.box).type = "write"
        /\ game' = IF Awaited(Head(here.box)) THEN Now("idle") ELSE game
        /\ UNCHANGED <<cache, commands, mail, last, faults>>
        /\ \/ /\ here.ver = Len(blocks[t])
              /\ blocks' = [blocks EXCEPT ![t] = Append(@, Head(here.box).to)]
              /\ here' = [Done1 EXCEPT !.ver = @ + 1]
           \/ here' = Done1 /\ UNCHANGED blocks
    BY DEF LocationWrite, Next1, offers, bounds
  <1>2. PICK h : h = Done1
    OBVIOUS
  <1>3. /\ h \in Actor /\ h.pid = here.pid /\ h.place = here.place /\ h.pc = "idle"
        /\ h.ver = here.ver /\ h.iver = here.iver /\ h.box = Tail(here.box) /\ PlaceOK(h)
        /\ here.place \in Place \ Broken /\ here.pid # Nil
    BY <1>1, <1>2, Done1Is
  <1>4. /\ LocTree(here.place) \in Tree /\ InvTree(here.place) \in Tree
        /\ Len(blocks[t]) \in Nat /\ Len(blocks[InvTree(here.place)]) \in Nat
    BY <1>3, TreesOf
  <1>5. Head(here.box).to \in Place \cup {Nil}
    BY <1>1, Taken DEF ToActor
  <1>6. /\ here' \in Actor /\ here'.pid = here.pid /\ here'.place = here.place /\ here'.pc = "idle"
        /\ here'.box = Tail(here.box) /\ PlaceOK(here)' /\ Longer
    <2>1. CASE here' = Done1 /\ UNCHANGED blocks
      <3>1. here' = h /\ Longer
        BY <1>2, <2>1 DEF Longer, Typed
      <3> QED
        BY <1>3, <2>1, <3>1 DEF PlaceOK
    <2>2. CASE /\ here.ver = Len(blocks[t])
               /\ blocks' = [blocks EXCEPT ![t] = Append(@, Head(here.box).to)]
               /\ here' = [Done1 EXCEPT !.ver = @ + 1]
      <3>1. Longer /\ Len(blocks'[t]) = Len(blocks[t]) + 1
        BY <1>4, <1>5, <2>2, PlayedIsLonger
      <3>2. PICK k : k = here.ver + 1
        OBVIOUS
      <3>3. k \in Nat
        BY <3>2, GameFields
      <3>4. here' = [h EXCEPT !.ver = k]
        BY <1>2, <1>3, <2>2, <3>2
      <3>5. /\ here' \in Actor /\ here'.pid = here.pid /\ here'.place = here.place /\ here'.pc = "idle"
            /\ here'.box = Tail(here.box) /\ here'.ver = k /\ here'.iver = here.iver
        BY <1>3, <3>3, <3>4 DEF Actor
      <3>6. here'.ver <= Len(blocks'[t])
        BY <1>4, <2>2, <3>1, <3>2, <3>5
      <3>7. here'.iver <= Len(blocks'[InvTree(here.place)])
        <4>1. here.iver <= Len(blocks[InvTree(here.place)]) /\ here.iver \in Nat
          BY <1>3, GameFields DEF PlaceOK
        <4>2. /\ Len(blocks[InvTree(here.place)]) <= Len(blocks'[InvTree(here.place)])
              /\ Len(blocks'[InvTree(here.place)]) \in Nat
          BY <1>4, <3>1 DEF Longer
        <4> QED
          BY <1>4, <3>5, <4>1, <4>2
      <3> QED
        BY <1>3, <3>1, <3>5, <3>6, <3>7 DEF PlaceOK, LocTree, InvTree
    <2> QED
      BY <1>1, <2>1, <2>2
  <1>7. PICK g : g = here'
    OBVIOUS
  <1>8. CASE Awaited(Head(here.box))
    <2>1. Settled
      BY <1>1, <1>8, Taken DEF Waits, Settled
    <2>2. GivenUp(g, faults)
      BY <1>1, <1>6, <1>7, <1>8, Handled
    <2>3. LastIsAwaited'
      BY <1>1, <1>6, <1>7, <2>2, StillGivenUp DEF Typed
    <2>4. Typed' /\ Named' /\ GamePlace' /\ CacheIsHere'
      BY <1>1, <1>6, <1>8, <2>1, BackToIdle DEF Typed
    <2> QED
      BY <1>6, <2>3, <2>4 DEF PlaceExists
  <1>9. CASE ~Awaited(Head(here.box))
    <2>1. game' = game
      BY <1>1, <1>9
    <2>2. LastIsAwaited'
      BY <1>1, <1>6, <1>7, <2>1, Handled
    <2>3. Typed'
      BY <1>1, <1>6, <2>1 DEF Typed, Longer
    <2> QED
      BY <1>1, <1>6, <2>1, <2>2, <2>3
         DEF Named, PlaceExists, GamePlace, CacheIsHere, Settled
  <1> QED
    BY <1>8, <1>9

\* The location's list reaches the game, or is late.
LEMMA InventoryListOK ==
    ASSUME GameIInv, InventoryList
    PROVE  GameIInv'
  <1> USE DEF GameIInv
  <1>1. PICK list, h :
           /\ list = [portal |-> blocks[LocTree(here.place)][here.ver], ver |-> here.ver, iver |-> here.iver]
           /\ h = [Done1 EXCEPT !.pc = "idle"]
           /\ IF Awaited(Head(here.box))
              THEN ListAnswered(h, here.pid, list)
              ELSE here' = h /\ UNCHANGED <<game, offers>>
    BY DEF InventoryList
  <1>2. here.pc = "asking" /\ UNCHANGED <<blocks, mail, last, bounds>>
    BY DEF InventoryList
  <1>3. /\ here.box # <<>> /\ here.box[1].type = "list" /\ here.place \in Place \ Broken /\ here.pid # Nil
    BY <1>2 DEF PlaceExists, PlaceOK
  <1>4. here \in Actor /\ Tail(here.box) \in Seq(ToActor) /\ Head(here.box) = here.box[1]
    BY <1>3, Taken DEF Typed
  <1>5. h = [[here EXCEPT !.box = Tail(here.box)] EXCEPT !.pc = "idle"]
    BY <1>1 DEF Done1
  <1>6. /\ h \in Actor /\ h.pid = here.pid /\ h.place = here.place /\ h.pc = "idle"
        /\ h.ver = here.ver /\ h.iver = here.iver /\ h.box = Tail(here.box)
    BY <1>4, <1>5 DEF Actor
  <1>7. PlaceOK(h)
    BY <1>3, <1>6 DEF PlaceExists, PlaceOK
  <1>8. faults' = faults
    BY <1>2 DEF bounds
  <1>9. CASE Awaited(Head(here.box))
    <2>1. game.pc = "list" /\ game.asked = here.pid
      BY <1>3, <1>4, <1>9, Taken DEF Waits
    <2>2. GivenUp(h, faults)
      BY <1>3, <1>6, <1>8, <1>9, Handled
    <2>3. game.asked = game.loc
      BY <1>3, <2>1 DEF GamePlace
    <2> QED
      BY <1>1, <1>2, <1>3, <1>6, <1>7, <1>9, <2>1, <2>2, <2>3, AnsweredOK
  <1>10. CASE ~Awaited(Head(here.box))
    <2>1. here' = h /\ game' = game /\ UNCHANGED <<blocks, cache, commands, mail, last, faults>>
      BY <1>1, <1>2, <1>10 DEF offers, bounds
    <2>2. LastIsAwaited'
      BY <1>3, <1>6, <2>1, Handled
    <2>3. PlaceExists'
      BY <1>7, <2>1 DEF PlaceExists, PlaceOK
    <2> QED
      BY <1>6, <2>1, <2>2, <2>3 DEF Typed, Named, GamePlace, CacheIsHere, Settled
  <1> QED
    BY <1>9, <1>10

\* The player's own inventory actor answers at once.
LEMMA InventoryAnswersOK ==
    ASSUME GameIInv, InventoryAnswers
    PROVE  GameIInv'
  <1> USE DEF GameIInv
  <1>1. /\ game.pc = "list" /\ game.asked = game.inv /\ ListAnswered(here, game.asked, Empty)
        /\ UNCHANGED <<blocks, mail, last, bounds>>
    BY DEF InventoryAnswers
  <1>2. game.inv \in Pid /\ game.inv # here.pid
    BY <1>1 DEF GamePlace
  <1>3. GivenUp(here, faults)
    BY <1>1, <1>2, NothingAwaited DEF Waits
  <1>4. game.why # "init" => here.place \notin Broken
    BY <1>1, <1>2, GameFields DEF GamePlace, Settled, Typed, Game
  <1>5. PICK h, list : h = here /\ list = Empty
    OBVIOUS
  <1>6. ~(list.ver > 0)
    BY <1>5 DEF Empty
  <1> QED
    BY <1>1, <1>3, <1>4, <1>5, <1>6, AnsweredOK DEF PlaceExists, Typed

\* A new game has no location actor until it goes somewhere.
LEMMA StartGameOK ==
    ASSUME PidsNeverRunOut, GameIInv, StartGame
    PROVE  GameIInv'
  <1> USE DEF GameIInv
  <1>1. /\ game.pc = "start" /\ game' = [Now("list") EXCEPT !.why = "init", !.inv = Fresh, !.asked = Fresh]
        /\ cache' = [q \in DOMAIN cache \cap {game.loc, game.inv} |-> cache[q]]
        /\ UNCHANGED <<blocks, here, commands, mail, last, faults>>
    BY DEF StartGame, bounds
  <1>2. here = NoActor /\ here.pid = Nil
    BY <1>1 DEF GamePlace, PlaceExists, PlaceOK
  <1>3. PICK q, g : q = Fresh /\ g = Now("list")
    OBVIOUS
  <1>4. q \in Pid /\ q # Nil
    BY <1>3, FreshIsFresh
  <1>5. g \in Game /\ g.pc = "list" /\ g.loc = game.loc
    BY <1>3, NowIs
  <1>6. game' = [g EXCEPT !.why = "init", !.inv = q, !.asked = q]
    BY <1>1, <1>3
  <1>7. /\ game' \in Game /\ game'.pc = "list" /\ game'.loc = game.loc /\ game'.why = "init"
        /\ game'.inv = q /\ game'.asked = q
    BY <1>4, <1>5, <1>6 DEF Game
  <1>8. LastIsAwaited'
    BY <1>1, <1>2 DEF LastIsAwaited, NoActor
  <1>9. GamePlace'
    BY <1>1, <1>2, <1>4, <1>7 DEF GamePlace, Settled
  <1>10. CacheIsHere'
    <2>1. ~Settled'
      BY <1>7 DEF Settled
    <2>2. \A r \in DOMAIN cache' : cache'[r].ver > 0 => r = game'.loc
      BY <1>1, <1>7 DEF CacheIsHere
    <2> QED
      BY <2>1, <2>2 DEF CacheIsHere
  <1>11. Named'
    <2>1. IsFiniteSet(DOMAIN cache \cap {game.loc, game.inv})
      BY FS_Subset DEF Named
    <2> QED
      BY <1>1, <2>1 DEF Named
  <1> QED
    BY <1>1, <1>7, <1>8, <1>9, <1>10, <1>11 DEF Typed, PlaceExists, PlaceOK

\* Entering a place replaces the location actor, with the list of the old one.
LEMMA SetLocationOK ==
    ASSUME PidsNeverRunOut, GameIInv, SetLocation
    PROVE  GameIInv'
  <1> USE DEF GameIInv
  <1>1. PICK q, h, g : /\ q = Fresh /\ g = Now("list")
                       /\ h = [NoActor EXCEPT !.pid = q, !.place = game.to, !.pc = "starting"]
    OBVIOUS
  <1>2. /\ game.pc = "goto" /\ here' = AskList(h, q)
        /\ last' = IF game.to = Home THEN last ELSE game.to
        /\ cache' = [r \in DOMAIN cache \ {game.loc} |-> cache[r]]
        /\ game' = [g EXCEPT !.why = "enter", !.loc = q, !.asked = q]
        /\ UNCHANGED <<blocks, commands, mail, faults>>
    BY <1>1 DEF SetLocation, bounds
  <1>3. q \in Pid /\ q # Nil /\ q # game.inv /\ game.to \in Place /\ game.inv \in Pid
    BY <1>1, <1>2, FreshIsFresh DEF Used, GamePlace
  <1>4. g \in Game /\ g.pc = "list" /\ g.inv = game.inv
    BY <1>1, NowIs
  <1>5. /\ game' \in Game /\ game'.pc = "list" /\ game'.why = "enter" /\ game'.loc = q /\ game'.asked = q
        /\ game'.inv = game.inv
    BY <1>2, <1>3, <1>4 DEF Game
  <1>6. h = [pid |-> q, place |-> game.to, pc |-> "starting", ver |-> 0, iver |-> 0,
             seen |-> 0, iseen |-> 0, box |-> <<>>, told |-> 0]
    BY <1>1 DEF NoActor
  <1>7. h \in Actor /\ h.pid = q /\ h.place = game.to /\ h.box = <<>> /\ h.pc = "starting"
    BY <1>3, <1>6 DEF Actor
  <1>8. PlaceOK(h)
    <2>1. h.ver = 0 /\ h.iver = 0
      BY <1>6
    <2>2. \A p \in Place \ Broken : 0 <= Len(blocks[LocTree(p)]) /\ 0 <= Len(blocks[InvTree(p)])
      BY TreesOf
    <2> QED
      BY <1>3, <1>7, <2>1, <2>2 DEF PlaceOK
  <1>9. GivenUp(h, faults)
    BY <1>7 DEF GivenUp
  <1>10. /\ here' \in Actor /\ here'.pid = h.pid /\ here'.place = h.place
         /\ PlaceExists' /\ LastIsAwaited'
    BY <1>2, <1>3, <1>5, <1>7, <1>8, <1>9, ListAsked
  <1>11. Typed'
    BY <1>2, <1>3, <1>5, <1>10 DEF Typed
  <1>12. Named'
    <2>1. IsFiniteSet(DOMAIN cache \ {game.loc})
      BY FS_RemoveElement DEF Named
    <2> QED
      BY <1>2, <2>1 DEF Named
  <1>13. GamePlace'
    BY <1>3, <1>5, <1>7, <1>10 DEF GamePlace, Settled
  <1>14. CacheIsHere'
    BY <1>2, <1>5 DEF CacheIsHere, Settled
  <1> QED
    BY <1>10, <1>11, <1>12, <1>13, <1>14

\* A game that waits for a command asks one of the actors it knows for its list.
LEMMA AsksAgain ==
    ASSUME GameIInv, game.pc = "idle", NEW q \in DOMAIN cache, game' \in Game, game'.pc = "list",
           game'.why \in {"state", "refresh"}, game'.asked = q,
           game'.loc = game.loc, game'.inv = game.inv,
           here' = AskList(here, q), mail' \in Seq(Pid \cup {Nil}),
           UNCHANGED <<blocks, cache, commands, last, faults>>
    PROVE  GameIInv'
  <1> USE DEF GameIInv
  <1>1. q \in Pid
    BY DEF Named
  <1>2. GivenUp(here, faults)
    BY NothingAwaited DEF Waits
  <1>3. PICK h : h = here
    OBVIOUS
  <1>4. /\ here' \in Actor /\ here'.pid = here.pid /\ here'.place = here.place
        /\ PlaceExists' /\ LastIsAwaited'
    BY <1>1, <1>2, <1>3, ListAsked DEF Typed, PlaceExists
  <1>5. GamePlace' /\ CacheIsHere'
    BY <1>1, <1>4 DEF GamePlace, CacheIsHere, Settled
  <1> QED
    BY <1>4, <1>5 DEF Typed, Named

\* A StateChange of an actor whose list is in the cache asks for the list.
LEMMA HandleStateChangeOK ==
    ASSUME GameIInv, HandleStateChange
    PROVE  GameIInv'
  <1> USE DEF GameIInv
  <1>1. mail' \in Seq(Pid \cup {Nil})
    BY DEF HandleStateChange, Named
  <1>2. CASE Head(mail) \in DOMAIN cache
    <2>1. PICK q : q = Head(mail)
      OBVIOUS
    <2>2. /\ game.pc = "idle" /\ here' = AskList(here, q)
          /\ game' = [game EXCEPT !.pc = "list", !.why = "state", !.asked = q]
          /\ UNCHANGED <<blocks, cache, commands, last, faults>>
      BY <1>2, <2>1 DEF HandleStateChange, offers, bounds
    <2>3. /\ game' \in Game /\ game'.pc = "list" /\ game'.why = "state" /\ game'.asked = q
          /\ game'.loc = game.loc /\ game'.inv = game.inv
      BY <1>2, <2>1, <2>2 DEF Typed, Named, Game
    <2> QED
      BY <1>1, <1>2, <2>1, <2>2, <2>3, AsksAgain
  <1>3. CASE Head(mail) \notin DOMAIN cache
    <2>1. UNCHANGED <<blocks, game, here, cache, commands, last, faults>>
      BY <1>3 DEF HandleStateChange, offers, bounds
    <2> QED
      BY <1>1, <2>1 DEF Typed, Named, PlaceExists, PlaceOK, LastIsAwaited, Waits, GamePlace, CacheIsHere,
                        Settled
  <1> QED
    BY <1>2, <1>3

\* refresh begins with any actor of the cache.
LEMMA RefreshAllOK ==
    ASSUME GameIInv, RefreshAll
    PROVE  GameIInv'
  <1>1. PICK q \in DOMAIN cache :
            /\ game' = [game EXCEPT !.pc = "list", !.why = "refresh", !.asked = q, !.todo = DOMAIN cache \ {q}]
            /\ here' = AskList(here, q)
    BY DEF RefreshAll
  <1>2. PICK todo : todo = DOMAIN cache \ {q}
    OBVIOUS
  <1>3. q \in Pid /\ todo \subseteq Pid /\ game.pc = "idle" /\ UNCHANGED <<blocks, cache, commands, mail, last, faults>>
    BY <1>2 DEF RefreshAll, offers, bounds, GameIInv, Named
  <1>4. /\ game' \in Game /\ game'.pc = "list" /\ game'.why = "refresh" /\ game'.asked = q
        /\ game'.loc = game.loc /\ game'.inv = game.inv
    BY <1>1, <1>2, <1>3 DEF GameIInv, Typed, Game
  <1> QED
    BY <1>1, <1>3, <1>4, AsksAgain DEF GameIInv, Named

\* The player goes somewhere.
LEMMA ChangeLocationOK ==
    ASSUME GameIInv, NEW p \in Place, ChangeLocation(p)
    PROVE  GameIInv'
  <1> USE DEF GameIInv
  <1>1. PICK g : g = Now("goto")
    OBVIOUS
  <1>2. /\ game.pc = "idle" /\ game' = [g EXCEPT !.to = p]
        /\ UNCHANGED <<blocks, here, cache, commands, mail, last, faults>>
    BY <1>1 DEF ChangeLocation, offers, bounds
  <1>3. g \in Game /\ g.pc = "goto" /\ g.loc = game.loc /\ g.inv = game.inv
    BY <1>1, NowIs
  <1>4. /\ game' \in Game /\ game'.pc = "goto" /\ game'.loc = game.loc /\ game'.inv = game.inv
        /\ game'.to = p
    BY <1>2, <1>3 DEF Game
  <1>5. PICK h : h = here
    OBVIOUS
  <1>6. GivenUp(h, faults)
    BY <1>2, <1>5, NothingAwaited DEF Waits
  <1>7. LastIsAwaited'
    BY <1>2, <1>5, <1>6, StillGivenUp DEF Typed
  <1>8. GamePlace' /\ CacheIsHere'
    BY <1>2, <1>4 DEF GamePlace, CacheIsHere, Settled
  <1> QED
    BY <1>2, <1>4, <1>7, <1>8 DEF Typed, Named, PlaceExists, PlaceOK

\* The player builds or deletes a portal.
LEMMA ChangePortalOK ==
    ASSUME GameIInv, NEW to \in Target \cup {Nil}, ChangePortal(to)
    PROVE  GameIInv'
  <1> USE DEF GameIInv
  <1>1. PICK h, m : h = here /\ m = Request("write", to)
    OBVIOUS
  <1>2. m \in ToActor /\ m.id = faults /\ m.type = "write"
    BY <1>1 DEF Request, ToActor, Typed
  <1>3. /\ game.pc = "idle" /\ game' = Now("write") /\ here' = [h EXCEPT !.box = Append(@, m)]
        /\ UNCHANGED <<blocks, cache, commands, mail, last, faults>>
    BY <1>1 DEF ChangePortal, offers, bounds
  <1>4. /\ game' \in Game /\ game'.pc = "write" /\ game'.loc = game.loc /\ game'.inv = game.inv
    BY <1>3, NowIs
  <1>5. h \in Actor /\ PlaceOK(h) /\ h.pid # Nil
    BY <1>1, <1>3 DEF Typed, PlaceExists, GamePlace, Settled
  <1>6. GivenUp(h, faults)
    BY <1>1, <1>3, NothingAwaited DEF Waits
  <1>7. Waits(m.type)'
    BY <1>2, <1>4 DEF Waits
  <1>8. /\ here' \in Actor /\ here'.pid = h.pid /\ here'.place = h.place
        /\ PlaceExists' /\ LastIsAwaited'
    BY <1>2, <1>3, <1>5, <1>6, <1>7, Asked DEF Typed
  <1>9. GamePlace' /\ CacheIsHere'
    BY <1>1, <1>3, <1>4, <1>8 DEF GamePlace, CacheIsHere, Settled
  <1> QED
    BY <1>3, <1>4, <1>8, <1>9 DEF Typed, Named

\* A panic stops the actors of the game.
LEMMA PanicOK ==
    ASSUME GameIInv, Panic, Named', \A q \in DOMAIN cache' : cache'[q].ver > 0 => q = game.loc,
           UNCHANGED <<blocks, last>>, faults' \in Nat
    PROVE  GameIInv'
  <1> USE DEF GameIInv
  <1>1. here' = NoActor /\ game' = Now("start")
    BY DEF Panic
  <1>2. /\ here' \in Actor /\ here'.pid = Nil /\ here'.place = Nil /\ here'.pc = "dead" /\ here'.box = <<>>
    BY <1>1 DEF NoActor, Actor
  <1>3. game' \in Game /\ game'.pc = "start" /\ game'.loc = game.loc
    BY <1>1, NowIs
  <1>4. Typed'
    BY <1>2, <1>3 DEF Typed
  <1>5. PlaceExists'
    BY <1>1, <1>2 DEF PlaceExists, PlaceOK
  <1>6. LastIsAwaited'
    BY <1>2 DEF LastIsAwaited
  <1>7. GamePlace'
    BY <1>2, <1>3 DEF GamePlace, Settled
  <1>8. CacheIsHere'
    BY <1>3 DEF CacheIsHere, Settled
  <1> QED
    BY <1>4, <1>5, <1>6, <1>7, <1>8

\* Giving up a request, the awaited one included.
LEMMA OneMoreGivenUp ==
    ASSUME Typed, LastIsAwaited, faults' = faults + 1
    PROVE  GivenUp(here, faults')
  <1> SUFFICES ASSUME NEW i \in 1..Len(here.box) PROVE here.box[i].id < faults'
    BY DEF GivenUp
  <1>1. here.box \in Seq(ToActor)
    BY GameFields
  <1>2. here.box[i] \in ToActor
    BY <1>1, ElementOfSeq
  <1>3. here.box[i].id \in Nat /\ here.box[i].id <= faults /\ faults \in Nat
    BY <1>2 DEF LastIsAwaited, ToActor, Typed
  <1> QED
    BY <1>3

\* A list that cannot be had leaves the cache without one.
LEMMA ListFailsOK ==
    ASSUME GameIInv, ListFails
    PROVE  GameIInv'
  <1> USE DEF GameIInv
  <1>1. /\ game.pc = "list" /\ UNCHANGED <<blocks, commands, mail, last>>
        /\ \/ Unanswerable /\ faults' = faults
           \/ faults' = faults + 1
        /\ cache' = [q \in DOMAIN cache \cup {game.asked} |-> IF q = game.asked THEN Empty ELSE cache[q]]
    BY DEF ListFails
  <1>2. game.asked \in Pid /\ faults' \in Nat
    BY <1>1 DEF GamePlace, Typed
  <1>3. Named'
    <2>1. IsFiniteSet(DOMAIN cache \cup {game.asked})
      BY FS_AddElement DEF Named
    <2> QED
      BY <1>1, <1>2, <2>1 DEF Named
  <1>4. \A q \in DOMAIN cache' : cache'[q].ver > 0 => q = game.loc
    BY <1>1 DEF CacheIsHere, Empty
  <1>5. game.why \in {"init", "enter", "state", "refresh"}
    BY <1>1 DEF GamePlace, Typed, Game
  <1>6. CASE game.why \in {"init", "enter"}
    <2>1. Panic
      BY <1>6 DEF ListFails
    <2> QED
      BY <1>1, <1>2, <1>3, <1>4, <2>1, PanicOK
  <1>7. ASSUME game.why \in {"state", "refresh"} PROVE Settled /\ GivenUp(here, faults')
    <2>1. Settled
      BY <1>1, <1>7 DEF Settled
    <2>2. CASE faults' = faults + 1
      BY <2>1, <2>2, OneMoreGivenUp
    <2>3. CASE Unanswerable /\ faults' = faults
      <3>1. game.asked # here.pid
        BY <2>1, <2>3 DEF Unanswerable, GamePlace
      <3> QED
        BY <1>1, <2>1, <2>3, <3>1, NothingAwaited DEF Waits
    <2> QED
      BY <1>1, <2>1, <2>2, <2>3
  <1>8. ASSUME game.why \in {"state", "refresh"}, NEW at \in {"idle", "look"}, game' = Now(at),
               here' \in Actor, here'.pid = here.pid, here'.place = here.place
        PROVE  Typed' /\ GamePlace' /\ CacheIsHere'
    <2>1. game' \in Game /\ game'.pc = at /\ game'.loc = game.loc /\ game'.inv = game.inv
      BY <1>8, NowIs
    <2>2. Settled
      BY <1>7, <1>8
    <2>3. Typed'
      BY <1>1, <1>2, <1>8, <2>1 DEF Typed
    <2>4. game.inv \in Pid
      BY <1>1 DEF GamePlace
    <2>5. GamePlace'
      BY <1>8, <2>1, <2>2, <2>4 DEF GamePlace, Settled
    <2>6. CacheIsHere'
      BY <1>1, <1>4, <1>8, <2>1, <2>2 DEF CacheIsHere, Settled
    <2> QED
      BY <2>3, <2>5, <2>6
  <1>9. CASE game.why = "state"
    <2>1. game' = Now("idle") /\ here' = here
      BY <1>9 DEF ListFails
    <2>2. PICK h : h = here
      OBVIOUS
    <2>3. LastIsAwaited'
      BY <1>2, <1>7, <1>9, <2>1, <2>2, StillGivenUp DEF Typed
    <2>4. PlaceExists'
      BY <1>1, <2>1 DEF PlaceExists, PlaceOK
    <2> QED
      BY <1>3, <1>8, <1>9, <2>1, <2>3, <2>4 DEF Typed
  <1>10. CASE game.why = "refresh"
    <2>1. PICK h, m : h = here /\ m = [type |-> "look", id |-> faults', to |-> Nil]
      OBVIOUS
    <2>2. game' = Now("look") /\ here' = [h EXCEPT !.box = Append(@, m)]
      BY <1>10, <2>1 DEF ListFails
    <2>3. m \in ToActor /\ m.id = faults' /\ m.type = "look"
      BY <1>2, <2>1 DEF ToActor
    <2>4. h \in Actor /\ PlaceOK(h) /\ h.pid # Nil
      BY <1>7, <1>10, <2>1 DEF Typed, PlaceExists, GamePlace
    <2>5. game'.pc = "look"
      BY <2>2, NowIs
    <2>6. Waits(m.type)'
      BY <2>3, <2>5 DEF Waits
    <2>7. /\ here' \in Actor /\ here'.pid = h.pid /\ here'.place = h.place
          /\ PlaceExists' /\ LastIsAwaited'
      BY <1>1, <1>2, <1>7, <1>10, <2>1, <2>2, <2>3, <2>4, <2>6, Asked
    <2> QED
      BY <1>3, <1>8, <1>10, <2>1, <2>2, <2>7
  <1> QED
    BY <1>5, <1>6, <1>9, <1>10

\* A command whose answer is late.
LEMMA RequestTimesOutOK ==
    ASSUME GameIInv, RequestTimesOut
    PROVE  GameIInv'
  <1> USE DEF GameIInv
  <1>1. /\ game.pc \in {"look", "write"} /\ faults' = faults + 1 /\ faults' \in Nat
        /\ UNCHANGED <<blocks, cache, commands, mail, last>>
    BY DEF RequestTimesOut, offers, Typed
  <1>2. CASE Panic
    BY <1>1, <1>2, PanicOK DEF Named, CacheIsHere
  <1>3. CASE game' = Now("idle") /\ here' = here
    <2>1. PICK h : h = here
      OBVIOUS
    <2>2. GivenUp(h, faults')
      BY <1>1, <2>1, OneMoreGivenUp
    <2>3. LastIsAwaited'
      BY <1>1, <1>3, <2>1, <2>2, StillGivenUp DEF Typed
    <2>4. Longer
      BY <1>1 DEF Longer, Typed
    <2>5. Typed' /\ Named' /\ GamePlace' /\ CacheIsHere'
      BY <1>1, <1>3, <2>4, BackToIdle DEF Settled, Typed
    <2> QED
      BY <1>1, <1>3, <2>3, <2>5 DEF PlaceExists, PlaceOK
  <1> QED
    BY <1>2, <1>3 DEF RequestTimesOut

\* The first state, and the one the program restarts in.
Fresher == here = NoActor /\ game = Starting /\ mail = <<>> /\ cache = << >> /\ commands = << >>

\* They satisfy the invariant.
LEMMA FresherOK ==
    ASSUME Fresher, DOMAIN blocks = Tree,
           \A t \in Tree : blocks[t] \in Seq(Place \cup {Nil}) /\ blocks[t] # <<>>,
           last \in Place \cup {Nil}, faults \in Nat
    PROVE  GameIInv
  <1>1. here = [pid |-> Nil, place |-> Nil, pc |-> "dead", ver |-> 0, iver |-> 0,
                seen |-> 0, iseen |-> 0, box |-> <<>>, told |-> 0]
    BY DEF Fresher, NoActor
  <1>2. game = [pc |-> "start", why |-> "none", loc |-> Nil, inv |-> Nil, asked |-> Nil, todo |-> {}, to |-> Nil]
    BY DEF Fresher, Starting
  <1>3. Typed
    BY <1>1, <1>2 DEF Typed, Actor, Game
  <1>4. DOMAIN cache = {} /\ DOMAIN commands = {} /\ mail \in Seq(Pid \cup {Nil})
    BY DEF Fresher
  <1>5. Named
    BY <1>4, FS_EmptySet DEF Named
  <1>6. PlaceExists
    BY <1>1 DEF PlaceExists, PlaceOK, NoActor
  <1>7. LastIsAwaited
    BY <1>1 DEF LastIsAwaited
  <1>8. GamePlace /\ CacheIsHere
    BY <1>1, <1>2, <1>4 DEF GamePlace, CacheIsHere, Settled
  <1> QED
    BY <1>3, <1>5, <1>6, <1>7, <1>8 DEF GameIInv

\* The first state does.
LEMMA InitGameIInv == ASSUME GameInit PROVE GameIInv
  <1>1. DOMAIN blocks = Tree /\ \A t \in Tree : blocks[t] \in Seq(Place \cup {Nil}) /\ blocks[t] # <<>>
    BY DEF GameInit
  <1> QED
    BY <1>1, FresherOK DEF GameInit, Fresher

\* Every step keeps the invariant.
LEMMA NextGameIInv == ASSUME PidsNeverRunOut, GameIInv, [GameNext]_gameVars PROVE GameIInv'
  <1>1. CASE \/ FetchLocation \/ Subscribe \/ StartInventory \/ LocationState \/ ForwardChange
             \/ LocationList \/ InventoryState
    BY <1>1, ActorUnnoticed, UnnoticedOK
  <1>2. ASSUME NEW t \in Tree, NEW p \in Target \cup {Nil}, OtherPlayer(t, p) PROVE GameIInv'
    BY <1>2, OtherPlayerUnnoticed, UnnoticedOK
  <1>3. CASE LocationLook \/ LocationWrite \/ InventoryList \/ InventoryAnswers
    BY <1>3, LocationLookOK, LocationWriteOK, InventoryListOK, InventoryAnswersOK
  <1>4. CASE StartGame \/ SetLocation
    BY <1>4, StartGameOK, SetLocationOK
  <1>5. CASE HandleStateChange \/ RefreshAll
    BY <1>5, HandleStateChangeOK, RefreshAllOK
  <1>6. ASSUME NEW p \in Place, ChangeLocation(p) PROVE GameIInv'
    BY <1>6, ChangeLocationOK
  <1>7. ASSUME NEW to \in Target \cup {Nil}, ChangePortal(to) PROVE GameIInv'
    BY <1>7, ChangePortalOK
  <1>8. CASE ListFails \/ RequestTimesOut
    BY <1>8, ListFailsOK, RequestTimesOutOK
  <1>9. CASE Restart
    <2>1. Fresher' /\ UNCHANGED <<blocks, last, faults>>
      BY <1>9 DEF Restart, Fresher
    <2>2. /\ (DOMAIN blocks = Tree)' /\ (last \in Place \cup {Nil})' /\ (faults \in Nat)'
          /\ (\A t \in Tree : blocks[t] \in Seq(Place \cup {Nil}) /\ blocks[t] # <<>>)'
      BY <2>1 DEF GameIInv, Typed
    <2> QED
      BY <2>1, <2>2, FresherOK, PTL
  <1>10. CASE UNCHANGED gameVars
    <2>1. UNCHANGED <<blocks, here, game, cache, commands, mail, last, faults>>
      BY <1>10 DEF gameVars, offers, bounds
    <2> QED
      BY <2>1 DEF GameIInv, Typed, Named, PlaceExists, PlaceOK, LastIsAwaited, Waits, GamePlace,
                  CacheIsHere, Settled
  <1> QED
    BY <1>1, <1>2, <1>3, <1>4, <1>5, <1>6, <1>7, <1>8, <1>9, <1>10
       DEF GameNext, LocationActor, InventoryActor

\* The inductive invariant of the game's cache, requests and location actor.
THEOREM OffersInductive == ASSUME PidsNeverRunOut PROVE GameSpec => []GameIInv
  <1>1. GameInit => GameIInv
    BY InitGameIInv
  <1>2. GameIInv /\ [GameNext]_gameVars => GameIInv'
    BY NextGameIInv
  <1> QED
    BY <1>1, <1>2, PTL DEF GameSpec

\* When the game waits for a command it offers a list of the actor of the place the
\* player is in and of no other location actor, whatever places were left, requests timed
\* out, answers came late and restarts happened before.
THEOREM GameInvariant == ASSUME PidsNeverRunOut PROVE GameSpec => []GameInv
  <1>1. ASSUME GameIInv PROVE GameInv
    <2>1. GameTypeOK
      BY <1>1 DEF GameIInv, GameTypeOK, Typed, Named, PlaceExists, PlaceOK, Actor, Game
    <2>2. OffersThisPlace
      BY <1>1 DEF GameIInv, OffersThisPlace, GamePlace, CacheIsHere, Settled
    <2> QED
      BY <2>1, <2>2 DEF GameInv
  <1> QED
    BY <1>1, OffersInductive, PTL
=============================================================================
