--------------------------- MODULE ObjectTransfer ----------------------------
(***************************************************************************)
(* Moving an object between two inventories: the UnrestrictedRemoveHandler *)
(* that gives it away, the UnrestrictedAddHandler (and the                 *)
(* PlayerInventoryHandler in front of it) that receives it, and the        *)
(* goroutine of Game.handleTransferObjectCmd that fakes a confirmation.    *)
(*                                                                         *)
(* Objects and inventories are chaintrees kept by Tupelo.  A chaintree is  *)
(* the log of the states its accepted blocks produced; a tip is a position *)
(* in the log.  A process holds a handle (a tip it has read) and plays a   *)
(* block on it: Tupelo accepts the block only if the handle is the current *)
(* tip and the process's key is an owner.  There is no transaction across  *)
(* trees, so a transfer is a sequence of separate blocks on three trees,   *)
(* driven by two processes, with a lossy broadcast between them.           *)
(*                                                                         *)
(* An inventory's state is the set of objects it lists: every object is    *)
(* assumed to have a name of its own (InventoryTree keys objects by name). *)
(***************************************************************************)
EXTENDS Naturals, Sequences, FiniteSets

CONSTANTS
    Obj,            \* object chaintrees
    Inv,            \* inventory chaintrees (a player's, a location's)
    Player,         \* the inventories behind a PlayerInventoryHandler
    Key,            \* owner keys
    Auths,          \* [Inv -> SUBSET Key]: the authentications of an inventory
    Worker,         \* actors that run handlers, each one message at a time
    Serves,         \* [Worker -> SUBSET Inv]: whose messages an actor handles
    KeyOf,          \* [Worker -> Key]: the key of the actor's network
    NoInv,          \* not an inventory
    NoJob,          \* not a message: what an idle actor is handling
    Lag,            \* how many blocks behind the tip a read may be
    Faulty,         \* may Tupelo refuse a block, or lose the reply to one?
    TransferCmd,    \* do players use the transfer-object command?
    MaxJobs,        \* bound on the commands players give
    MaxCrashes      \* bound on process crashes

ASSUME ConstantsAssumption ==
    /\ Player \subseteq Inv
    /\ Auths \in [Inv -> SUBSET Key]
    /\ \A i \in Inv : Auths[i] # {}
    /\ Serves \in [Worker -> SUBSET Inv]
    /\ KeyOf \in [Worker -> Key]
    /\ \A w \in Worker : \A i \in Serves[w] : KeyOf[w] \in Auths[i]
    /\ NoInv \notin Inv
    /\ NoJob \notin [inv : Inv, obj : Obj, peer : Inv]
    /\ Lag \in Nat
    /\ Faulty \in BOOLEAN
    /\ TransferCmd \in BOOLEAN
    /\ MaxJobs \in Nat
    /\ MaxCrashes \in Nat

VARIABLES
    objLog,     \* [Obj -> Seq(SUBSET Key)]: owners after each block
    invLog,     \* [Inv -> Seq(SUBSET Obj)]: objects listed after each block
    asks,       \* RequestObjectTransferMessages on their way to a handler
    inbox,      \* TransferredObjectMessages ever broadcast
    expected,   \* [Worker -> SUBSET Obj]: PlayerInventoryHandler.expectedObjs
    pc,         \* the statement an actor's handler is about to execute
    job,        \* the message the actor is handling
    invAt,      \* the handler's handle on its own inventory
    objAt,      \* the handler's handle on the object
    rollbacks,  \* how many rollback functions are pushed
    sub,        \* the handler's subscription to the object's CurrentState
    touch,      \* the goroutine of handleTransferObjectCmd
    jobs,       \* commands given so far
    crashes,    \* crashes so far
    holder      \* history: who claimed the object last (see Custody)

vars == <<objLog, invLog, asks, inbox, expected, pc, job, invAt, objAt,
          rollbacks, sub, touch, jobs, crashes, holder>>

(***************************************************************************)
(* A message about object obj, seen from the actor that handles it: inv is *)
(* the inventory it serves, peer the other end of the transfer.            *)
(***************************************************************************)
Message == [inv : Inv, obj : Obj, peer : Inv]

RemovePCs == {"source", "object", "offer", "remove", "send", "wait",
              "undoOwner", "undoRemove"}
AddPCs == {"target", "owner", "add", "claim"}

Owners(o) == objLog[o][Len(objLog[o])]
Listed(i) == invLog[i][Len(invLog[i])]

(***************************************************************************)
(* GetTree: the tips a read of a chaintree may return.                     *)
(***************************************************************************)
Views(log) == {h \in 1..Len(log) : h + Lag >= Len(log)}

\* Whether the process that played an accepted block hears that it was accepted.
Replies == IF Faulty THEN BOOLEAN ELSE {TRUE}

Init ==
    \E home \in [Obj -> Inv] :
        /\ objLog = [o \in Obj |-> <<Auths[home[o]]>>]
        /\ invLog = [i \in Inv |-> <<{o \in Obj : home[o] = i}>>]
        /\ asks = {}
        /\ inbox = {}
        /\ expected = [w \in Worker |-> {}]
        /\ pc = [w \in Worker |-> "idle"]
        /\ job = [w \in Worker |-> NoJob]
        /\ invAt = [w \in Worker |-> 0]
        /\ objAt = [w \in Worker |-> 0]
        /\ rollbacks = [w \in Worker |-> 0]
        /\ sub = [w \in Worker |-> "off"]
        /\ touch = {}
        /\ jobs = 0
        /\ crashes = 0
        /\ holder = home

(***************************************************************************)
(* Control of an actor.  Start gives it a message; Goto moves it on;       *)
(* Finish ends the handler, which drops its handles.                       *)
(***************************************************************************)
Start(w, m, at) ==
    /\ pc[w] = "idle"
    /\ pc' = [pc EXCEPT ![w] = at]
    /\ job' = [job EXCEPT ![w] = m]
    /\ UNCHANGED <<invAt, objAt, rollbacks>>

Goto(w, at) ==
    /\ pc' = [pc EXCEPT ![w] = at]
    /\ UNCHANGED job

Finish(w) ==
    /\ pc' = [pc EXCEPT ![w] = "idle"]
    /\ job' = [job EXCEPT ![w] = NoJob]
    /\ invAt' = [invAt EXCEPT ![w] = 0]
    /\ objAt' = [objAt EXCEPT ![w] = 0]
    /\ rollbacks' = [rollbacks EXCEPT ![w] = 0]

(***************************************************************************)
(* Tupelo (external): the notary group accepts a block played on handle at *)
(* of object o with key k, and announces the new CurrentState to whoever   *)
(* has subscribed.  A block it does not accept, or an unreachable group,   *)
(* is an error for the process that played it.                             *)
(***************************************************************************)
CanPlayObject(o, at, k) == at = Len(objLog[o]) /\ k \in Owners(o)

Announced(o) ==
    [v \in Worker |-> IF sub[v] = "on" /\ job[v].obj = o THEN "acked" ELSE sub[v]]

Woken(o) ==
    {IF g.obj = o /\ g.st = "armed" THEN [g EXCEPT !.st = "fired"] ELSE g : g \in touch}

PlayObject(w, newOwners) ==
    LET o == job[w].obj IN
    /\ CanPlayObject(o, objAt[w], KeyOf[w])
    /\ objLog' = [objLog EXCEPT ![o] = Append(@, newOwners)]
    /\ sub' = Announced(o)
    /\ touch' = Woken(o)

PlayObjectFails(w) ==
    /\ ~CanPlayObject(job[w].obj, objAt[w], KeyOf[w]) \/ Faulty
    /\ UNCHANGED <<objLog, sub, touch, holder>>

CanPlayInventory(w) == invAt[w] = Len(invLog[job[w].inv])

PlayInventory(w, newObjs) ==
    /\ CanPlayInventory(w)
    /\ invLog' = [invLog EXCEPT ![job[w].inv] = Append(@, newObjs)]

PlayInventoryFails(w) ==
    /\ ~CanPlayInventory(w) \/ Faulty
    /\ UNCHANGED invLog

\* The objects the handler's own inventory lists at its handle.
Seen(w) == invLog[job[w].inv][invAt[w]]

-----------------------------------------------------------------------------
(***************************************************************************)
(* What players do.                                                        *)
(***************************************************************************)

\* The checks of InventoryActor.handleTransferObject before it calls its handler:
\* the destination does not list the object, the actor's own inventory does.
MayTransfer(i, j, o) ==
    /\ \E h \in Views(invLog[j]) : o \notin invLog[j][h]
    /\ \E h \in Views(invLog[i]) : o \in invLog[i][h]

\* Game.handleDropObject: out of the player's bag into a location.
DropObject(w, i, j, o) ==
    /\ jobs < MaxJobs
    /\ i \in Serves[w] \cap Player /\ j \notin Player
    /\ MayTransfer(i, j, o)
    /\ Start(w, [inv |-> i, obj |-> o, peer |-> j], "source")
    /\ jobs' = jobs + 1
    /\ UNCHANGED <<objLog, invLog, asks, inbox, expected, sub, touch, crashes, holder>>

\* What handleTransferObjectCmd leaves running beside the request: a goroutine that
\* waits for the object's next CurrentState.
Goroutine(w, o) == [id |-> jobs, by |-> w, obj |-> o, st |-> "starting", at |-> 0]

\* Game.handleTransferObjectCmd: out of the player's bag to any inventory.
TransferObjectCmd(w, i, j, o) ==
    /\ TransferCmd
    /\ jobs < MaxJobs
    /\ i \in Serves[w] \cap Player
    /\ MayTransfer(i, j, o)
    /\ Start(w, [inv |-> i, obj |-> o, peer |-> j], "source")
    /\ touch' = touch \cup {Goroutine(w, o)}
    /\ jobs' = jobs + 1
    /\ UNCHANGED <<objLog, invLog, asks, inbox, expected, sub, crashes, holder>>

\* handleTransferObjectCmd when the inventory actor answers with an error (the
\* destination already lists the object): the goroutine is left running all the same.
TransferObjectRefused(w, i, j, o) ==
    /\ TransferCmd
    /\ jobs < MaxJobs
    /\ i \in Serves[w] \cap Player
    /\ \E h \in Views(invLog[i]) : o \in invLog[i][h]
    /\ \E h \in Views(invLog[j]) : o \in invLog[j][h]
    /\ touch' = touch \cup {Goroutine(w, o)}
    /\ jobs' = jobs + 1
    /\ UNCHANGED <<objLog, invLog, asks, inbox, expected, pc, job, invAt, objAt,
                   rollbacks, sub, crashes, holder>>

\* Game.handlePickUpObject: the player expects the object and asks inventory i for it.
PickUpObject(w, i, j, o) ==
    /\ jobs < MaxJobs
    /\ i \notin Player /\ j \in Serves[w] \cap Player
    /\ MayTransfer(i, j, o)
    /\ expected' = [expected EXCEPT ![w] = @ \cup {o}]
    /\ asks' = asks \cup {[inv |-> i, obj |-> o, peer |-> j]}
    /\ jobs' = jobs + 1
    /\ UNCHANGED <<objLog, invLog, inbox, pc, job, invAt, objAt, rollbacks, sub,
                   touch, crashes, holder>>

\* Game.handleReceiveObjectCmd: the player expects the object and sends its own
\* inventory actor the TransferredObjectMessage.
ReceiveObject(w, j, o) ==
    /\ jobs < MaxJobs
    /\ j \in Serves[w] \cap Player
    /\ expected' = [expected EXCEPT ![w] = @ \cup {o}]
    /\ inbox' = inbox \cup {[inv |-> j, obj |-> o, peer |-> j]}
    /\ jobs' = jobs + 1
    /\ UNCHANGED <<objLog, invLog, asks, pc, job, invAt, objAt, rollbacks, sub,
                   touch, crashes, holder>>

-----------------------------------------------------------------------------
(***************************************************************************)
(* UnrestrictedRemoveHandler.Handle(RequestObjectTransferMessage)          *)
(***************************************************************************)
HandleRequest(w, m) ==
    /\ m \in asks
    /\ m.inv \in Serves[w]
    /\ Start(w, m, "source")
    /\ asks' = asks \ {m}
    /\ UNCHANGED <<objLog, invLog, inbox, expected, sub, touch, jobs, crashes, holder>>

FindSource(w) ==
    /\ pc[w] = "source"
    /\ \E h \in Views(invLog[job[w].inv]) : invAt' = [invAt EXCEPT ![w] = h]
    /\ Goto(w, "object")
    /\ UNCHANGED <<objLog, invLog, asks, inbox, expected, objAt, rollbacks, sub,
                   touch, jobs, crashes, holder>>

GetObject(w) ==
    /\ pc[w] = "object"
    /\ \E h \in Views(objLog[job[w].obj]) : objAt' = [objAt EXCEPT ![w] = h]
    /\ Goto(w, "offer")
    /\ UNCHANGED <<objLog, invLog, asks, inbox, expected, invAt, rollbacks, sub,
                   touch, jobs, crashes, holder>>

\* A tree cannot be read, or the target does not support the message: nothing has
\* been done yet.
RequestFails(w) ==
    /\ Faulty
    /\ pc[w] \in {"source", "object"}
    /\ Finish(w)
    /\ UNCHANGED <<objLog, invLog, asks, inbox, expected, sub, touch, jobs, crashes, holder>>

\* Mutant: the object is given to the target's owners alone.
OfferToTargetOnly(w) ==
    /\ pc[w] = "offer"
    /\ \/ /\ PlayObject(w, Auths[job[w].peer])
          /\ holder' = [holder EXCEPT ![job[w].obj] = NoInv]
          /\ objAt' = [objAt EXCEPT ![w] = @ + 1]
          /\ rollbacks' = [rollbacks EXCEPT ![w] = 1]
          /\ Goto(w, "remove")
          /\ UNCHANGED invAt
       \/ PlayObjectFails(w) /\ Finish(w)
    /\ UNCHANGED <<invLog, asks, inbox, expected, jobs, crashes>>

\* "Add current owner and target owner while transfer is in progress": the first
\* block; an error here is returned before any rollback is pushed.
Offer(w) ==
    /\ pc[w] = "offer"
    /\ \/ /\ PlayObject(w, Auths[job[w].inv] \cup Auths[job[w].peer])
          /\ holder' = [holder EXCEPT ![job[w].obj] = NoInv]
          /\ \E replied \in Replies :
                IF replied
                THEN /\ objAt' = [objAt EXCEPT ![w] = @ + 1]
                     /\ rollbacks' = [rollbacks EXCEPT ![w] = 1]
                     /\ Goto(w, "remove")
                     /\ UNCHANGED invAt
                ELSE Finish(w)
       \/ PlayObjectFails(w) /\ Finish(w)
    /\ UNCHANGED <<invLog, asks, inbox, expected, jobs, crashes>>

\* sourceInventory.Remove plays no block when the object is not listed.
RemoveFromSource(w) ==
    /\ pc[w] = "remove"
    /\ \/ /\ job[w].obj \notin Seen(w)
          /\ Goto(w, "send")
          /\ rollbacks' = [rollbacks EXCEPT ![w] = 2]
          /\ UNCHANGED <<invLog, invAt>>
       \/ /\ job[w].obj \in Seen(w)
          /\ PlayInventory(w, Seen(w) \ {job[w].obj})
          /\ \E replied \in Replies :
                IF replied
                THEN /\ invAt' = [invAt EXCEPT ![w] = @ + 1]
                     /\ rollbacks' = [rollbacks EXCEPT ![w] = 2]
                     /\ Goto(w, "send")
                ELSE Goto(w, "undoOwner") /\ UNCHANGED <<invAt, rollbacks>>
       \/ /\ job[w].obj \in Seen(w)
          /\ PlayInventoryFails(w)
          /\ Goto(w, "undoOwner")
          /\ UNCHANGED <<invAt, rollbacks>>
    /\ UNCHANGED <<objLog, asks, inbox, expected, objAt, sub, touch, jobs, crashes, holder>>

\* The subscription actor is spawned and the message broadcast; spawning does not
\* wait for the subscription itself.
SendTransferred(w) ==
    /\ pc[w] = "send"
    /\ inbox' = inbox \cup {[inv |-> job[w].peer, obj |-> job[w].obj, peer |-> job[w].inv]}
    /\ sub' = [sub EXCEPT ![w] = "starting"]
    /\ Goto(w, "wait")
    /\ UNCHANGED <<objLog, invLog, asks, expected, invAt, objAt, rollbacks, touch,
                   jobs, crashes, holder>>

\* No subscription within a second, or an error from the target's handler.
SendFails(w) ==
    /\ pc[w] = "send"
    /\ Goto(w, "undoOwner")
    /\ UNCHANGED <<objLog, invLog, asks, inbox, expected, invAt, objAt, rollbacks,
                   sub, touch, jobs, crashes, holder>>

SubscriptionStarts(w) ==
    /\ sub[w] = "starting"
    /\ sub' = [sub EXCEPT ![w] = "on"]
    /\ UNCHANGED <<objLog, invLog, asks, inbox, expected, pc, job, invAt, objAt,
                   rollbacks, touch, jobs, crashes, holder>>

\* The first CurrentState of the object completes the future: success.
Confirm(w) ==
    /\ pc[w] = "wait"
    /\ sub[w] = "acked"
    /\ sub' = [sub EXCEPT ![w] = "off"]
    /\ Finish(w)
    /\ UNCHANGED <<objLog, invLog, asks, inbox, expected, touch, jobs, crashes, holder>>

\* Mutant: the subscription is not stopped when the wait ends.
TimeoutLeaksSubscription(w) ==
    /\ pc[w] = "wait"
    /\ Goto(w, "undoOwner")
    /\ UNCHANGED <<objLog, invLog, asks, inbox, expected, invAt, objAt, rollbacks, sub,
                   touch, jobs, crashes, holder>>

\* Mutant: the deferred rollbacks do not run.
TimeoutWithoutRollback(w) ==
    /\ pc[w] = "wait"
    /\ sub' = [sub EXCEPT ![w] = "off"]
    /\ Finish(w)
    /\ UNCHANGED <<objLog, invLog, asks, inbox, expected, touch, jobs, crashes, holder>>

\* "receiver never confirmed" within 20 seconds.
Timeout(w) ==
    /\ pc[w] = "wait"
    /\ sub' = [sub EXCEPT ![w] = "off"]
    /\ Goto(w, "undoOwner")
    /\ UNCHANGED <<objLog, invLog, asks, inbox, expected, invAt, objAt, rollbacks,
                   touch, jobs, crashes, holder>>

\* Mutant: only the first rollback runs.
UndoOwnerOnly(w) ==
    /\ pc[w] = "undoOwner"
    /\ \/ /\ PlayObject(w, Auths[job[w].inv])
          /\ holder' = [holder EXCEPT ![job[w].obj] = NoInv]
       \/ PlayObjectFails(w)
    /\ Finish(w)
    /\ UNCHANGED <<invLog, asks, inbox, expected, jobs, crashes>>

\* handleRollbacks runs the rollbacks in the order they were pushed, owner first,
\* and stops at one that fails.
UndoOwner(w) ==
    /\ pc[w] = "undoOwner"
    /\ \/ /\ PlayObject(w, Auths[job[w].inv])
          /\ holder' = [holder EXCEPT ![job[w].obj] = NoInv]
          /\ \E replied \in Replies :
                IF replied /\ rollbacks[w] = 2
                THEN Goto(w, "undoRemove") /\ UNCHANGED <<invAt, objAt, rollbacks>>
                ELSE Finish(w)
       \/ PlayObjectFails(w) /\ Finish(w)
    /\ UNCHANGED <<invLog, asks, inbox, expected, jobs, crashes>>

\* sourceInventory.Add, on the handle Remove left: the object is not listed there.
UndoRemove(w) ==
    /\ pc[w] = "undoRemove"
    /\ \/ PlayInventory(w, Seen(w) \cup {job[w].obj})
       \/ PlayInventoryFails(w)
    /\ Finish(w)
    /\ UNCHANGED <<objLog, asks, inbox, expected, sub, touch, jobs, crashes, holder>>

-----------------------------------------------------------------------------
(***************************************************************************)
(* UnrestrictedAddHandler.Handle(TransferredObjectMessage), for a player   *)
(* behind PlayerInventoryHandler.Handle, which refuses an object it does   *)
(* not expect (no state changes then) and forgets the expectation when it  *)
(* is done.  A message may arrive late, more than once or never.           *)
(***************************************************************************)
HandleTransferred(w, m) ==
    /\ m \in inbox
    /\ m.inv \in Serves[w]
    /\ m.inv \in Player => m.obj \in expected[w]
    /\ Start(w, m, "target")
    /\ UNCHANGED <<objLog, invLog, asks, inbox, expected, sub, touch, jobs, crashes, holder>>

FinishAdd(w) ==
    /\ Finish(w)
    /\ expected' = [expected EXCEPT ![w] = IF job[w].inv \in Player
                                           THEN @ \ {job[w].obj} ELSE @]

\* An object that is already listed ends the handler: nothing is claimed.
FindTarget(w) ==
    /\ pc[w] = "target"
    /\ \E h \in Views(invLog[job[w].inv]) :
          IF job[w].obj \in invLog[job[w].inv][h]
          THEN FinishAdd(w)
          ELSE /\ invAt' = [invAt EXCEPT ![w] = h]
               /\ Goto(w, "owner")
               /\ UNCHANGED <<objAt, rollbacks, expected>>
    /\ UNCHANGED <<objLog, invLog, asks, inbox, sub, touch, jobs, crashes, holder>>

\* "current player is not an owner" is an error.
CheckOwner(w) ==
    /\ pc[w] = "owner"
    /\ \E h \in Views(objLog[job[w].obj]) :
          IF KeyOf[w] \notin objLog[job[w].obj][h]
          THEN FinishAdd(w)
          ELSE /\ objAt' = [objAt EXCEPT ![w] = h]
               /\ Goto(w, "add")
               /\ UNCHANGED <<invAt, rollbacks, expected>>
    /\ UNCHANGED <<objLog, invLog, asks, inbox, sub, touch, jobs, crashes, holder>>

\* A tree cannot be read.
TransferredFails(w) ==
    /\ Faulty
    /\ pc[w] \in {"target", "owner"}
    /\ FinishAdd(w)
    /\ UNCHANGED <<objLog, invLog, asks, inbox, sub, touch, jobs, crashes, holder>>

\* Mutant: the object is claimed even if it could not be added.
AddErrorIgnored(w) ==
    /\ pc[w] = "add"
    /\ \/ PlayInventory(w, Seen(w) \cup {job[w].obj})
       \/ PlayInventoryFails(w)
    /\ Goto(w, "claim")
    /\ UNCHANGED <<objLog, asks, inbox, expected, invAt, objAt, rollbacks, sub, touch,
                   jobs, crashes, holder>>

AddToTarget(w) ==
    /\ pc[w] = "add"
    /\ \/ /\ PlayInventory(w, Seen(w) \cup {job[w].obj})
          /\ \E replied \in Replies :
                IF replied
                THEN Goto(w, "claim") /\ UNCHANGED <<invAt, objAt, rollbacks, expected>>
                ELSE FinishAdd(w)
       \/ PlayInventoryFails(w) /\ FinishAdd(w)
    /\ UNCHANGED <<objLog, asks, inbox, sub, touch, jobs, crashes, holder>>

\* Mutant: the target's keys are added to the owners.
ClaimKeepsOwners(w) ==
    /\ pc[w] = "claim"
    /\ \/ /\ PlayObject(w, Owners(job[w].obj) \cup Auths[job[w].inv])
          /\ holder' = [holder EXCEPT ![job[w].obj] = job[w].inv]
       \/ PlayObjectFails(w)
    /\ FinishAdd(w)
    /\ UNCHANGED <<invLog, asks, inbox, jobs, crashes>>

\* ChangeChainTreeOwner(objectTree, targetAuths): the reply changes nothing more.
Claim(w) ==
    /\ pc[w] = "claim"
    /\ \/ /\ PlayObject(w, Auths[job[w].inv])
          /\ holder' = [holder EXCEPT ![job[w].obj] = job[w].inv]
       \/ PlayObjectFails(w)
    /\ FinishAdd(w)
    /\ UNCHANGED <<invLog, asks, inbox, jobs, crashes>>

-----------------------------------------------------------------------------
(***************************************************************************)
(* The goroutine of handleTransferObjectCmd: once it has seen one          *)
(* CurrentState of the object it plays a block of its own on it (setting   *)
(* "jasons-game/transferred-from"; the owners stay), which is meant to     *)
(* confirm the transfer to the UnrestrictedRemoveHandler.                  *)
(***************************************************************************)
TouchMoves(g, st, at) == touch' = (touch \ {g}) \cup {[g EXCEPT !.st = st, !.at = at]}

TouchSubscribes(g) ==
    /\ g \in touch /\ g.st = "starting"
    /\ TouchMoves(g, "armed", 0)
    /\ UNCHANGED <<objLog, invLog, asks, inbox, expected, pc, job, invAt, objAt,
                   rollbacks, sub, jobs, crashes, holder>>

TouchReads(g) ==
    /\ g \in touch /\ g.st = "fired"
    /\ \E h \in Views(objLog[g.obj]) : TouchMoves(g, "ready", h)
    /\ UNCHANGED <<objLog, invLog, asks, inbox, expected, pc, job, invAt, objAt,
                   rollbacks, sub, jobs, crashes, holder>>

TouchPlays(g) ==
    /\ g \in touch /\ g.st = "ready"
    /\ CanPlayObject(g.obj, g.at, KeyOf[g.by])
    /\ objLog' = [objLog EXCEPT ![g.obj] = Append(@, Owners(g.obj))]
    /\ sub' = Announced(g.obj)
    /\ touch' = Woken(g.obj) \ {g}
    /\ UNCHANGED <<invLog, asks, inbox, expected, pc, job, invAt, objAt, rollbacks,
                   jobs, crashes, holder>>

\* Nothing seen for 30 seconds, or its block was refused.
TouchGivesUp(g) ==
    /\ g \in touch
    /\ \/ g.st \in {"starting", "armed"}
       \/ g.st = "ready" /\ (~CanPlayObject(g.obj, g.at, KeyOf[g.by]) \/ Faulty)
    /\ touch' = touch \ {g}
    /\ UNCHANGED <<objLog, invLog, asks, inbox, expected, pc, job, invAt, objAt,
                   rollbacks, sub, jobs, crashes, holder>>

\* The process of w dies and restarts: what Tupelo has accepted stays, no handler
\* resumes.
Crash(w) ==
    /\ crashes < MaxCrashes
    /\ pc[w] # "idle"
    /\ crashes' = crashes + 1
    /\ Finish(w)
    /\ sub' = [sub EXCEPT ![w] = "off"]
    /\ touch' = {g \in touch : g.by # w}
    /\ expected' = [expected EXCEPT ![w] = {}]
    /\ UNCHANGED <<objLog, invLog, asks, inbox, jobs, holder>>

RemoveStep(w) ==
    \/ FindSource(w) \/ GetObject(w) \/ RequestFails(w) \/ Offer(w)
    \/ RemoveFromSource(w) \/ SendTransferred(w) \/ SendFails(w) \/ Confirm(w) \/ Timeout(w)
    \/ UndoOwner(w) \/ UndoRemove(w)

AddStep(w) ==
    \/ FindTarget(w) \/ CheckOwner(w) \/ TransferredFails(w)
    \/ AddToTarget(w) \/ Claim(w)

Command(w) ==
    \E i, j \in Inv, o \in Obj :
        \/ DropObject(w, i, j, o)
        \/ TransferObjectCmd(w, i, j, o)
        \/ TransferObjectRefused(w, i, j, o)
        \/ PickUpObject(w, i, j, o)
        \/ ReceiveObject(w, j, o)

TouchStep(g) == TouchSubscribes(g) \/ TouchReads(g) \/ TouchPlays(g) \/ TouchGivesUp(g)

Next ==
    \/ \E w \in Worker :
          \/ Command(w)
          \/ \E m \in asks : HandleRequest(w, m)
          \/ \E m \in inbox : HandleTransferred(w, m)
          \/ RemoveStep(w) \/ AddStep(w)
          \/ SubscriptionStarts(w)
          \/ Crash(w)
    \/ \E g \in touch : TouchStep(g)

Spec == Init /\ [][Next]_vars

\* Handlers run to their end: every call in them returns or times out.
FairSpec == Spec /\ \A w \in Worker : WF_vars(RemoveStep(w)) /\ WF_vars(AddStep(w))
-----------------------------------------------------------------------------
Goroutines == [id : Nat, by : Worker, obj : Obj, at : Nat,
               st : {"starting", "armed", "fired", "ready"}]

TreesOK ==
    /\ objLog \in [Obj -> Seq(SUBSET Key)]
    /\ \A o \in Obj : Len(objLog[o]) > 0
    /\ invLog \in [Inv -> Seq(SUBSET Obj)]
    /\ \A i \in Inv : Len(invLog[i]) > 0

MessagesOK ==
    /\ asks \subseteq Message
    /\ inbox \subseteq Message
    /\ expected \in [Worker -> SUBSET Obj]
    /\ touch \subseteq Goroutines
    /\ jobs \in 0..MaxJobs
    /\ crashes \in 0..MaxCrashes
    /\ holder \in [Obj -> Inv \cup {NoInv}]

ActorsOK ==
    /\ pc \in [Worker -> {"idle"} \cup RemovePCs \cup AddPCs]
    /\ job \in [Worker -> Message \cup {NoJob}]
    /\ invAt \in [Worker -> Nat]
    /\ objAt \in [Worker -> Nat]
    /\ rollbacks \in [Worker -> 0..2]
    /\ sub \in [Worker -> {"off", "starting", "on", "acked"}]
    /\ \A w \in Worker : pc[w] # "idle" => job[w] \in Message /\ job[w].inv \in Serves[w]
    /\ \A w \in Worker : sub[w] # "off" => pc[w] = "wait"

HandlesOK ==
    /\ \A w \in Worker : pc[w] \notin {"idle", "source", "target"} =>
                            invAt[w] \in 1..Len(invLog[job[w].inv])
    /\ \A w \in Worker : pc[w] \notin {"idle", "source", "object", "target", "owner"} =>
                            objAt[w] \in 1..Len(objLog[job[w].obj])

\* Every variable holds what the code's data can hold; a handler has a message to
\* handle, and handles that point into the logs, whenever it is running.
TypeOK == TreesOK /\ MessagesOK /\ ActorsOK /\ HandlesOK

\* An object an inventory has claimed (UnrestrictedAdd's chown was accepted, and no
\* later block of a transfer touched the object) is owned by that inventory's keys
\* alone and is listed there, whatever other handlers, sessions, stale reads, lost
\* replies and crashes do: nobody can hold an object their bag does not show.
HeldIsListed ==
    \A o \in Obj : \A i \in Inv :
        holder[o] = i => Owners(o) = Auths[i] /\ o \in Listed(i)

\* Why: AddToTarget comes before Claim, and an object cannot leave the inventory in
\* between, since whoever removes it has first played a block on the object (Offer),
\* after which the claim is refused.
ClaimIsListed ==
    \A w \in Worker :
        pc[w] = "claim" /\ objAt[w] = Len(objLog[job[w].obj]) =>
            job[w].obj \in Listed(job[w].inv)

RemoveIsUnheld ==
    \A w \in Worker :
        /\ pc[w] = "remove"
        /\ invAt[w] = Len(invLog[job[w].inv])
        /\ job[w].obj \in Listed(job[w].inv)
        => /\ holder[job[w].obj] # job[w].inv
           /\ \A v \in Worker :
                 pc[v] = "claim" /\ job[v].obj = job[w].obj /\ job[v].inv = job[w].inv =>
                    objAt[v] < Len(objLog[job[v].obj])

\* The inductive invariant from which HeldIsListed follows.
TransferInv == TypeOK /\ HeldIsListed /\ ClaimIsListed /\ RemoveIsUnheld

Working(o) == \E w \in Worker : pc[w] # "idle" /\ job[w].obj = o

\* Drop and pick-up, one actor per inventory: once no handler is working on an
\* object, a transfer of it has either happened or been rolled back completely: one
\* inventory's keys own it alone and that inventory lists it.
IdleObjectInPlace ==
    \A o \in Obj : ~Working(o) =>
        \E i \in Inv : Owners(o) = Auths[i] /\ o \in Listed(i)

\* With the transfer command as well: an object no handler is working on is listed
\* by an owner, or some player among its owners can still run `receive object`.
IdleObjectRecoverable ==
    \A o \in Obj : ~Working(o) =>
        \E i \in Inv : Auths[i] \subseteq Owners(o) /\ (o \in Listed(i) \/ i \in Player)

\* The shared ownership of a transfer in progress always ends: sooner or later
\* again one inventory's keys own the object alone.
SharingEnds ==
    \A o \in Obj : []<>(\E i \in Inv : Owners(o) = Auths[i])

\* The protocol implements the ownership promise of Custody.
CustodySpec == INSTANCE Custody WITH owners <- [o \in Obj |-> Owners(o)]
ImplementsCustody == CustodySpec!Spec
=============================================================================
