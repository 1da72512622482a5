---------------------------- MODULE PrizeHandler -----------------------------
(***************************************************************************)
(* The prize handler of a court: it keeps one object at a location, turns  *)
(* the object into a prize for the player who asks for it, gives it away,  *)
(* records the winner and puts a new object at the location.               *)
(*                                                                         *)
(* Handing out and respawning are sequences of blocks on three chaintrees  *)
(* (the location, the object, the handler's own tree).  A process runs one *)
(* hand-out at a time; every hand-out leaves a goroutine that respawns,    *)
(* and a timer respawns as well, one at a time under spawnMux.             *)
(*                                                                         *)
(* The object that is spawned on tip v of the location has a key derived   *)
(* from that tip, so it is called v here.                                  *)
(***************************************************************************)
EXTENDS Naturals, Sequences, FiniteSets

CONSTANTS
    Court,      \* processes that run the handler of this court
    Player,     \* players
    NoReq,      \* not a request: what an idle process is handling
    Timer,      \* does the backup respawn timer tick?
    MaxTip,     \* bound on the blocks of the location
    MaxAsks,    \* bound on the requests of players
    MaxTrouble  \* bound on crashes and on calls to the network that fail or whose
                \* reply is lost, together

ASSUME PrizeAssumption ==
    /\ "court" \notin Player
    /\ NoReq \notin [player : Player, obj : 1..MaxTip]
    /\ Timer \in BOOLEAN
    /\ MaxTip \in Nat \ {0}
    /\ MaxAsks \in Nat /\ MaxTrouble \in Nat

Object == 1..MaxTip
Request == [player : Player, obj : Object]

VARIABLES
    loc,        \* Seq: the object the location lists after each block, 0 for none
    obj,        \* [Object -> [data, hash, owner, at]]: what was imported, the import-hash,
                \* the owner and the tip; at = 0: nothing is known of the tree
    ledger,     \* the winners on the handler's tree, in order of their numbers
    blocks,     \* the tip of the handler's tree
    asked,      \* RequestObjectTransferMessages broadcast to the handlers
    sent,       \* TransferredObjectMessages on their way to players
    bag,        \* the players whose inventory lists a prize
    status,     \* [Court -> {"down", "setup", "up"}]
    tree,       \* [Court -> Nat]: PrizeHandler.tree, 0 when it is nil
    done,       \* requests a process has handled
    pc,         \* the statement of handleTransfer a process is about to execute
    req,        \* the request it is handling
    called,     \* has the call it is at returned, its error assigned to err?
    at,         \* its handle on the location or the object, 0 when it is nil
    err,        \* the variable err of handleTransfer: is it an error?
    gor,        \* [Court -> SUBSET goroutines]: the respawns hand-outs have left
    lock,       \* who holds spawnMux: "free", "setup", "timer" or "goroutine"
    sp,         \* the statement of spawnObject the holder is about to execute
    spAt,       \* its handle on the location
    spObj,      \* its handle on the object
    genesis,    \* [Court -> SUBSET Object]: the trees of which a process has the genesis
                \* tree in its tip cache, and nobody has more
    faults, crashes

handing == <<pc, req, called, at, err, done>>
spawning == <<lock, sp, spAt, spObj>>
trees == <<loc, obj, ledger, blocks>>
outside == <<asked, sent, bag>>
vars == <<trees, outside, status, tree, handing, gor, spawning, genesis, faults, crashes>>

Tip == Len(loc)
Current == loc[Len(loc)]

Init ==
    /\ loc = <<0>>
    /\ obj = [o \in Object |-> [data |-> "none", hash |-> "none", owner |-> "court", at |-> 0]]
    /\ ledger = <<>> /\ blocks = 1
    /\ asked = {} /\ sent = {} /\ bag = {}
    /\ status = [c \in Court |-> "down"]
    /\ tree = [c \in Court |-> 0]
    /\ done = [c \in Court |-> {}]
    /\ pc = [c \in Court |-> "idle"]
    /\ req = [c \in Court |-> NoReq]
    /\ called = [c \in Court |-> FALSE]
    /\ at = [c \in Court |-> 0]
    /\ err = [c \in Court |-> FALSE]
    /\ gor = [c \in Court |-> {}]
    /\ lock = [c \in Court |-> "free"]
    /\ sp = [c \in Court |-> "idle"]
    /\ spAt = [c \in Court |-> 0]
    /\ spObj = [c \in Court |-> 0]
    /\ genesis = [c \in Court |-> {}]
    /\ faults = 0 /\ crashes = 0

Fault == faults + crashes < MaxTrouble /\ faults' = faults + 1

(***************************************************************************)
(* Processes.                                                              *)
(***************************************************************************)

\* setup: the handler's tree is read, SetHandler plays its blocks on the location,
\* and spawnObject is called.
Setup(c) ==
    /\ status[c] = "down" /\ Tip < MaxTip
    /\ status' = [status EXCEPT ![c] = "setup"]
    /\ tree' = [tree EXCEPT ![c] = blocks]
    /\ loc' = Append(loc, Current)
    /\ lock' = [lock EXCEPT ![c] = "setup"]
    /\ sp' = [sp EXCEPT ![c] = "exists"]
    /\ UNCHANGED <<obj, ledger, blocks, outside, handing, gor, spAt, spObj, genesis, faults, crashes>>

\* ServiceActor.initialize advertises the handler on its tree; it panics when the
\* block is refused.
Serve(c) ==
    /\ status[c] = "setup" /\ lock[c] = "free"
    /\ IF tree[c] = blocks
       THEN /\ blocks' = blocks + 1
            /\ tree' = [tree EXCEPT ![c] = blocks + 1]
            /\ status' = [status EXCEPT ![c] = "up"]
       ELSE /\ status' = [status EXCEPT ![c] = "down"]
            /\ UNCHANGED <<blocks, tree>>
    /\ UNCHANGED <<loc, obj, ledger, outside, handing, gor, spawning, genesis, faults, crashes>>

\* The process ends: hand-out, goroutines, the mutex and the tip cache are gone.
Dies(c) ==
    /\ status' = [status EXCEPT ![c] = "down"]
    /\ pc' = [pc EXCEPT ![c] = "idle"]
    /\ err' = [err EXCEPT ![c] = FALSE]
    /\ called' = [called EXCEPT ![c] = FALSE]
    /\ at' = [at EXCEPT ![c] = 0]
    /\ req' = [req EXCEPT ![c] = NoReq]
    /\ gor' = [gor EXCEPT ![c] = {}]
    /\ lock' = [lock EXCEPT ![c] = "free"]
    /\ sp' = [sp EXCEPT ![c] = "idle"]
    /\ spAt' = [spAt EXCEPT ![c] = 0]
    /\ spObj' = [spObj EXCEPT ![c] = 0]
    /\ genesis' = [genesis EXCEPT ![c] = {}]
    /\ tree' = [tree EXCEPT ![c] = 0]
    /\ UNCHANGED <<trees, outside, done>>

Crash(c) ==
    /\ status[c] # "down"
    /\ faults + crashes < MaxTrouble /\ crashes' = crashes + 1
    /\ Dies(c)
    /\ UNCHANGED faults
-----------------------------------------------------------------------------
(***************************************************************************)
(* spawnObject, by setup, by the timer or by a hand-out's goroutine.       *)
(***************************************************************************)
Acquire(c, who) ==
    /\ status[c] = "up" /\ lock[c] = "free"
    /\ lock' = [lock EXCEPT ![c] = who]
    /\ sp' = [sp EXCEPT ![c] = "exists"]

\* Mutant: the first request stops the timer.
TickUntilAsked(c) ==
    /\ Timer /\ done[c] = {}
    /\ Acquire(c, "timer")
    /\ UNCHANGED <<trees, outside, status, tree, handing, gor, spAt, spObj, genesis, faults, crashes>>

\* The backup respawn timer, every minute.
Tick(c) ==
    /\ Timer
    /\ Acquire(c, "timer")
    /\ UNCHANGED <<trees, outside, status, tree, handing, gor, spAt, spObj, genesis, faults, crashes>>

GoroutineSpawns(c, g) ==
    /\ g \in gor[c] /\ g.st = "waiting"
    /\ Acquire(c, "goroutine")
    /\ gor' = [gor EXCEPT ![c] = (@ \ {g}) \cup {[g EXCEPT !.st = "spawning"]}]
    /\ UNCHANGED <<trees, outside, status, tree, handing, spAt, spObj, genesis, faults, crashes>>

\* The goroutine whose spawnObject returns has its result.
Result(g, bad) == IF g.st = "spawning" THEN [g EXCEPT !.st = "assign", !.bad = bad] ELSE g

\* The mutex is released and the result returned: the timer ignores it, setup fails
\* with it, a goroutine will assign it to err.
SpawnReturns(c, bad) ==
    /\ lock' = [lock EXCEPT ![c] = "free"]
    /\ sp' = [sp EXCEPT ![c] = "idle"]
    /\ status' = [status EXCEPT ![c] = IF lock[c] = "setup" /\ bad THEN "down" ELSE @]
    /\ gor' = [gor EXCEPT ![c] = {Result(g, bad) : g \in @}]
    /\ spAt' = [spAt EXCEPT ![c] = 0]
    /\ spObj' = [spObj EXCEPT ![c] = 0]

SpawnGoto(c, there) ==
    /\ sp' = [sp EXCEPT ![c] = there]
    /\ UNCHANGED <<lock, status, gor>>

\* Mutant: a new object is spawned whether or not one exists.
SpawnAlways(c) ==
    /\ sp[c] = "exists"
    /\ SpawnGoto(c, "get")
    /\ UNCHANGED <<spAt, spObj, trees, outside, tree, handing, genesis, faults, crashes>>

\* "object still exists, skip".
SpawnExists(c) ==
    /\ sp[c] = "exists"
    /\ IF Current # 0
       THEN SpawnReturns(c, FALSE)
       ELSE SpawnGoto(c, "get") /\ UNCHANGED <<spAt, spObj>>
    /\ UNCHANGED <<trees, outside, tree, handing, genesis, faults, crashes>>

SpawnGet(c) ==
    /\ sp[c] = "get"
    /\ spAt' = [spAt EXCEPT ![c] = Tip]
    /\ SpawnGoto(c, "make")
    /\ UNCHANGED <<spObj, trees, outside, tree, handing, genesis, faults, crashes>>

\* Mutant: the object is put at the location before it gets its data.
SpawnBare(c) ==
    /\ sp[c] = "make"
    /\ obj' = [obj EXCEPT ![spAt[c]].at = IF @ = 0 THEN 1 ELSE @]
    /\ SpawnGoto(c, "add") /\ UNCHANGED <<spAt, spObj>>
    /\ UNCHANGED <<loc, ledger, blocks, outside, tree, handing, genesis, faults, crashes>>

\* FindOrCreatePassphraseTree(locTree.Tip()): a tree that is found, be it a genesis tree
\* in the tip cache, is taken as it is; otherwise a genesis tree is put there.
SpawnMake(c) ==
    LET o == spAt[c] IN
    /\ sp[c] = "make"
    /\ \/ /\ obj[o].at # 0 \/ o \in genesis[c]
          /\ SpawnGoto(c, "dress") /\ UNCHANGED genesis
       \/ /\ obj[o].at = 0 /\ o \notin genesis[c]
          /\ genesis' = [genesis EXCEPT ![c] = @ \cup {o}]
          /\ SpawnGoto(c, "chown")
    /\ UNCHANGED <<spAt, spObj, trees, outside, tree, handing, faults, crashes>>

\* ChangeChainTreeOwnerWithKey: the first block of the tree, which gives it from its
\* own key to the court.
SpawnChown(c) ==
    LET o == spAt[c] IN
    /\ sp[c] = "chown"
    /\ genesis' = [genesis EXCEPT ![c] = @ \ {o}]
    /\ \/ /\ obj[o].at = 0
          /\ obj' = [obj EXCEPT ![o].at = 1]
          /\ SpawnGoto(c, "dress") /\ UNCHANGED <<spAt, spObj>>
       \/ /\ obj[o].at # 0
          /\ SpawnReturns(c, TRUE) /\ UNCHANGED obj
    /\ UNCHANGED <<loc, ledger, blocks, outside, tree, handing, faults, crashes>>

\* importer.UpdateObject(cfg.Spawn) reads the tree, and plays blocks only if its
\* import-hash has to change.
SpawnDress(c) ==
    LET o == spAt[c] IN
    /\ sp[c] = "dress"
    /\ \/ /\ obj[o].hash = "spawn"
          /\ SpawnGoto(c, "add") /\ UNCHANGED spObj
       \/ /\ obj[o].hash # "spawn"
          /\ spObj' = [spObj EXCEPT ![c] = obj[o].at]
          /\ SpawnGoto(c, "reset")
    /\ UNCHANGED <<spAt, trees, outside, tree, handing, genesis, faults, crashes>>

\* A block on the object: accepted on its tip only, and from its owner.  A genesis
\* tree that was found in the cache still belongs to its own key.
SpawnPlays(c, becomes, there) ==
    LET o == spAt[c] IN
    /\ \/ /\ spObj[c] = obj[o].at /\ obj[o].at # 0 /\ obj[o].owner = "court"
          /\ obj' = [obj EXCEPT ![o] = becomes]
          /\ spObj' = [spObj EXCEPT ![c] = @ + 1]
          /\ SpawnGoto(c, there) /\ UNCHANGED spAt
       \/ /\ spObj[c] # obj[o].at \/ obj[o].at = 0 \/ obj[o].owner # "court"
          /\ SpawnReturns(c, TRUE) /\ UNCHANGED obj
    /\ UNCHANGED <<loc, ledger, blocks, outside, tree, handing, genesis, faults, crashes>>

\* Mutant: the hash is set when the tree is emptied.
HashFirst(c) ==
    LET o == obj[spAt[c]] IN
    /\ sp[c] = "reset"
    /\ SpawnPlays(c, [o EXCEPT !.data = "none", !.hash = "spawn", !.at = @ + 1], "data")

\* The tree is emptied.
SpawnReset(c) ==
    LET o == obj[spAt[c]] IN
    /\ sp[c] = "reset"
    /\ SpawnPlays(c, [o EXCEPT !.data = "none", !.hash = "none", !.at = @ + 1], "data")

\* loadBasicData, loadInteractions: the blocks with the data, each on the one before.
SpawnData(c) ==
    LET o == obj[spAt[c]] IN
    /\ sp[c] = "data"
    /\ SpawnPlays(c, [o EXCEPT !.data = "spawn", !.at = @ + 1], "again")

\* "get latest tree".
SpawnAgain(c) ==
    /\ sp[c] = "again"
    /\ spObj' = [spObj EXCEPT ![c] = obj[spAt[c]].at]
    /\ SpawnGoto(c, "hash")
    /\ UNCHANGED <<spAt, trees, outside, tree, handing, genesis, faults, crashes>>

\* "set new hash".
SpawnHash(c) ==
    LET o == obj[spAt[c]] IN
    /\ sp[c] = "hash"
    /\ SpawnPlays(c, [o EXCEPT !.hash = "spawn", !.at = @ + 1], "add")

\* locInventory.Add: the location has one entry under the object's name, and if two
\* objects claim it either may stay.
SpawnAdd(c) ==
    /\ sp[c] = "add"
    /\ \/ /\ spAt[c] = Tip /\ Tip < MaxTip
          /\ \E o \in {spAt[c], Current} \ {0} : loc' = Append(loc, o)
          /\ SpawnReturns(c, FALSE)
       \/ /\ spAt[c] # Tip
          /\ SpawnReturns(c, TRUE) /\ UNCHANGED loc
    /\ UNCHANGED <<obj, ledger, blocks, outside, tree, handing, genesis, faults, crashes>>

\* A call of spawnObject fails; Add may have been accepted all the same.  (A block on
\* the object that is accepted all the same is its step, and a failure after it.)
SpawnFails(c) ==
    /\ sp[c] # "idle"
    /\ Fault
    /\ \/ UNCHANGED loc
       \/ sp[c] = "add" /\ spAt[c] = Tip /\ Tip < MaxTip /\ loc' = Append(loc, spAt[c])
    /\ SpawnReturns(c, TRUE)
    /\ UNCHANGED <<obj, ledger, blocks, outside, tree, handing, genesis, crashes>>

\* err = h.spawnObject(): while its hand-out runs, the variable is shared.
GoroutineAssigns(c, g) ==
    /\ g \in gor[c] /\ g.st = "assign"
    /\ err' = IF g.running THEN [err EXCEPT ![c] = g.bad] ELSE err
    /\ gor' = [gor EXCEPT ![c] = (@ \ {g}) \cup {[g EXCEPT !.st = "judge"]}]
    /\ UNCHANGED <<trees, outside, status, tree, pc, req, called, at, done, spawning, genesis, faults, crashes>>

\* if err != nil: wait for the hand-out to end.
GoroutineJudges(c, g) ==
    /\ g \in gor[c] /\ g.st = "judge"
    /\ LET bad == IF g.running THEN err[c] ELSE g.bad IN
       gor' = [gor EXCEPT ![c] = (@ \ {g}) \cup IF bad THEN {[g EXCEPT !.st = "doomed"]} ELSE {}]
    /\ UNCHANGED <<trees, outside, status, tree, handing, spawning, genesis, faults, crashes>>

\* panic("error on respawn") in a goroutine ends the process.
GoroutinePanics(c, g) ==
    /\ g \in gor[c] /\ g.st = "doomed" /\ ~g.running
    /\ Dies(c)
    /\ UNCHANGED <<faults, crashes>>
-----------------------------------------------------------------------------
(***************************************************************************)
(* handleTransfer.                                                         *)
(***************************************************************************)

\* A player asks for the object it sees at the location.
Ask(p) ==
    /\ Current # 0 /\ Cardinality(asked) < MaxAsks
    /\ asked' = asked \cup {[player |-> p, obj |-> Current]}
    /\ UNCHANGED <<trees, sent, bag, status, tree, handing, gor, spawning, genesis, faults, crashes>>

\* The player's inventory adds the prize it is told of and owns (see ObjectTransfer).
Land(m) ==
    /\ m \in sent /\ obj[m.obj].owner = m.player
    /\ bag' = bag \cup {m.player}
    /\ sent' = sent \ {m}
    /\ UNCHANGED <<trees, asked, status, tree, handing, gor, spawning, genesis, faults, crashes>>

Receive(c, m) ==
    /\ status[c] = "up" /\ pc[c] = "idle"
    /\ m \in asked \ done[c]
    /\ pc' = [pc EXCEPT ![c] = "check"]
    /\ req' = [req EXCEPT ![c] = m]
    /\ done' = [done EXCEPT ![c] = @ \cup {m}]
    /\ UNCHANGED <<trees, outside, status, tree, called, at, err, gor, spawning, genesis, faults, crashes>>

\* A goroutine whose hand-out has returned: err is its own now.
Orphan(g, e) ==
    [g EXCEPT !.running = FALSE, !.bad = IF g.running /\ g.st = "judge" THEN e ELSE @]

\* handleTransfer returns, with a message to the player, or panics, which restarts
\* the actor that runs it: either way cancel() is called, and err is left to the
\* goroutine.
Return(c) ==
    /\ pc' = [pc EXCEPT ![c] = "idle"]
    /\ req' = [req EXCEPT ![c] = NoReq]
    /\ called' = [called EXCEPT ![c] = FALSE]
    /\ at' = [at EXCEPT ![c] = 0]
    /\ err' = [err EXCEPT ![c] = FALSE]
    /\ gor' = [gor EXCEPT ![c] = {Orphan(g, err[c]) : g \in @}]

Step(c, there) ==
    /\ pc' = [pc EXCEPT ![c] = there]
    /\ UNCHANGED <<req, called, err, gor>>

\* The object asked for must be the current one, and the player without a prize and
\* accepted by the validator (external).
CheckRequest(c) ==
    /\ pc[c] = "check"
    /\ \/ /\ Current = req[c].obj /\ req[c].player \notin bag
          /\ Step(c, "fetch") /\ UNCHANGED at
       \/ Return(c)
    /\ UNCHANGED <<trees, outside, status, tree, done, spawning, genesis, faults, crashes>>

FetchLocation(c) ==
    /\ pc[c] = "fetch"
    /\ at' = [at EXCEPT ![c] = Tip]
    /\ Step(c, "remove")
    /\ UNCHANGED <<trees, outside, status, tree, done, spawning, genesis, faults, crashes>>

Goroutine(c) == [obj |-> req[c].obj, st |-> "waiting", bad |-> FALSE, running |-> TRUE]

\* locInventory.Remove plays no block when the object is not listed; the respawn
\* goroutine is started.
RemoveObject(c) ==
    LET o == req[c].obj
        listed == loc[at[c]] = o
    IN
    /\ pc[c] = "remove"
    /\ \/ /\ listed => at[c] = Tip /\ Tip < MaxTip
          /\ loc' = IF listed THEN Append(loc, 0) ELSE loc
          /\ gor' = [gor EXCEPT ![c] = @ \cup {Goroutine(c)}]
          /\ pc' = [pc EXCEPT ![c] = "tree"]
          /\ UNCHANGED <<req, called, at, err>>
       \/ /\ listed /\ at[c] # Tip
          /\ Return(c) /\ UNCHANGED loc
    /\ UNCHANGED <<obj, ledger, blocks, outside, status, tree, done, spawning, genesis, faults, crashes>>

\* A call before the goroutine exists fails; Remove may have been accepted.
EarlyFails(c) ==
    /\ pc[c] \in {"fetch", "remove"}
    /\ Fault
    /\ \/ UNCHANGED loc
       \/ /\ pc[c] = "remove" /\ at[c] = Tip /\ Current = req[c].obj /\ Tip < MaxTip
          /\ loc' = Append(loc, 0)
    /\ Return(c)
    /\ UNCHANGED <<obj, ledger, blocks, outside, status, tree, done, spawning, genesis, crashes>>

(***************************************************************************)
(* From here on every call assigns err in one step, and err is looked at   *)
(* in a step of its own.                                                   *)
(***************************************************************************)
Called(c, bad) ==
    /\ called' = [called EXCEPT ![c] = TRUE]
    /\ err' = [err EXCEPT ![c] = bad]
    /\ UNCHANGED <<pc, req, gor>>

\* Mutant: the winner is recorded before the owner is changed.
TrackFirst(call) ==
    CASE call = "tree" -> "clear" [] call = "clear" -> "dress" [] call = "dress" -> "tree2"
      [] call = "tree2" -> "track" [] call = "track" -> "chown" [] OTHER -> "send"

\* Mutant: the winner is not recorded.
NoTrack(call) ==
    CASE call = "tree" -> "clear" [] call = "clear" -> "dress" [] call = "dress" -> "tree2"
      [] call = "tree2" -> "chown" [] OTHER -> "send"

\* The order of the calls.
Follows(call) ==
    CASE call = "tree" -> "clear" [] call = "clear" -> "dress" [] call = "dress" -> "tree2"
      [] call = "tree2" -> "chown" [] call = "chown" -> "track" [] OTHER -> "send"

\* if err != nil: an error message to the player; otherwise the next call.
CheckErr(c) ==
    /\ called[c]
    /\ IF err[c]
       THEN Return(c)
       ELSE /\ pc' = [pc EXCEPT ![c] = Follows(@)]
            /\ called' = [called EXCEPT ![c] = FALSE]
            /\ UNCHANGED <<req, at, err, gor>>
    /\ UNCHANGED <<trees, outside, status, tree, done, spawning, genesis, faults, crashes>>

\* A nil tree is used: err was set when it should have been looked at.
NilPanics(c) ==
    /\ ~called[c]
    /\ \/ pc[c] \in {"clear", "dress", "chown"} /\ at[c] = 0
       \/ pc[c] = "track" /\ tree[c] = 0
    /\ Return(c)
    /\ UNCHANGED <<trees, outside, status, tree, done, spawning, genesis, faults, crashes>>

At(c, call) == pc[c] = call /\ ~called[c]

\* parseConfig and GetTree(objectDid), the first and the second time.
GetObject(c) ==
    /\ At(c, "tree") \/ At(c, "tree2")
    /\ at' = [at EXCEPT ![c] = obj[req[c].obj].at]
    /\ Called(c, FALSE)
    /\ UNCHANGED <<trees, outside, status, tree, done, spawning, genesis, faults, crashes>>

\* The blocks hand-out plays: each is accepted on the current tip, from the owner.
CanPlay(c) ==
    LET o == req[c].obj IN
    \/ pc[c] \in {"clear", "chown"} /\ at[c] = obj[o].at /\ obj[o].owner = "court"
    \/ pc[c] = "dress" /\ obj[o].owner = "court"
    \/ pc[c] = "track" /\ tree[c] = blocks

Winner(c) == [player |-> req[c].player, prize |-> req[c].obj]

Play(c) ==
    LET o == req[c].obj IN
    /\ CanPlay(c)
    /\ \/ /\ pc[c] = "clear"
          /\ obj' = [obj EXCEPT ![o].data = "none", ![o].at = @ + 1]
          /\ UNCHANGED <<ledger, blocks>>
       \/ /\ pc[c] = "dress"
          /\ obj' = IF obj[o].hash = "prize" THEN obj
                    ELSE [obj EXCEPT ![o].data = "prize", ![o].hash = "prize", ![o].at = @ + 1]
          /\ UNCHANGED <<ledger, blocks>>
       \/ /\ pc[c] = "chown"
          /\ obj' = [obj EXCEPT ![o].owner = req[c].player, ![o].at = @ + 1]
          /\ UNCHANGED <<ledger, blocks>>
       \/ /\ pc[c] = "track"
          /\ ledger' = Append(ledger, Winner(c))
          /\ blocks' = blocks + 1
          /\ UNCHANGED obj

Playing(c) ==
    /\ ~called[c]
    /\ pc[c] \in {"clear", "dress", "chown", "track"}
    /\ IF pc[c] = "track" THEN tree[c] # 0 ELSE at[c] # 0

\* The call succeeds; the handle it was given moves on with the block.
CallReturns(c) ==
    /\ Playing(c)
    /\ Play(c)
    /\ at' = IF pc[c] \in {"clear", "chown"} THEN [at EXCEPT ![c] = @ + 1] ELSE at
    /\ tree' = IF pc[c] = "track" THEN [tree EXCEPT ![c] = @ + 1] ELSE tree
    /\ Called(c, FALSE)
    /\ UNCHANGED <<loc, outside, status, done, spawning, genesis, faults, crashes>>

\* The call returns an error, and a nil tree where a tree is returned:
\* objectTree, err = ... and h.tree, err = ...
CallErrs(c) ==
    /\ at' = IF pc[c] \in {"tree", "clear", "tree2"} THEN [at EXCEPT ![c] = 0] ELSE at
    /\ tree' = IF pc[c] = "track" THEN [tree EXCEPT ![c] = 0] ELSE tree
    /\ Called(c, TRUE)
    /\ UNCHANGED <<loc, outside, status, done, spawning, genesis, crashes>>

CallRefused(c) ==
    /\ Playing(c) /\ ~CanPlay(c)
    /\ CallErrs(c)
    /\ UNCHANGED <<obj, ledger, blocks, faults>>

\* The network fails; the block may have been accepted.
CallFails(c) ==
    /\ At(c, "tree") \/ At(c, "tree2") \/ Playing(c)
    /\ Fault
    /\ Play(c) \/ UNCHANGED <<obj, ledger, blocks>>
    /\ CallErrs(c)

\* cleanupFunc (external), whose error is only logged, and the prize's message.
Send(c) ==
    /\ At(c, "send")
    /\ sent' = sent \cup {req[c]}
    /\ Return(c)
    /\ UNCHANGED <<trees, asked, bag, status, tree, done, spawning, genesis, faults, crashes>>
-----------------------------------------------------------------------------
SpawnStep(c) ==
    \/ SpawnExists(c) \/ SpawnGet(c) \/ SpawnMake(c) \/ SpawnChown(c)
    \/ SpawnDress(c) \/ SpawnReset(c) \/ SpawnData(c) \/ SpawnAgain(c) \/ SpawnHash(c)
    \/ SpawnAdd(c)

GoroutineStep(c) ==
    \E g \in gor[c] : \/ GoroutineSpawns(c, g) \/ GoroutineAssigns(c, g)
                     \/ GoroutineJudges(c, g) \/ GoroutinePanics(c, g)

HandOutStep(c) ==
    \/ CheckRequest(c) \/ FetchLocation(c) \/ RemoveObject(c)
    \/ CheckErr(c) \/ NilPanics(c) \/ GetObject(c) \/ CallReturns(c) \/ CallRefused(c)
    \/ Send(c)

Next ==
    \/ \E c \in Court :
          \/ Setup(c) \/ Serve(c) \/ Crash(c) \/ Tick(c)
          \/ SpawnStep(c) \/ SpawnFails(c) \/ GoroutineStep(c)
          \/ \E m \in asked : Receive(c, m)
          \/ HandOutStep(c) \/ EarlyFails(c) \/ CallFails(c)
    \/ \E p \in Player : Ask(p)
    \/ \E m \in sent : Land(m)

Spec == Init /\ [][Next]_vars

\* While a process runs its timer ticks and its calls return.  Nothing says that a
\* process which has ended is started again.
FairSpec ==
    /\ Spec
    /\ \A c \in Court :
          /\ WF_vars(Serve(c)) /\ WF_vars(Tick(c))
          /\ WF_vars(SpawnStep(c)) /\ WF_vars(GoroutineStep(c)) /\ WF_vars(HandOutStep(c))
-----------------------------------------------------------------------------
Goroutines == [obj : Object, bad : BOOLEAN, running : BOOLEAN,
               st : {"waiting", "spawning", "assign", "judge", "doomed"}]

\* Types; a process that is down runs nothing; a hand-out has a request; spawnMux is
\* held exactly while spawnObject runs.
TypeOK ==
    /\ loc \in Seq(0..MaxTip) /\ Len(loc) \in 1..MaxTip
    /\ obj \in [Object -> [data : {"none", "spawn", "prize"}, hash : {"none", "spawn", "prize"},
                        owner : Player \cup {"court"}, at : Nat]]
    /\ ledger \in Seq([player : Player, prize : Object]) /\ blocks \in Nat
    /\ asked \subseteq Request /\ sent \subseteq Request /\ bag \subseteq Player
    /\ status \in [Court -> {"down", "setup", "up"}] /\ tree \in [Court -> Nat]
    /\ done \in [Court -> SUBSET Request]
    /\ pc \in [Court -> {"idle", "check", "fetch", "remove", "tree", "clear", "dress",
                         "tree2", "chown", "track", "send"}]
    /\ req \in [Court -> Request \cup {NoReq}] /\ called \in [Court -> BOOLEAN]
    /\ at \in [Court -> Nat] /\ err \in [Court -> BOOLEAN]
    /\ gor \in [Court -> SUBSET Goroutines]
    /\ lock \in [Court -> {"free", "setup", "timer", "goroutine"}]
    /\ sp \in [Court -> {"idle", "exists", "get", "make", "chown", "dress", "reset", "data",
                         "again", "hash", "add"}]
    /\ spAt \in [Court -> 0..MaxTip] /\ spObj \in [Court -> Nat]
    /\ genesis \in [Court -> SUBSET Object]
    /\ \A c \in Court :
          /\ pc[c] # "idle" <=> req[c] \in Request
          /\ status[c] = "down" => pc[c] = "idle" /\ gor[c] = {} /\ lock[c] = "free"
          /\ lock[c] = "free" <=> sp[c] = "idle"
          /\ lock[c] = "goroutine" <=> \E g \in gor[c] : g.st = "spawning"

Recorded(o) == \E k \in DOMAIN ledger : ledger[k].prize = o

\* Between hand-outs, every object a player has been given is recorded on the
\* court's tree, as long as nothing fails or crashes.
EveryWinnerRecorded ==
    (faults = 0 /\ crashes = 0 /\ \A c \in Court : pc[c] = "idle") =>
        \A o \in Object : obj[o].owner # "court" => Recorded(o)

\* Whatever calls fail and whatever the respawn goroutine does to err, the court's tree
\* never lists one prize for two winners, nor a prize that another player owns: at worst
\* the court still has it.  As long as no call fails, the winners listed own the prizes
\* listed with them, and what a player owns has the data of the prize, not those of the
\* object at the location, though a goroutine and a timer dress objects at the same time
\* and the process may crash.
WinnersOwnPrizes ==
    /\ \A k \in DOMAIN ledger :
          /\ obj[ledger[k].prize].owner \in {"court", ledger[k].player}
          /\ \A j \in DOMAIN ledger : ledger[j].prize = ledger[k].prize => j = k
    /\ faults = 0 =>
          /\ \A k \in DOMAIN ledger : obj[ledger[k].prize].owner = ledger[k].player
          /\ \A o \in Object : obj[o].owner # "court" => obj[o].data = "prize"

\* When neither a hand-out nor a respawn is under way and nothing has failed or
\* crashed, every object that was spawned is at the location or with a player.
NoLostPrize ==
    (faults = 0 /\ crashes = 0 /\ \A c \in Court : pc[c] = "idle" /\ gor[c] = {} /\ lock[c] = "free") =>
        \A o \in Object : obj[o].at # 0 => o = Current \/ obj[o].owner # "court"

\* The object players see at the location is the court's and carries the hash of its
\* import, so no process imports into it any more: however many processes of the court
\* spawn at the same time, and whatever fails or crashes between the blocks of an import.
CurrentIsOffered ==
    Current # 0 => obj[Current].owner = "court" /\ obj[Current].hash = "spawn"

\* The object players see at the location is one they can be given: it is the court's,
\* and what one import wrote is all there.  (Two processes can empty an object between
\* each other's data and hash.)
CurrentIsFresh ==
    Current # 0 => obj[Current].owner = "court" /\ obj[Current].data = "spawn"

\* Types and spawnMux, and the object at the location can be won.
CourtInv == TypeOK /\ CurrentIsFresh

\* A process found no tree for the next object and made one, but could not give it to
\* the court: from then on it finds that tree, and cannot import into it.
ChownLost(c) == Tip \in genesis[c] /\ obj[Tip].at = 0 /\ sp[c] # "chown"

\* As long as a process of the court keeps running, an object is at the location again
\* and again, whatever calls fail and however hand-outs and respawns end, unless the
\* call that fails is the change of owner of a tree it has just made.
PrizeReturns ==
    []<>(Current # 0 \/ (\E c \in Court : ChownLost(c)) \/ \A c \in Court : status[c] = "down")
=============================================================================
