------------------------- MODULE PrizeHandlerProofs -------------------------
(***************************************************************************)
(* The safety properties of the prize handler.  For any number of          *)
(* processes, faults and crashes: the object at the location is the        *)
(* court's and carries its import-hash (CurrentIsOffered).  For a court    *)
(* that one process serves: one import wrote all of it (CurrentIsFresh),   *)
(* winners own prizes and are recorded, and no prize is lost.              *)
(*                                                                         *)
(* The tip of the location decides who works on which object.  An object   *)
(* is spawned on the tip it is named after and listed on a later one, so   *)
(* objects that are asked for are older than the tip (AskedIsOlder) and an *)
(* object that has left the location never returns (HandedOutIsGone).      *)
(***************************************************************************)
EXTENDS PrizeHandler, TLAPS

\* Statements of handleTransfer after the object was taken off the location.
Handing == {"tree", "clear", "dress", "tree2", "chown", "track", "send"}

\* Statements of spawnObject from FindOrCreatePassphraseTree on, and from
\* importer.UpdateObject on.
Dressing == {"dress", "reset", "data", "again", "hash", "add"}
Spawning == {"make", "chown"} \cup Dressing

\* Only a process that is up hands out and respawns; setup spawns before that.
ProcessesOK ==
    \A c \in Court :
        /\ status[c] # "up" => pc[c] = "idle" /\ gor[c] = {} /\ lock[c] \in {"free", "setup"}
        /\ lock[c] = "setup" => status[c] = "setup"
        /\ sp[c] \in Spawning => spAt[c] \in Object
        /\ called[c] => pc[c] \in Handing \ {"send"}

SpawnAtOK ==
    \A c \in Court : /\ sp[c] \in Spawning => spAt[c] \in 1..Tip
                     /\ sp[c] = "add" /\ spAt[c] = Tip => obj[Tip].hash = "spawn"

\* An import empties the object only if nothing was written since it was read.
ResetIsDue ==
    \A c \in Court : sp[c] = "reset" =>
        \/ spObj[c] < obj[spAt[c]].at
        \/ spObj[c] = obj[spAt[c]].at /\ obj[spAt[c]].hash # "spawn"

AskedIsOlder ==
    /\ Current < Tip
    /\ \A m \in asked : m.obj < Tip
    /\ \A c \in Court : pc[c] # "idle" => req[c].obj < Tip
    /\ \A o \in Object : o >= Tip => obj[o].owner = "court"

HandedOutIsGone ==
    \A c \in Court :
        /\ pc[c] \in Handing => req[c].obj # Current
        /\ pc[c] = "remove" => /\ at[c] \in 1..Tip
                               /\ loc[at[c]] = req[c].obj \/ Current # req[c].obj

FreshIInv ==
    /\ TypeOK /\ ProcessesOK
    /\ SpawnAtOK /\ ResetIsDue /\ AskedIsOlder /\ HandedOutIsGone /\ CurrentIsOffered

-----------------------------------------------------------------------------
(***************************************************************************)
(* One process: a spawn that found the location empty has it for itself.   *)
(***************************************************************************)
OneProcess == \E c : Court = {c}

SpawnIsAlone ==
    \A c \in Court :
        /\ sp[c] \in {"get"} \cup Spawning => Current = 0
        /\ sp[c] \in Spawning => spAt[c] = Tip

\* The hash is set on what one import wrote.
HashMeansData ==
    /\ \A c \in Court : sp[c] \in {"again", "hash", "add"} => obj[spAt[c]].data = "spawn"
    /\ \A o \in Object : (o >= Tip \/ o = Current) /\ obj[o].hash = "spawn" => obj[o].data = "spawn"

AloneIInv == FreshIInv /\ SpawnIsAlone /\ HashMeansData

(***************************************************************************)
(* One process and calls that do not fail.                                 *)
(***************************************************************************)

\* Nothing goes wrong: the handle on the handler's tree is current, and no call
\* returns an error.
AllIsWell ==
    /\ blocks # 0
    /\ \A c \in Court :
        /\ status[c] # "down" => tree[c] = blocks
        /\ ~err[c]
        /\ \A g \in gor[c] : ~g.bad /\ g.st # "doomed"

\* A hand-out that found the object at the location has it for itself.
LocationIsMine ==
    \A c \in Court :
        /\ pc[c] \in {"fetch", "remove"} => Current = req[c].obj
        /\ pc[c] = "remove" => at[c] = Tip

\* The handle on the object that is spawned is current, and only a tree that is being
\* made is a genesis tree.
ObjectIsMine ==
    \A c \in Court :
        /\ \A o \in genesis[c] : o = Tip /\ sp[c] = "chown"
        /\ sp[c] = "chown" => obj[Tip].at = 0
        /\ sp[c] \in Dressing => obj[Tip].at # 0
        /\ sp[c] \in {"reset", "data", "hash"} => spObj[c] = obj[Tip].at

\* What the object is while it is handed out.
Prize(c) == obj[req[c].obj]
PrizeStages ==
    \A c \in Court :
        /\ pc[c] \in Handing => Prize(c).at # 0
        /\ pc[c] \in {"tree", "clear", "dress", "tree2"} => Prize(c).owner = "court"
        /\ pc[c] = "chown" /\ ~called[c] => Prize(c).owner = "court"
        /\ \/ pc[c] \in {"tree", "tree2"} /\ called[c]
           \/ pc[c] \in {"clear", "chown"}
           \/ pc[c] = "dress" /\ ~called[c]
           => at[c] = Prize(c).at
        /\ \/ pc[c] \in {"tree", "clear"}
           \/ pc[c] = "dress" /\ ~called[c]
           => Prize(c).hash = "spawn"
        /\ \/ pc[c] = "dress" /\ called[c]
           \/ pc[c] \in {"tree2", "chown"}
           => Prize(c).data = "prize"
        /\ \/ pc[c] = "chown" /\ called[c]
           \/ pc[c] \in {"track", "send"}
           => Prize(c).owner = req[c].player

\* Winners own their prizes, which have the data of the prize.
Winners ==
    /\ \A k \in DOMAIN ledger : obj[ledger[k].prize].owner = ledger[k].player
    /\ \A o \in Object : obj[o].owner # "court" => obj[o].data = "prize"

\* An object with a player is recorded or about to be.
WonIsRecorded ==
    crashes = 0 =>
        \A o \in Object : obj[o].owner # "court" =>
            \/ Recorded(o)
            \/ \E c \in Court : /\ req[c].obj = o /\ pc[c] \in {"chown", "track"}
                                /\ pc[c] = "track" => ~called[c]

\* An object that was made is at the location, with a player, or being worked on.
MadeIsKept ==
    /\ Current # 0 => obj[Current].at # 0
    /\ crashes = 0 => \A o \in Object : obj[o].at # 0 =>
          \/ o = Current \/ obj[o].owner # "court"
          \/ \E c \in Court : \/ pc[c] \in Handing /\ req[c].obj = o
                              \/ sp[c] \in Dressing /\ spAt[c] = o

CourtIInv ==
    /\ AloneIInv
    /\ faults \in Nat /\ crashes \in Nat
    /\ faults = 0 => /\ AllIsWell /\ LocationIsMine /\ ObjectIsMine /\ PrizeStages
                     /\ Winners /\ WonIsRecorded /\ MadeIsKept

-----------------------------------------------------------------------------
(***************************************************************************)
(* Types.                                                                  *)
(***************************************************************************)
USE PrizeAssumption DEF Spawning, Dressing

\* A location gets one block longer.
LEMMA LocAppend ==
    ASSUME loc \in Seq(0..MaxTip), Len(loc) \in 1..MaxTip, Tip < MaxTip,
           NEW o \in 0..MaxTip, loc' = Append(loc, o)
    PROVE  /\ loc' \in Seq(0..MaxTip) /\ Len(loc') \in 1..MaxTip
           /\ Tip' = Tip + 1 /\ Current' = o
           /\ \A k \in 1..Tip : loc'[k] = loc[k]
  BY DEF Tip, Current

\* What the location lists is an object or nothing.
LEMMA CurrentTyped ==
    ASSUME loc \in Seq(0..MaxTip), Len(loc) \in 1..MaxTip
    PROVE  Current \in 0..MaxTip /\ Tip \in 1..MaxTip /\ \A k \in 1..Tip : loc[k] \in 0..MaxTip
  BY DEF Current, Tip

\* TypeOK, and that only a process that is up works.
TypesOK == TypeOK /\ ProcessesOK

\* What TypesOK says of one process.
ProcessTyped(c) ==
    /\ status[c] \in {"down", "setup", "up"} /\ tree[c] \in Nat
    /\ done[c] \in SUBSET Request
    /\ pc[c] \in {"idle", "check", "fetch", "remove", "tree", "clear", "dress",
                  "tree2", "chown", "track", "send"}
    /\ req[c] \in Request \cup {NoReq} /\ called[c] \in BOOLEAN
    /\ at[c] \in Nat /\ err[c] \in BOOLEAN
    /\ gor[c] \in SUBSET Goroutines
    /\ lock[c] \in {"free", "setup", "timer", "goroutine"}
    /\ sp[c] \in {"idle", "exists", "get"} \cup Spawning
    /\ spAt[c] \in 0..MaxTip /\ spObj[c] \in Nat /\ genesis[c] \in SUBSET Object

ProcessWorks(c) ==
    /\ pc[c] # "idle" <=> req[c] \in Request
    /\ status[c] = "down" => pc[c] = "idle" /\ gor[c] = {} /\ lock[c] = "free"
    /\ lock[c] = "free" <=> sp[c] = "idle"
    /\ lock[c] = "goroutine" <=> \E g \in gor[c] : g.st = "spawning"
    /\ status[c] # "up" => pc[c] = "idle" /\ gor[c] = {} /\ lock[c] \in {"free", "setup"}
    /\ lock[c] = "setup" => status[c] = "setup"
    /\ sp[c] \in Spawning => spAt[c] \in Object
    /\ called[c] => pc[c] \in Handing \ {"send"}

ProcessOK(c) == ProcessTyped(c) /\ ProcessWorks(c)

Written == {"none", "spawn", "prize"}
ObjectRecord == [data : Written, hash : Written, owner : Player \cup {"court"}, at : Nat]

TreesOK ==
    /\ loc \in Seq(0..MaxTip) /\ Len(loc) \in 1..MaxTip
    /\ obj \in [Object -> ObjectRecord]
    /\ ledger \in Seq([player : Player, prize : Object]) /\ blocks \in Nat
    /\ asked \subseteq Request /\ sent \subseteq Request /\ bag \subseteq Player

Table(v) == v = [c \in Court |-> v[c]]

\* The tables of the processes have an entry each.
TablesOK ==
    /\ Table(status) /\ Table(tree) /\ Table(done) /\ Table(pc) /\ Table(req) /\ Table(called)
    /\ Table(at) /\ Table(err) /\ Table(gor) /\ Table(lock) /\ Table(sp) /\ Table(spAt)
    /\ Table(spObj) /\ Table(genesis)

\* Process d does nothing.
Rests(d) ==
    /\ status'[d] = status[d] /\ tree'[d] = tree[d] /\ done'[d] = done[d] /\ pc'[d] = pc[d]
    /\ req'[d] = req[d] /\ called'[d] = called[d] /\ at'[d] = at[d] /\ err'[d] = err[d]
    /\ gor'[d] = gor[d] /\ lock'[d] = lock[d] /\ sp'[d] = sp[d] /\ spAt'[d] = spAt[d]
    /\ spObj'[d] = spObj[d] /\ genesis'[d] = genesis[d]

\* TypeOK, taken apart: the chaintrees, and what each process has in the tables.
LEMMA TypesSplit ==
    TypesOK <=> /\ TreesOK /\ TablesOK /\ \A c \in Court : ProcessOK(c)
  <1>1. TypesOK => TreesOK
    BY DEF TypesOK, TypeOK, TreesOK, ObjectRecord, Written
  <1>2. TypesOK => TablesOK
    BY DEF TypesOK, TypeOK, TablesOK, Table
  <1>3. ASSUME TypesOK, NEW c \in Court PROVE ProcessTyped(c)
    BY <1>3 DEF TypesOK, TypeOK, ProcessTyped
  <1>4. ASSUME TypesOK, NEW c \in Court PROVE ProcessWorks(c)
    BY <1>4 DEF TypesOK, TypeOK, ProcessesOK, ProcessWorks
  <1>5. ASSUME TreesOK, TablesOK, \A c \in Court : ProcessTyped(c) /\ ProcessWorks(c)
        PROVE  TypesOK
    <2>1. /\ status \in [Court -> {"down", "setup", "up"}] /\ tree \in [Court -> Nat]
          /\ done \in [Court -> SUBSET Request]
      BY <1>5 DEF TablesOK, Table, ProcessTyped
    <2>2. /\ pc \in [Court -> {"idle", "check", "fetch", "remove", "tree", "clear", "dress",
                               "tree2", "chown", "track", "send"}]
          /\ req \in [Court -> Request \cup {NoReq}] /\ called \in [Court -> BOOLEAN]
      BY <1>5 DEF TablesOK, Table, ProcessTyped
    <2>3. /\ at \in [Court -> Nat] /\ err \in [Court -> BOOLEAN]
          /\ gor \in [Court -> SUBSET Goroutines]
      BY <1>5 DEF TablesOK, Table, ProcessTyped
    <2>4. /\ lock \in [Court -> {"free", "setup", "timer", "goroutine"}]
          /\ sp \in [Court -> {"idle", "exists", "get"} \cup Spawning]
          /\ spAt \in [Court -> 0..MaxTip] /\ spObj \in [Court -> Nat]
          /\ genesis \in [Court -> SUBSET Object]
      BY <1>5 DEF TablesOK, Table, ProcessTyped
    <2>5. ProcessesOK
      BY <1>5 DEF ProcessWorks, ProcessesOK
    <2>6. /\ loc \in Seq(0..MaxTip) /\ Len(loc) \in 1..MaxTip
          /\ obj \in [Object -> [data : {"none", "spawn", "prize"}, hash : {"none", "spawn", "prize"},
                                 owner : Player \cup {"court"}, at : Nat]]
          /\ ledger \in Seq([player : Player, prize : Object]) /\ blocks \in Nat
          /\ asked \subseteq Request /\ sent \subseteq Request /\ bag \subseteq Player
      BY <1>5 DEF TreesOK, ObjectRecord, Written
    <2>7. \A c \in Court :
            /\ pc[c] # "idle" <=> req[c] \in Request
            /\ status[c] = "down" => pc[c] = "idle" /\ gor[c] = {} /\ lock[c] = "free"
            /\ lock[c] = "free" <=> sp[c] = "idle"
            /\ lock[c] = "goroutine" <=> \E g \in gor[c] : g.st = "spawning"
      BY <1>5 DEF ProcessWorks
    <2> QED
      BY <2>1, <2>2, <2>3, <2>4, <2>5, <2>6, <2>7 DEF TypesOK, TypeOK
  <1> QED
    BY <1>1, <1>2, <1>3, <1>4, <1>5 DEF ProcessOK

\* A process that does nothing keeps its types.
LEMMA RestsTyped == \A d \in Court : ProcessOK(d) /\ Rests(d) => ProcessOK(d)'
  BY DEF ProcessOK, ProcessTyped, ProcessWorks, Rests

\* Steps of a process by themselves.
ProcessStep(c) ==
    \/ Setup(c) \/ Serve(c) \/ Crash(c) \/ Tick(c)
    \/ SpawnStep(c) \/ SpawnFails(c) \/ GoroutineStep(c)
    \/ \E m \in asked : Receive(c, m)
    \/ HandOutStep(c) \/ EarlyFails(c) \/ CallFails(c)

\* A step of process c is a step of no other.
LEMMA OneMoves ==
    ASSUME TablesOK, NEW c \in Court, ProcessStep(c)
    PROVE  TablesOK' /\ \A d \in Court \ {c} : Rests(d)
  <1> DEFINE Goal == TablesOK' /\ \A d \in Court \ {c} : Rests(d)
  <1> USE DEF TablesOK, Table, Rests, outside, trees, handing, spawning
  <1>1. CASE Setup(c)
    BY <1>1 DEF Setup
  <1>2. CASE Serve(c)
    BY <1>2 DEF Serve
  <1>3. ASSUME Dies(c) PROVE Goal
    BY <1>3 DEF Dies
  <1>4. CASE Crash(c)
    BY <1>3, <1>4 DEF Crash
  <1>5. CASE Tick(c)
    BY <1>5 DEF Tick, Acquire
  <1>6. CASE SpawnStep(c)
    <2> USE DEF SpawnReturns, SpawnGoto
    <2>1. CASE SpawnExists(c)
      BY <2>1 DEF SpawnExists
    <2>2. CASE SpawnGet(c)
      BY <2>2 DEF SpawnGet
    <2>3. CASE SpawnMake(c)
      BY <2>3 DEF SpawnMake
    <2>4. CASE SpawnChown(c)
      BY <2>4 DEF SpawnChown
    <2>5. CASE SpawnDress(c)
      BY <2>5 DEF SpawnDress
    <2>6. CASE SpawnReset(c) \/ SpawnData(c) \/ SpawnHash(c)
      BY <2>6 DEF SpawnReset, SpawnData, SpawnHash, SpawnPlays
    <2>7. CASE SpawnAgain(c)
      BY <2>7 DEF SpawnAgain
    <2>8. CASE SpawnAdd(c)
      BY <2>8 DEF SpawnAdd
    <2> QED
      BY <1>6, <2>1, <2>2, <2>3, <2>4, <2>5, <2>6, <2>7, <2>8 DEF SpawnStep
  <1>7. CASE SpawnFails(c)
    BY <1>7 DEF SpawnFails, SpawnReturns
  <1>8. CASE GoroutineStep(c)
    <2>1. PICK g \in gor[c] : \/ GoroutineSpawns(c, g) \/ GoroutineAssigns(c, g)
                             \/ GoroutineJudges(c, g) \/ GoroutinePanics(c, g)
      BY <1>8 DEF GoroutineStep
    <2>2. CASE GoroutineSpawns(c, g)
      BY <2>2 DEF GoroutineSpawns, Acquire
    <2>3. CASE GoroutineAssigns(c, g)
      BY <2>3 DEF GoroutineAssigns
    <2>4. CASE GoroutineJudges(c, g)
      BY <2>4 DEF GoroutineJudges
    <2>5. CASE GoroutinePanics(c, g)
      BY <1>3, <2>5 DEF GoroutinePanics
    <2> QED
      BY <2>1, <2>2, <2>3, <2>4, <2>5
  <1>9. CASE \E m \in asked : Receive(c, m)
    BY <1>9 DEF Receive
  <1>10. CASE HandOutStep(c)
    <2> USE DEF Return, Step, Called
    <2>1. CASE CheckRequest(c)
      BY <2>1 DEF CheckRequest
    <2>2. CASE FetchLocation(c)
      BY <2>2 DEF FetchLocation
    <2>3. CASE RemoveObject(c)
      BY <2>3 DEF RemoveObject
    <2>4. CASE CheckErr(c)
      BY <2>4 DEF CheckErr
    <2>5. CASE NilPanics(c)
      BY <2>5 DEF NilPanics
    <2>6. CASE GetObject(c)
      BY <2>6 DEF GetObject
    <2>7. CASE CallReturns(c)
      BY <2>7 DEF CallReturns
    <2>8. CASE CallRefused(c)
      BY <2>8 DEF CallRefused, CallErrs
    <2>9. CASE Send(c)
      BY <2>9 DEF Send
    <2> QED
      BY <1>10, <2>1, <2>2, <2>3, <2>4, <2>5, <2>6, <2>7, <2>8, <2>9 DEF HandOutStep
  <1>11. CASE EarlyFails(c)
    BY <1>11 DEF EarlyFails, Return
  <1>12. CASE CallFails(c)
    BY <1>12 DEF CallFails, CallErrs, Called
  <1> QED
    BY <1>1, <1>2, <1>4, <1>5, <1>6, <1>7, <1>8, <1>9, <1>10, <1>11, <1>12 DEF ProcessStep

\* A goroutine that moves on is still one.
LEMMA GoroutineTyped ==
    ASSUME NEW g \in Goroutines, NEW bad \in BOOLEAN,
           NEW st \in {"waiting", "spawning", "assign", "judge", "doomed"}
    PROVE  /\ [g EXCEPT !.st = st] \in Goroutines /\ [g EXCEPT !.st = st].st = st
           /\ [g EXCEPT !.st = st, !.bad = bad] \in Goroutines
           /\ [g EXCEPT !.st = st, !.bad = bad].st = st
  BY DEF Goroutines

\* A goroutine whose hand-out has returned is still one.
LEMMA GoroutineLeft ==
    ASSUME NEW g \in Goroutines, NEW bad \in BOOLEAN
    PROVE  /\ [g EXCEPT !.running = FALSE, !.bad = bad] \in Goroutines
           /\ [g EXCEPT !.running = FALSE, !.bad = bad].st = g.st
  BY DEF Goroutines

\* When spawnObject returns, no goroutine is inside it any more.
LEMMA ResultTyped ==
    ASSUME NEW g \in Goroutines, NEW bad \in BOOLEAN
    PROVE  Result(g, bad) \in Goroutines /\ Result(g, bad).st # "spawning"
  <1>1. CASE g.st = "spawning"
    BY <1>1, GoroutineTyped DEF Result
  <1>2. CASE g.st # "spawning"
    BY <1>2 DEF Result
  <1> QED
    BY <1>1, <1>2

\* Leaving err to a goroutine does not move it.
LEMMA OrphanTyped ==
    ASSUME NEW g \in Goroutines, NEW e \in BOOLEAN
    PROVE  Orphan(g, e) \in Goroutines /\ Orphan(g, e).st = g.st
  <1>1. g.bad \in BOOLEAN
    BY DEF Goroutines
  <1>2. CASE g.running /\ g.st = "judge"
    <2>1. Orphan(g, e) = [g EXCEPT !.running = FALSE, !.bad = e]
      BY <1>2 DEF Orphan
    <2> QED
      BY <2>1, GoroutineLeft
  <1>3. CASE ~(g.running /\ g.st = "judge")
    <2>1. Orphan(g, e) = [g EXCEPT !.running = FALSE, !.bad = g.bad]
      BY <1>3 DEF Orphan
    <2> QED
      BY <1>1, <2>1, GoroutineLeft
  <1> QED
    BY <1>2, <1>3

\* A process that ends leaves nothing behind.
LEMMA DiesTyped ==
    ASSUME TreesOK, TablesOK, NEW c \in Court, ProcessOK(c), Dies(c)
    PROVE  TreesOK' /\ ProcessOK(c)'
  <1>1. TreesOK'
    BY DEF Dies, TreesOK, trees, outside
  <1>0. called'[c] \in BOOLEAN /\ err'[c] \in BOOLEAN /\ ~called'[c]
    BY Zenon DEF Dies, TablesOK, Table
  <1>2. /\ status'[c] = "down" /\ pc'[c] = "idle"
        /\ at'[c] = 0 /\ req'[c] = NoReq /\ gor'[c] = {} /\ lock'[c] = "free" /\ sp'[c] = "idle"
        /\ spAt'[c] = 0 /\ spObj'[c] = 0 /\ genesis'[c] = {}
        /\ tree'[c] = 0 /\ done'[c] = done[c]
    BY DEF Dies, TablesOK, Table
  <1>3. ProcessTyped(c)'
    BY <1>0, <1>2 DEF ProcessOK, ProcessTyped
  <1>4. ProcessWorks(c)'
    BY <1>0, <1>2 DEF ProcessWorks, Request, Object
  <1> QED
    BY <1>1, <1>3, <1>4 DEF ProcessOK

\* spawnObject returns, whatever its result.
LEMMA SpawnReturnsTyped ==
    ASSUME TablesOK, NEW c \in Court, ProcessOK(c), NEW bad \in BOOLEAN, SpawnReturns(c, bad),
           sp[c] # "idle", UNCHANGED <<tree, handing>>, genesis'[c] \in SUBSET Object
    PROVE  ProcessOK(c)'
  <1>1. gor'[c] \in SUBSET Goroutines /\ (\A g \in gor'[c] : g.st # "spawning") /\ (gor[c] = {} => gor'[c] = {})
    <2>1. gor'[c] = {Result(g, bad) : g \in gor[c]}
      BY DEF SpawnReturns, TablesOK, Table
    <2>2. gor[c] \in SUBSET Goroutines
      BY DEF ProcessOK, ProcessTyped
    <2> QED
      BY <2>1, <2>2, ResultTyped
  <1>2. /\ lock'[c] = "free" /\ sp'[c] = "idle" /\ spAt'[c] = 0 /\ spObj'[c] = 0
        /\ status'[c] = status[c] \/ (status'[c] = "down" /\ lock[c] = "setup")
        /\ UNCHANGED <<tree, pc, req, called, at, err, done>>
    BY DEF SpawnReturns, TablesOK, Table, handing
  <1> HIDE DEF SpawnReturns
  <1>3. called'[c] \in BOOLEAN /\ err'[c] \in BOOLEAN
    BY Zenon DEF handing, ProcessOK, ProcessTyped
  <1>4. ProcessTyped(c)'
    BY <1>1, <1>2, <1>3 DEF ProcessOK, ProcessTyped
  <1>5. ProcessWorks(c)'
    BY <1>1, <1>2 DEF ProcessOK, ProcessWorks
  <1> QED
    BY <1>4, <1>5 DEF ProcessOK

\* handleTransfer returns, whatever its result.
LEMMA ReturnTyped ==
    ASSUME TablesOK, NEW c \in Court, ProcessOK(c), Return(c),
           UNCHANGED <<status, tree, done, spawning, genesis>>
    PROVE  ProcessOK(c)'
  <1>0. called'[c] \in BOOLEAN /\ err'[c] \in BOOLEAN /\ ~called'[c]
    BY Zenon DEF Return, TablesOK, Table
  <1>1. /\ gor'[c] \in SUBSET Goroutines
        /\ (\E g \in gor'[c] : g.st = "spawning") <=> (\E g \in gor[c] : g.st = "spawning")
        /\ gor[c] = {} => gor'[c] = {}
    <2>1. gor'[c] = {Orphan(g, err[c]) : g \in gor[c]}
      BY Zenon DEF Return, TablesOK, Table
    <2>2. gor[c] \in SUBSET Goroutines /\ err[c] \in BOOLEAN
      BY DEF ProcessOK, ProcessTyped
    <2>3. \A g \in gor[c] : Orphan(g, err[c]) \in Goroutines /\ Orphan(g, err[c]).st = g.st
      BY <2>2, OrphanTyped, Zenon
    <2> QED
      BY <2>1, <2>3, Zenon
  <1>2. /\ pc'[c] = "idle" /\ req'[c] = NoReq /\ at'[c] = 0
        /\ UNCHANGED <<status, tree, done, lock, sp, spAt, spObj, genesis>>
    BY DEF Return, TablesOK, Table, spawning
  <1>3. req'[c] \notin Request
    BY <1>2 DEF Request, Object
  <1>4. ProcessTyped(c)'
    BY <1>0, <1>1, <1>2 DEF ProcessOK, ProcessTyped
  <1>5. ProcessWorks(c)'
    BY <1>0, <1>1, <1>2, <1>3 DEF ProcessOK, ProcessWorks
  <1> QED
    BY <1>4, <1>5 DEF ProcessOK

\* Object o gets the data d, the hash h, the owner w and the tip n.
Becomes(o, d, h, w, n) ==
    /\ obj' \in [Object -> ObjectRecord]
    /\ obj'[o].data = d /\ obj'[o].hash = h /\ obj'[o].owner = w /\ obj'[o].at = n
    /\ \A u \in Object \ {o} : obj'[u] = obj[u]

\* A record that replaces an object.
LEMMA RecordBlock ==
    ASSUME obj \in [Object -> ObjectRecord], NEW o \in Object, NEW r \in ObjectRecord,
           obj' = [obj EXCEPT ![o] = r]
    PROVE  Becomes(o, r.data, r.hash, r.owner, r.at)
  BY DEF Becomes

\* What a block does to an object.
LEMMA ObjectBlock ==
    ASSUME obj \in [Object -> ObjectRecord], NEW o \in Object, NEW w \in Player \cup {"court"}
    PROVE  /\ obj' = [obj EXCEPT ![o].data = "none", ![o].at = @ + 1] =>
                 Becomes(o, "none", obj[o].hash, obj[o].owner, obj[o].at + 1)
           /\ obj' = [obj EXCEPT ![o].data = "prize", ![o].hash = "prize", ![o].at = @ + 1] =>
                 Becomes(o, "prize", "prize", obj[o].owner, obj[o].at + 1)
           /\ obj' = [obj EXCEPT ![o].owner = w, ![o].at = @ + 1] =>
                 Becomes(o, obj[o].data, obj[o].hash, w, obj[o].at + 1)
           /\ obj' = [obj EXCEPT ![o].at = 1] =>
                 Becomes(o, obj[o].data, obj[o].hash, obj[o].owner, 1)
           /\ obj' = [obj EXCEPT ![o] = [obj[o] EXCEPT !.data = "none", !.hash = "none", !.at = @ + 1]] =>
                 Becomes(o, "none", "none", obj[o].owner, obj[o].at + 1)
           /\ obj' = [obj EXCEPT ![o] = [obj[o] EXCEPT !.data = "spawn", !.at = @ + 1]] =>
                 Becomes(o, "spawn", obj[o].hash, obj[o].owner, obj[o].at + 1)
           /\ obj' = [obj EXCEPT ![o] = [obj[o] EXCEPT !.hash = "spawn", !.at = @ + 1]] =>
                 Becomes(o, obj[o].data, "spawn", obj[o].owner, obj[o].at + 1)
  <1>1. obj[o] \in ObjectRecord /\ obj[o].at \in Nat /\ obj[o].owner \in Player \cup {"court"}
        /\ obj[o].data \in Written /\ obj[o].hash \in Written
    BY DEF ObjectRecord
  <1>2. "none" \in Written /\ "spawn" \in Written /\ "prize" \in Written
    BY DEF Written
  <1>3. PICK n \in Nat : n = obj[o].at + 1
    BY <1>1
  <1>4. ASSUME obj' = [obj EXCEPT ![o].data = "none", ![o].at = @ + 1]
        PROVE  Becomes(o, "none", obj[o].hash, obj[o].owner, n)
    <2> DEFINE r == [obj[o] EXCEPT !.data = "none", !.at = n]
    <2>1. obj' = [obj EXCEPT ![o] = r]
      BY <1>3, <1>4
    <2>2. r \in ObjectRecord
      BY <1>1, <1>2, <1>3 DEF ObjectRecord
    <2>3. Becomes(o, r.data, r.hash, r.owner, r.at)
      <3> HIDE DEF r
      <3> QED
        BY <2>1, <2>2, RecordBlock
    <2> QED
      BY <1>1, <2>3 DEF ObjectRecord
  <1>5. ASSUME obj' = [obj EXCEPT ![o].data = "prize", ![o].hash = "prize", ![o].at = @ + 1]
        PROVE  Becomes(o, "prize", "prize", obj[o].owner, n)
    <2> DEFINE r == [obj[o] EXCEPT !.data = "prize", !.hash = "prize", !.at = n]
    <2>1. obj' = [obj EXCEPT ![o] = r]
      BY <1>3, <1>5
    <2>2. r \in ObjectRecord
      BY <1>1, <1>2, <1>3 DEF ObjectRecord
    <2>3. Becomes(o, r.data, r.hash, r.owner, r.at)
      <3> HIDE DEF r
      <3> QED
        BY <2>1, <2>2, RecordBlock
    <2> QED
      BY <1>1, <2>3 DEF ObjectRecord
  <1>6. ASSUME obj' = [obj EXCEPT ![o].owner = w, ![o].at = @ + 1]
        PROVE  Becomes(o, obj[o].data, obj[o].hash, w, n)
    <2> DEFINE r == [obj[o] EXCEPT !.owner = w, !.at = n]
    <2>1. obj' = [obj EXCEPT ![o] = r]
      BY <1>3, <1>6
    <2>2. r \in ObjectRecord
      BY <1>1, <1>2, <1>3 DEF ObjectRecord
    <2>3. Becomes(o, r.data, r.hash, r.owner, r.at)
      <3> HIDE DEF r
      <3> QED
        BY <2>1, <2>2, RecordBlock
    <2> QED
      BY <1>1, <2>3 DEF ObjectRecord
  <1>7. ASSUME obj' = [obj EXCEPT ![o].at = 1]
        PROVE  Becomes(o, obj[o].data, obj[o].hash, obj[o].owner, 1)
    <2> DEFINE r == [obj[o] EXCEPT !.at = 1]
    <2>1. obj' = [obj EXCEPT ![o] = r]
      BY <1>3, <1>7
    <2>2. r \in ObjectRecord
      BY <1>1, <1>2, <1>3 DEF ObjectRecord
    <2>3. Becomes(o, r.data, r.hash, r.owner, r.at)
      <3> HIDE DEF r
      <3> QED
        BY <2>1, <2>2, RecordBlock
    <2> QED
      BY <1>1, <2>3 DEF ObjectRecord
  <1>8. ASSUME obj' = [obj EXCEPT ![o] = [obj[o] EXCEPT !.data = "none", !.hash = "none", !.at = @ + 1]]
        PROVE  Becomes(o, "none", "none", obj[o].owner, n)
    <2> DEFINE r == [obj[o] EXCEPT !.data = "none", !.hash = "none", !.at = n]
    <2>1. obj' = [obj EXCEPT ![o] = r]
      BY <1>3, <1>8
    <2>2. r \in ObjectRecord
      BY <1>1, <1>2, <1>3 DEF ObjectRecord
    <2>3. Becomes(o, r.data, r.hash, r.owner, r.at)
      <3> HIDE DEF r
      <3> QED
        BY <2>1, <2>2, RecordBlock
    <2> QED
      BY <1>1, <2>3 DEF ObjectRecord
  <1>9. ASSUME obj' = [obj EXCEPT ![o] = [obj[o] EXCEPT !.data = "spawn", !.at = @ + 1]]
        PROVE  Becomes(o, "spawn", obj[o].hash, obj[o].owner, n)
    <2> DEFINE r == [obj[o] EXCEPT !.data = "spawn", !.at = n]
    <2>1. obj' = [obj EXCEPT ![o] = r]
      BY <1>3, <1>9
    <2>2. r \in ObjectRecord
      BY <1>1, <1>2, <1>3 DEF ObjectRecord
    <2>3. Becomes(o, r.data, r.hash, r.owner, r.at)
      <3> HIDE DEF r
      <3> QED
        BY <2>1, <2>2, RecordBlock
    <2> QED
      BY <1>1, <2>3 DEF ObjectRecord
  <1>10. ASSUME obj' = [obj EXCEPT ![o] = [obj[o] EXCEPT !.hash = "spawn", !.at = @ + 1]]
        PROVE  Becomes(o, obj[o].data, "spawn", obj[o].owner, n)
    <2> DEFINE r == [obj[o] EXCEPT !.hash = "spawn", !.at = n]
    <2>1. obj' = [obj EXCEPT ![o] = r]
      BY <1>3, <1>10
    <2>2. r \in ObjectRecord
      BY <1>1, <1>2, <1>3 DEF ObjectRecord
    <2>3. Becomes(o, r.data, r.hash, r.owner, r.at)
      <3> HIDE DEF r
      <3> QED
        BY <2>1, <2>2, RecordBlock
    <2> QED
      BY <1>1, <2>3 DEF ObjectRecord
  <1> QED
    BY <1>3, <1>4, <1>5, <1>6, <1>7, <1>8, <1>9, <1>10

\* Blocks on the object that is handed out and on the handler's tree.
LEMMA PlayTyped ==
    ASSUME TreesOK, NEW c \in Court, ProcessOK(c), pc[c] # "idle", Play(c)
    PROVE  /\ obj' \in [Object -> ObjectRecord]
           /\ ledger' \in Seq([player : Player, prize : Object]) /\ blocks' \in Nat
  <1>1. req[c] \in Request /\ req[c].obj \in Object /\ req[c].player \in Player
    BY DEF ProcessOK, ProcessWorks, Request
  <1>2. obj \in [Object -> ObjectRecord] /\ ledger \in Seq([player : Player, prize : Object]) /\ blocks \in Nat
    BY DEF TreesOK
  <1>3. CASE pc[c] # "track"
    <2>1. UNCHANGED <<ledger, blocks>>
      BY <1>3 DEF Play
    <2>2. \/ obj' = obj
          \/ obj' = [obj EXCEPT ![req[c].obj].data = "none", ![req[c].obj].at = @ + 1]
          \/ obj' = [obj EXCEPT ![req[c].obj].data = "prize", ![req[c].obj].hash = "prize",
                                ![req[c].obj].at = @ + 1]
          \/ obj' = [obj EXCEPT ![req[c].obj].owner = req[c].player, ![req[c].obj].at = @ + 1]
      BY <1>3 DEF Play
    <2>3. req[c].player \in Player \cup {"court"}
      BY <1>1
    <2> QED
      BY <1>1, <1>2, <2>1, <2>2, <2>3, ObjectBlock DEF Becomes
  <1>4. CASE pc[c] = "track"
    <2>1. /\ UNCHANGED obj /\ blocks' = blocks + 1
          /\ ledger' = Append(ledger, [player |-> req[c].player, prize |-> req[c].obj])
      BY <1>4 DEF Play, Winner
    <2> QED
      BY <1>1, <1>2, <2>1
  <1> QED
    BY <1>3, <1>4

\* A block of importer.UpdateObject: it is accepted on the tip the import knows, from
\* the owner,
PlaysBlock(c, d, h, there) ==
    /\ spObj[c] = obj[spAt[c]].at /\ obj[spAt[c]].at # 0 /\ obj[spAt[c]].owner = "court"
    /\ Becomes(spAt[c], d, h, "court", obj[spAt[c]].at + 1)
    /\ SpawnGoto(c, there) /\ spAt' = spAt /\ spObj'[c] = spObj[c] + 1

\* or refused, which ends the spawn.
BlockRefused(c) ==
    /\ spObj[c] # obj[spAt[c]].at \/ obj[spAt[c]].at = 0 \/ obj[spAt[c]].owner # "court"
    /\ obj' = obj /\ SpawnReturns(c, TRUE)

\* The blocks of importer.UpdateObject.
LEMMA SpawnBlocks ==
    ASSUME obj \in [Object -> ObjectRecord], TablesOK, NEW c \in Court, spAt[c] \in Object
    PROVE  /\ SpawnReset(c) => BlockRefused(c) \/ PlaysBlock(c, "none", "none", "data")
           /\ SpawnData(c) => BlockRefused(c) \/ PlaysBlock(c, "spawn", obj[spAt[c]].hash, "again")
           /\ SpawnHash(c) => BlockRefused(c) \/ PlaysBlock(c, obj[spAt[c]].data, "spawn", "add")
  <1> DEFINE o == spAt[c]
  <1>1. "court" \in Player \cup {"court"}
    OBVIOUS
  <1>2. ASSUME NEW r, NEW there, SpawnPlays(c, r, there)
        PROVE  \/ BlockRefused(c)
               \/ /\ spObj[c] = obj[o].at /\ obj[o].at # 0 /\ obj[o].owner = "court"
                  /\ obj' = [obj EXCEPT ![o] = r]
                  /\ SpawnGoto(c, there) /\ spAt' = spAt /\ spObj'[c] = spObj[c] + 1
    BY <1>2 DEF SpawnPlays, BlockRefused, TablesOK, Table
  <1>3. CASE SpawnReset(c)
    <2> DEFINE r == [obj[o] EXCEPT !.data = "none", !.hash = "none", !.at = @ + 1]
    <2>1. SpawnPlays(c, r, "data")
      BY <1>3 DEF SpawnReset
    <2>2. obj' = [obj EXCEPT ![o] = r] => Becomes(o, "none", "none", obj[o].owner, obj[o].at + 1)
      BY <1>1, ObjectBlock
    <2> HIDE DEF r
    <2> QED
      BY <1>2, <1>3, <2>1, <2>2 DEF PlaysBlock, SpawnReset, SpawnData, SpawnHash
  <1>4. CASE SpawnData(c)
    <2> DEFINE r == [obj[o] EXCEPT !.data = "spawn", !.at = @ + 1]
    <2>1. SpawnPlays(c, r, "again")
      BY <1>4 DEF SpawnData
    <2>2. obj' = [obj EXCEPT ![o] = r] => Becomes(o, "spawn", obj[o].hash, obj[o].owner, obj[o].at + 1)
      BY <1>1, ObjectBlock
    <2> HIDE DEF r
    <2> QED
      BY <1>2, <1>4, <2>1, <2>2 DEF PlaysBlock, SpawnReset, SpawnData, SpawnHash
  <1>5. CASE SpawnHash(c)
    <2> DEFINE r == [obj[o] EXCEPT !.hash = "spawn", !.at = @ + 1]
    <2>1. SpawnPlays(c, r, "add")
      BY <1>5 DEF SpawnHash
    <2>2. obj' = [obj EXCEPT ![o] = r] => Becomes(o, obj[o].data, "spawn", obj[o].owner, obj[o].at + 1)
      BY <1>1, ObjectBlock
    <2> HIDE DEF r
    <2> QED
      BY <1>2, <1>5, <2>1, <2>2 DEF PlaysBlock, SpawnReset, SpawnData, SpawnHash
  <1> QED
    BY <1>3, <1>4, <1>5

\* Blocks that emptying, filling and hashing have in common.
Importing(c) == SpawnReset(c) \/ SpawnData(c) \/ SpawnHash(c)

LEMMA ImportBlocks ==
    ASSUME obj \in [Object -> ObjectRecord], TablesOK, NEW c \in Court, spAt[c] \in Object, Importing(c)
    PROVE  /\ \/ BlockRefused(c)
              \/ \E d, h, there : PlaysBlock(c, d, h, there) /\ there \in Dressing \ {"dress"}
           /\ sp[c] \in {"reset", "data", "hash"}
           /\ UNCHANGED <<loc, ledger, blocks, outside, tree, handing, genesis, faults, crashes>>
  <1>1. \/ BlockRefused(c)
        \/ \E d, h, there : PlaysBlock(c, d, h, there) /\ there \in Dressing \ {"dress"}
    BY SpawnBlocks DEF Importing
  <1>2. /\ sp[c] \in {"reset", "data", "hash"}
        /\ UNCHANGED <<loc, ledger, blocks, outside, tree, handing, genesis, faults, crashes>>
    BY DEF Importing, SpawnReset, SpawnData, SpawnHash, SpawnPlays
  <1> QED
    BY <1>1, <1>2

\* Every step of a process keeps its types.
LEMMA ProcessTypes ==
    ASSUME TreesOK, TablesOK, NEW c \in Court, ProcessOK(c), ProcessStep(c)
    PROVE  TreesOK' /\ ProcessOK(c)'
  <1> DEFINE Goal == TreesOK' /\ ProcessOK(c)'
  <1> USE DEF outside, trees, handing, spawning
  <1>0. Current \in 0..MaxTip /\ Tip \in 1..MaxTip
    BY CurrentTyped DEF TreesOK
  <1>a. called[c] \in BOOLEAN /\ err[c] \in BOOLEAN
    BY DEF ProcessOK, ProcessTyped
  <1>b. ASSUME UNCHANGED <<called, err>> PROVE called'[c] \in BOOLEAN /\ err'[c] \in BOOLEAN
    BY <1>a, <1>b, Zenon
  <1>1. CASE Setup(c)
    <2> USE DEF Setup
    <2>1. TreesOK'
      BY <1>0, <1>1, LocAppend DEF TreesOK
    <2>2. /\ status'[c] = "setup" /\ tree'[c] = blocks /\ lock'[c] = "setup" /\ sp'[c] = "exists"
          /\ UNCHANGED <<pc, req, called, at, err, done, gor, spAt, spObj, genesis>>
      BY <1>1 DEF TablesOK, Table
    <2>3. ProcessOK(c)'
      BY <1>1, <1>b, <2>2 DEF ProcessOK, ProcessTyped, ProcessWorks, TreesOK
    <2> QED
      BY <2>1, <2>3
  <1>2. CASE Serve(c)
    <2> USE DEF Serve
    <2>1. TreesOK'
      BY <1>2 DEF TreesOK
    <2>2. /\ status'[c] \in {"up", "down"} /\ tree'[c] \in Nat
          /\ UNCHANGED <<pc, req, called, at, err, done, gor, lock, sp, spAt, spObj, genesis>>
      BY <1>2 DEF TablesOK, Table, TreesOK, ProcessOK, ProcessTyped
    <2>3. ProcessOK(c)'
      BY <1>2, <1>b, <2>2 DEF ProcessOK, ProcessTyped, ProcessWorks
    <2> QED
      BY <2>1, <2>3
  <1>3. CASE Crash(c)
    BY <1>3, DiesTyped DEF Crash
  <1>4. CASE Tick(c)
    <2> USE DEF Tick, Acquire
    <2>1. TreesOK'
      BY <1>4 DEF TreesOK
    <2>2. /\ lock'[c] = "timer" /\ sp'[c] = "exists"
          /\ UNCHANGED <<status, tree, pc, req, called, at, err, done, gor, spAt, spObj, genesis>>
      BY <1>4 DEF TablesOK, Table
    <2>3. ProcessOK(c)'
      BY <1>4, <1>b, <2>2 DEF ProcessOK, ProcessTyped, ProcessWorks
    <2> QED
      BY <2>1, <2>3
  <1>5. ASSUME NEW there \in {"get"} \cup Spawning, SpawnGoto(c, there), sp[c] # "idle",
               spAt'[c] \in 0..MaxTip, there = "get" \/ spAt'[c] \in Object, spObj'[c] \in Nat,
               genesis'[c] \in SUBSET Object, UNCHANGED <<tree, handing>>
        PROVE  ProcessOK(c)'
    <2>1. sp'[c] = there /\ UNCHANGED <<status, lock, tree, pc, req, called, at, err, done, gor>>
      BY <1>5 DEF SpawnGoto, TablesOK, Table
    <2> QED
      BY <1>5, <1>b, <2>1 DEF ProcessOK, ProcessTyped, ProcessWorks
  <1>6. spAt[c] \in 0..MaxTip /\ spObj[c] \in Nat /\ genesis[c] \in SUBSET Object
    BY DEF ProcessOK, ProcessTyped
  <1>7. CASE SpawnExists(c)
    <2>1. TreesOK'
      BY <1>7 DEF SpawnExists, TreesOK
    <2>2. CASE Current # 0
      BY <1>6, <1>7, <2>1, <2>2, SpawnReturnsTyped DEF SpawnExists
    <2>3. CASE Current = 0
      BY <1>5, <1>6, <1>7, <2>1, <2>3 DEF SpawnExists
    <2> QED
      BY <2>2, <2>3
  <1>8. CASE SpawnGet(c)
    <2>1. TreesOK'
      BY <1>8 DEF SpawnGet, TreesOK
    <2>2. spAt'[c] \in 0..MaxTip /\ spAt'[c] \in Object
      BY <1>0, <1>8 DEF SpawnGet, TablesOK, Table, Object
    <2> QED
      BY <1>5, <1>6, <1>8, <2>1, <2>2 DEF SpawnGet
  <1>9. sp[c] \in Spawning => spAt[c] \in Object
    BY DEF ProcessOK, ProcessWorks
  <1>o. /\ obj \in [Object -> ObjectRecord] /\ "court" \in Player \cup {"court"}
        /\ \A u \in Object : obj[u].at \in Nat
    BY DEF TreesOK, ObjectRecord
  <1>10. CASE SpawnMake(c)
    <2>1. spAt[c] \in Object /\ sp[c] = "make"
      BY <1>9, <1>10 DEF SpawnMake
    <2>2. TreesOK'
      BY <1>10 DEF SpawnMake, TreesOK
    <2>3. genesis'[c] \in SUBSET Object
      BY <1>6, <1>10, <2>1 DEF SpawnMake, TablesOK, Table
    <2>4. PICK there \in {"dress", "chown"} : SpawnGoto(c, there)
      BY <1>10 DEF SpawnMake
    <2>5. UNCHANGED <<spAt, spObj, tree, handing>>
      BY <1>10 DEF SpawnMake
    <2> QED
      BY <1>5, <1>6, <2>1, <2>2, <2>3, <2>4, <2>5
  <1>11. CASE SpawnChown(c)
    <2>1. spAt[c] \in Object /\ sp[c] = "chown" /\ UNCHANGED <<tree, handing>>
      BY <1>9, <1>11 DEF SpawnChown
    <2>2. obj' \in [Object -> ObjectRecord]
      <3>1. obj' = obj \/ obj' = [obj EXCEPT ![spAt[c]].at = 1]
        BY <1>11 DEF SpawnChown
      <3> QED
        BY <1>o, <2>1, <3>1, ObjectBlock DEF Becomes
    <2>3. TreesOK'
      BY <1>11, <2>2 DEF SpawnChown, TreesOK
    <2>4. genesis'[c] \in SUBSET Object
      BY <1>6, <1>11 DEF SpawnChown, TablesOK, Table
    <2>5. CASE SpawnReturns(c, TRUE)
      BY <2>1, <2>3, <2>4, <2>5, SpawnReturnsTyped
    <2>6. CASE SpawnGoto(c, "dress") /\ UNCHANGED <<spAt, spObj>>
      BY <1>5, <1>6, <2>1, <2>3, <2>4, <2>6
    <2> QED
      BY <1>11, <2>5, <2>6 DEF SpawnChown
  <1>33. CASE SpawnDress(c)
    <2>1. spAt[c] \in Object /\ sp[c] = "dress" /\ UNCHANGED <<spAt, tree, handing, genesis>>
      BY <1>9, <1>33 DEF SpawnDress
    <2>2. TreesOK'
      BY <1>33 DEF SpawnDress, TreesOK
    <2>3. spObj'[c] \in Nat
      BY <1>6, <1>o, <1>33, <2>1 DEF SpawnDress, TablesOK, Table
    <2>4. PICK there \in {"add", "reset"} : SpawnGoto(c, there)
      BY <1>33 DEF SpawnDress
    <2> QED
      BY <1>5, <1>6, <2>1, <2>2, <2>3, <2>4
  <1>34. CASE SpawnAgain(c)
    <2>1. /\ spAt[c] \in Object /\ sp[c] = "again" /\ SpawnGoto(c, "hash")
          /\ UNCHANGED <<spAt, tree, handing, genesis>>
      BY <1>9, <1>34 DEF SpawnAgain
    <2>2. TreesOK'
      BY <1>34 DEF SpawnAgain, TreesOK
    <2>3. spObj'[c] \in Nat
      BY <1>o, <1>34, <2>1 DEF SpawnAgain, TablesOK, Table
    <2> QED
      BY <1>5, <1>6, <2>1, <2>2, <2>3
  <1>35. CASE Importing(c)
    <2>1. spAt[c] \in Object /\ sp[c] # "idle"
      BY <1>9, <1>35 DEF Importing, SpawnReset, SpawnData, SpawnHash
    <2>2. UNCHANGED <<loc, ledger, blocks, outside, tree, handing, genesis>>
      BY <1>o, <1>35, <2>1, ImportBlocks
    <2>3. CASE BlockRefused(c)
      <3>1. TreesOK'
        BY <2>2, <2>3 DEF BlockRefused, TreesOK
      <3> QED
        BY <1>6, <2>1, <2>2, <2>3, <3>1, SpawnReturnsTyped DEF BlockRefused
    <2>4. ASSUME NEW d, NEW h, NEW there \in Dressing, PlaysBlock(c, d, h, there) PROVE Goal
      <3>1. TreesOK'
        BY <2>2, <2>4 DEF PlaysBlock, Becomes, TreesOK
      <3>2. spObj'[c] \in Nat /\ spAt' = spAt /\ SpawnGoto(c, there)
        BY <1>6, <2>4 DEF PlaysBlock
      <3> QED
        BY <1>5, <1>6, <2>1, <2>2, <3>1, <3>2
    <2> QED
      BY <1>o, <1>35, <2>1, <2>3, <2>4, ImportBlocks
  <1>12. CASE SpawnAdd(c)
    <2>1. loc' = loc \/ (Tip < MaxTip /\ \E o \in 0..MaxTip : loc' = Append(loc, o))
      BY <1>0, <1>6, <1>12 DEF SpawnAdd
    <2>2. TreesOK'
      BY <1>12, <2>1, LocAppend DEF SpawnAdd, TreesOK
    <2>3. \E bad \in BOOLEAN : SpawnReturns(c, bad)
      BY <1>12 DEF SpawnAdd
    <2> QED
      BY <1>6, <1>12, <2>2, <2>3, SpawnReturnsTyped DEF SpawnAdd
  <1>13. CASE SpawnFails(c)
    <2>1. loc' = loc \/ (Tip < MaxTip /\ \E o \in 0..MaxTip : loc' = Append(loc, o))
      BY <1>0, <1>6, <1>13 DEF SpawnFails
    <2>2. TreesOK'
      BY <1>13, <2>1, LocAppend DEF SpawnFails, TreesOK
    <2> QED
      BY <1>6, <1>13, <2>2, SpawnReturnsTyped DEF SpawnFails
  <1>14. CASE GoroutineStep(c)
    <2>1. PICK g \in gor[c] : \/ GoroutineSpawns(c, g) \/ GoroutineAssigns(c, g)
                             \/ GoroutineJudges(c, g) \/ GoroutinePanics(c, g)
      BY <1>14 DEF GoroutineStep
    <2>2. g \in Goroutines /\ gor[c] \subseteq Goroutines
      BY DEF ProcessOK, ProcessTyped
    <2>3. CASE GoroutineSpawns(c, g)
      <3> DEFINE h == [g EXCEPT !.st = "spawning"]
      <3>1. TreesOK'
        BY <2>3 DEF GoroutineSpawns, TreesOK
      <3>2. /\ lock'[c] = "goroutine" /\ sp'[c] = "exists" /\ gor'[c] = (gor[c] \ {g}) \cup {h}
            /\ UNCHANGED <<status, tree, pc, req, called, at, err, done, spAt, spObj, genesis>>
        BY <2>3 DEF GoroutineSpawns, Acquire, TablesOK, Table
      <3>3. h \in Goroutines /\ h.st = "spawning"
        BY <2>2, GoroutineTyped
      <3> HIDE DEF h
      <3> QED
        BY <1>b, <2>2, <2>3, <3>1, <3>2, <3>3 DEF GoroutineSpawns, Acquire, ProcessOK, ProcessTyped, ProcessWorks
    <2>4. CASE GoroutineAssigns(c, g)
      <3> DEFINE h == [g EXCEPT !.st = "judge"]
      <3>1. TreesOK'
        BY <2>4 DEF GoroutineAssigns, TreesOK
      <3>2. /\ gor'[c] = (gor[c] \ {g}) \cup {h} /\ g.st = "assign"
            /\ UNCHANGED <<status, tree, pc, req, called, at, done, lock, sp, spAt, spObj, genesis>>
        BY <2>4 DEF GoroutineAssigns, TablesOK, Table
      <3>3. h \in Goroutines /\ h.st = "judge" /\ g.bad \in BOOLEAN
        BY <2>2, GoroutineTyped DEF Goroutines
      <3>4. called'[c] \in BOOLEAN /\ err'[c] \in BOOLEAN
        <4>1. err' = err \/ err' = [err EXCEPT ![c] = g.bad]
          BY <2>4 DEF GoroutineAssigns
        <4> QED
          BY <1>a, <3>2, <3>3, <4>1, Zenon DEF TablesOK, Table
      <3> HIDE DEF h
      <3>5. ProcessTyped(c)'
        BY <2>2, <3>2, <3>3, <3>4 DEF ProcessOK, ProcessTyped
      <3>6. (\E x \in gor'[c] : x.st = "spawning") <=> (\E x \in gor[c] : x.st = "spawning")
        BY <3>2, <3>3
      <3>7. ProcessWorks(c)'
        BY <3>2, <3>6 DEF ProcessOK, ProcessWorks
      <3> QED
        BY <3>1, <3>5, <3>7 DEF ProcessOK
    <2>5. CASE GoroutineJudges(c, g)
      <3> DEFINE h == [g EXCEPT !.st = "doomed"]
      <3>1. TreesOK'
        BY <2>5 DEF GoroutineJudges, TreesOK
      <3>2. /\ gor'[c] = (gor[c] \ {g}) \cup {h} \/ gor'[c] = gor[c] \ {g}
            /\ g.st = "judge"
            /\ UNCHANGED <<status, tree, pc, req, called, at, err, done, lock, sp, spAt, spObj, genesis>>
        BY <2>5 DEF GoroutineJudges, TablesOK, Table
      <3>3. h \in Goroutines /\ h.st = "doomed"
        BY <2>2, GoroutineTyped
      <3> HIDE DEF h
      <3>5. ProcessTyped(c)'
        BY <1>b, <2>2, <3>2, <3>3 DEF ProcessOK, ProcessTyped
      <3>6. (\E x \in gor'[c] : x.st = "spawning") <=> (\E x \in gor[c] : x.st = "spawning")
        BY <3>2, <3>3
      <3>7. ProcessWorks(c)'
        BY <3>2, <3>6 DEF ProcessOK, ProcessWorks
      <3> QED
        BY <3>1, <3>5, <3>7 DEF ProcessOK
    <2>6. CASE GoroutinePanics(c, g)
      BY <2>6, DiesTyped DEF GoroutinePanics
    <2> QED
      BY <2>1, <2>3, <2>4, <2>5, <2>6
  <1>15. CASE \E m \in asked : Receive(c, m)
    <2>1. PICK m \in asked : Receive(c, m)
      BY <1>15
    <2>2. m \in Request
      BY DEF TreesOK
    <2>3. TreesOK'
      BY <2>1 DEF Receive, TreesOK
    <2>4. /\ pc'[c] = "check" /\ req'[c] = m /\ done'[c] = done[c] \cup {m}
          /\ UNCHANGED <<status, tree, called, at, err, gor, lock, sp, spAt, spObj, genesis>>
      BY <2>1 DEF Receive, TablesOK, Table
    <2> QED
      BY <1>b, <2>1, <2>2, <2>3, <2>4 DEF Receive, ProcessOK, ProcessTyped, ProcessWorks, Handing
  <1>16. ASSUME Return(c), UNCHANGED <<status, tree, done, spawning, genesis>> PROVE ProcessOK(c)'
    BY <1>16, ReturnTyped
  <1>17. ASSUME NEW there \in {"fetch", "remove"}, Step(c, there), pc[c] \in {"check", "fetch"}, at'[c] \in Nat,
                UNCHANGED <<status, tree, done, spawning, genesis>>
         PROVE  ProcessOK(c)'
    <2>1. pc'[c] = there /\ ~called[c] /\ UNCHANGED <<req, called, err, gor>>
      BY <1>17 DEF Step, TablesOK, Table, ProcessOK, ProcessWorks, Handing
    <2> QED
      BY <1>17, <1>b, <2>1 DEF ProcessOK, ProcessTyped, ProcessWorks
  <1>18. ASSUME NEW bad \in BOOLEAN, Called(c, bad), at'[c] \in Nat, tree'[c] \in Nat, status[c] = "up",
                pc[c] \in Handing \ {"send"}, UNCHANGED <<status, done, spawning, genesis>>
         PROVE  ProcessOK(c)'
    <2>1. called'[c] \in BOOLEAN /\ err'[c] \in BOOLEAN
      BY <1>18, Zenon DEF Called, TablesOK, Table
    <2>2. UNCHANGED <<pc, req, gor>>
      BY <1>18 DEF Called
    <2> HIDE DEF Called
    <2> QED
      BY <1>18, <2>1, <2>2 DEF ProcessOK, ProcessTyped, ProcessWorks
  <1>19. CASE CheckRequest(c)
    <2>1. TreesOK'
      BY <1>19 DEF CheckRequest, TreesOK
    <2>2. at[c] \in Nat
      BY DEF ProcessOK, ProcessTyped
    <2> QED
      BY <1>16, <1>17, <1>19, <2>1, <2>2 DEF CheckRequest
  <1>20. CASE FetchLocation(c)
    <2>1. TreesOK'
      BY <1>20 DEF FetchLocation, TreesOK
    <2>2. at'[c] \in Nat
      BY <1>0, <1>20 DEF FetchLocation, TablesOK, Table
    <2> QED
      BY <1>17, <1>20, <2>1, <2>2 DEF FetchLocation
  <1>21. CASE RemoveObject(c)
    <2>1. loc' = loc \/ (Tip < MaxTip /\ \E o \in 0..MaxTip : loc' = Append(loc, o))
      BY <1>0, <1>21 DEF RemoveObject
    <2>2. TreesOK'
      BY <1>21, <2>1, LocAppend DEF RemoveObject, TreesOK
    <2>3. CASE Return(c)
      BY <1>16, <1>21, <2>2, <2>3 DEF RemoveObject
    <2>4. CASE pc' = [pc EXCEPT ![c] = "tree"]
      <3> DEFINE h == Goroutine(c)
      <3>1. /\ gor'[c] = gor[c] \cup {h} /\ pc'[c] = "tree" /\ pc[c] = "remove"
            /\ UNCHANGED <<status, tree, req, called, at, err, done, lock, sp, spAt, spObj, genesis>>
        BY <1>21, <2>4 DEF RemoveObject, Return, TablesOK, Table
      <3>2. h \in Goroutines /\ h.st = "waiting"
        BY <3>1 DEF Goroutine, Goroutines, ProcessOK, ProcessWorks, Request
      <3> HIDE DEF h
      <3>3. ProcessTyped(c)'
        BY <1>b, <3>1, <3>2 DEF ProcessOK, ProcessTyped
      <3>4. (\E x \in gor'[c] : x.st = "spawning") <=> (\E x \in gor[c] : x.st = "spawning")
        BY <3>1, <3>2
      <3>5. ProcessWorks(c)'
        BY <3>1, <3>4 DEF ProcessOK, ProcessWorks, Handing
      <3> QED
        BY <2>2, <3>3, <3>5 DEF ProcessOK
    <2> QED
      BY <1>21, <2>3, <2>4 DEF RemoveObject
  <1>22. CASE CheckErr(c)
    <2>1. TreesOK'
      BY <1>22 DEF CheckErr, TreesOK
    <2>2. CASE Return(c)
      BY <1>16, <1>22, <2>1, <2>2 DEF CheckErr
    <2>3. CASE ~err[c]
      <3>1. called'[c] \in BOOLEAN /\ err'[c] \in BOOLEAN /\ ~called'[c]
        <4>1. called' = [called EXCEPT ![c] = FALSE] /\ err' = err
          BY <1>22, <2>3 DEF CheckErr
        <4> QED
          BY <1>a, <4>1, Zenon DEF TablesOK, Table
      <3>2. /\ pc'[c] = Follows(pc[c]) /\ UNCHANGED <<status, tree, req, at, done, gor, lock, sp, spAt, spObj, genesis>>
        BY <1>22, <2>3 DEF CheckErr, TablesOK, Table
      <3>3. Follows(pc[c]) \in {"tree", "clear", "dress", "tree2", "chown", "track", "send"}
        BY DEF Follows
      <3>4. pc[c] # "idle" /\ pc'[c] # "idle"
        BY <1>22, <3>2, <3>3 DEF CheckErr, ProcessOK, ProcessWorks, Handing
      <3>5. ProcessTyped(c)'
        BY <3>1, <3>2, <3>3 DEF ProcessOK, ProcessTyped
      <3>6. ProcessWorks(c)'
        BY <3>1, <3>2, <3>4 DEF ProcessOK, ProcessWorks
      <3> QED
        BY <2>1, <3>5, <3>6 DEF ProcessOK
    <2> QED
      BY <1>22, <2>2, <2>3 DEF CheckErr
  <1>23. CASE NilPanics(c)
    <2>1. TreesOK'
      BY <1>23 DEF NilPanics, TreesOK
    <2> QED
      BY <1>16, <1>23, <2>1 DEF NilPanics
  <1>24. pc[c] # "idle" => status[c] = "up" /\ req[c].obj \in Object /\ obj[req[c].obj].at \in Nat
    BY DEF ProcessOK, ProcessWorks, ProcessTyped, Request, TreesOK, ObjectRecord
  <1>25. CASE GetObject(c)
    <2>1. TreesOK'
      BY <1>25 DEF GetObject, TreesOK
    <2>2. pc[c] # "idle" /\ pc[c] \in Handing \ {"send"} /\ Called(c, FALSE)
      BY <1>25 DEF GetObject, At, Handing
    <2>3. at'[c] \in Nat /\ tree'[c] \in Nat
      BY <1>24, <1>25, <2>2 DEF GetObject, TablesOK, Table, ProcessOK, ProcessTyped
    <2>4. UNCHANGED <<status, done, spawning, genesis>>
      BY <1>25 DEF GetObject
    <2> QED
      BY <1>18, <1>24, <2>1, <2>2, <2>3, <2>4
  <1>26. tree[c] \in Nat /\ at[c] \in Nat
    BY DEF ProcessOK, ProcessTyped
  <1>27. CASE CallReturns(c)
    <2>1. /\ pc[c] # "idle" /\ pc[c] \in Handing \ {"send"}
          /\ Called(c, FALSE) /\ Play(c) /\ UNCHANGED <<loc, outside>>
      BY <1>27 DEF CallReturns, Playing, Handing
    <2>2. TreesOK'
      BY <2>1, PlayTyped DEF TreesOK
    <2>3. at'[c] \in Nat /\ tree'[c] \in Nat
      BY <1>26, <1>27 DEF CallReturns, TablesOK, Table
    <2>4. UNCHANGED <<status, done, spawning, genesis>>
      BY <1>27 DEF CallReturns
    <2> QED
      BY <1>18, <1>24, <2>1, <2>2, <2>3, <2>4
  <1>28. ASSUME CallErrs(c) PROVE at'[c] \in Nat /\ tree'[c] \in Nat
    BY <1>26, <1>28 DEF CallErrs, TablesOK, Table
  <1>29. CASE CallRefused(c)
    <2>1. TreesOK'
      BY <1>29 DEF CallRefused, CallErrs, TreesOK
    <2>2. /\ pc[c] # "idle" /\ pc[c] \in Handing \ {"send"}
          /\ Called(c, TRUE) /\ CallErrs(c) /\ UNCHANGED <<status, done, spawning, genesis>>
      BY <1>29 DEF CallRefused, CallErrs, Playing, Handing
    <2> QED
      BY <1>18, <1>24, <1>28, <2>1, <2>2
  <1>30. CASE CallFails(c)
    <2>1. /\ pc[c] # "idle" /\ pc[c] \in Handing \ {"send"}
          /\ Called(c, TRUE) /\ CallErrs(c) /\ UNCHANGED <<status, done, spawning, genesis, loc, outside>>
          /\ Play(c) \/ UNCHANGED <<obj, ledger, blocks>>
      BY <1>30 DEF CallFails, CallErrs, Playing, At, Handing
    <2>2. TreesOK'
      BY <2>1, PlayTyped DEF TreesOK
    <2> QED
      BY <1>18, <1>24, <1>28, <2>1, <2>2
  <1>31. CASE EarlyFails(c)
    <2>1. loc' = loc \/ (Tip < MaxTip /\ \E o \in 0..MaxTip : loc' = Append(loc, o))
      BY <1>0, <1>31 DEF EarlyFails
    <2>2. TreesOK'
      BY <1>31, <2>1, LocAppend DEF EarlyFails, TreesOK
    <2> QED
      BY <1>16, <1>31, <2>2 DEF EarlyFails
  <1>32. CASE Send(c)
    <2>1. req[c] \in Request /\ Return(c) /\ UNCHANGED <<status, tree, done, spawning, genesis>>
      BY <1>32 DEF Send, At, ProcessOK, ProcessWorks
    <2>2. TreesOK'
      BY <1>32, <2>1 DEF Send, TreesOK
    <2> QED
      BY <1>16, <2>1, <2>2
  <1> QED
    BY <1>1, <1>2, <1>3, <1>4, <1>7, <1>8, <1>10, <1>11, <1>12, <1>13, <1>14, <1>15, <1>19, <1>20, <1>21,
       <1>22, <1>23, <1>25, <1>27, <1>29, <1>30, <1>31, <1>32, <1>33, <1>34, <1>35
       DEF ProcessStep, SpawnStep, HandOutStep, Importing

\* Every step keeps the types.
LEMMA NextTypes ==
    ASSUME TypesOK, [Next]_vars
    PROVE  TypesOK'
  <1>1. TreesOK /\ TablesOK /\ \A c \in Court : ProcessOK(c)
    BY TypesSplit
  <1>a. (TreesOK /\ TablesOK /\ \A c \in Court : ProcessOK(c))' => TypesOK'
    BY TypesSplit, PTL
  <1>2. SUFFICES TreesOK' /\ TablesOK' /\ \A c \in Court : ProcessOK(c)'
    BY <1>a
  <1>3. ASSUME NEW c \in Court, ProcessStep(c)
        PROVE  TreesOK' /\ TablesOK' /\ \A d \in Court : ProcessOK(d)'
    BY <1>1, <1>3, OneMoves, ProcessTypes, RestsTyped
  <1>4. ASSUME UNCHANGED <<status, tree, handing, gor, spawning, genesis>>, TreesOK'
        PROVE  TreesOK' /\ TablesOK' /\ \A d \in Court : ProcessOK(d)'
    <2>1. TablesOK' /\ \A d \in Court : Rests(d)
      BY <1>1, <1>4 DEF TablesOK, Table, Rests, handing, spawning
    <2> QED
      BY <1>1, <1>4, <2>1, RestsTyped
  <1>5. ASSUME NEW p \in Player, Ask(p)
        PROVE  TreesOK'
    <2>1. Current \in Object
      BY <1>1, <1>5, CurrentTyped DEF TreesOK, Ask, Object
    <2> QED
      BY <1>1, <1>5, <2>1 DEF TreesOK, Ask, Request, trees
  <1>6. ASSUME NEW m \in sent, Land(m)
        PROVE  TreesOK'
    BY <1>1, <1>6 DEF TreesOK, Land, Request, trees
  <1>7. CASE UNCHANGED vars
    BY <1>1, <1>4, <1>7 DEF vars, TreesOK, trees, outside
  <1>8. CASE Next
    <2>1. \/ \E c \in Court : ProcessStep(c)
          \/ \E p \in Player : Ask(p)
          \/ \E m \in sent : Land(m)
      BY <1>8 DEF Next, ProcessStep
    <2>2. ASSUME NEW p \in Player, Ask(p) PROVE UNCHANGED <<status, tree, handing, gor, spawning, genesis>>
      BY <2>2 DEF Ask
    <2>3. ASSUME NEW m \in sent, Land(m) PROVE UNCHANGED <<status, tree, handing, gor, spawning, genesis>>
      BY <2>3 DEF Land
    <2> QED
      BY <1>3, <1>4, <1>5, <1>6, <2>1, <2>2, <2>3
  <1> QED
    BY <1>7, <1>8

\* The court starts with an empty location and no process.
LEMMA InitFresh == Init => FreshIInv
  <1> SUFFICES ASSUME Init PROVE FreshIInv
    OBVIOUS
  <1>1. loc \in Seq(0..MaxTip) /\ Len(loc) = 1 /\ loc[1] = 0
    BY DEF Init
  <1>2. TreesOK
    BY <1>1 DEF Init, TreesOK, ObjectRecord, Written, Object
  <1>3. TablesOK
    BY DEF Init, TablesOK, Table
  <1>4. ASSUME NEW c \in Court PROVE ProcessOK(c)
    <2>1. called[c] \in BOOLEAN /\ err[c] \in BOOLEAN /\ ~called[c]
      BY Zenon DEF Init
    <2>2. ProcessTyped(c)
      BY <2>1 DEF Init, ProcessTyped
    <2>3. ProcessWorks(c)
      BY <2>1 DEF Init, ProcessWorks, Request, Object
    <2> QED
      BY <2>2, <2>3 DEF ProcessOK
  <1>5. TypesOK
    BY <1>2, <1>3, <1>4, TypesSplit
  <1>6. SpawnAtOK /\ ResetIsDue /\ AskedIsOlder /\ HandedOutIsGone /\ CurrentIsOffered
    BY <1>1 DEF Init, SpawnAtOK, ResetIsDue, AskedIsOlder, HandedOutIsGone, CurrentIsOffered, Current, Tip,
                Handing, Object
  <1> QED
    BY <1>5, <1>6 DEF FreshIInv, TypesOK

-----------------------------------------------------------------------------
(***************************************************************************)
(* The object at the location: any processes, faults, crashes.             *)
(***************************************************************************)

\* What FreshIInv says of the chaintrees and of each half of a process.
SharedFresh ==
    /\ Current < Tip
    /\ \A m \in asked : m.obj < Tip
    /\ \A o \in Object : o >= Tip => obj[o].owner = "court"
    /\ CurrentIsOffered

SpawnFresh(c) ==
    /\ sp[c] \in Spawning => spAt[c] \in 1..Tip
    /\ sp[c] = "add" /\ spAt[c] = Tip => obj[Tip].hash = "spawn"
    /\ sp[c] = "reset" => \/ spObj[c] < obj[spAt[c]].at
                          \/ spObj[c] = obj[spAt[c]].at /\ obj[spAt[c]].hash # "spawn"

HandFresh(c) ==
    /\ pc[c] # "idle" => req[c].obj < Tip
    /\ pc[c] \in Handing => req[c].obj # Current
    /\ pc[c] = "remove" => /\ at[c] \in 1..Tip
                           /\ loc[at[c]] = req[c].obj \/ Current # req[c].obj

\* FreshIInv, taken apart.
LEMMA FreshSplit ==
    FreshIInv <=> /\ TypesOK /\ SharedFresh
                  /\ \A c \in Court : SpawnFresh(c) /\ HandFresh(c)
  BY DEF FreshIInv, TypesOK, SharedFresh, SpawnFresh, HandFresh, SpawnAtOK, ResetIsDue, AskedIsOlder,
         HandedOutIsGone

\* What steps do to the location: nothing, or one block that lists nothing, what was
\* there, or the object named after the tip, which has its hash and belongs to the court.
LocationMoves ==
    \/ loc' = loc
    \/ /\ Tip < MaxTip
       /\ \E x \in {0, Current, Tip} :
             /\ loc' = Append(loc, x)
             /\ x = Tip => obj[Tip].hash = "spawn" /\ obj[Tip].owner = "court"

\* What steps do to the objects: every block is on top of the one before, and the
\* object at the location and those not spawned yet keep their owner and a hash.
FreshObjectsStay ==
    \A u \in Object :
        /\ obj'[u] = obj[u] \/ obj[u].at < obj'[u].at
        /\ u >= Tip \/ u = Current =>
              /\ obj'[u].owner = obj[u].owner
              /\ obj[u].hash = "spawn" => obj'[u].hash = "spawn"

\* The effect of LocationMoves on the tip and on what the location lists.
LEMMA LocationAfter ==
    ASSUME TreesOK, LocationMoves
    PROVE  /\ \/ Tip' = Tip /\ Current' = Current
              \/ /\ Tip' = Tip + 1 /\ Tip < MaxTip /\ Current' \in {0, Current, Tip}
                 /\ Current' = Tip => obj[Tip].hash = "spawn" /\ obj[Tip].owner = "court"
           /\ \A k \in 1..Tip : loc'[k] = loc[k]
           /\ Tip \in 1..MaxTip /\ Current \in 0..MaxTip
  <1>1. Tip \in 1..MaxTip /\ Current \in 0..MaxTip
    BY CurrentTyped DEF TreesOK
  <1>2. CASE loc' = loc
    BY <1>1, <1>2 DEF Tip, Current
  <1>3. ASSUME Tip < MaxTip, NEW x \in {0, Current, Tip}, loc' = Append(loc, x),
               x = Tip => obj[Tip].hash = "spawn" /\ obj[Tip].owner = "court"
        PROVE  /\ Tip' = Tip + 1 /\ Current' = x
               /\ \A k \in 1..Tip : loc'[k] = loc[k]
    <2>1. x \in 0..MaxTip
      BY <1>1
    <2> QED
      BY <1>3, <2>1, LocAppend DEF TreesOK
  <1> QED
    BY <1>1, <1>2, <1>3 DEF LocationMoves

\* An object that is listed again or for the first time can be won.
LEMMA SharedStaysFresh ==
    ASSUME TreesOK, SharedFresh, LocationMoves, FreshObjectsStay,
           \A m \in asked' : m \in asked \/ m.obj = Current
    PROVE  SharedFresh'
  <1>1. \A m \in asked : m.obj \in Object
    BY DEF TreesOK, Request
  <1>2. (Current < Tip)' /\ (\A m \in asked : m.obj < Tip)'
    BY <1>1, LocationAfter DEF SharedFresh, Object
  <1>3. \A o \in Object : o >= Tip' => obj'[o].owner = "court"
    BY LocationAfter DEF SharedFresh, FreshObjectsStay, Object
  <1>4. CurrentIsOffered'
    BY LocationAfter DEF SharedFresh, CurrentIsOffered, FreshObjectsStay, Object
  <1> QED
    BY <1>2, <1>3, <1>4 DEF SharedFresh

\* A respawn that rests still has its handle; one that is overtaken will be refused.
LEMMA SpawnStaysFresh ==
    ASSUME TreesOK, SharedFresh, LocationMoves, FreshObjectsStay, NEW c \in Court, ProcessOK(c),
           SpawnFresh(c), sp'[c] = sp[c], spAt'[c] = spAt[c], spObj'[c] = spObj[c], TreesOK'
    PROVE  SpawnFresh(c)'
  <1>1. (sp[c] \in Spawning => spAt[c] \in 1..Tip)'
    BY LocationAfter DEF SpawnFresh
  <1>2. (sp[c] = "add" /\ spAt[c] = Tip => obj[Tip].hash = "spawn")'
    BY LocationAfter DEF SpawnFresh, FreshObjectsStay, Object
  <1>3. ASSUME sp[c] = "reset"
        PROVE  \/ spObj[c] < obj'[spAt[c]].at
               \/ spObj[c] = obj'[spAt[c]].at /\ obj'[spAt[c]].hash # "spawn"
    <2>1. spAt[c] \in Object /\ spObj[c] \in Nat
      BY <1>3 DEF ProcessOK, ProcessTyped, ProcessWorks
    <2>2. obj[spAt[c]].at \in Nat /\ obj'[spAt[c]].at \in Nat
      BY <2>1 DEF TreesOK, ObjectRecord
    <2>3. obj'[spAt[c]] = obj[spAt[c]] \/ obj[spAt[c]].at < obj'[spAt[c]].at
      BY <2>1 DEF FreshObjectsStay
    <2> QED
      BY <1>3, <2>1, <2>2, <2>3 DEF SpawnFresh
  <1> QED
    BY <1>1, <1>2, <1>3 DEF SpawnFresh

\* An object that has left the location stays away: what is listed is what was there
\* or the object named after the tip, which is younger than what was asked for.
LEMMA HandStaysFresh ==
    ASSUME TreesOK, SharedFresh, LocationMoves, NEW c \in Court, ProcessOK(c), HandFresh(c),
           \/ pc'[c] = "idle"
           \/ /\ req'[c] = req[c]
              /\ \/ pc'[c] = pc[c] /\ at'[c] = at[c]
                 \/ pc[c] \in Handing /\ pc'[c] \in Handing
    PROVE  HandFresh(c)'
  <1>1. pc[c] # "idle" => req[c].obj \in Object
    BY DEF ProcessOK, ProcessWorks, Request
  <1>2. CASE pc'[c] = "idle"
    BY <1>2 DEF HandFresh, Handing
  <1>3. CASE pc'[c] # "idle"
    <2>1. pc[c] # "idle" /\ req'[c] = req[c]
      BY <1>3 DEF Handing
    <2>2. req[c].obj < Tip /\ req[c].obj < Tip'
      BY <1>1, <2>1, LocationAfter DEF HandFresh, Object
    <2>3. req[c].obj # Current => req[c].obj # Current'
      BY <1>1, <2>1, <2>2, LocationAfter DEF HandFresh, Object
    <2>4. (pc[c] = "remove" => at[c] \in 1..Tip)'
      BY <1>3, LocationAfter DEF HandFresh, Handing
    <2>5. (pc[c] = "remove" => loc[at[c]] = req[c].obj \/ Current # req[c].obj)'
      <3>1. SUFFICES ASSUME pc'[c] = "remove"
                     PROVE  loc'[at'[c]] = req'[c].obj \/ Current' # req'[c].obj
        OBVIOUS
      <3>2. pc[c] = "remove" /\ at'[c] = at[c]
        BY <1>3, <3>1 DEF Handing
      <3>3. at[c] \in 1..Tip /\ loc'[at[c]] = loc[at[c]]
        BY <3>2, LocationAfter DEF HandFresh
      <3> QED
        BY <2>1, <2>3, <3>2, <3>3 DEF HandFresh
    <2>6. (pc[c] # "idle" => req[c].obj < Tip)'
      BY <2>1, <2>2
    <2>7. (pc[c] \in Handing => req[c].obj # Current)'
      BY <1>3, <2>1, <2>3 DEF HandFresh
    <2> QED
      BY <2>4, <2>5, <2>6, <2>7 DEF HandFresh
  <1> QED
    BY <1>2, <1>3

\* A block on an object that has left the location leaves the others alone.
LEMMA PlayElsewhere ==
    ASSUME TreesOK, SharedFresh, NEW c \in Court, ProcessOK(c), HandFresh(c), Playing(c), Play(c)
    PROVE  FreshObjectsStay /\ \A u \in Object : u >= Tip \/ u = Current => obj'[u] = obj[u]
  <1>1. req[c].obj \in Object /\ req[c].player \in Player
    BY DEF ProcessOK, ProcessWorks, Request, Playing
  <1>2. req[c].obj < Tip /\ req[c].obj # Current
    BY DEF HandFresh, Handing, Playing
  <1>3. obj \in [Object -> ObjectRecord]
    BY DEF TreesOK
  <1>4. \/ obj' = obj
        \/ obj' = [obj EXCEPT ![req[c].obj].data = "none", ![req[c].obj].at = @ + 1]
        \/ obj' = [obj EXCEPT ![req[c].obj].data = "prize", ![req[c].obj].hash = "prize",
                              ![req[c].obj].at = @ + 1]
        \/ obj' = [obj EXCEPT ![req[c].obj].owner = req[c].player, ![req[c].obj].at = @ + 1]
    BY DEF Play
  <1>5. /\ \A u \in Object \ {req[c].obj} : obj'[u] = obj[u]
        /\ obj' = obj \/ obj'[req[c].obj].at = obj[req[c].obj].at + 1
    <2>1. req[c].player \in Player \cup {"court"}
      BY <1>1
    <2> QED
      BY <1>1, <1>3, <1>4, <2>1, ObjectBlock DEF Becomes
  <1>7. \A u \in Object : obj'[u] = obj[u] \/ obj[u].at < obj'[u].at
    <2>1. obj[req[c].obj].at \in Nat
      BY <1>1, <1>3 DEF ObjectRecord
    <2> QED
      BY <1>5, <2>1
  <1>6. \A u \in Object : u >= Tip => u # req[c].obj
    BY <1>2, CurrentTyped DEF TreesOK, Object
  <1> QED
    BY <1>2, <1>5, <1>6, <1>7 DEF FreshObjectsStay

\* Processes do not ask for objects.
LEMMA AskedStays == ASSUME NEW c \in Court, ProcessStep(c) PROVE UNCHANGED asked
  <1> USE DEF outside
  <1>1. CASE GoroutineStep(c)
    BY <1>1 DEF GoroutineStep, GoroutineSpawns, GoroutineAssigns, GoroutineJudges, GoroutinePanics, Dies
  <1>2. CASE SpawnStep(c)
    BY <1>2 DEF SpawnStep, SpawnExists, SpawnGet, SpawnMake, SpawnChown, SpawnDress, SpawnReset, SpawnData,
                SpawnAgain, SpawnHash, SpawnPlays, SpawnAdd
  <1>3. CASE HandOutStep(c)
    BY <1>3 DEF HandOutStep, CheckRequest, FetchLocation, RemoveObject, CheckErr, NilPanics, GetObject,
                CallReturns, CallRefused, CallErrs, Send
  <1> QED
    BY <1>1, <1>2, <1>3 DEF ProcessStep, Setup, Serve, Crash, Dies, Tick, SpawnFails, Receive, EarlyFails,
                            CallFails, CallErrs

\* What a step of a process does to the location and the objects, and to its own half
\* of FreshIInv.
LEMMA ProcessFresh ==
    ASSUME TreesOK, TablesOK, SharedFresh, NEW c \in Court, ProcessOK(c), SpawnFresh(c), HandFresh(c),
           ProcessStep(c)
    PROVE  LocationMoves /\ FreshObjectsStay /\ SpawnFresh(c)' /\ HandFresh(c)'
  <1> DEFINE Goal == LocationMoves /\ FreshObjectsStay /\ SpawnFresh(c)' /\ HandFresh(c)'
  <1> USE DEF outside, trees, handing, spawning
  <1>0. Current \in 0..MaxTip /\ Tip \in 1..MaxTip /\ obj \in [Object -> ObjectRecord]
    BY CurrentTyped DEF TreesOK
  <1>1. ASSUME UNCHANGED obj PROVE FreshObjectsStay
    BY <1>1 DEF FreshObjectsStay
  <1>t. TreesOK'
    BY ProcessTypes
  <1>o. \A u \in Object : obj[u].at \in Nat
    BY <1>0 DEF ObjectRecord
  <1>2. ASSUME UNCHANGED loc PROVE LocationMoves
    BY <1>2 DEF LocationMoves
  <1>3. ASSUME LocationMoves, FreshObjectsStay, UNCHANGED <<sp, spAt, spObj>> PROVE SpawnFresh(c)'
    BY <1>3, <1>t, SpawnStaysFresh
  <1>4. ASSUME sp'[c] \in {"idle", "exists", "get"} PROVE SpawnFresh(c)'
    BY <1>4 DEF SpawnFresh
  <1>5. ASSUME LocationMoves, UNCHANGED handing PROVE HandFresh(c)'
    BY <1>5, HandStaysFresh
  <1>6. ASSUME LocationMoves, pc'[c] = "idle" PROVE HandFresh(c)'
    BY <1>6, HandStaysFresh
  <1>7. ASSUME LocationMoves, UNCHANGED req, pc[c] \in Handing, pc'[c] \in Handing PROVE HandFresh(c)'
    BY <1>7, HandStaysFresh
  <1>8. ASSUME Dies(c) PROVE Goal
    <2>1. UNCHANGED <<obj, loc>> /\ sp'[c] = "idle" /\ pc'[c] = "idle"
      BY <1>8 DEF Dies, TablesOK, Table
    <2> QED
      BY <1>1, <1>2, <1>4, <1>6, <2>1
  <1>9. ASSUME NEW bad \in BOOLEAN, SpawnReturns(c, bad) PROVE SpawnFresh(c)'
    <2>1. sp'[c] = "idle"
      BY <1>9 DEF SpawnReturns, TablesOK, Table
    <2> QED
      BY <1>4, <2>1
  <1>10. ASSUME Return(c), LocationMoves PROVE HandFresh(c)'
    <2>1. pc'[c] = "idle"
      BY <1>10 DEF Return, TablesOK, Table
    <2> QED
      BY <1>6, <1>10, <2>1
  <1>11. CASE Setup(c)
    <2>1. LocationMoves
      BY <1>0, <1>11 DEF Setup, LocationMoves, SharedFresh, Object
    <2>2. sp'[c] = "exists" /\ UNCHANGED <<obj, handing>>
      BY <1>11 DEF Setup, TablesOK, Table
    <2> QED
      BY <1>1, <1>4, <1>5, <2>1, <2>2
  <1>12. CASE Serve(c)
    BY <1>1, <1>2, <1>3, <1>5, <1>12 DEF Serve
  <1>13. CASE Crash(c)
    BY <1>8, <1>13 DEF Crash
  <1>14. ASSUME NEW who, Acquire(c, who), UNCHANGED <<loc, obj, handing>> PROVE Goal
    <2>1. sp'[c] = "exists"
      BY <1>14 DEF Acquire, TablesOK, Table
    <2> QED
      BY <1>1, <1>2, <1>4, <1>5, <1>14, <2>1
  <1>15. CASE Tick(c)
    BY <1>14, <1>15 DEF Tick
  <1>16. CASE SpawnExists(c)
    <2>1. CASE Current # 0
      BY <1>1, <1>2, <1>5, <1>9, <1>16, <2>1 DEF SpawnExists
    <2>2. CASE Current = 0
      <3>1. sp'[c] = "get"
        BY <1>16, <2>2 DEF SpawnExists, SpawnGoto, TablesOK, Table
      <3> QED
        BY <1>1, <1>2, <1>4, <1>5, <1>16, <3>1 DEF SpawnExists
    <2> QED
      BY <2>1, <2>2
  <1>17. CASE SpawnGet(c)
    <2>1. sp'[c] = "make" /\ spAt'[c] = Tip /\ UNCHANGED <<loc, obj, handing>>
      BY <1>17 DEF SpawnGet, SpawnGoto, TablesOK, Table
    <2>2. LocationMoves
      BY <1>2, <2>1
    <2>3. SpawnFresh(c)'
      BY <2>1, <2>2, LocationAfter DEF SpawnFresh
    <2> QED
      BY <1>1, <1>5, <2>1, <2>2, <2>3
  <1>s. sp[c] \in Spawning => spAt[c] \in Object /\ spAt[c] \in 1..Tip
    BY DEF ProcessOK, ProcessWorks, SpawnFresh
  <1>18. CASE SpawnMake(c)
    <2>1. sp[c] = "make" /\ UNCHANGED <<loc, obj, spAt, handing>>
      BY <1>18 DEF SpawnMake
    <2>2. sp'[c] \in {"dress", "chown"}
      BY <1>18 DEF SpawnMake, SpawnGoto, TablesOK, Table
    <2>3. SpawnFresh(c)'
      BY <1>2, <2>1, <2>2, LocationAfter DEF SpawnFresh
    <2> QED
      BY <1>1, <1>2, <1>5, <2>1, <2>3
  <1>38. CASE SpawnChown(c)
    <2>1. sp[c] = "chown" /\ UNCHANGED <<loc, handing>>
      BY <1>38 DEF SpawnChown
    <2>2. CASE SpawnReturns(c, TRUE) /\ UNCHANGED obj
      BY <1>1, <1>2, <1>5, <1>9, <2>1, <2>2
    <2>3. CASE obj[spAt[c]].at = 0 /\ obj' = [obj EXCEPT ![spAt[c]].at = 1] /\ SpawnGoto(c, "dress") /\ UNCHANGED spAt
      <3>1. Becomes(spAt[c], obj[spAt[c]].data, obj[spAt[c]].hash, obj[spAt[c]].owner, 1)
        <4>1. "court" \in Player \cup {"court"}
          OBVIOUS
        <4> QED
          BY <1>0, <1>s, <2>1, <2>3, <4>1, ObjectBlock
      <3>2. FreshObjectsStay
        BY <2>3, <3>1 DEF FreshObjectsStay, Becomes
      <3>3. sp'[c] = "dress" /\ spAt'[c] = spAt[c]
        BY <2>3 DEF SpawnGoto, TablesOK, Table
      <3>4. SpawnFresh(c)'
        BY <1>2, <2>1, <3>3, LocationAfter DEF SpawnFresh
      <3> QED
        BY <1>2, <1>5, <2>1, <3>2, <3>4
    <2> QED
      BY <1>38, <2>2, <2>3 DEF SpawnChown
  <1>19. CASE SpawnDress(c)
    <2>1. /\ sp[c] = "dress" /\ UNCHANGED <<loc, obj, spAt, handing>>
          /\ \/ sp'[c] = "add" /\ obj[spAt[c]].hash = "spawn"
             \/ sp'[c] = "reset" /\ obj[spAt[c]].hash # "spawn" /\ spObj'[c] = obj[spAt[c]].at
      BY <1>19 DEF SpawnDress, SpawnGoto, TablesOK, Table
    <2>2. SpawnFresh(c)'
      BY <1>2, <1>s, <2>1, LocationAfter DEF SpawnFresh
    <2> QED
      BY <1>1, <1>2, <1>5, <2>1, <2>2
  <1>39. CASE SpawnAgain(c)
    <2>1. sp[c] = "again" /\ sp'[c] = "hash" /\ UNCHANGED <<loc, obj, spAt, handing>>
      BY <1>39 DEF SpawnAgain, SpawnGoto, TablesOK, Table
    <2>2. SpawnFresh(c)'
      BY <1>2, <2>1, LocationAfter DEF SpawnFresh
    <2> QED
      BY <1>1, <1>2, <1>5, <2>1, <2>2
  <1>40. CASE Importing(c)
    <2>1. spAt[c] \in Object /\ spAt[c] \in 1..Tip
      BY <1>s, <1>40 DEF Importing, SpawnReset, SpawnData, SpawnHash
    <2>2. UNCHANGED <<loc, handing>>
      BY <1>0, <1>40, <2>1, ImportBlocks
    <2>3. CASE BlockRefused(c)
      BY <1>1, <1>2, <1>5, <1>9, <2>2, <2>3 DEF BlockRefused
    <2>4. ASSUME NEW d, NEW h, NEW there \in Dressing \ {"dress", "reset"}, PlaysBlock(c, d, h, there),
                 obj[spAt[c]].hash = "spawn" => h = "spawn",
                 there = "add" => h = "spawn"
          PROVE  Goal
      <3>1. FreshObjectsStay
        BY <1>o, <2>1, <2>4 DEF PlaysBlock, Becomes, FreshObjectsStay
      <3>2. sp'[c] = there /\ spAt'[c] = spAt[c] /\ obj'[spAt[c]].hash = h
        BY <2>4 DEF PlaysBlock, Becomes, SpawnGoto, TablesOK, Table
      <3>3. SpawnFresh(c)'
        BY <1>2, <2>1, <2>2, <2>4, <3>2, LocationAfter DEF SpawnFresh
      <3> QED
        BY <1>2, <1>5, <2>2, <3>1, <3>3
    <2>5. CASE SpawnReset(c)
      <3>1. BlockRefused(c) \/ PlaysBlock(c, "none", "none", "data")
        BY <1>0, <2>1, <2>5, SpawnBlocks
      <3>2. PlaysBlock(c, "none", "none", "data") => obj[spAt[c]].hash # "spawn"
        BY <1>o, <2>1, <2>5 DEF SpawnReset, PlaysBlock, SpawnFresh
      <3> QED
        BY <2>3, <2>4, <3>1, <3>2
    <2>6. CASE SpawnData(c)
      <3>1. BlockRefused(c) \/ PlaysBlock(c, "spawn", obj[spAt[c]].hash, "again")
        BY <1>0, <2>1, <2>6, SpawnBlocks
      <3> QED
        BY <2>3, <2>4, <3>1
    <2>7. CASE SpawnHash(c)
      <3>1. BlockRefused(c) \/ PlaysBlock(c, obj[spAt[c]].data, "spawn", "add")
        BY <1>0, <2>1, <2>7, SpawnBlocks
      <3> QED
        BY <2>3, <2>4, <3>1
    <2> QED
      BY <1>40, <2>5, <2>6, <2>7 DEF Importing
  <1>20. ASSUME sp[c] = "add", spAt[c] = Tip, Tip < MaxTip,
                \E o \in {spAt[c], Current} \ {0} : loc' = Append(loc, o)
         PROVE  LocationMoves
    BY <1>0, <1>20 DEF LocationMoves, SpawnFresh, SharedFresh, Object
  <1>21. CASE SpawnAdd(c)
    <2>1. LocationMoves /\ UNCHANGED <<obj, handing>>
      BY <1>2, <1>20, <1>21 DEF SpawnAdd
    <2>2. \E bad \in BOOLEAN : SpawnReturns(c, bad)
      BY <1>21 DEF SpawnAdd
    <2> QED
      BY <1>1, <1>5, <1>9, <2>1, <2>2
  <1>22. CASE SpawnFails(c)
    <2>1. UNCHANGED <<obj, handing>> /\ SpawnReturns(c, TRUE)
      BY <1>22 DEF SpawnFails
    <2>2. LocationMoves
      <3>1. CASE UNCHANGED loc
        BY <1>2, <3>1
      <3>2. CASE sp[c] = "add" /\ spAt[c] = Tip /\ Tip < MaxTip /\ loc' = Append(loc, spAt[c])
        <4>1. spAt[c] \in {spAt[c], Current} \ {0}
          BY <1>0, <3>2
        <4> QED
          BY <1>20, <3>2, <4>1
      <3> QED
        BY <1>22, <3>1, <3>2 DEF SpawnFails
    <2> QED
      BY <1>1, <1>5, <1>9, <2>1, <2>2
  <1>23. CASE GoroutineStep(c)
    <2>1. PICK g \in gor[c] : \/ GoroutineSpawns(c, g) \/ GoroutineAssigns(c, g)
                             \/ GoroutineJudges(c, g) \/ GoroutinePanics(c, g)
      BY <1>23 DEF GoroutineStep
    <2>2. CASE GoroutineSpawns(c, g)
      BY <1>14, <2>2 DEF GoroutineSpawns
    <2>3. CASE GoroutineAssigns(c, g)
      <3>1. UNCHANGED <<loc, obj, sp, spAt, spObj, pc, req, at>>
        BY <2>3 DEF GoroutineAssigns
      <3>2. LocationMoves /\ FreshObjectsStay /\ SpawnFresh(c)'
        BY <1>1, <1>2, <1>3, <3>1
      <3>3. HandFresh(c)'
        BY <3>1, <3>2, HandStaysFresh
      <3> QED
        BY <3>2, <3>3
    <2>4. CASE GoroutineJudges(c, g)
      BY <1>1, <1>2, <1>3, <1>5, <2>4 DEF GoroutineJudges
    <2>5. CASE GoroutinePanics(c, g)
      BY <1>8, <2>5 DEF GoroutinePanics
    <2> QED
      BY <2>1, <2>2, <2>3, <2>4, <2>5
  <1>24. CASE \E m \in asked : Receive(c, m)
    <2>1. PICK m \in asked : Receive(c, m)
      BY <1>24
    <2>2. pc'[c] = "check" /\ req'[c] = m /\ UNCHANGED <<loc, obj, sp, spAt, spObj>>
      BY <2>1 DEF Receive, TablesOK, Table
    <2>3. LocationMoves /\ FreshObjectsStay /\ SpawnFresh(c)'
      BY <1>1, <1>2, <1>3, <2>2
    <2>4. m.obj < Tip /\ Tip' = Tip
      BY <2>2 DEF SharedFresh, Tip
    <2>5. HandFresh(c)'
      BY <2>2, <2>4 DEF HandFresh, Handing
    <2> QED
      BY <2>3, <2>5
  <1>25. CASE CheckRequest(c)
    <2>1. LocationMoves /\ FreshObjectsStay /\ SpawnFresh(c)'
      BY <1>1, <1>2, <1>3, <1>25 DEF CheckRequest
    <2>2. CASE Return(c)
      BY <1>10, <2>1, <2>2
    <2>3. CASE Step(c, "fetch") /\ UNCHANGED at
      <3>1. pc'[c] = "fetch" /\ req'[c] = req[c] /\ pc[c] = "check" /\ Tip' = Tip
        BY <1>25, <2>3 DEF CheckRequest, Step, TablesOK, Table, Tip
      <3>2. HandFresh(c)'
        BY <3>1 DEF HandFresh, Handing
      <3> QED
        BY <2>1, <3>2
    <2> QED
      BY <1>25, <2>2, <2>3 DEF CheckRequest
  <1>26. CASE FetchLocation(c)
    <2>1. LocationMoves /\ FreshObjectsStay /\ SpawnFresh(c)'
      BY <1>1, <1>2, <1>3, <1>26 DEF FetchLocation
    <2>2. /\ pc'[c] = "remove" /\ req'[c] = req[c] /\ pc[c] = "fetch" /\ at'[c] = Tip
          /\ Tip' = Tip /\ Current' = Current /\ loc' = loc
      BY <1>26 DEF FetchLocation, Step, TablesOK, Table, Tip, Current
    <2>3. HandFresh(c)'
      BY <1>0, <2>2 DEF HandFresh, Handing, Current, Tip
    <2> QED
      BY <2>1, <2>3
  <1>27. CASE RemoveObject(c)
    <2>1. LocationMoves
      BY <1>0, <1>27 DEF RemoveObject, LocationMoves
    <2>2. FreshObjectsStay /\ SpawnFresh(c)'
      BY <1>1, <1>3, <1>27, <2>1 DEF RemoveObject
    <2>3. CASE Return(c)
      BY <1>10, <2>1, <2>2, <2>3
    <2>4. CASE ~Return(c)
      <3>1. /\ pc'[c] = "tree" /\ req'[c] = req[c] /\ pc[c] = "remove"
            /\ loc[at[c]] = req[c].obj => Tip < MaxTip
            /\ loc' = IF loc[at[c]] = req[c].obj THEN Append(loc, 0) ELSE loc
        BY <1>27, <2>4 DEF RemoveObject, TablesOK, Table
      <3>2. req[c].obj \in Object /\ req[c].obj < Tip
        BY <3>1 DEF ProcessOK, ProcessWorks, Request, HandFresh
      <3>3. CASE loc[at[c]] = req[c].obj
        <4>1. Tip' = Tip + 1 /\ Current' = 0
          BY <3>1, <3>3, LocAppend DEF TreesOK
        <4> QED
          BY <1>0, <2>1, <2>2, <3>1, <3>2, <4>1 DEF HandFresh, Handing, Object
      <3>4. CASE loc[at[c]] # req[c].obj
        <4>1. Tip' = Tip /\ Current' = Current /\ Current # req[c].obj
          BY <3>1, <3>4 DEF HandFresh, Tip, Current
        <4> QED
          BY <2>1, <2>2, <3>1, <3>2, <4>1 DEF HandFresh, Handing
      <3> QED
        BY <3>3, <3>4
    <2> QED
      BY <2>3, <2>4
  <1>28. CASE EarlyFails(c)
    <2>1. LocationMoves /\ UNCHANGED <<obj, sp, spAt, spObj>> /\ Return(c)
      BY <1>0, <1>28 DEF EarlyFails, LocationMoves
    <2> QED
      BY <1>1, <1>3, <1>10, <2>1
  <1>29. ASSUME Return(c), UNCHANGED <<loc, obj, sp, spAt, spObj>> PROVE Goal
    BY <1>1, <1>2, <1>3, <1>10, <1>29
  <1>30. CASE CheckErr(c)
    <2>1. CASE Return(c)
      BY <1>29, <1>30, <2>1 DEF CheckErr
    <2>2. CASE ~Return(c)
      <3>1. pc[c] \in Handing /\ pc'[c] \in Handing /\ UNCHANGED <<req, loc, obj, sp, spAt, spObj>>
        BY <1>30, <2>2 DEF CheckErr, Handing, Follows, TablesOK, Table, ProcessOK, ProcessWorks
      <3> QED
        BY <1>1, <1>2, <1>3, <1>7, <3>1
    <2> QED
      BY <2>1, <2>2
  <1>31. CASE NilPanics(c)
    BY <1>29, <1>31 DEF NilPanics
  <1>32. CASE Send(c)
    BY <1>29, <1>32 DEF Send
  <1>33. ASSUME NEW bad, Called(c, bad), pc[c] \in Handing, LocationMoves PROVE HandFresh(c)'
    BY <1>7, <1>33 DEF Called
  <1>34. CASE GetObject(c)
    <2>1. Called(c, FALSE) /\ pc[c] \in Handing /\ UNCHANGED <<loc, obj, sp, spAt, spObj>>
      BY <1>34 DEF GetObject, At, Handing
    <2> QED
      BY <1>1, <1>2, <1>3, <1>33, <2>1
  <1>35. CASE CallReturns(c)
    <2>1. Called(c, FALSE) /\ pc[c] \in Handing /\ Playing(c) /\ Play(c) /\ UNCHANGED <<loc, sp, spAt, spObj>>
      BY <1>35 DEF CallReturns, Playing, Handing
    <2> QED
      BY <1>2, <1>3, <1>33, <2>1, PlayElsewhere
  <1>36. CASE CallRefused(c)
    <2>1. Called(c, TRUE) /\ pc[c] \in Handing /\ UNCHANGED <<loc, obj, sp, spAt, spObj>>
      BY <1>36 DEF CallRefused, CallErrs, Playing, Handing
    <2> QED
      BY <1>1, <1>2, <1>3, <1>33, <2>1
  <1>37. CASE CallFails(c)
    <2>1. /\ Called(c, TRUE) /\ pc[c] \in Handing /\ UNCHANGED <<loc, sp, spAt, spObj>>
          /\ At(c, "tree") \/ At(c, "tree2") \/ Playing(c)
          /\ UNCHANGED obj \/ Play(c)
      BY <1>37 DEF CallFails, CallErrs, Playing, At, Handing
    <2>2. CASE UNCHANGED obj
      BY <1>1, <1>2, <1>3, <1>33, <2>1, <2>2
    <2>3. CASE Play(c)
      <3>1. Playing(c)
        <4>1. pc[c] \in {"clear", "dress", "chown", "track"}
          BY <2>3 DEF Play
        <4> QED
          BY <2>1, <4>1 DEF At
      <3> QED
        BY <1>2, <1>3, <1>33, <2>1, <2>3, <3>1, PlayElsewhere
    <2> QED
      BY <2>1, <2>2, <2>3
  <1> QED
    BY <1>11, <1>12, <1>13, <1>15, <1>16, <1>17, <1>18, <1>19, <1>21, <1>22, <1>23, <1>24, <1>25, <1>26,
       <1>27, <1>28, <1>30, <1>31, <1>32, <1>34, <1>35, <1>36, <1>37, <1>38, <1>39, <1>40
       DEF ProcessStep, SpawnStep, HandOutStep, Importing

\* Every step keeps the invariant, whatever runs, fails or crashes.
LEMMA NextFresh ==
    ASSUME FreshIInv, [Next]_vars
    PROVE  FreshIInv'
  <1>1. TypesOK /\ SharedFresh /\ (\A c \in Court : SpawnFresh(c) /\ HandFresh(c))
    BY FreshSplit
  <1>2. TreesOK /\ TablesOK /\ \A c \in Court : ProcessOK(c)
    BY <1>1, TypesSplit
  <1>3. TypesOK'
    BY <1>1, NextTypes
  <1>a. (TypesOK /\ SharedFresh /\ \A c \in Court : SpawnFresh(c) /\ HandFresh(c))' => FreshIInv'
    BY FreshSplit, PTL
  <1>b. TreesOK'
    <2>1. TypesOK' => TreesOK'
      BY TypesSplit, PTL
    <2> QED
      BY <1>3, <2>1
  <1>4. SUFFICES SharedFresh' /\ \A c \in Court : SpawnFresh(c)' /\ HandFresh(c)'
    BY <1>3, <1>a
  <1>5. ASSUME LocationMoves, FreshObjectsStay, NEW d \in Court, Rests(d)
        PROVE  SpawnFresh(d)' /\ HandFresh(d)'
    BY <1>1, <1>2, <1>5, <1>b, SpawnStaysFresh, HandStaysFresh DEF Rests
  <1>6. ASSUME NEW c \in Court, ProcessStep(c)
        PROVE  SharedFresh' /\ \A d \in Court : SpawnFresh(d)' /\ HandFresh(d)'
    <2>1. LocationMoves /\ FreshObjectsStay /\ SpawnFresh(c)' /\ HandFresh(c)'
      BY <1>1, <1>2, <1>6, ProcessFresh
    <2>2. \A d \in Court \ {c} : SpawnFresh(d)' /\ HandFresh(d)'
      BY <1>2, <1>5, <1>6, <2>1, OneMoves
    <2>3. UNCHANGED asked
      BY <1>6, AskedStays
    <2>4. SharedFresh'
      BY <1>1, <1>2, <2>1, <2>3, SharedStaysFresh
    <2> QED
      BY <2>1, <2>2, <2>4
  <1>7. ASSUME UNCHANGED <<loc, obj, status, tree, handing, gor, spawning, genesis>>,
               \A m \in asked' : m \in asked \/ m.obj = Current
        PROVE  SharedFresh' /\ \A d \in Court : SpawnFresh(d)' /\ HandFresh(d)'
    <2>1. LocationMoves /\ FreshObjectsStay
      BY <1>7 DEF LocationMoves, FreshObjectsStay
    <2>2. \A d \in Court : Rests(d)
      BY <1>7 DEF Rests, handing, spawning
    <2> QED
      BY <1>1, <1>2, <1>5, <1>7, <2>1, <2>2, SharedStaysFresh
  <1>8. ASSUME NEW p \in Player, Ask(p)
        PROVE  SharedFresh' /\ \A d \in Court : SpawnFresh(d)' /\ HandFresh(d)'
    BY <1>7, <1>8 DEF Ask, trees
  <1>9. ASSUME NEW m \in sent, Land(m)
        PROVE  SharedFresh' /\ \A d \in Court : SpawnFresh(d)' /\ HandFresh(d)'
    BY <1>7, <1>9 DEF Land, trees
  <1>10. CASE UNCHANGED vars
    BY <1>7, <1>10 DEF vars, trees, outside
  <1> QED
    BY <1>6, <1>8, <1>9, <1>10 DEF Next, ProcessStep

\* The inductive invariant of a court of any number of processes, any of which may
\* crash and any of whose calls may fail.
THEOREM FreshInductive == Spec => []FreshIInv
  <1>1. Init => FreshIInv
    BY InitFresh
  <1>2. FreshIInv /\ [Next]_vars => FreshIInv'
    BY NextFresh
  <1> QED
    BY <1>1, <1>2, PTL DEF Spec

\* The object players see at the location is the court's and carries its import-hash:
\* hand-outs and respawns of any number of processes never list an object that was
\* given away, nor one that another process may still import into.
THEOREM CurrentStaysOffered == Spec => []CurrentIsOffered
  <1>1. FreshIInv => CurrentIsOffered
    BY DEF FreshIInv
  <1> QED
    BY <1>1, FreshInductive, PTL

-----------------------------------------------------------------------------
(***************************************************************************)
(* One process serves the court, whatever fails: what an import wrote.     *)
(***************************************************************************)

\* What FreshIInv says when c is the process.
Fresh(c) == TreesOK /\ TablesOK /\ ProcessOK(c) /\ SharedFresh /\ SpawnFresh(c) /\ HandFresh(c)

\* What AloneIInv adds to it.
Alone(c) ==
    /\ sp[c] \in {"get"} \cup Spawning => Current = 0
    /\ sp[c] \in Spawning => spAt[c] = Tip
    /\ sp[c] \in {"again", "hash", "add"} => obj[spAt[c]].data = "spawn"
    /\ \A o \in Object : (o >= Tip \/ o = Current) /\ obj[o].hash = "spawn" => obj[o].data = "spawn"

\* AloneIInv, taken apart.
LEMMA AloneSplit ==
    ASSUME NEW c, Court = {c}
    PROVE  AloneIInv <=> FreshIInv /\ Alone(c)
  BY DEF AloneIInv, SpawnIsAlone, HashMeansData, Alone

NewObjectsStay == \A u \in Object : u >= Tip \/ u = Current => obj'[u] = obj[u]

\* When no spawn is under way, or the location stays as it is.
LEMMA AloneStays ==
    ASSUME NEW c \in Court, Fresh(c), Alone(c), LocationMoves, NewObjectsStay,
           \/ sp'[c] \notin {"get"} \cup Spawning
           \/ sp'[c] = sp[c] /\ spAt'[c] = spAt[c] /\ UNCHANGED loc
    PROVE  Alone(c)'
  <1>1. TreesOK /\ Current < Tip /\ (sp[c] \in Spawning => spAt[c] \in Object)
    BY DEF Fresh, SharedFresh, ProcessOK, ProcessWorks
  <1>2. \A o \in Object : (o >= Tip \/ o = Current) /\ obj'[o].hash = "spawn" => obj'[o].data = "spawn"
    BY DEF Alone, NewObjectsStay
  <1>3. \A o \in Object : o >= Tip' \/ o = Current' => o >= Tip \/ o = Current
    BY <1>1, LocationAfter DEF Object
  <1>4. CASE sp'[c] \notin {"get"} \cup Spawning
    BY <1>2, <1>3, <1>4 DEF Alone
  <1>5. CASE sp'[c] = sp[c] /\ spAt'[c] = spAt[c] /\ UNCHANGED loc
    <2>1. Tip' = Tip /\ Current' = Current /\ Tip \in 1..MaxTip
      BY <1>1, <1>5, LocationAfter DEF Tip, Current
    <2>2. sp[c] \in Spawning => obj'[spAt[c]] = obj[spAt[c]]
      BY <1>1, <2>1 DEF Alone, NewObjectsStay
    <2> QED
      BY <1>2, <1>5, <2>1, <2>2 DEF Alone
  <1> QED
    BY <1>4, <1>5

\* A step of spawnObject to another statement.
LEMMA AloneSpawns ==
    ASSUME NEW c \in Court, Fresh(c), Alone(c), UNCHANGED loc, Current = 0, Tip \in Object,
           NEW there \in {"get"} \cup Spawning, SpawnGoto(c, there),
           there = "get" \/ spAt'[c] = Tip,
           \A u \in Object \ {Tip} : obj'[u] = obj[u],
           obj'[Tip].hash = "spawn" => obj'[Tip].data = "spawn",
           there \in {"again", "hash", "add"} => obj'[Tip].data = "spawn"
    PROVE  Alone(c)'
  <1>1. Tip' = Tip /\ Current' = Current
    BY DEF Tip, Current
  <1>2. sp'[c] = there
    BY DEF SpawnGoto, Fresh, TablesOK, Table
  <1> QED
    BY <1>1, <1>2 DEF Alone

\* Every step of the process.
LEMMA AloneStep ==
    ASSUME NEW c \in Court, Fresh(c), Alone(c), ProcessStep(c)
    PROVE  Alone(c)'
  <1> USE DEF outside, trees, handing, spawning
  <1>1. TreesOK /\ TablesOK /\ ProcessOK(c) /\ SharedFresh /\ SpawnFresh(c) /\ HandFresh(c)
    BY DEF Fresh
  <1>2. LocationMoves
    BY <1>1, ProcessFresh
  <1>3. /\ Tip \in Object /\ Current \in 0..MaxTip /\ obj \in [Object -> ObjectRecord]
        /\ Tip \in 1..MaxTip /\ obj[Tip].owner = "court" /\ "court" \in Player \cup {"court"}
    BY <1>1, CurrentTyped DEF TreesOK, Object, SharedFresh
  <1>4. ASSUME UNCHANGED obj, sp'[c] \notin {"get"} \cup Spawning PROVE Alone(c)'
    BY <1>2, <1>4, AloneStays DEF NewObjectsStay
  <1>5. ASSUME UNCHANGED <<obj, loc, sp, spAt>> PROVE Alone(c)'
    BY <1>2, <1>5, AloneStays DEF NewObjectsStay
  <1>6. ASSUME UNCHANGED obj, NEW bad, SpawnReturns(c, bad) PROVE Alone(c)'
    <2>1. sp'[c] = "idle"
      BY <1>1, <1>6 DEF SpawnReturns, TablesOK, Table
    <2> QED
      BY <1>4, <1>6, <2>1
  <1>7. ASSUME Dies(c) PROVE Alone(c)'
    <2>1. sp'[c] = "idle" /\ UNCHANGED obj
      BY <1>1, <1>7 DEF Dies, TablesOK, Table
    <2> QED
      BY <1>4, <2>1
  <1>8. ASSUME UNCHANGED obj, NEW who, Acquire(c, who) PROVE Alone(c)'
    <2>1. sp'[c] = "exists"
      BY <1>1, <1>8 DEF Acquire, TablesOK, Table
    <2> QED
      BY <1>4, <1>8, <2>1
  <1>9. CASE Setup(c)
    <2>1. sp'[c] = "exists" /\ UNCHANGED obj
      BY <1>1, <1>9 DEF Setup, TablesOK, Table
    <2> QED
      BY <1>4, <2>1
  <1>10. CASE Serve(c)
    BY <1>5, <1>10 DEF Serve
  <1>11. CASE Crash(c)
    BY <1>7, <1>11 DEF Crash
  <1>12. CASE Tick(c)
    BY <1>8, <1>12 DEF Tick
  <1>13. CASE GoroutineStep(c)
    <2>1. PICK g \in gor[c] : \/ GoroutineSpawns(c, g) \/ GoroutineAssigns(c, g)
                             \/ GoroutineJudges(c, g) \/ GoroutinePanics(c, g)
      BY <1>13 DEF GoroutineStep
    <2> QED
      BY <1>5, <1>7, <1>8, <2>1 DEF GoroutineSpawns, GoroutineAssigns, GoroutineJudges, GoroutinePanics
  <1>14. obj[Tip].hash = "spawn" => obj[Tip].data = "spawn"
    BY <1>3 DEF Alone
  <1>15. CASE SpawnExists(c)
    <2>1. CASE Current # 0
      BY <1>6, <1>15, <2>1 DEF SpawnExists
    <2>2. CASE Current = 0
      <3>1. SpawnGoto(c, "get") /\ UNCHANGED <<loc, obj>>
        BY <1>15, <2>2 DEF SpawnExists
      <3> QED
        BY <1>3, <1>14, <2>2, <3>1, AloneSpawns
    <2> QED
      BY <2>1, <2>2
  <1>16. CASE SpawnGet(c)
    <2>1. SpawnGoto(c, "make") /\ UNCHANGED <<loc, obj>> /\ sp[c] = "get" /\ spAt'[c] = Tip
      BY <1>1, <1>16 DEF SpawnGet, TablesOK, Table
    <2> QED
      BY <1>3, <1>14, <2>1, AloneSpawns DEF Alone
  <1>17. CASE SpawnMake(c)
    <2>1. UNCHANGED <<loc, obj, spAt>> /\ sp[c] = "make"
      BY <1>17 DEF SpawnMake
    <2>2. PICK there \in {"dress", "chown"} : SpawnGoto(c, there)
      BY <1>17 DEF SpawnMake
    <2> QED
      BY <1>3, <1>14, <2>1, <2>2, AloneSpawns DEF Alone
  <1>18. CASE SpawnChown(c)
    <2>1. UNCHANGED loc /\ sp[c] = "chown" /\ spAt[c] = Tip /\ Current = 0
      BY <1>18 DEF SpawnChown, Alone
    <2>2. CASE SpawnReturns(c, TRUE) /\ UNCHANGED obj
      BY <1>6, <2>2
    <2>3. CASE obj' = [obj EXCEPT ![Tip].at = 1] /\ SpawnGoto(c, "dress") /\ UNCHANGED spAt
      <3>1. Becomes(Tip, obj[Tip].data, obj[Tip].hash, obj[Tip].owner, 1)
        BY <1>3, <2>3, ObjectBlock
      <3> QED
        BY <1>3, <1>14, <2>1, <2>3, <3>1, AloneSpawns DEF Becomes
    <2> QED
      BY <1>18, <2>1, <2>2, <2>3 DEF SpawnChown
  <1>19. CASE SpawnDress(c)
    <2>1. UNCHANGED <<loc, obj, spAt>> /\ sp[c] = "dress" /\ spAt[c] = Tip /\ Current = 0
      BY <1>19 DEF SpawnDress, Alone
    <2>2. SpawnGoto(c, "reset") \/ (obj[Tip].hash = "spawn" /\ SpawnGoto(c, "add"))
      BY <1>19, <2>1 DEF SpawnDress
    <2> QED
      BY <1>3, <1>14, <2>1, <2>2, AloneSpawns
  <1>20. CASE SpawnAgain(c)
    <2>1. UNCHANGED <<loc, obj, spAt>> /\ sp[c] = "again" /\ SpawnGoto(c, "hash")
      BY <1>20 DEF SpawnAgain
    <2> QED
      BY <1>3, <1>14, <2>1, AloneSpawns DEF Alone
  <1>21. CASE Importing(c)
    <2>0. sp[c] \in {"reset", "data", "hash"} /\ spAt[c] = Tip /\ Current = 0
      BY <1>21 DEF Importing, SpawnReset, SpawnData, SpawnHash, Alone
    <2>1. UNCHANGED loc
      BY <1>1, <1>3, <1>21, <2>0, ImportBlocks
    <2>2. CASE BlockRefused(c)
      BY <1>6, <2>2 DEF BlockRefused
    <2>3. ASSUME NEW d, NEW h, NEW there \in Spawning, PlaysBlock(c, d, h, there),
                 h = "spawn" => d = "spawn", there \in {"again", "hash", "add"} => d = "spawn"
          PROVE  Alone(c)'
      <3>1. SpawnGoto(c, there) /\ spAt' = spAt /\ obj'[Tip].data = d /\ obj'[Tip].hash = h
            /\ \A u \in Object \ {Tip} : obj'[u] = obj[u]
        BY <2>0, <2>3 DEF PlaysBlock, Becomes
      <3> QED
        BY <1>3, <2>0, <2>1, <2>3, <3>1, AloneSpawns
    <2>4. CASE SpawnReset(c)
      <3>1. BlockRefused(c) \/ PlaysBlock(c, "none", "none", "data")
        BY <1>1, <1>3, <2>0, <2>4, SpawnBlocks
      <3> QED
        BY <2>2, <2>3, <3>1
    <2>5. CASE SpawnData(c)
      <3>1. BlockRefused(c) \/ PlaysBlock(c, "spawn", obj[spAt[c]].hash, "again")
        BY <1>1, <1>3, <2>0, <2>5, SpawnBlocks
      <3> QED
        BY <2>2, <2>3, <3>1
    <2>6. CASE SpawnHash(c)
      <3>1. BlockRefused(c) \/ PlaysBlock(c, obj[spAt[c]].data, "spawn", "add")
        BY <1>1, <1>3, <2>0, <2>6, SpawnBlocks
      <3>2. obj[spAt[c]].data = "spawn"
        BY <2>6 DEF SpawnHash, Alone
      <3> QED
        BY <2>2, <2>3, <3>1, <3>2
    <2> QED
      BY <1>21, <2>4, <2>5, <2>6 DEF Importing
  <1>22. CASE SpawnAdd(c)
    <2>1. UNCHANGED obj /\ \E bad \in BOOLEAN : SpawnReturns(c, bad)
      BY <1>22 DEF SpawnAdd
    <2> QED
      BY <1>6, <2>1
  <1>23. CASE SpawnFails(c)
    BY <1>6, <1>23 DEF SpawnFails
  <1>24. CASE \/ \E m \in asked : Receive(c, m)
              \/ CheckRequest(c) \/ FetchLocation(c) \/ CheckErr(c) \/ NilPanics(c) \/ GetObject(c)
              \/ CallRefused(c) \/ Send(c)
    BY <1>5, <1>24 DEF Receive, CheckRequest, FetchLocation, CheckErr, NilPanics, GetObject, CallRefused,
                       CallErrs, Send
  <1>25. ASSUME Current # 0, UNCHANGED <<obj, sp>> PROVE Alone(c)'
    BY <1>4, <1>25 DEF Alone
  <1>26. CASE RemoveObject(c)
    <2>1. UNCHANGED <<obj, sp, spAt>>
      BY <1>26 DEF RemoveObject
    <2>2. UNCHANGED loc \/ Current = req[c].obj
      BY <1>26 DEF RemoveObject, Current, Tip
    <2>3. req[c].obj # 0
      BY <1>1, <1>26 DEF RemoveObject, ProcessOK, ProcessWorks, Request, Object
    <2> QED
      BY <1>5, <1>25, <2>1, <2>2, <2>3
  <1>27. CASE EarlyFails(c)
    <2>1. UNCHANGED <<obj, sp, spAt>> /\ (UNCHANGED loc \/ Current = req[c].obj)
      BY <1>27 DEF EarlyFails
    <2>2. req[c].obj # 0
      BY <1>1, <1>27 DEF EarlyFails, ProcessOK, ProcessWorks, Request, Object
    <2> QED
      BY <1>5, <1>25, <2>1, <2>2
  <1>28. ASSUME Playing(c), Play(c), UNCHANGED <<loc, sp, spAt>> PROVE Alone(c)'
    <2>1. NewObjectsStay
      BY <1>1, <1>28, PlayElsewhere DEF NewObjectsStay
    <2> QED
      BY <1>2, <1>28, <2>1, AloneStays
  <1>29. CASE CallReturns(c)
    BY <1>28, <1>29 DEF CallReturns
  <1>30. CASE CallFails(c)
    <2>1. UNCHANGED <<loc, sp, spAt>> /\ (UNCHANGED obj \/ Play(c))
      BY <1>30 DEF CallFails, CallErrs
    <2>2. Play(c) => Playing(c)
      BY <1>30 DEF CallFails, At, Play
    <2> QED
      BY <1>5, <1>28, <2>1, <2>2
  <1> QED
    BY <1>9, <1>10, <1>11, <1>12, <1>13, <1>15, <1>16, <1>17, <1>18, <1>19, <1>20, <1>21, <1>22, <1>23,
       <1>24, <1>26, <1>27, <1>29, <1>30 DEF ProcessStep, SpawnStep, HandOutStep, Importing

\* Every step of a court that one process serves.
LEMMA NextAlone ==
    ASSUME NEW c, Court = {c}, AloneIInv, [Next]_vars
    PROVE  AloneIInv'
  <1>1. FreshIInv /\ Alone(c) /\ c \in Court
    BY AloneSplit
  <1>2. Fresh(c)
    BY <1>1, FreshSplit, TypesSplit DEF Fresh
  <1>3. FreshIInv'
    BY <1>1, NextFresh
  <1>a. (FreshIInv /\ Alone(c))' => AloneIInv'
    BY AloneSplit, PTL
  <1>4. SUFFICES Alone(c)'
    BY <1>3, <1>a
  <1>5. CASE ProcessStep(c)
    BY <1>1, <1>2, <1>5, AloneStep
  <1>6. CASE \/ \E p \in Player : Ask(p)
             \/ \E m \in sent : Land(m)
             \/ UNCHANGED vars
    <2>1. UNCHANGED <<loc, obj, sp, spAt>>
      BY <1>6 DEF Ask, Land, vars, trees, spawning
    <2> QED
      BY <1>1, <2>1 DEF Alone, Tip, Current
  <1> QED
    BY <1>1, <1>5, <1>6 DEF Next, ProcessStep

\* The inductive invariant of a court that one process serves, whatever fails or
\* crashes: nobody touches the object a spawn works on, so what has a hash is complete.
THEOREM AloneInductive == ASSUME OneProcess PROVE Spec => []AloneIInv
  <1>1. Init => AloneIInv
    <2> SUFFICES ASSUME Init PROVE AloneIInv
      OBVIOUS
    <2>1. FreshIInv
      BY InitFresh
    <2> QED
      BY <2>1 DEF Init, AloneIInv, SpawnIsAlone, HashMeansData, Object
  <1>2. PICK c : Court = {c}
    BY OneProcess DEF OneProcess
  <1>3. AloneIInv /\ [Next]_vars => AloneIInv'
    BY <1>2, NextAlone
  <1> QED
    BY <1>1, <1>3, PTL DEF Spec

\* Types; a process that is down runs nothing, spawnMux is held exactly while
\* spawnObject runs; and, when one process serves the court, the object at the location
\* is the court's and has all that an import writes, whatever calls fail and wherever
\* the process crashes.
THEOREM CourtInvariant == ASSUME OneProcess PROVE Spec => []CourtInv
  <1>1. AloneIInv => CourtInv
    <2> SUFFICES ASSUME AloneIInv, Current # 0
                 PROVE  obj[Current].owner = "court" /\ obj[Current].data = "spawn"
      BY DEF AloneIInv, FreshIInv, CourtInv, CurrentIsFresh
    <2>1. Current \in Object
      BY CurrentTyped DEF AloneIInv, FreshIInv, TypeOK, Object
    <2>2. obj[Current].owner = "court" /\ obj[Current].hash = "spawn"
      BY DEF AloneIInv, FreshIInv, CurrentIsOffered
    <2> QED
      BY <2>1, <2>2 DEF AloneIInv, HashMeansData
  <1> QED
    BY <1>1, AloneInductive, PTL

-----------------------------------------------------------------------------
(***************************************************************************)
(* One process serves the court, and no call fails.                        *)
(***************************************************************************)

\* What CourtIInv says of process c.
TreeCurrent(c) == blocks # 0 /\ (status[c] # "down" => tree[c] = blocks)

GoroutinesFine(c) == \A g \in gor[c] : ~g.bad /\ g.st # "doomed"

Mine(c) ==
    /\ pc[c] \in {"fetch", "remove"} => Current = req[c].obj
    /\ pc[c] = "remove" => at[c] = Tip

Importable(c) ==
    /\ \A o \in genesis[c] : o = Tip /\ sp[c] = "chown"
    /\ sp[c] = "chown" => obj[Tip].at = 0
    /\ sp[c] \in Dressing => obj[Tip].at # 0
    /\ sp[c] \in {"reset", "data", "hash"} => spObj[c] = obj[Tip].at

Stages(c) ==
    /\ pc[c] \in Handing => Prize(c).at # 0
    /\ pc[c] \in {"tree", "clear", "dress", "tree2"} => Prize(c).owner = "court"
    /\ pc[c] = "chown" /\ ~called[c] => Prize(c).owner = "court"
    /\ \/ pc[c] \in {"tree", "tree2"} /\ called[c]
       \/ pc[c] \in {"clear", "chown"}
       \/ pc[c] = "dress" /\ ~called[c]
       => at[c] = Prize(c).at
    /\ \/ pc[c] \in {"tree", "clear"}
       \/ pc[c] = "dress" /\ ~called[c]
       => Prize(c).hash = "spawn"
    /\ \/ pc[c] = "dress" /\ called[c]
       \/ pc[c] \in {"tree2", "chown"}
       => Prize(c).data = "prize"
    /\ \/ pc[c] = "chown" /\ called[c]
       \/ pc[c] \in {"track", "send"}
       => Prize(c).owner = req[c].player

Won(c) ==
    crashes = 0 =>
        \A o \in Object : obj[o].owner # "court" =>
            \/ Recorded(o)
            \/ /\ req[c].obj = o /\ pc[c] \in {"chown", "track"}
               /\ pc[c] = "track" => ~called[c]

Kept(c) ==
    /\ Current # 0 => obj[Current].at # 0
    /\ crashes = 0 => \A o \in Object : obj[o].at # 0 =>
          \/ o = Current \/ obj[o].owner # "court"
          \/ pc[c] \in Handing /\ req[c].obj = o
          \/ sp[c] \in Dressing /\ spAt[c] = o

Well(c) ==
    /\ TreeCurrent(c) /\ ~err[c] /\ GoroutinesFine(c) /\ Mine(c) /\ Importable(c) /\ Stages(c)
    /\ Winners /\ Won(c) /\ Kept(c)

\* CourtIInv, taken apart.
LEMMA CourtSplit ==
    ASSUME NEW c, Court = {c}
    PROVE  CourtIInv <=> /\ AloneIInv /\ faults \in Nat /\ crashes \in Nat
                         /\ faults = 0 => Well(c)
  <1>1. AllIsWell <=> TreeCurrent(c) /\ ~err[c] /\ GoroutinesFine(c)
    BY Zenon DEF AllIsWell, TreeCurrent, GoroutinesFine
  <1>2. LocationIsMine <=> Mine(c)
    BY DEF LocationIsMine, Mine
  <1>3. PrizeStages <=> Stages(c)
    BY DEF PrizeStages, Stages
  <1>6. ObjectIsMine <=> Importable(c)
    BY DEF ObjectIsMine, Importable
  <1>4. WonIsRecorded <=> Won(c)
    BY DEF WonIsRecorded, Won
  <1>5. MadeIsKept <=> Kept(c)
    BY DEF MadeIsKept, Kept
  <1> QED
    BY <1>1, <1>2, <1>3, <1>4, <1>5, <1>6 DEF CourtIInv, Well

\* The object a process is handing out, and the one it spawns.
LEMMA FreshFacts ==
    ASSUME NEW c \in Court, Fresh(c)
    PROVE  /\ Tip \in Object /\ Current \in 0..MaxTip /\ Current < Tip
           /\ obj[Tip].owner = "court"
           /\ pc[c] # "idle" => /\ req[c].obj \in Object /\ req[c].player \in Player
                                /\ req[c].obj < Tip /\ req[c].obj # Tip /\ status[c] = "up"
           /\ obj \in [Object -> ObjectRecord]
           /\ \A o \in Object : obj[o].at \in Nat /\ obj[o].owner \in Player \cup {"court"}
           /\ \A k \in DOMAIN ledger : ledger[k].prize \in Object /\ ledger[k].player \in Player
  <1>1. Tip \in Object /\ Current \in 0..MaxTip /\ Current < Tip
    BY CurrentTyped DEF Fresh, TreesOK, Object, SharedFresh
  <1>2. obj[Tip].owner = "court"
    BY <1>1 DEF Fresh, SharedFresh, Object
  <1>3. pc[c] # "idle" => /\ req[c].obj \in Object /\ req[c].player \in Player
                          /\ req[c].obj < Tip /\ req[c].obj # Tip /\ status[c] = "up"
    <2>1. pc[c] # "idle" => req[c] \in Request /\ req[c].obj < Tip /\ status[c] = "up"
      BY DEF Fresh, HandFresh, ProcessOK, ProcessTyped, ProcessWorks
    <2> QED
      BY <1>1, <2>1 DEF Request, Object
  <1>4. /\ obj \in [Object -> ObjectRecord]
        /\ \A o \in Object : obj[o].at \in Nat /\ obj[o].owner \in Player \cup {"court"}
    BY DEF Fresh, TreesOK, ObjectRecord
  <1>5. \A k \in DOMAIN ledger : ledger[k] \in [player : Player, prize : Object]
    <2> DEFINE Entry == [player : Player, prize : Object]
    <2>1. ledger \in Seq(Entry)
      BY DEF Fresh, TreesOK
    <2> HIDE DEF Entry
    <2>2. \A k \in DOMAIN ledger : ledger[k] \in Entry
      BY <2>1
    <2> QED
      BY <2>2 DEF Entry
  <1> QED
    BY <1>1, <1>2, <1>3, <1>4, <1>5

\* A respawn does not touch the object that is handed out, nor any that was.
LEMMA SpawnElsewhere ==
    ASSUME NEW c \in Court, Fresh(c), Stages(c), Winners, Won(c), UNCHANGED <<ledger, crashes, handing>>,
           \A u \in Object \ {Tip} : obj'[u] = obj[u],
           obj'[Tip].owner = "court"
    PROVE  Stages(c)' /\ Winners' /\ Won(c)'
  <1> USE DEF handing
  <1>1. pc[c] # "idle" => obj'[req[c].obj] = obj[req[c].obj]
    BY FreshFacts
  <1>2. Stages(c)'
    BY <1>1 DEF Stages, Prize, Handing
  <1>3. \A o \in Object : obj'[o].owner = obj[o].owner /\ (obj[o].owner # "court" => obj'[o] = obj[o])
    BY FreshFacts
  <1>4. Winners'
    BY <1>3, FreshFacts DEF Winners
  <1>5. Won(c)'
    BY <1>3 DEF Won, Recorded
  <1> QED
    BY <1>2, <1>4, <1>5

\* A result without an error does not make a goroutine panic.
LEMMA ResultFine ==
    ASSUME NEW g \in Goroutines, ~g.bad, g.st # "doomed"
    PROVE  ~Result(g, FALSE).bad /\ Result(g, FALSE).st # "doomed"
  <1>1. CASE g.st = "spawning"
    <2>1. Result(g, FALSE) = [g EXCEPT !.st = "assign", !.bad = FALSE]
      BY <1>1 DEF Result
    <2>2. Result(g, FALSE).st = "assign"
      BY <2>1, Zenon DEF Goroutines
    <2>3. ~Result(g, FALSE).bad
      BY <2>1, Zenon DEF Goroutines
    <2> QED
      BY <2>2, <2>3
  <1>2. CASE g.st # "spawning"
    BY <1>2 DEF Result
  <1> QED
    BY <1>1, <1>2

\* Neither does a hand-out that returned without one.
LEMMA OrphanFine ==
    ASSUME NEW g \in Goroutines, ~g.bad, g.st # "doomed"
    PROVE  ~Orphan(g, FALSE).bad /\ Orphan(g, FALSE).st # "doomed"
  <1>1. Orphan(g, FALSE).st # "doomed"
    BY OrphanTyped
  <1>2. ~Orphan(g, FALSE).bad
    BY Zenon DEF Orphan, Goroutines
  <1> QED
    BY <1>1, <1>2

\* Setup, the timer, and spawnObject up to its return, when nothing fails: the spawn
\* has the empty location for itself.
LEMMA SpawnWell ==
    ASSUME NEW c \in Court, Fresh(c), Alone(c), Well(c),
           \/ Setup(c) \/ Serve(c) \/ Tick(c) \/ SpawnStep(c)
           \/ \E g \in gor[c] : GoroutineSpawns(c, g)
    PROVE  Well(c)'
  <1> USE DEF outside, trees, handing
  <1>1. /\ TreeCurrent(c) /\ ~err[c] /\ GoroutinesFine(c) /\ Mine(c) /\ Importable(c) /\ Stages(c)
        /\ Winners /\ Won(c) /\ Kept(c)
    BY DEF Well
  <1>2. TreesOK /\ TablesOK /\ ProcessOK(c) /\ SharedFresh /\ SpawnFresh(c) /\ HandFresh(c)
    BY DEF Fresh
  <1>0. /\ obj \in [Object -> ObjectRecord] /\ Tip \in Object
        /\ obj[Tip].owner = "court" /\ obj[Tip].at \in Nat
        /\ "court" \in Player \cup {"court"} /\ (sp[c] \in Spawning => spAt[c] = Tip /\ Current = 0)
    BY FreshFacts DEF Alone
  <1>3. ASSUME UNCHANGED <<obj, ledger, crashes, handing>>
        PROVE  Stages(c)' /\ Winners' /\ Won(c)'
    BY <1>1, <1>3, FreshFacts, SpawnElsewhere
  <1>4. ASSUME UNCHANGED err PROVE ~err'[c]
    BY <1>1, <1>4
  <1>5. ASSUME UNCHANGED gor PROVE GoroutinesFine(c)'
    BY <1>1, <1>5 DEF GoroutinesFine
  <1>6. CASE Setup(c)
    <2>1. /\ pc[c] = "idle" /\ sp'[c] = "exists" /\ tree'[c] = blocks /\ sp[c] = "idle"
          /\ UNCHANGED <<obj, ledger, blocks, handing, crashes, gor, genesis>>
      BY <1>2, <1>6 DEF Setup, TablesOK, Table, ProcessOK, ProcessWorks
    <2>2. Current' = Current
      BY <1>2, <1>6, FreshFacts, LocAppend DEF Setup, TreesOK
    <2>3. TreeCurrent(c)' /\ Mine(c)' /\ Importable(c)' /\ Kept(c)'
      BY <1>1, <2>1, <2>2 DEF TreeCurrent, Mine, Importable, Kept, Handing
    <2> QED
      BY <1>3, <1>4, <1>5, <2>1, <2>3 DEF Well
  <1>7. ASSUME UNCHANGED <<loc, obj, handing, genesis, crashes>>,
               \/ sp'[c] = sp[c] /\ UNCHANGED <<spAt, spObj>>
               \/ sp'[c] \in {"idle", "exists", "get", "make"} /\ sp[c] \in {"idle", "exists", "get"}
        PROVE  Mine(c)' /\ Importable(c)' /\ Kept(c)'
    <2>1. UNCHANGED <<Tip, Current>>
      BY <1>7 DEF Tip, Current
    <2> QED
      BY <1>1, <1>7, <2>1 DEF Mine, Importable, Kept
  <1>8. CASE Serve(c)
    <2>1. /\ tree'[c] = blocks' /\ blocks' # 0
          /\ UNCHANGED <<loc, obj, ledger, handing, crashes, gor, sp, spAt, spObj, genesis>>
      BY <1>1, <1>2, <1>8 DEF Serve, TablesOK, Table, TreeCurrent, spawning, TreesOK
    <2>2. TreeCurrent(c)'
      BY <2>1 DEF TreeCurrent
    <2> QED
      BY <1>3, <1>4, <1>5, <1>7, <2>1, <2>2 DEF Well
  <1>9. ASSUME NEW who, Acquire(c, who), UNCHANGED <<trees, tree, handing, status, genesis, crashes>>
        PROVE  /\ TreeCurrent(c)' /\ ~err'[c] /\ Mine(c)' /\ Importable(c)' /\ Kept(c)'
               /\ Stages(c)' /\ Winners' /\ Won(c)'
    <2>1. sp'[c] = "exists" /\ sp[c] = "idle"
      BY <1>2, <1>9 DEF Acquire, TablesOK, Table, ProcessOK, ProcessWorks
    <2>2. TreeCurrent(c)'
      BY <1>1, <1>9 DEF TreeCurrent
    <2> QED
      BY <1>3, <1>4, <1>7, <1>9, <2>1, <2>2
  <1>10. CASE Tick(c)
    BY <1>5, <1>9, <1>10 DEF Tick, Well
  <1>11. CASE \E g \in gor[c] : GoroutineSpawns(c, g)
    <2>1. PICK g \in gor[c] : GoroutineSpawns(c, g)
      BY <1>11
    <2>2. gor'[c] = (gor[c] \ {g}) \cup {[g EXCEPT !.st = "spawning"]} /\ g \in Goroutines
      BY <1>2, <2>1 DEF GoroutineSpawns, TablesOK, Table, ProcessOK, ProcessTyped
    <2>3. [g EXCEPT !.st = "spawning"].st = "spawning" /\ ~[g EXCEPT !.st = "spawning"].bad
      BY <1>1, <2>2, Zenon DEF GoroutinesFine, Goroutines
    <2>4. GoroutinesFine(c)'
      BY <1>1, <2>2, <2>3, Zenon DEF GoroutinesFine
    <2> QED
      BY <1>9, <2>1, <2>4 DEF GoroutineSpawns, Well
  <1>12. ASSUME SpawnReturns(c, FALSE), sp[c] # "idle", UNCHANGED <<blocks, tree, handing>>
         PROVE  TreeCurrent(c)' /\ GoroutinesFine(c)' /\ ~err'[c] /\ sp'[c] = "idle"
    <2>1. gor'[c] = {Result(g, FALSE) : g \in gor[c]} /\ gor[c] \subseteq Goroutines
      BY <1>2, <1>12 DEF SpawnReturns, TablesOK, Table, ProcessOK, ProcessTyped
    <2>2. GoroutinesFine(c)'
      BY <1>1, <2>1, ResultFine, Zenon DEF GoroutinesFine
    <2>3. status'[c] = status[c] /\ sp'[c] = "idle"
      BY <1>2, <1>12 DEF SpawnReturns, TablesOK, Table
    <2> QED
      BY <1>1, <1>4, <1>12, <2>2, <2>3 DEF TreeCurrent
  <1>13. ASSUME NEW there, SpawnGoto(c, there), UNCHANGED <<blocks, tree, handing>>
         PROVE  TreeCurrent(c)' /\ GoroutinesFine(c)' /\ ~err'[c] /\ sp'[c] = there
    BY <1>1, <1>2, <1>4, <1>5, <1>13 DEF SpawnGoto, TreeCurrent, TablesOK, Table
  <1>14. crashes' = crashes
    BY DEF SpawnStep, Setup, Serve, Tick, SpawnExists, SpawnGet, SpawnMake, SpawnChown, SpawnDress,
           SpawnReset, SpawnData, SpawnAgain, SpawnHash, SpawnPlays, SpawnAdd, GoroutineSpawns
  <1>15. CASE SpawnExists(c)
    <2>1. UNCHANGED <<loc, obj, ledger, blocks, tree, handing, genesis>> /\ sp[c] = "exists"
      BY <1>15 DEF SpawnExists
    <2>2. CASE Current # 0
      <3>1. SpawnReturns(c, FALSE)
        BY <1>15, <2>2 DEF SpawnExists
      <3>2. sp'[c] = "idle" /\ TreeCurrent(c)' /\ GoroutinesFine(c)' /\ ~err'[c]
        BY <1>12, <2>1, <3>1
      <3> QED
        BY <1>3, <1>7, <1>14, <2>1, <3>2 DEF Well
    <2>3. CASE Current = 0
      <3>1. SpawnGoto(c, "get")
        BY <1>15, <2>3 DEF SpawnExists
      <3> QED
        BY <1>3, <1>7, <1>13, <1>14, <2>1, <3>1 DEF Well
    <2> QED
      BY <2>2, <2>3
  <1>16. CASE SpawnGet(c)
    <2>1. /\ UNCHANGED <<loc, obj, ledger, blocks, tree, handing, genesis>> /\ sp[c] = "get"
          /\ SpawnGoto(c, "make")
      BY <1>16 DEF SpawnGet
    <2> QED
      BY <1>3, <1>7, <1>13, <1>14, <2>1 DEF Well
  <1>17. ASSUME NEW there \in Dressing, SpawnGoto(c, there), sp[c] \in Spawning,
                UNCHANGED <<loc, ledger, blocks, tree, handing, spAt>>, genesis'[c] = {},
                \A u \in Object \ {Tip} : obj'[u] = obj[u],
                obj'[Tip].owner = "court", obj'[Tip].at # 0,
                there \in {"reset", "data", "hash"} => spObj'[c] = obj'[Tip].at
         PROVE  Well(c)'
    <2>1. Stages(c)' /\ Winners' /\ Won(c)'
      BY <1>1, <1>14, <1>17, SpawnElsewhere
    <2>2. sp'[c] = there /\ TreeCurrent(c)' /\ GoroutinesFine(c)' /\ ~err'[c]
      BY <1>13, <1>17
    <2>3. Tip' = Tip /\ Current' = Current /\ Current = 0 /\ spAt[c] = Tip
      BY <1>0, <1>17 DEF Current, Tip
    <2>4. Mine(c)'
      BY <1>1, <1>17, <2>3 DEF Mine
    <2>5. Importable(c)'
      BY <1>17, <2>2, <2>3 DEF Importable
    <2>6. Kept(c)'
      <3>1. crashes = 0 => \A o \in Object \ {Tip} : obj[o].at # 0 =>
               obj[o].owner # "court" \/ (pc[c] \in Handing /\ req[c].obj = o)
        BY <1>1, <2>3 DEF Kept, Object
      <3> QED
        BY <1>14, <1>17, <2>2, <2>3, <3>1 DEF Kept
    <2> QED
      BY <2>1, <2>2, <2>4, <2>5, <2>6 DEF Well
  <1>18. sp[c] \in Spawning \ {"chown"} => genesis[c] = {}
    BY <1>1 DEF Importable
  <1>19. CASE SpawnMake(c)
    <2>1. /\ UNCHANGED <<loc, obj, ledger, blocks, tree, handing, spAt, spObj>> /\ sp[c] = "make"
          /\ spAt[c] = Tip /\ genesis[c] = {}
      BY <1>0, <1>18, <1>19 DEF SpawnMake
    <2>2. CASE obj[Tip].at # 0
      <3>1. SpawnGoto(c, "dress") /\ UNCHANGED genesis
        BY <1>19, <2>1, <2>2 DEF SpawnMake
      <3> QED
        BY <1>0, <1>17, <2>1, <2>2, <3>1
    <2>3. CASE obj[Tip].at = 0
      <3>1. SpawnGoto(c, "chown") /\ genesis' = [genesis EXCEPT ![c] = @ \cup {Tip}]
        BY <1>19, <2>1, <2>3 DEF SpawnMake
      <3>2. genesis'[c] = {Tip}
        BY <1>2, <2>1, <3>1 DEF TablesOK, Table
      <3>3. sp'[c] = "chown" /\ TreeCurrent(c)' /\ GoroutinesFine(c)' /\ ~err'[c]
        BY <1>13, <2>1, <3>1
      <3>4. Tip' = Tip /\ Current' = Current
        BY <2>1 DEF Tip, Current
      <3>5. Mine(c)' /\ Importable(c)' /\ Kept(c)'
        BY <1>1, <1>14, <2>1, <2>3, <3>2, <3>3, <3>4 DEF Mine, Importable, Kept
      <3> QED
        BY <1>3, <1>14, <2>1, <3>3, <3>5 DEF Well
    <2> QED
      BY <2>2, <2>3
  <1>20. CASE SpawnChown(c)
    <2>1. /\ UNCHANGED <<loc, ledger, blocks, tree, handing>> /\ sp[c] = "chown"
          /\ spAt[c] = Tip /\ obj[Tip].at = 0 /\ genesis[c] \subseteq {Tip}
      BY <1>0, <1>1, <1>20 DEF SpawnChown, Importable
    <2>2. /\ SpawnGoto(c, "dress") /\ UNCHANGED spAt /\ obj' = [obj EXCEPT ![Tip].at = 1]
          /\ genesis' = [genesis EXCEPT ![c] = @ \ {Tip}]
      BY <1>20, <2>1 DEF SpawnChown
    <2>3. genesis'[c] = {}
      BY <1>2, <2>1, <2>2 DEF TablesOK, Table
    <2>4. Becomes(Tip, obj[Tip].data, obj[Tip].hash, obj[Tip].owner, 1)
      BY <1>0, <2>2, ObjectBlock
    <2> QED
      BY <1>0, <1>17, <2>1, <2>2, <2>3, <2>4 DEF Becomes
  <1>21. CASE SpawnDress(c)
    <2>1. /\ UNCHANGED <<loc, obj, ledger, blocks, tree, handing, spAt, genesis>> /\ sp[c] = "dress"
          /\ spAt[c] = Tip /\ obj[Tip].at # 0 /\ genesis[c] = {}
      BY <1>0, <1>1, <1>18, <1>21 DEF SpawnDress, Importable
    <2>2. \/ SpawnGoto(c, "add")
          \/ SpawnGoto(c, "reset") /\ spObj'[c] = obj[Tip].at
      BY <1>2, <1>21, <2>1 DEF SpawnDress, TablesOK, Table
    <2> QED
      BY <1>0, <1>17, <2>1, <2>2
  <1>22. CASE SpawnAgain(c)
    <2>1. /\ UNCHANGED <<loc, obj, ledger, blocks, tree, handing, spAt, genesis>> /\ sp[c] = "again"
          /\ spAt[c] = Tip /\ obj[Tip].at # 0 /\ genesis[c] = {}
      BY <1>0, <1>1, <1>18, <1>22 DEF SpawnAgain, Importable
    <2>2. SpawnGoto(c, "hash") /\ spObj'[c] = obj[Tip].at
      BY <1>2, <1>22, <2>1 DEF SpawnAgain, TablesOK, Table
    <2> QED
      BY <1>0, <1>17, <2>1, <2>2
  <1>23. CASE Importing(c)
    <2>1. sp[c] \in {"reset", "data", "hash"} /\ spAt[c] = Tip
      BY <1>0, <1>23 DEF Importing, SpawnReset, SpawnData, SpawnHash
    <2>2. spObj[c] = obj[Tip].at /\ obj[Tip].at # 0 /\ genesis[c] = {}
      BY <1>1, <1>18, <2>1 DEF Importable
    <2>3. ~BlockRefused(c)
      BY <1>0, <2>1, <2>2 DEF BlockRefused
    <2>4. /\ UNCHANGED <<loc, ledger, blocks, tree, handing, genesis>>
          /\ \E d, h, there : PlaysBlock(c, d, h, there) /\ there \in Dressing \ {"dress"}
      BY <1>0, <1>2, <1>23, <2>1, <2>3, ImportBlocks
    <2>5. PICK d, h, there : PlaysBlock(c, d, h, there) /\ there \in Dressing
      BY <2>4
    <2>6. /\ SpawnGoto(c, there) /\ spAt' = spAt /\ spObj'[c] = obj'[Tip].at
          /\ obj'[Tip].at = obj[Tip].at + 1 /\ obj'[Tip].owner = "court"
          /\ \A u \in Object \ {Tip} : obj'[u] = obj[u]
      BY <2>1, <2>2, <2>5 DEF PlaysBlock, Becomes
    <2>7. obj'[Tip].at # 0
      BY <1>0, <2>6
    <2> QED
      BY <1>17, <2>1, <2>2, <2>4, <2>5, <2>6, <2>7
  <1>24. CASE SpawnAdd(c)
    <2>1. /\ UNCHANGED <<obj, ledger, blocks, tree, handing, genesis>> /\ sp[c] = "add" /\ spAt[c] = Tip
          /\ Current = 0 /\ obj[Tip].at # 0 /\ genesis[c] = {}
      BY <1>0, <1>1, <1>18, <1>24 DEF SpawnAdd, Importable
    <2>2. SpawnReturns(c, FALSE) /\ Tip < MaxTip /\ loc' = Append(loc, Tip)
      BY <1>24, <2>1 DEF SpawnAdd
    <2>3. Current' = Tip
      BY <1>2, <2>2, LocAppend, FreshFacts DEF TreesOK, Object
    <2>4. sp'[c] = "idle" /\ TreeCurrent(c)' /\ GoroutinesFine(c)' /\ ~err'[c]
      BY <1>12, <2>1, <2>2
    <2>5. pc[c] \notin {"fetch", "remove"}
      BY <1>1, <2>1, FreshFacts DEF Mine, Object
    <2>6. Mine(c)' /\ Importable(c)'
      BY <2>1, <2>4, <2>5 DEF Mine, Importable
    <2>7. Kept(c)'
      BY <1>1, <1>14, <2>1, <2>3, <2>4 DEF Kept, Object
    <2> QED
      BY <1>3, <1>14, <2>1, <2>4, <2>6, <2>7 DEF Well
  <1> QED
    BY <1>6, <1>8, <1>10, <1>11, <1>15, <1>16, <1>19, <1>20, <1>21, <1>22, <1>23, <1>24
       DEF SpawnStep, Importing

\* A hand-out moves on without playing a block.
LEMMA HandMovesOn ==
    ASSUME NEW c \in Court, Fresh(c), Alone(c), Well(c), UNCHANGED <<trees, status, tree, spawning, genesis, crashes>>,
           ~err'[c], GoroutinesFine(c)',
           pc'[c] \in {"fetch", "remove"} => Current = req'[c].obj,
           pc'[c] = "remove" => at'[c] = Tip,
           Stages(c)',
           pc[c] \in Handing => \/ pc'[c] \in Handing /\ req'[c] = req[c]
                                \/ Prize(c).owner # "court",
           pc[c] \in {"chown", "track"} =>
                \/ pc'[c] \in {"chown", "track"} /\ req'[c] = req[c] /\ (pc'[c] = "track" => ~called'[c])
                \/ pc[c] = "track" /\ called[c]
    PROVE  Well(c)'
  <1> USE DEF trees, spawning
  <1>1. /\ TreeCurrent(c) /\ ~err[c] /\ GoroutinesFine(c) /\ Mine(c) /\ Importable(c) /\ Stages(c)
        /\ Winners /\ Won(c) /\ Kept(c)
    BY DEF Well
  <1>2. Tip' = Tip /\ Current' = Current
    BY DEF Tip, Current
  <1>3. TreeCurrent(c)' /\ Winners'
    BY <1>1 DEF TreeCurrent, Winners
  <1>4. Mine(c)' /\ Importable(c)'
    BY <1>1, <1>2 DEF Mine, Importable
  <1>5. Won(c)'
    BY <1>1 DEF Won, Recorded
  <1>6. Kept(c)'
    BY <1>1, <1>2 DEF Kept, Prize
  <1> QED
    BY <1>3, <1>4, <1>5, <1>6 DEF Well

\* A hand-out that is over: refused because the object is not the current one, or with
\* the prize given away and recorded.
LEMMA ReturnWell ==
    ASSUME NEW c \in Court, Fresh(c), Alone(c), Well(c), UNCHANGED <<trees, status, tree, spawning, genesis, crashes>>,
           Return(c), pc[c] \in {"check", "send"}
    PROVE  Well(c)'
  <1>1. TablesOK /\ ProcessOK(c) /\ ~err[c] /\ GoroutinesFine(c) /\ Stages(c)
    BY DEF Fresh, Well
  <1>2. ~err'[c] /\ ~called'[c]
    BY <1>1, Zenon DEF Return, TablesOK, Table
  <1>3. pc'[c] = "idle"
    BY <1>1 DEF Return, TablesOK, Table
  <1>4. GoroutinesFine(c)'
    <2>1. gor'[c] = {Orphan(g, err[c]) : g \in gor[c]}
      BY <1>1, Zenon DEF Return, TablesOK, Table
    <2>2. gor'[c] = {Orphan(g, FALSE) : g \in gor[c]}
      BY <1>1, <2>1, Zenon DEF ProcessOK, ProcessTyped
    <2>3. gor[c] \subseteq Goroutines
      BY <1>1 DEF ProcessOK, ProcessTyped
    <2> QED
      BY <1>1, <2>2, <2>3, OrphanFine, Zenon DEF GoroutinesFine
  <1>5. Stages(c)'
    BY <1>3 DEF Stages, Handing
  <1>6. pc[c] \in Handing => Prize(c).owner # "court"
    BY <1>1, FreshFacts DEF Stages, Handing
  <1> QED
    BY <1>2, <1>3, <1>4, <1>5, <1>6, HandMovesOn

\* No call of a hand-out is refused: the object and the handler's tree are where the
\* process last saw them.
LEMMA CallsAccepted ==
    ASSUME NEW c \in Court, Fresh(c), Well(c)
    PROVE  ~NilPanics(c) /\ ~CallRefused(c)
  <1>1. /\ pc[c] \in {"clear", "chown"} /\ ~called[c] => at[c] = Prize(c).at /\ Prize(c).owner = "court"
        /\ pc[c] = "dress" => Prize(c).owner = "court" /\ (~called[c] => at[c] = Prize(c).at)
        /\ pc[c] \in Handing => Prize(c).at # 0 /\ status[c] = "up"
    BY FreshFacts DEF Well, Stages, Handing
  <1>2. status[c] = "up" => tree[c] = blocks /\ blocks # 0
    BY DEF Well, TreeCurrent
  <1>3. ~NilPanics(c)
    BY <1>1, <1>2 DEF NilPanics, Handing
  <1>4. ~CallRefused(c)
    BY <1>1, <1>2 DEF CallRefused, Playing, CanPlay, Prize, Handing
  <1> QED
    BY <1>3, <1>4

\* A call of a hand-out plays its block.
LEMMA CallWell ==
    ASSUME NEW c \in Court, Fresh(c), Alone(c), Well(c), CallReturns(c), crashes' = crashes
    PROVE  Well(c)'
  <1> DEFINE o == req[c].obj
  <1> USE DEF spawning, outside
  <1>1. /\ TreeCurrent(c) /\ ~err[c] /\ GoroutinesFine(c) /\ Mine(c) /\ Importable(c) /\ Stages(c)
        /\ Winners /\ Won(c) /\ Kept(c)
    BY DEF Well
  <1>2. TreesOK /\ TablesOK /\ ProcessOK(c) /\ SharedFresh /\ SpawnFresh(c) /\ HandFresh(c)
    BY DEF Fresh
  <1>3. /\ ~called[c] /\ pc[c] \in {"clear", "dress", "chown", "track"} /\ CanPlay(c) /\ Play(c)
        /\ UNCHANGED <<loc, status, pc, req, gor, sp, spAt, spObj, genesis>>
    BY <1>1 DEF CallReturns, Playing, Play, Called
  <1>4. called'[c] /\ ~err'[c]
    BY <1>2, Zenon DEF CallReturns, Called, TablesOK, Table
  <1>5. GoroutinesFine(c)' /\ Mine(c)'
    BY <1>1, <1>3 DEF GoroutinesFine, Mine, Tip, Current
  <1>6. /\ o \in Object /\ o # Tip /\ req[c].player \in Player /\ status[c] = "up" /\ o # Current
        /\ obj \in [Object -> ObjectRecord] /\ obj[o].at # 0 /\ obj[o].at \in Nat
        /\ at[c] \in Nat
    BY <1>1, <1>2, <1>3, FreshFacts DEF Stages, Prize, Handing, HandFresh, ProcessOK, ProcessTyped
  <1>7. Current' = Current /\ Tip' = Tip
    BY <1>3 DEF Current, Tip
  <1>8. pc[c] # "track" => /\ at'[c] = IF pc[c] = "dress" THEN at[c] ELSE at[c] + 1
                          /\ UNCHANGED <<tree, blocks, ledger>>
    BY <1>2, <1>3 DEF CallReturns, TablesOK, Table, Play
  <1> HIDE DEF CallReturns
  <1>9. ASSUME pc[c] # "track", \A u \in Object \ {o} : obj'[u] = obj[u], obj'[o].at = obj[o].at + 1,
               obj'[o].owner = "court" \/ (obj'[o].owner = req[c].player /\ pc[c] = "chown"),
               obj'[o].owner # "court" => obj'[o].data = "prize",
               obj[o].owner = "court", Stages(c)'
        PROVE  Well(c)'
    <2>1. TreeCurrent(c)'
      BY <1>1, <1>3, <1>8, <1>9 DEF TreeCurrent
    <2>2. Winners'
      <3>1. \A k \in DOMAIN ledger : ledger[k].prize \in Object \ {o}
        BY <1>1, <1>6, <1>9, FreshFacts, PrizeAssumption DEF Winners
      <3>2. \A k \in DOMAIN ledger' : obj'[ledger'[k].prize].owner = ledger'[k].player
        BY <1>1, <1>8, <1>9, <3>1 DEF Winners
      <3>3. \A u \in Object : obj'[u].owner # "court" => obj'[u].data = "prize"
        BY <1>1, <1>9 DEF Winners
      <3> QED
        BY <3>2, <3>3 DEF Winners
    <2>3. Won(c)'
      BY <1>1, <1>3, <1>8, <1>9 DEF Won, Recorded
    <2>5. Importable(c)'
      <3>1. obj'[Tip] = obj[Tip]
        BY <1>6, <1>9, FreshFacts
      <3> QED
        BY <1>1, <1>3, <1>7, <3>1 DEF Importable
    <2>4. Kept(c)'
      <3>2. (Current # 0 => obj[Current].at # 0)'
        BY <1>1, <1>2, <1>6, <1>7, <1>9, FreshFacts DEF Kept, Object
      <3>4. ASSUME crashes = 0, NEW u \in Object, obj'[u].at # 0
            PROVE  \/ u = Current \/ obj'[u].owner # "court"
                   \/ pc[c] \in Handing /\ req[c].obj = u
                   \/ sp[c] \in Dressing /\ spAt[c] = u
        BY <1>1, <1>3, <1>9, <3>4 DEF Kept, Handing
      <3> QED
        BY <1>3, <1>7, <3>2, <3>4 DEF Kept
    <2> QED
      BY <1>4, <1>5, <1>9, <2>1, <2>2, <2>3, <2>4, <2>5 DEF Well
  <1>a. req[c].player \in Player \cup {"court"}
    BY <1>6
  <1>10. CASE pc[c] = "clear"
    <2>1. obj' = [obj EXCEPT ![o].data = "none", ![o].at = @ + 1] /\ obj[o].owner = "court"
      BY <1>3, <1>10 DEF Play, CanPlay
    <2>2. /\ \A u \in Object \ {o} : obj'[u] = obj[u]
          /\ obj'[o].at = obj[o].at + 1 /\ obj'[o].owner = obj[o].owner /\ obj'[o].hash = obj[o].hash
      BY <1>6, <1>a, <2>1, ObjectBlock DEF Becomes
    <2>3. Stages(c)'
      <3>1. pc'[c] = "clear" /\ called'[c] /\ Prize(c)' = obj'[o]
        BY <1>3, <1>4, <1>10 DEF Prize
      <3>2. at[c] = obj[o].at /\ at'[c] = at[c] + 1
        BY <1>1, <1>8, <1>10 DEF Stages, Prize
      <3>3. obj'[o].owner = "court" /\ at'[c] = obj'[o].at /\ obj'[o].hash = "spawn"
        BY <1>1, <1>10, <2>1, <2>2, <3>2 DEF Stages, Prize
      <3>4. obj'[o].at # 0
        BY <1>6, <2>2
      <3> QED
        BY <3>1, <3>3, <3>4 DEF Stages
    <2>4. obj'[o].owner = "court"
      BY <2>1, <2>2
    <2> QED
      BY <1>9, <1>10, <2>1, <2>2, <2>3, <2>4
  <1>11. CASE pc[c] = "dress"
    <2>1. /\ obj' = [obj EXCEPT ![o].data = "prize", ![o].hash = "prize", ![o].at = @ + 1]
          /\ obj[o].owner = "court"
      <3>1. obj[o].hash = "spawn"
        BY <1>1, <1>3, <1>11 DEF Stages, Prize
      <3> QED
        BY <1>3, <1>11, <3>1 DEF Play, CanPlay
    <2>2. /\ \A u \in Object \ {o} : obj'[u] = obj[u]
          /\ obj'[o].at = obj[o].at + 1 /\ obj'[o].owner = obj[o].owner /\ obj'[o].data = "prize"
      BY <1>6, <1>a, <2>1, ObjectBlock DEF Becomes
    <2>3. Stages(c)'
      <3>1. pc'[c] = "dress" /\ called'[c] /\ Prize(c)' = obj'[o]
        BY <1>3, <1>4, <1>11 DEF Prize
      <3>2. obj'[o].owner = "court" /\ obj'[o].data = "prize"
        BY <2>1, <2>2
      <3>3. obj'[o].at # 0
        BY <1>6, <2>2
      <3> QED
        BY <3>1, <3>2, <3>3 DEF Stages
    <2>4. obj'[o].owner = "court"
      BY <2>1, <2>2
    <2> QED
      BY <1>9, <1>11, <2>1, <2>2, <2>3, <2>4
  <1>12. CASE pc[c] = "chown"
    <2>1. obj' = [obj EXCEPT ![o].owner = req[c].player, ![o].at = @ + 1] /\ obj[o].owner = "court"
      BY <1>3, <1>12 DEF Play, CanPlay
    <2>2. /\ \A u \in Object \ {o} : obj'[u] = obj[u]
          /\ obj'[o].at = obj[o].at + 1 /\ obj'[o].owner = req[c].player /\ obj'[o].data = obj[o].data
      <3>1. PICK w \in Player \cup {"court"} : w = req[c].player
        BY <1>6
      <3>2. obj' = [obj EXCEPT ![o].owner = w, ![o].at = @ + 1]
        BY <2>1, <3>1
      <3>3. Becomes(o, obj[o].data, obj[o].hash, w, obj[o].at + 1)
        BY <1>6, <1>a, <3>2, ObjectBlock
      <3> QED
        BY <3>1, <3>3 DEF Becomes
    <2>3. obj[o].data = "prize"
      BY <1>1, <1>12 DEF Stages, Prize
    <2>4. Stages(c)'
      BY <1>1, <1>3, <1>4, <1>6, <1>8, <1>12, <2>2, <2>3 DEF Stages, Prize, Handing
    <2> QED
      BY <1>9, <1>12, <2>1, <2>2, <2>3, <2>4
  <1>13. CASE pc[c] = "track"
    <2>1. /\ obj' = obj /\ ledger' = Append(ledger, Winner(c)) /\ blocks' = blocks + 1
          /\ tree[c] = blocks
      BY <1>3, <1>13 DEF Play, CanPlay
    <2>2. tree'[c] = tree[c] + 1
      BY <1>2, <1>13 DEF CallReturns, TablesOK, Table
    <2>3. TreeCurrent(c)'
      BY <1>1, <1>2, <1>3, <2>1, <2>2 DEF TreeCurrent, TreesOK
    <2>4. /\ DOMAIN ledger' = DOMAIN ledger \cup {Len(ledger) + 1}
          /\ \A k \in DOMAIN ledger : ledger'[k] = ledger[k]
          /\ ledger'[Len(ledger) + 1] = Winner(c)
      <3> DEFINE Entry == [player : Player, prize : Object]
      <3>1. ledger \in Seq(Entry) /\ Winner(c) \in Entry
        BY <1>2, <1>6 DEF TreesOK, Winner
      <3> HIDE DEF Entry
      <3> QED
        BY <2>1, <3>1
    <2>5. obj[o].owner = req[c].player
      BY <1>1, <1>13 DEF Stages, Prize
    <2>6. Stages(c)'
      BY <1>1, <1>3, <1>4, <1>13, <2>1 DEF Stages, Prize, Handing
    <2>7. Winners'
      BY <1>1, <2>1, <2>4, <2>5 DEF Winners, Winner
    <2>8. \A u \in Object : Recorded(u) \/ u = o => Recorded(u)'
      BY <2>4 DEF Recorded, Winner
    <2>9. Won(c)'
      BY <1>1, <1>13, <2>1, <2>8 DEF Won
    <2>10. Kept(c)' /\ Importable(c)'
      BY <1>1, <1>3, <1>7, <2>1 DEF Kept, Importable
    <2> QED
      BY <1>4, <1>5, <2>3, <2>6, <2>7, <2>9, <2>10 DEF Well
  <1> QED
    BY <1>3, <1>10, <1>11, <1>12, <1>13

\* The steps of a hand-out and of the goroutines, when nothing fails.
LEMMA HandWell ==
    ASSUME NEW c \in Court, Fresh(c), Alone(c), Well(c), crashes' = crashes,
           \/ HandOutStep(c)
           \/ \E m \in asked : Receive(c, m)
           \/ \E g \in gor[c] : \/ GoroutineAssigns(c, g) \/ GoroutineJudges(c, g) \/ GoroutinePanics(c, g)
    PROVE  Well(c)'
  <1> USE DEF spawning, outside, trees
  <1>1. /\ TreeCurrent(c) /\ ~err[c] /\ GoroutinesFine(c) /\ Mine(c) /\ Importable(c) /\ Stages(c)
        /\ Winners /\ Won(c) /\ Kept(c)
    BY DEF Well
  <1>2. TreesOK /\ TablesOK /\ ProcessOK(c) /\ SharedFresh /\ SpawnFresh(c) /\ HandFresh(c)
    BY DEF Fresh
  <1>3. ASSUME UNCHANGED gor PROVE GoroutinesFine(c)'
    BY <1>1, <1>3 DEF GoroutinesFine
  <1>4. ASSUME UNCHANGED err PROVE ~err'[c]
    BY <1>1, <1>4
  <1>5. CASE \E m \in asked : Receive(c, m)
    <2>1. PICK m \in asked : Receive(c, m)
      BY <1>5
    <2>2. /\ pc'[c] = "check" /\ pc[c] = "idle"
          /\ UNCHANGED <<loc, obj, ledger, blocks, status, tree, spawning, genesis, err, gor>>
      BY <1>2, <2>1 DEF Receive, TablesOK, Table
    <2>3. Stages(c)'
      BY <2>2 DEF Stages, Handing
    <2> QED
      BY <1>3, <1>4, <2>2, <2>3, HandMovesOn DEF Handing
  <1>6. ASSUME NEW g \in gor[c], UNCHANGED <<loc, obj, ledger, blocks, status, tree, pc, req, called, at, spawning, genesis>>,
               ~err'[c], GoroutinesFine(c)'
        PROVE  Well(c)'
    <2>1. Stages(c)'
      BY <1>1, <1>6 DEF Stages, Prize
    <2>2. pc[c] \in {"fetch", "remove"} => Current = req[c].obj
      BY <1>1 DEF Mine
    <2>3. pc[c] = "remove" => at[c] = Tip
      BY <1>1 DEF Mine
    <2>4. TreeCurrent(c)' /\ Mine(c)' /\ Importable(c)' /\ Winners' /\ Won(c)' /\ Kept(c)'
      BY <1>1, <1>6 DEF TreeCurrent, Mine, Importable, Winners, Won, Recorded, Kept, Tip, Current
    <2> QED
      BY <1>6, <2>1, <2>4 DEF Well
  <1>7. CASE \E g \in gor[c] : \/ GoroutineAssigns(c, g) \/ GoroutineJudges(c, g) \/ GoroutinePanics(c, g)
    <2>1. PICK g \in gor[c] : \/ GoroutineAssigns(c, g) \/ GoroutineJudges(c, g) \/ GoroutinePanics(c, g)
      BY <1>7
    <2>2. g \in Goroutines /\ ~g.bad /\ g.st # "doomed"
      BY <1>1, <1>2, Zenon DEF GoroutinesFine, ProcessOK, ProcessTyped
    <2>3. CASE GoroutineAssigns(c, g)
      <3>1. gor'[c] = (gor[c] \ {g}) \cup {[g EXCEPT !.st = "judge"]}
        BY <1>2, <2>3 DEF GoroutineAssigns, TablesOK, Table
      <3>2. [g EXCEPT !.st = "judge"].st = "judge" /\ ~[g EXCEPT !.st = "judge"].bad
        BY <2>2, Zenon DEF Goroutines
      <3>3. GoroutinesFine(c)'
        BY <1>1, <3>1, <3>2, Zenon DEF GoroutinesFine
      <3>4. ~err'[c]
        <4>1. err' = err \/ err' = [err EXCEPT ![c] = g.bad]
          BY <2>3 DEF GoroutineAssigns
        <4> QED
          BY <1>1, <1>2, <2>2, <4>1, Zenon DEF TablesOK, Table
      <3> QED
        BY <1>6, <2>3, <3>3, <3>4 DEF GoroutineAssigns
    <2>4. CASE GoroutineJudges(c, g)
      <3>1. gor' = [gor EXCEPT ![c] = (@ \ {g}) \cup {}] \/ gor' = [gor EXCEPT ![c] = @ \ {g}]
        BY <1>1, <2>2, <2>4, Zenon DEF GoroutineJudges
      <3>2. gor'[c] \subseteq gor[c]
        BY <1>2, <3>1 DEF TablesOK, Table
      <3>3. GoroutinesFine(c)'
        BY <1>1, <3>2 DEF GoroutinesFine
      <3>4. UNCHANGED <<pc, req, called, at, err>>
        BY <2>4 DEF GoroutineJudges, handing
      <3> QED
        BY <1>4, <1>6, <2>4, <3>3, <3>4 DEF GoroutineJudges
    <2>5. CASE GoroutinePanics(c, g)
      BY <2>2, <2>5 DEF GoroutinePanics
    <2> QED
      BY <2>1, <2>3, <2>4, <2>5
  <1>8. CASE CheckRequest(c)
    <2>1. CASE Return(c)
      BY <1>8, <2>1, ReturnWell DEF CheckRequest
    <2>2. CASE Current = req[c].obj /\ Step(c, "fetch") /\ UNCHANGED at
      <3>1. pc'[c] = "fetch" /\ pc[c] = "check" /\ UNCHANGED <<req, called, err, gor>>
        BY <1>2, <1>8, <2>2 DEF CheckRequest, Step, TablesOK, Table
      <3>2. Stages(c)'
        BY <3>1 DEF Stages, Handing
      <3> QED
        BY <1>3, <1>4, <1>8, <2>2, <3>1, <3>2, HandMovesOn DEF CheckRequest, Handing
    <2> QED
      BY <1>8, <2>1, <2>2 DEF CheckRequest
  <1>9. CASE FetchLocation(c)
    <2>1. pc'[c] = "remove" /\ pc[c] = "fetch" /\ at'[c] = Tip /\ UNCHANGED <<req, called, err, gor>>
      BY <1>2, <1>9 DEF FetchLocation, Step, TablesOK, Table
    <2>2. Stages(c)'
      BY <2>1 DEF Stages, Handing
    <2>3. Current = req[c].obj
      BY <1>1, <2>1 DEF Mine
    <2> QED
      BY <1>3, <1>4, <1>9, <2>1, <2>2, <2>3, HandMovesOn DEF FetchLocation, Handing
  <1>10. CASE RemoveObject(c)
    <2>1. /\ pc[c] = "remove" /\ at[c] = Tip /\ Current = req[c].obj /\ loc[at[c]] = req[c].obj
          /\ req[c].obj \in Object
      BY <1>1, <1>10, FreshFacts DEF RemoveObject, Mine, Current, Tip
    <2>2. /\ Tip < MaxTip /\ loc' = Append(loc, 0)
          /\ gor' = [gor EXCEPT ![c] = @ \cup {Goroutine(c)}] /\ pc' = [pc EXCEPT ![c] = "tree"]
          /\ UNCHANGED <<obj, ledger, blocks, status, tree, spawning, genesis, req, called, at, err>>
      BY <1>10, <2>1 DEF RemoveObject
    <2>3. Current' = 0 /\ pc'[c] = "tree" /\ gor'[c] = gor[c] \cup {Goroutine(c)}
      BY <1>2, <2>2, LocAppend DEF TreesOK, TablesOK, Table
    <2>4. GoroutinesFine(c)'
      <3>1. Goroutine(c).st = "waiting" /\ ~Goroutine(c).bad
        BY Zenon DEF Goroutine
      <3> QED
        BY <1>1, <2>3, <3>1, Zenon DEF GoroutinesFine
    <2>5. sp[c] \notin {"get"} \cup Spawning
      BY <2>1 DEF Alone, Object
    <2>6. Mine(c)' /\ Importable(c)'
      BY <1>1, <2>2, <2>3, <2>5 DEF Mine, Importable
    <2>7. Prize(c).at # 0 /\ Prize(c).owner = "court" /\ Prize(c).hash = "spawn"
      BY <1>1, <1>2, <2>1 DEF Kept, SharedFresh, CurrentIsOffered, Prize, Object
    <2>8. ~called[c]
      BY <1>2, <2>1 DEF ProcessOK, ProcessWorks, Handing
    <2>9. Stages(c)'
      BY <2>2, <2>3, <2>7, <2>8 DEF Stages, Prize, Handing
    <2>10. Winners' /\ TreeCurrent(c)'
      BY <1>1, <2>2 DEF Winners, TreeCurrent
    <2>11. Won(c)'
      BY <1>1, <2>1, <2>2 DEF Won, Recorded
    <2>12. Kept(c)'
      BY <1>1, <2>1, <2>2, <2>3, <2>5 DEF Kept, Handing
    <2> QED
      BY <1>4, <2>2, <2>4, <2>6, <2>9, <2>10, <2>11, <2>12 DEF Well
  <1>11. CASE CheckErr(c)
    <2>1. /\ pc' = [pc EXCEPT ![c] = Follows(@)] /\ called' = [called EXCEPT ![c] = FALSE]
          /\ UNCHANGED <<req, at, err, gor, trees, status, tree, spawning, genesis>>
      BY <1>1, <1>11 DEF CheckErr
    <2>2. ~called'[c]
      BY <1>2, <2>1, Zenon DEF TablesOK, Table
    <2>3. /\ called[c] /\ pc[c] \in Handing \ {"send"} /\ pc'[c] = Follows(pc[c])
      BY <1>2, <1>11, <2>1 DEF CheckErr, TablesOK, Table, ProcessOK, ProcessWorks
    <2>4. pc'[c] \in Handing \ {"tree"}
      BY <2>3 DEF Follows, Handing
    <2>5. Stages(c)'
      BY <1>1, <2>1, <2>2, <2>3 DEF Stages, Prize, Handing, Follows
    <2>6. pc[c] = "chown" => pc'[c] = "track"
      BY <2>3 DEF Follows
    <2> QED
      BY <1>3, <1>4, <2>1, <2>2, <2>3, <2>4, <2>5, <2>6, HandMovesOn DEF Handing
  <1>12. CASE NilPanics(c) \/ CallRefused(c)
    BY <1>12, CallsAccepted
  <1>13. CASE GetObject(c)
    <2>1. /\ pc[c] \in {"tree", "tree2"} /\ at'[c] = Prize(c).at
          /\ UNCHANGED <<trees, status, tree, spawning, genesis, pc, req, gor>>
      BY <1>2, <1>13 DEF GetObject, At, Called, TablesOK, Table, Prize
    <2>2. called'[c] /\ ~err'[c]
      BY <1>2, <1>13, Zenon DEF GetObject, Called, TablesOK, Table
    <2>3. Stages(c)'
      BY <1>1, <2>1, <2>2 DEF Stages, Prize, Handing
    <2> QED
      BY <1>3, <2>1, <2>2, <2>3, HandMovesOn DEF Handing
  <1>14. CASE CallReturns(c)
    BY <1>14, CallWell
  <1>15. CASE Send(c)
    BY <1>15, ReturnWell DEF Send, At
  <1> QED
    BY <1>5, <1>7, <1>8, <1>9, <1>10, <1>11, <1>12, <1>13, <1>14, <1>15 DEF HandOutStep

\* A crash leaves the winners as they are; what it loses, it may lose.
LEMMA CrashWell ==
    ASSUME NEW c \in Court, Fresh(c), Well(c), crashes \in Nat, Crash(c)
    PROVE  Well(c)'
  <1> USE DEF spawning, outside, trees
  <1>1. /\ TreeCurrent(c) /\ Winners /\ Kept(c) /\ TablesOK
    BY DEF Well, Fresh
  <1>2. ~err'[c]
    BY <1>1, Zenon DEF Crash, Dies, TablesOK, Table
  <1>3. /\ status'[c] = "down" /\ pc'[c] = "idle" /\ sp'[c] = "idle" /\ gor'[c] = {}
        /\ genesis'[c] = {} /\ UNCHANGED trees /\ crashes' = crashes + 1
    BY <1>1 DEF Crash, Dies, TablesOK, Table
  <1>4. TreeCurrent(c)' /\ Winners' /\ Mine(c)' /\ Importable(c)' /\ Stages(c)'
    BY <1>1, <1>3 DEF TreeCurrent, Winners, Mine, Importable, Stages, Handing
  <1>5. GoroutinesFine(c)' /\ Won(c)'
    BY <1>3 DEF GoroutinesFine, Won
  <1>6. Kept(c)'
    BY <1>1, <1>3 DEF Kept, Current
  <1> QED
    BY <1>2, <1>4, <1>5, <1>6 DEF Well

\* Only failing calls count as faults, and only a crash counts as one.
LEMMA FaultsCounted ==
    ASSUME NEW c \in Court, ProcessStep(c)
    PROVE  \/ /\ faults' = faults + 1 /\ crashes' = crashes
           \/ /\ faults' = faults /\ Crash(c)
           \/ /\ faults' = faults /\ crashes' = crashes
              /\ ~SpawnFails(c) /\ ~EarlyFails(c) /\ ~CallFails(c)
  <1> USE DEF Fault
  <1>1. CASE GoroutineStep(c)
    <2>1. UNCHANGED <<faults, crashes>>
      BY <1>1 DEF GoroutineStep, GoroutineSpawns, GoroutineAssigns, GoroutineJudges, GoroutinePanics
    <2> QED
      BY <2>1 DEF SpawnFails, EarlyFails, CallFails, CallErrs
  <1>2. CASE SpawnStep(c)
    <2>1. UNCHANGED <<faults, crashes>>
      BY <1>2 DEF SpawnStep, SpawnExists, SpawnGet, SpawnMake, SpawnChown, SpawnDress, SpawnReset, SpawnData,
                SpawnAgain, SpawnHash, SpawnPlays, SpawnAdd
    <2> QED
      BY <2>1 DEF SpawnFails, EarlyFails, CallFails, CallErrs
  <1>3. CASE HandOutStep(c)
    <2>1. UNCHANGED <<faults, crashes>>
      BY <1>3 DEF HandOutStep, CheckRequest, FetchLocation, RemoveObject, CheckErr, NilPanics, GetObject,
                  CallReturns, CallRefused, CallErrs, Send
    <2> QED
      BY <2>1 DEF SpawnFails, EarlyFails, CallFails, CallErrs
  <1>4. CASE Setup(c) \/ Serve(c) \/ Tick(c) \/ \E m \in asked : Receive(c, m)
    <2>1. UNCHANGED <<faults, crashes>>
      BY <1>4 DEF Setup, Serve, Tick, Receive
    <2> QED
      BY <2>1 DEF SpawnFails, EarlyFails, CallFails, CallErrs
  <1>5. CASE SpawnFails(c) \/ EarlyFails(c) \/ CallFails(c)
    BY <1>5 DEF SpawnFails, EarlyFails, CallFails, CallErrs
  <1>6. CASE Crash(c)
    BY <1>6 DEF Crash
  <1> QED
    BY <1>1, <1>2, <1>3, <1>4, <1>5, <1>6 DEF ProcessStep

\* The court starts well.
LEMMA InitCourt == OneProcess /\ Init => CourtIInv
  <1> SUFFICES ASSUME NEW c, Court = {c}, Init PROVE CourtIInv
    BY DEF OneProcess
  <1>1. AloneIInv /\ faults \in Nat /\ crashes \in Nat
    <2>1. FreshIInv
      BY InitFresh
    <2> QED
      BY <2>1 DEF Init, AloneIInv, SpawnIsAlone, HashMeansData, Object
  <1>2. ~err[c] /\ ~called[c]
    BY Zenon DEF Init
  <1>3. /\ Current = 0 /\ status[c] = "down" /\ pc[c] = "idle" /\ sp[c] = "idle" /\ gor[c] = {}
        /\ genesis[c] = {} /\ blocks = 1 /\ ledger = <<>>
        /\ \A o \in Object : obj[o].owner = "court" /\ obj[o].at = 0
    BY DEF Init, Current
  <1>4. TreeCurrent(c) /\ GoroutinesFine(c) /\ Mine(c) /\ Importable(c) /\ Stages(c)
    BY <1>3 DEF TreeCurrent, GoroutinesFine, Mine, Importable, Stages, Handing
  <1>5. Winners /\ Won(c) /\ Kept(c)
    BY <1>3 DEF Winners, Won, Kept
  <1> QED
    BY <1>1, <1>2, <1>4, <1>5, CourtSplit DEF Well

\* Every step of a court that one process serves keeps the invariant: crashes may
\* leave an object behind or a winner unrecorded, and a call that fails anything.
LEMMA NextCourt ==
    ASSUME NEW c, Court = {c}, CourtIInv, [Next]_vars
    PROVE  CourtIInv'
  <1>1. AloneIInv /\ faults \in Nat /\ crashes \in Nat /\ (faults = 0 => Well(c))
    BY CourtSplit
  <1>2. c \in Court /\ Fresh(c) /\ Alone(c)
    BY <1>1, AloneSplit, FreshSplit, TypesSplit DEF Fresh
  <1>3. AloneIInv'
    BY <1>1, NextAlone
  <1>a. (AloneIInv /\ faults \in Nat /\ crashes \in Nat /\ (faults = 0 => Well(c)))' => CourtIInv'
    BY CourtSplit, PTL
  <1>4. SUFFICES faults' \in Nat /\ crashes' \in Nat /\ (faults' = 0 => Well(c)')
    BY <1>3, <1>a
  <1>5. CASE ProcessStep(c)
    <2>1. CASE faults' = faults + 1 /\ crashes' = crashes
      BY <1>1, <2>1
    <2>2. CASE faults' = faults /\ Crash(c)
      <3>1. crashes' = crashes + 1
        BY <2>2 DEF Crash
      <3> QED
        BY <1>1, <1>2, <2>2, <3>1, CrashWell
    <2>3. CASE /\ faults' = faults /\ crashes' = crashes
               /\ ~SpawnFails(c) /\ ~EarlyFails(c) /\ ~CallFails(c)
      <3>1. CASE Crash(c)
        BY <1>1, <1>2, <2>3, <3>1, CrashWell
      <3>2. CASE \/ Setup(c) \/ Serve(c) \/ Tick(c) \/ SpawnStep(c)
                 \/ \E g \in gor[c] : GoroutineSpawns(c, g)
        BY <1>1, <1>2, <2>3, <3>2, SpawnWell
      <3>3. CASE \/ HandOutStep(c)
                 \/ \E m \in asked : Receive(c, m)
                 \/ \E g \in gor[c] : \/ GoroutineAssigns(c, g) \/ GoroutineJudges(c, g)
                                        \/ GoroutinePanics(c, g)
        BY <1>1, <1>2, <2>3, <3>3, HandWell
      <3> QED
        BY <1>5, <2>3, <3>1, <3>2, <3>3 DEF ProcessStep, GoroutineStep
    <2> QED
      BY <1>2, <1>5, <2>1, <2>2, <2>3, FaultsCounted
  <1>6. ASSUME UNCHANGED <<trees, status, tree, handing, gor, spawning, genesis, faults, crashes>>
        PROVE  faults' \in Nat /\ crashes' \in Nat /\ (faults' = 0 => Well(c)')
    <2>1. SUFFICES ASSUME faults = 0 PROVE Well(c)'
      BY <1>1, <1>6
    <2>2. ~err[c] /\ err' = err
      BY <1>1, <1>6, <2>1 DEF Well, handing
    <2>3. UNCHANGED <<loc, obj, ledger, blocks, status, tree, pc, req, called, at, gor, sp, spAt, spObj,
                    genesis, crashes>>
      BY <1>6 DEF handing, spawning, trees
    <2>4. TreeCurrent(c)' /\ GoroutinesFine(c)' /\ Mine(c)' /\ Importable(c)'
      BY <1>1, <2>1, <2>3 DEF Well, TreeCurrent, GoroutinesFine, Mine, Importable, Tip, Current
    <2>5. Stages(c)' /\ Winners' /\ Won(c)' /\ Kept(c)'
      BY <1>1, <2>1, <2>3 DEF Well, Stages, Prize, Winners, Won, Recorded, Kept, Current
    <2> QED
      BY <2>2, <2>4, <2>5 DEF Well
  <1>7. ASSUME NEW p \in Player, Ask(p)
        PROVE  faults' \in Nat /\ crashes' \in Nat /\ (faults' = 0 => Well(c)')
    BY <1>6, <1>7 DEF Ask
  <1>8. ASSUME NEW m \in sent, Land(m)
        PROVE  faults' \in Nat /\ crashes' \in Nat /\ (faults' = 0 => Well(c)')
    BY <1>6, <1>8 DEF Land
  <1>9. CASE UNCHANGED vars
    BY <1>6, <1>9 DEF vars
  <1> QED
    BY <1>5, <1>7, <1>8, <1>9 DEF Next, ProcessStep

\* The inductive invariant of a court that one process serves: while no call fails,
\* hand-out, goroutine and timer never work on the same object, so that no call is
\* ever refused.
THEOREM CourtInductive == ASSUME OneProcess PROVE Spec => []CourtIInv
  <1>1. Init => CourtIInv
    BY OneProcess, InitCourt
  <1>2. PICK c : Court = {c}
    BY OneProcess DEF OneProcess
  <1>3. CourtIInv /\ [Next]_vars => CourtIInv'
    BY <1>2, NextCourt
  <1> QED
    BY <1>1, <1>3, PTL DEF Spec

-----------------------------------------------------------------------------
(***************************************************************************)
(* One process serves the court, and calls may fail, so that err tells     *)
(* handleTransfer nothing: who is recorded, and who owns.                  *)
(***************************************************************************)

\* A hand-out is under way, and may still record its winner.
HandingOut == {"fetch", "remove"} \cup Handing
HasRecorded(c) == pc[c] = "send" \/ (pc[c] = "track" /\ called[c])

\* The object process c hands out is nobody else's, and not recorded before c does.
HandOutIsFirst(c) ==
    pc[c] \in HandingOut => /\ obj[req[c].obj].owner \in {"court", req[c].player}
                            /\ HasRecorded(c) \/ ~Recorded(req[c].obj)

\* What is recorded has left the location for good.
RecordedIsGone == \A k \in DOMAIN ledger : ledger[k].prize < Tip /\ ledger[k].prize # Current

\* A prize has one winner, and nobody but the winner owns it.
OneWinner ==
    \A k \in DOMAIN ledger :
        /\ obj[ledger[k].prize].owner \in {"court", ledger[k].player}
        /\ \A j \in DOMAIN ledger : ledger[j].prize = ledger[k].prize => j = k

RecordIInv ==
    /\ FreshIInv /\ RecordedIsGone /\ OneWinner
    /\ \A c \in Court : HandOutIsFirst(c)

OwnersStay == \A u \in Object : obj'[u].owner = obj[u].owner

\* The four ways a step of process c moves a hand-out: it gives and records nothing,
Quiet(c) ==
    /\ UNCHANGED ledger /\ OwnersStay
    /\ \/ pc'[c] \notin HandingOut
       \/ /\ pc[c] \in HandingOut /\ req'[c] = req[c]
          /\ HasRecorded(c) => HasRecorded(c)'

\* it finds the object at the location,
Begins(c) ==
    /\ UNCHANGED <<ledger, obj>> /\ pc[c] = "check" /\ pc'[c] = "fetch" /\ req'[c] = req[c]
    /\ req[c].obj = Current

\* it gives the object away,
Gives(c) ==
    /\ UNCHANGED ledger /\ pc[c] = "chown" /\ pc'[c] = "chown" /\ req'[c] = req[c]
    /\ obj' = [obj EXCEPT ![req[c].obj].owner = req[c].player, ![req[c].obj].at = @ + 1]

\* or it records the winner.
Records(c) ==
    /\ UNCHANGED obj /\ pc[c] = "track" /\ pc'[c] = "track" /\ req'[c] = req[c]
    /\ ~called[c] /\ called'[c]
    /\ ledger' = Append(ledger, Winner(c))

\* A call of a hand-out whose block was accepted, whatever its reply.
LEMMA PlayRecords ==
    ASSUME NEW c \in Court, Fresh(c), Playing(c), Play(c), NEW bad, Called(c, bad)
    PROVE  Quiet(c) \/ Gives(c) \/ Records(c)
  <1> DEFINE o == req[c].obj
  <1>1. /\ pc'[c] = pc[c] /\ req'[c] = req[c] /\ ~called[c] /\ pc[c] \in HandingOut
        /\ pc[c] # "send"
    BY DEF Called, Playing, HandingOut, Handing
  <1>2. called'[c]
    BY Zenon DEF Called, Fresh, TablesOK, Table
  <1>3. o \in Object /\ req[c].player \in Player /\ obj \in [Object -> ObjectRecord]
    BY <1>1, FreshFacts DEF HandingOut, Handing
  <1>4. CASE pc[c] \in {"clear", "dress"}
    <2>1. /\ UNCHANGED ledger
          /\ \/ obj' = obj
             \/ obj' = [obj EXCEPT ![o].data = "none", ![o].at = @ + 1]
             \/ obj' = [obj EXCEPT ![o].data = "prize", ![o].hash = "prize", ![o].at = @ + 1]
      BY <1>4 DEF Play
    <2>2. req[c].player \in Player \cup {"court"}
      BY <1>3
    <2>3. obj'[o].owner = obj[o].owner /\ \A u \in Object \ {o} : obj'[u] = obj[u]
      BY <1>3, <2>1, <2>2, ObjectBlock DEF Becomes
    <2>4. OwnersStay
      BY <2>3 DEF OwnersStay
    <2>5. ~HasRecorded(c)
      BY <1>1 DEF HasRecorded
    <2> QED
      BY <1>1, <2>1, <2>4, <2>5 DEF Quiet
  <1>5. CASE pc[c] = "chown"
    BY <1>1, <1>5 DEF Play, Gives
  <1>6. CASE pc[c] = "track"
    BY <1>1, <1>2, <1>6 DEF Play, Records
  <1> QED
    BY <1>4, <1>5, <1>6 DEF Playing

\* Nothing else records a winner or changes an owner.
LEMMA StepRecords ==
    ASSUME NEW c \in Court, Fresh(c), ProcessStep(c)
    PROVE  Quiet(c) \/ Begins(c) \/ Gives(c) \/ Records(c)
  <1> USE DEF trees, handing, spawning, outside
  <1>1. TreesOK /\ TablesOK /\ ProcessOK(c) /\ obj \in [Object -> ObjectRecord]
    BY DEF Fresh, TreesOK
  <1>2. ASSUME UNCHANGED obj PROVE OwnersStay
    BY <1>2 DEF OwnersStay
  <1>3. ASSUME UNCHANGED ledger, OwnersStay, pc'[c] \in {"idle", "check"} PROVE Quiet(c)
    BY <1>3 DEF Quiet, HandingOut, Handing
  <1>4. ASSUME UNCHANGED <<ledger, pc, req, called>>, OwnersStay PROVE Quiet(c)
    BY <1>4, Zenon DEF Quiet, HasRecorded
  <1>5. CASE \/ Setup(c) \/ Serve(c) \/ Tick(c)
             \/ SpawnExists(c) \/ SpawnGet(c) \/ SpawnMake(c) \/ SpawnDress(c) \/ SpawnAgain(c)
             \/ SpawnAdd(c) \/ SpawnFails(c)
    <2>1. UNCHANGED <<ledger, obj, pc, req, called>>
      BY <1>5 DEF Setup, Serve, Tick, SpawnExists, SpawnGet, SpawnMake, SpawnDress, SpawnAgain, SpawnAdd,
                  SpawnFails
    <2> QED
      BY <1>2, <1>4, <2>1
  <1>6. CASE SpawnChown(c) \/ Importing(c)
    <2>1. spAt[c] \in Object /\ "court" \in Player \cup {"court"}
      BY <1>1, <1>6 DEF SpawnChown, Importing, SpawnReset, SpawnData, SpawnHash, ProcessOK, ProcessWorks
    <2>2. UNCHANGED <<ledger, pc, req, called>>
      BY <1>6 DEF SpawnChown, Importing, SpawnReset, SpawnData, SpawnHash, SpawnPlays
    <2>3. \/ obj' = obj
          \/ obj' = [obj EXCEPT ![spAt[c]].at = 1]
          \/ \E d, h, there : PlaysBlock(c, d, h, there)
      BY <1>1, <1>6, <2>1, ImportBlocks DEF SpawnChown, BlockRefused
    <2>4. \/ obj' = obj
          \/ /\ obj'[spAt[c]].owner = obj[spAt[c]].owner
             /\ \A u \in Object \ {spAt[c]} : obj'[u] = obj[u]
      BY <1>1, <2>1, <2>3, ObjectBlock DEF Becomes, PlaysBlock
    <2>5. OwnersStay
      BY <2>4 DEF OwnersStay
    <2> QED
      BY <1>4, <2>2, <2>5
  <1>7. CASE GoroutineStep(c) \/ Crash(c)
    <2>1. /\ UNCHANGED <<ledger, obj>>
          /\ \/ UNCHANGED <<pc, req, called>>
             \/ Dies(c)
      BY <1>7 DEF GoroutineStep, GoroutineSpawns, GoroutineAssigns, GoroutineJudges, GoroutinePanics,
                  Crash, Dies
    <2>2. ASSUME Dies(c) PROVE pc'[c] = "idle"
      BY <1>1, <2>2 DEF Dies, TablesOK, Table
    <2> QED
      BY <1>2, <1>3, <1>4, <2>1, <2>2
  <1>8. ASSUME Return(c) PROVE pc'[c] = "idle"
    BY <1>1, <1>8 DEF Return, TablesOK, Table
  <1>9. ASSUME NEW m \in asked, Receive(c, m) PROVE Quiet(c)
    <2>1. UNCHANGED <<ledger, obj>> /\ pc'[c] = "check"
      BY <1>1, <1>9 DEF Receive, TablesOK, Table
    <2> QED
      BY <1>2, <1>3, <2>1
  <1>10. CASE EarlyFails(c) \/ NilPanics(c) \/ Send(c)
    <2>1. UNCHANGED <<ledger, obj>> /\ Return(c)
      BY <1>10 DEF EarlyFails, NilPanics, Send
    <2> QED
      BY <1>2, <1>3, <1>8, <2>1
  <1>11. CASE CheckRequest(c)
    <2>1. UNCHANGED <<ledger, obj>> /\ pc[c] = "check"
          /\ \/ Return(c)
             \/ req[c].obj = Current /\ Step(c, "fetch")
      BY <1>11 DEF CheckRequest
    <2>2. ASSUME Step(c, "fetch") PROVE pc'[c] = "fetch" /\ req'[c] = req[c]
      BY <1>1, <2>2 DEF Step, TablesOK, Table
    <2> QED
      BY <1>2, <1>3, <1>8, <2>1, <2>2 DEF Begins
  <1>12. CASE FetchLocation(c) \/ RemoveObject(c)
    <2>1. UNCHANGED <<ledger, obj>> /\ pc[c] \in {"fetch", "remove"}
      BY <1>12 DEF FetchLocation, RemoveObject
    <2>2. Return(c) \/ (UNCHANGED <<req, called>>)
      BY <1>12 DEF FetchLocation, RemoveObject, Step
    <2>3. ~HasRecorded(c) /\ pc[c] \in HandingOut
      BY <2>1 DEF HasRecorded, HandingOut
    <2> QED
      BY <1>2, <1>3, <1>8, <2>1, <2>2, <2>3 DEF Quiet
  <1>13. CASE CheckErr(c)
    <2>1. /\ UNCHANGED <<ledger, obj>> /\ called[c]
          /\ \/ Return(c)
             \/ pc' = [pc EXCEPT ![c] = Follows(@)] /\ UNCHANGED req
      BY <1>13 DEF CheckErr
    <2>2. pc[c] \in Handing \ {"send"}
      BY <1>1, <2>1, Zenon DEF ProcessOK, ProcessWorks
    <2>3. ASSUME pc' = [pc EXCEPT ![c] = Follows(@)] PROVE pc[c] = "track" => pc'[c] = "send"
      BY <1>1, <2>3 DEF Follows, TablesOK, Table
    <2>4. ASSUME pc' = [pc EXCEPT ![c] = Follows(@)] PROVE HasRecorded(c) => HasRecorded(c)'
      BY <2>2, <2>3, <2>4 DEF HasRecorded
    <2> QED
      BY <1>2, <1>3, <1>8, <2>1, <2>2, <2>4 DEF Quiet, HandingOut
  <1>14. ASSUME NEW bad, Called(c, bad), UNCHANGED <<ledger, obj>>, pc[c] \in HandingOut PROVE Quiet(c)
    <2>1. UNCHANGED <<pc, req>>
      BY <1>14 DEF Called
    <2>2. called'[c]
      BY <1>1, <1>14, Zenon DEF Called, TablesOK, Table
    <2>3. HasRecorded(c) => HasRecorded(c)'
      BY <2>1, <2>2, Zenon DEF HasRecorded
    <2> QED
      BY <1>2, <1>14, <2>1, <2>3 DEF Quiet
  <1>15. CASE GetObject(c) \/ CallRefused(c)
    <2>1. /\ UNCHANGED <<ledger, obj>> /\ pc[c] \in HandingOut
          /\ Called(c, TRUE) \/ Called(c, FALSE)
      BY <1>15 DEF GetObject, At, CallRefused, CallErrs, Playing, HandingOut, Handing
    <2> QED
      BY <1>14, <2>1
  <1>16. CASE CallReturns(c)
    <2>1. Playing(c) /\ Play(c) /\ Called(c, FALSE)
      BY <1>16 DEF CallReturns
    <2> QED
      BY <2>1, PlayRecords
  <1>17. CASE CallFails(c)
    <2>1. Called(c, TRUE) /\ (At(c, "tree") \/ At(c, "tree2") \/ Playing(c))
          /\ (Play(c) \/ UNCHANGED <<obj, ledger>>)
      BY <1>17 DEF CallFails, CallErrs
    <2>2. pc[c] \in HandingOut
      BY <2>1 DEF At, Playing, HandingOut, Handing
    <2>3. Play(c) => Playing(c)
      BY <2>1 DEF At, Play
    <2> QED
      BY <1>14, <2>1, <2>2, <2>3, PlayRecords
  <1> QED
    BY <1>5, <1>6, <1>7, <1>9, <1>10, <1>11, <1>12, <1>13, <1>15, <1>16, <1>17
       DEF ProcessStep, SpawnStep, HandOutStep, Importing

\* What has left the location stays away.
LEMMA GoneStays ==
    ASSUME NEW c \in Court, Fresh(c), ProcessStep(c), NEW u \in Object, u < Tip, u # Current
    PROVE  (u < Tip)' /\ (u # Current)'
  <1>1. LocationMoves /\ TreesOK
    BY ProcessFresh DEF Fresh
  <1> QED
    BY <1>1, LocationAfter, CurrentTyped DEF Object, TreesOK

\* A step that gives and records nothing.
LEMMA QuietRecord ==
    ASSUME NEW c \in Court, Fresh(c), ProcessStep(c), Quiet(c),
           RecordedIsGone, OneWinner, HandOutIsFirst(c)
    PROVE  RecordedIsGone' /\ OneWinner' /\ HandOutIsFirst(c)'
  <1>1. /\ ledger' = ledger /\ OwnersStay
        /\ \A k \in DOMAIN ledger : ledger[k].prize \in Object
    BY FreshFacts DEF Quiet
  <1>2. RecordedIsGone'
    <2> SUFFICES ASSUME NEW k \in DOMAIN ledger
                 PROVE  (ledger[k].prize < Tip)' /\ (ledger[k].prize # Current)'
      BY <1>1 DEF RecordedIsGone
    <2>1. ledger[k].prize \in Object /\ ledger[k].prize < Tip /\ ledger[k].prize # Current
      BY <1>1 DEF RecordedIsGone
    <2> HIDE DEF RecordedIsGone
    <2> QED
      BY <1>1, <2>1, GoneStays
  <1>3. OneWinner'
    BY <1>1 DEF OneWinner, OwnersStay
  <1>4. HandOutIsFirst(c)'
    <2>1. CASE pc'[c] \notin HandingOut
      BY <2>1 DEF HandOutIsFirst, HandingOut, Handing
    <2>2. CASE pc[c] \in HandingOut /\ req'[c] = req[c] /\ (HasRecorded(c) => HasRecorded(c)')
      <3>1. req[c].obj \in Object
        BY <2>2, FreshFacts DEF HandingOut, Handing
      <3>2. obj'[req[c].obj].owner \in {"court", req[c].player}
        BY <1>1, <2>2, <3>1 DEF HandOutIsFirst, OwnersStay
      <3>3. HasRecorded(c)' \/ ~Recorded(req[c].obj)'
        BY <1>1, <2>2 DEF HandOutIsFirst, Recorded
      <3> QED
        BY <2>2, <3>2, <3>3 DEF HandOutIsFirst, Recorded
    <2> QED
      BY <2>1, <2>2 DEF Quiet
  <1> QED
    BY <1>2, <1>3, <1>4

\* A hand-out begins with an object that is at the location: nobody has won it.
LEMMA BeginsRecord ==
    ASSUME NEW c \in Court, Fresh(c), ProcessStep(c), Begins(c), RecordedIsGone, OneWinner
    PROVE  RecordedIsGone' /\ OneWinner' /\ HandOutIsFirst(c)'
  <1> DEFINE o == req[c].obj
  <1>1. /\ UNCHANGED <<ledger, obj>> /\ req'[c] = req[c] /\ o = Current /\ o \in Object
        /\ \A k \in DOMAIN ledger : ledger[k].prize \in Object
    BY FreshFacts DEF Begins
  <1>2. RecordedIsGone'
    <2> SUFFICES ASSUME NEW k \in DOMAIN ledger
                 PROVE  (ledger[k].prize < Tip)' /\ (ledger[k].prize # Current)'
      BY <1>1 DEF RecordedIsGone
    <2>1. ledger[k].prize \in Object /\ ledger[k].prize < Tip /\ ledger[k].prize # Current
      BY <1>1 DEF RecordedIsGone
    <2> HIDE DEF RecordedIsGone, o
    <2> QED
      BY <1>1, <2>1, GoneStays
  <1>3. OneWinner'
    BY <1>1 DEF OneWinner
  <1>4. obj[o].owner = "court"
    BY <1>1 DEF Fresh, SharedFresh, CurrentIsOffered, Object
  <1>5. ~Recorded(o)
    BY <1>1 DEF Recorded, RecordedIsGone
  <1>6. HandOutIsFirst(c)'
    BY <1>1, <1>4, <1>5 DEF HandOutIsFirst, Recorded
  <1> QED
    BY <1>2, <1>3, <1>6

\* The owner of an object changes before its winner is recorded.
LEMMA GivesRecord ==
    ASSUME NEW c \in Court, Fresh(c), ProcessStep(c), Gives(c),
           RecordedIsGone, OneWinner, HandOutIsFirst(c)
    PROVE  RecordedIsGone' /\ OneWinner' /\ HandOutIsFirst(c)'
  <1> DEFINE o == req[c].obj
  <1>1. /\ ledger' = ledger /\ pc[c] = "chown" /\ pc'[c] = "chown" /\ req'[c] = req[c]
        /\ o \in Object /\ req[c].player \in Player
        /\ \A k \in DOMAIN ledger : ledger[k].prize \in Object
    BY FreshFacts DEF Gives
  <1>2. obj'[o].owner = req[c].player /\ \A u \in Object \ {o} : obj'[u] = obj[u]
    <2>1. req[c].player \in Player \cup {"court"} /\ obj \in [Object -> ObjectRecord]
      BY <1>1 DEF Fresh, TreesOK
    <2>2. PICK w \in Player \cup {"court"} : w = req[c].player
      BY <2>1
    <2>3. obj' = [obj EXCEPT ![o].owner = w, ![o].at = @ + 1]
      BY <2>2 DEF Gives
    <2> HIDE DEF o
    <2>4. Becomes(o, obj[o].data, obj[o].hash, w, obj[o].at + 1)
      BY <1>1, <2>1, <2>3, ObjectBlock
    <2> QED
      BY <2>2, <2>4 DEF Becomes
  <1>3. ~Recorded(o)
    BY <1>1 DEF HandOutIsFirst, HandingOut, Handing, HasRecorded
  <1>4. RecordedIsGone'
    <2> SUFFICES ASSUME NEW k \in DOMAIN ledger
                 PROVE  (ledger[k].prize < Tip)' /\ (ledger[k].prize # Current)'
      BY <1>1 DEF RecordedIsGone
    <2>1. ledger[k].prize \in Object /\ ledger[k].prize < Tip /\ ledger[k].prize # Current
      BY <1>1 DEF RecordedIsGone
    <2> HIDE DEF RecordedIsGone, o
    <2> QED
      BY <1>1, <2>1, GoneStays
  <1>5. OneWinner'
    BY <1>1, <1>2, <1>3 DEF OneWinner, Recorded
  <1>6. HandOutIsFirst(c)'
    BY <1>1, <1>2, <1>3 DEF HandOutIsFirst, Recorded
  <1> QED
    BY <1>4, <1>5, <1>6

\* A winner is recorded once.
LEMMA RecordsRecord ==
    ASSUME NEW c \in Court, Fresh(c), ProcessStep(c), Records(c),
           RecordedIsGone, OneWinner, HandOutIsFirst(c)
    PROVE  RecordedIsGone' /\ OneWinner' /\ HandOutIsFirst(c)'
  <1> DEFINE o == req[c].obj
             n == Len(ledger) + 1
  <1>1. /\ obj' = obj /\ pc[c] = "track" /\ pc'[c] = "track" /\ req'[c] = req[c]
        /\ o \in Object /\ req[c].player \in Player
        /\ ledger' = Append(ledger, Winner(c))
    BY FreshFacts DEF Records
  <1>2. ~Recorded(o) /\ obj[o].owner \in {"court", req[c].player}
    <2>1. ~called[c]
      BY DEF Records
    <2> QED
      BY <1>1, <2>1 DEF HandOutIsFirst, HandingOut, Handing, HasRecorded
  <1>3. o < Tip /\ o # Current
    BY <1>1 DEF Fresh, HandFresh, Handing
  <1>4. /\ DOMAIN ledger = 1..Len(ledger) /\ Len(ledger) \in Nat
        /\ DOMAIN ledger' = 1..n
        /\ \A k \in 1..Len(ledger) : ledger'[k] = ledger[k]
        /\ ledger'[n] = Winner(c)
    <2> DEFINE E == [player : Player, prize : Object]
    <2>1. ledger \in Seq(E)
      BY DEF Fresh, TreesOK
    <2> HIDE DEF E
    <2> QED
      BY <1>1, <2>1
  <1>5. ledger'[n].prize = o /\ ledger'[n].player = req[c].player
    BY <1>4 DEF Winner
  <1>6. \A k \in 1..n : k = n \/ (k \in DOMAIN ledger /\ ledger'[k] = ledger[k])
    BY <1>4
  <1>7. RecordedIsGone'
    <2> SUFFICES ASSUME NEW k \in 1..n
                 PROVE  (ledger'[k].prize < Tip') /\ (ledger'[k].prize # Current')
      BY <1>4 DEF RecordedIsGone
    <2>1. \A i \in DOMAIN ledger : ledger[i].prize \in Object
      BY FreshFacts
    <2>2. ledger'[k].prize \in Object /\ ledger'[k].prize < Tip /\ ledger'[k].prize # Current
      BY <1>1, <1>3, <1>5, <1>6, <2>1 DEF RecordedIsGone
    <2>3. \A u \in Object : u < Tip /\ u # Current => u < Tip' /\ u # Current'
      BY GoneStays
    <2> QED
      BY <2>2, <2>3
  <1>8. OneWinner'
    <2> SUFFICES ASSUME NEW k \in 1..n
                 PROVE  /\ obj[ledger'[k].prize].owner \in {"court", ledger'[k].player}
                        /\ \A j \in 1..n : ledger'[j].prize = ledger'[k].prize => j = k
      BY <1>1, <1>4 DEF OneWinner
    <2>1. \A i \in DOMAIN ledger : ledger[i].prize # o
      BY <1>2 DEF Recorded
    <2>2. obj[ledger'[k].prize].owner \in {"court", ledger'[k].player}
      BY <1>2, <1>5, <1>6 DEF OneWinner
    <2>3. ASSUME NEW j \in 1..n, ledger'[j].prize = ledger'[k].prize PROVE j = k
      BY <1>5, <1>6, <2>1, <2>3 DEF OneWinner
    <2> QED
      BY <2>2, <2>3
  <1>9. HandOutIsFirst(c)'
    <2>1. called'[c]
      BY DEF Records
    <2>2. HasRecorded(c)'
      BY <1>1, <2>1 DEF HasRecorded
    <2> QED
      BY <1>1, <1>2, <2>2 DEF HandOutIsFirst
  <1> QED
    BY <1>7, <1>8, <1>9

\* Every step of a court that one process serves, whatever fails.
LEMMA NextRecord ==
    ASSUME NEW c, Court = {c}, RecordIInv, [Next]_vars
    PROVE  RecordIInv'
  <1>1. FreshIInv /\ RecordedIsGone /\ OneWinner /\ HandOutIsFirst(c) /\ c \in Court
    BY DEF RecordIInv
  <1>2. Fresh(c)
    BY <1>1, FreshSplit, TypesSplit DEF Fresh
  <1>3. FreshIInv'
    BY <1>1, NextFresh
  <1>4. SUFFICES RecordedIsGone' /\ OneWinner' /\ HandOutIsFirst(c)'
    BY <1>3 DEF RecordIInv
  <1>5. CASE ProcessStep(c)
    BY <1>1, <1>2, <1>5, StepRecords, QuietRecord, BeginsRecord, GivesRecord, RecordsRecord
  <1>6. ASSUME UNCHANGED <<loc, obj, ledger, pc, req, called>>
        PROVE  RecordedIsGone' /\ OneWinner' /\ HandOutIsFirst(c)'
    <2>1. RecordedIsGone' /\ OneWinner'
      BY <1>1, <1>6 DEF RecordedIsGone, OneWinner, Tip, Current
    <2>2. HandOutIsFirst(c)'
      BY <1>1, <1>6, Zenon DEF HandOutIsFirst, HasRecorded, Recorded
    <2> QED
      BY <2>1, <2>2
  <1>7. CASE \/ \E p \in Player : Ask(p)
             \/ \E m \in sent : Land(m)
             \/ UNCHANGED vars
    <2>1. UNCHANGED <<loc, obj, ledger, pc, req, called>>
      BY <1>7 DEF Ask, Land, vars, trees, handing
    <2> QED
      BY <1>6, <2>1
  <1> QED
    BY <1>1, <1>5, <1>7 DEF Next, ProcessStep

\* The inductive invariant of what is recorded, of a court that one process serves and
\* whose calls may fail: an object is handed out once, whatever err says meanwhile.
THEOREM RecordInductive == ASSUME OneProcess PROVE Spec => []RecordIInv
  <1>1. Init => RecordIInv
    <2> SUFFICES ASSUME Init PROVE RecordIInv
      OBVIOUS
    <2>1. FreshIInv
      BY InitFresh
    <2>2. ledger = <<>> /\ \A c \in Court : pc[c] = "idle"
      BY DEF Init
    <2> QED
      BY <2>1, <2>2 DEF RecordIInv, RecordedIsGone, OneWinner, HandOutIsFirst, HandingOut, Handing
  <1>2. PICK c : Court = {c}
    BY OneProcess DEF OneProcess
  <1>3. RecordIInv /\ [Next]_vars => RecordIInv'
    BY <1>2, NextRecord
  <1> QED
    BY <1>1, <1>3, PTL DEF Spec

\* Whatever calls fail, crash or lose their error to the respawn goroutine, no prize is
\* recorded for two winners and no winner's prize belongs to another player; as long as
\* none fails, the winners the court's tree lists own the prizes listed with them, and
\* what a player owns has the data of the prize.
THEOREM WinnersOwn == ASSUME OneProcess PROVE Spec => []WinnersOwnPrizes
  <1>1. CourtIInv /\ RecordIInv => WinnersOwnPrizes
    BY DEF CourtIInv, RecordIInv, Winners, OneWinner, WinnersOwnPrizes
  <1> QED
    BY <1>1, CourtInductive, RecordInductive, PTL

\* Between hand-outs every object a player was given is recorded on the court's tree,
\* as long as nothing fails or crashes.
THEOREM WinnersRecorded == ASSUME OneProcess PROVE Spec => []EveryWinnerRecorded
  <1>1. CourtIInv => EveryWinnerRecorded
    BY DEF CourtIInv, WonIsRecorded, EveryWinnerRecorded
  <1> QED
    BY <1>1, CourtInductive, PTL

\* When nothing is under way and nothing has failed or crashed, every object that was
\* spawned is at the location or with a player.
THEOREM PrizesKept == ASSUME OneProcess PROVE Spec => []NoLostPrize
  <1>1. CourtIInv => NoLostPrize
    <2>1. CourtIInv => \A c \in Court : lock[c] = "free" => sp[c] = "idle"
      BY DEF CourtIInv, AloneIInv, FreshIInv, TypeOK
    <2> QED
      BY <2>1 DEF CourtIInv, MadeIsKept, NoLostPrize, Handing
  <1> QED
    BY <1>1, CourtInductive, PTL
=============================================================================
