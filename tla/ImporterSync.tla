---------------------------- MODULE ImporterSync ----------------------------
(***************************************************************************)
(* The import of a court's locations and objects, as Court.Import runs it  *)
(* each time the court starts.  Every tree is found or created, then every *)
(* object and after them every location is brought to the state the YAML   *)
(* files describe, then the ids are written on the court's tree.           *)
(*                                                                         *)
(* A tree is only rewritten when the hash of its description differs from  *)
(* the one stored in it.  Rewriting is a sequence of blocks that a crash   *)
(* may cut anywhere; the hash is the last block.  The files may change     *)
(* between two starts.                                                     *)
(***************************************************************************)
EXTENDS Naturals, Sequences, FiniteSets

CONSTANTS
    Proc,          \* processes that run this court
    Location,      \* the trees of the locations
    ObjectTree,    \* the trees of the objects
    CourtTree,     \* the court's own tree
    Version,       \* versions of the configuration files, 1..n
    Data,          \* [Version -> [trees -> Seq of data keys]]
    Interactions,  \* [Version -> [trees -> Seq of interactions]]
    Inventory,     \* [Version -> [Location -> Seq of objects]]
    NameKey,       \* the data key that holds an object's name
    NoTree,        \* no tree
    MaxCrashes     \* bound on crashes and failed calls

Trees == Location \cup ObjectTree

ASSUME ImportAssumption ==
    /\ CourtTree \notin Trees /\ NoTree \notin Trees \cup {CourtTree}
    /\ Location \cap ObjectTree = {}
    /\ Version \subseteq Nat \ {0}
    /\ \A v \in Version : \A t \in Trees : \A s \in {Data[v][t], Interactions[v][t]} :
          Len(s) \in Nat /\ DOMAIN s = 1..Len(s)
    /\ \A v \in Version : \A t \in Location :
          LET s == Inventory[v][t] IN Len(s) \in Nat /\ DOMAIN s = 1..Len(s)
    /\ MaxCrashes \in Nat

VARIABLES
    tree,      \* [the trees -> owner, number of blocks, data, import-hash]
    ids,       \* the import whose ids are on the court's tree, 0 for none
    files,     \* the version of the configuration files
    proc,      \* [Proc -> where its import is]
    genesis,   \* [Proc -> the trees it has in its memory and no signer has]
    crashes

vars == <<tree, ids, files, proc, genesis, crashes>>

Down == [pc |-> "down", v |-> 0, todo |-> {}, t |-> NoTree, i |-> 0, h |-> 0, c |-> 0]
Fresh == [owner |-> "none", blocks |-> 0, data |-> {}, hash |-> 0]

\* What the data of a tree is made of: the values come with their version.
Entry(v, kind, x) == [kind |-> kind, v |-> v, key |-> x]

\* The blocks that rewrite tree t to version v, in order: loadBasicData in the
\* order of the sorted keys, loadInteractions, and for a location loadInventory.
Blocks(v, t) ==
    [k \in DOMAIN Data[v][t] |-> Entry(v, "data", Data[v][t][k])]
    \o [k \in DOMAIN Interactions[v][t] |-> Entry(v, "interaction", Interactions[v][t][k])]
    \o IF t \in Location
       THEN [k \in DOMAIN Inventory[v][t] |-> Entry(v, "object", Inventory[v][t][k])]
       ELSE <<>>

Desired(v, t) == {Blocks(v, t)[k] : k \in DOMAIN Blocks(v, t)}

\* Two versions whose description of a tree is the same have the same hash.
HashOf(v, t) == CHOOSE u \in Version :
    /\ Data[u][t] = Data[v][t] /\ Interactions[u][t] = Interactions[v][t]
    /\ t \in Location => Inventory[u][t] = Inventory[v][t]

Init ==
    /\ tree = [t \in Trees \cup {CourtTree} |-> Fresh]
    /\ ids = 0
    /\ files \in Version
    /\ proc = [p \in Proc |-> Down]
    /\ genesis = [p \in Proc |-> {}]
    /\ crashes = 0

---------------------------------------------------------------------------
Step(p, pc) == proc' = [proc EXCEPT ![p].pc = pc]

\* The import returns an error: the court's actor panics.
ImportFails(p) == proc' = [proc EXCEPT ![p] = Down]

MayWrite(p, t) == tree[t].owner = "court" /\ tree[t].blocks = proc[p].h

\* A court starts and reads its files: SpawnCourt, initialize, loadYaml.
Start(p) ==
    /\ proc[p].pc = "down"
    /\ proc' = [proc EXCEPT ![p] = [Down EXCEPT !.pc = "find", !.v = files,
                                                !.todo = Trees, !.t = CourtTree]]
    /\ UNCHANGED <<tree, ids, files, genesis, crashes>>

\* Mutant: the handle on the court's tree stays that of a new tree.
FindStaleCourt(p) ==
    LET s == proc[p]
    IN  /\ s.pc = "find"
        /\ tree[s.t].owner # "none" \/ s.t \in genesis[p]
        /\ \E next \in IF s.todo = {} THEN {NoTree} ELSE s.todo :
              proc' = [proc EXCEPT
                  ![p].t = next,
                  ![p].todo = IF next = NoTree THEN Trees ELSE @ \ {next},
                  ![p].pc = IF next = NoTree THEN "pick" ELSE "find"]
        /\ UNCHANGED <<tree, ids, files, genesis, crashes>>

\* FindOrCreatePassphraseTree, for the court's tree and then in any order for
\* the others: a tree that the signers or the tips in memory know is taken as
\* it is.
Find(p) ==
    LET s == proc[p]
    IN  /\ s.pc = "find"
        /\ tree[s.t].owner # "none" \/ s.t \in genesis[p]
        /\ \E next \in IF s.todo = {} THEN {NoTree} ELSE s.todo :
              proc' = [proc EXCEPT
                  ![p].t = next,
                  ![p].todo = IF next = NoTree THEN Trees ELSE @ \ {next},
                  ![p].pc = IF next = NoTree THEN "pick" ELSE "find",
                  ![p].c = IF s.t = CourtTree THEN tree[CourtTree].blocks ELSE @]
        /\ UNCHANGED <<tree, ids, files, genesis, crashes>>

\* A tree is made without a block: only the process that made it knows it.
CreateTree(p) ==
    /\ proc[p].pc = "find"
    /\ tree[proc[p].t].owner = "none" /\ proc[p].t \notin genesis[p]
    /\ genesis' = [genesis EXCEPT ![p] = @ \cup {proc[p].t}]
    /\ Step(p, "chown")
    /\ UNCHANGED <<tree, ids, files, crashes>>

\* Its first block hands it to the court.
ChownTree(p) ==
    /\ proc[p].pc = "chown"
    /\ tree[proc[p].t].owner = "none"
    /\ tree' = [tree EXCEPT ![proc[p].t].owner = "court"]
    /\ genesis' = [genesis EXCEPT ![p] = @ \ {proc[p].t}]
    /\ Step(p, "find")
    /\ UNCHANGED <<ids, files, crashes>>

\* Objects first: the inventory of a location looks the objects' names up.
Loadable(todo) == IF todo \cap ObjectTree # {} THEN todo \cap ObjectTree ELSE todo

\* Mutant: a tree that was imported once is left alone.
PickOnce(p, t) ==
    /\ proc[p].pc = "pick"
    /\ t \in Loadable(proc[p].todo)
    /\ proc' = [proc EXCEPT
          ![p].todo = @ \ {t}, ![p].t = t, ![p].i = 1, ![p].h = tree[t].blocks,
          ![p].pc = IF tree[t].hash # 0 THEN "pick" ELSE "reset"]
    /\ UNCHANGED <<tree, ids, files, genesis, crashes>>

\* updateTreeIfChanged fetches the tree and compares the hash.
PickTree(p, t) ==
    /\ proc[p].pc = "pick"
    /\ t \in Loadable(proc[p].todo)
    /\ proc' = [proc EXCEPT
          ![p].todo = @ \ {t}, ![p].t = t, ![p].i = 1, ![p].h = tree[t].blocks,
          ![p].pc = IF tree[t].hash = HashOf(proc[p].v, t) THEN "pick" ELSE "reset"]
    /\ UNCHANGED <<tree, ids, files, genesis, crashes>>

\* Mutant: the new hash is stored together with the reset.
ResetWithHash(p) ==
    LET t == proc[p].t
    IN  /\ proc[p].pc = "reset"
        /\ MayWrite(p, t)
        /\ tree' = [tree EXCEPT ![t].blocks = @ + 1, ![t].data = {},
                                ![t].hash = HashOf(proc[p].v, t)]
        /\ proc' = [proc EXCEPT ![p].h = @ + 1, ![p].pc = "load"]
        /\ UNCHANGED <<ids, files, genesis, crashes>>

\* "reset tree back to an empty state for reimporting"
ResetTree(p) ==
    LET t == proc[p].t
    IN  /\ proc[p].pc = "reset"
        /\ MayWrite(p, t)
        /\ tree' = [tree EXCEPT ![t].blocks = @ + 1, ![t].data = {}, ![t].hash = 0]
        /\ proc' = [proc EXCEPT ![p].h = @ + 1, ![p].pc = "load"]
        /\ UNCHANGED <<ids, files, genesis, crashes>>

\* Does the call that writes entry e get to write it?  AddInteraction refuses an
\* interaction the tree has, Add an object that has no name yet.
Loads(t, e) ==
    /\ e.kind = "interaction" => \A x \in tree[t].data : x.kind = e.kind => x.key # e.key
    /\ e.kind = "object" =>
          \E x \in tree[e.key].data : x.kind = "data" /\ x.key = NameKey

LoadEntry(p) ==
    LET t == proc[p].t
        todo == Blocks(proc[p].v, t)
        e == todo[proc[p].i]
    IN  /\ proc[p].pc = "load"
        /\ proc[p].i \in DOMAIN todo
        /\ MayWrite(p, t)
        /\ Loads(t, e)
        /\ tree' = [tree EXCEPT ![t].blocks = @ + 1,
                                ![t].data = {x \in @ : <<x.kind, x.key>> # <<e.kind, e.key>>} \cup {e}]
        /\ proc' = [proc EXCEPT ![p].h = @ + 1, ![p].i = @ + 1]
        /\ UNCHANGED <<ids, files, genesis, crashes>>

\* "get latest tree"
Refetch(p) ==
    /\ proc[p].pc = "load"
    /\ proc[p].i \notin DOMAIN Blocks(proc[p].v, proc[p].t)
    /\ proc' = [proc EXCEPT ![p].h = tree[proc[p].t].blocks, ![p].pc = "hash"]
    /\ UNCHANGED <<tree, ids, files, genesis, crashes>>

SetHash(p) ==
    LET t == proc[p].t
    IN  /\ proc[p].pc = "hash"
        /\ MayWrite(p, t)
        /\ tree' = [tree EXCEPT ![t].blocks = @ + 1, ![t].hash = HashOf(proc[p].v, t)]
        /\ Step(p, "pick")
        /\ UNCHANGED <<ids, files, genesis, crashes>>

\* Court.Import publishes the ids, on the handle it had before the import, and
\* the court goes on to its handlers.
MayPublish(p) == tree[CourtTree].owner = "court" /\ tree[CourtTree].blocks = proc[p].c

PublishIds(p) ==
    /\ proc[p].pc = "pick"
    /\ proc[p].todo = {}
    /\ MayPublish(p)
    /\ tree' = [tree EXCEPT ![CourtTree].blocks = @ + 1]
    /\ ids' = proc[p].v
    /\ Step(p, "up")
    /\ UNCHANGED <<files, genesis, crashes>>

\* A block is refused: the tree moved on, belongs to someone else, or the call
\* has nothing to write.
Refused(p) ==
    /\ \/ proc[p].pc = "chown" /\ tree[proc[p].t].owner # "none"
       \/ proc[p].pc \in {"reset", "hash"} /\ ~MayWrite(p, proc[p].t)
       \/ /\ proc[p].pc = "load"
          /\ proc[p].i \in DOMAIN Blocks(proc[p].v, proc[p].t)
          /\ \/ ~MayWrite(p, proc[p].t)
             \/ ~Loads(proc[p].t, Blocks(proc[p].v, proc[p].t)[proc[p].i])
       \/ proc[p].pc = "pick" /\ proc[p].todo = {} /\ ~MayPublish(p)
    /\ ImportFails(p)
    /\ UNCHANGED <<tree, ids, files, genesis, crashes>>

---------------------------------------------------------------------------
\* The process stops, anywhere, and forgets what only it knew.
Crash(p) ==
    /\ proc[p].pc # "down"
    /\ crashes < MaxCrashes
    /\ crashes' = crashes + 1
    /\ genesis' = [genesis EXCEPT ![p] = {}]
    /\ ImportFails(p)
    /\ UNCHANGED <<tree, ids, files>>

\* A call of the import fails: the actor panics and is restarted in a process
\* that lives on, with the trees it made still in memory.
CallFails(p) ==
    /\ proc[p].pc \notin {"down", "up"}
    /\ crashes < MaxCrashes
    /\ crashes' = crashes + 1
    /\ ImportFails(p)
    /\ UNCHANGED <<tree, ids, files, genesis>>

\* New files are deployed; a court that runs has read the old ones.
Deploy(v) ==
    /\ v \in Version /\ v > files
    /\ files' = v
    /\ UNCHANGED <<tree, ids, proc, genesis, crashes>>

Import(p) ==
    \/ Start(p) \/ Find(p) \/ CreateTree(p) \/ ChownTree(p)
    \/ \E t \in Trees : PickTree(p, t)
    \/ ResetTree(p) \/ LoadEntry(p) \/ Refetch(p) \/ SetHash(p)
    \/ PublishIds(p) \/ Refused(p)

Next ==
    \/ \E p \in Proc : Import(p) \/ Crash(p) \/ CallFails(p)
    \/ \E v \in Version : Deploy(v)

Spec == Init /\ [][Next]_vars

\* A court that stopped is started again, and its import goes on.
FairSpec == Spec /\ \A p \in Proc : WF_vars(Import(p))

---------------------------------------------------------------------------
\* Everything the files describe.
Described == UNION {Desired(v, t) : v \in Version, t \in Trees}

Tree == [owner : {"none", "court"}, blocks : Nat, data : SUBSET Described,
         hash : Version \cup {0}]

Process == [pc : {"down", "find", "chown", "pick", "reset", "load", "hash", "up"},
            v : Version \cup {0}, todo : SUBSET Trees,
            t : Trees \cup {CourtTree, NoTree}, i : Nat, h : Nat, c : Nat]

(* Types. *)
TypeOK ==
    /\ tree \in [Trees \cup {CourtTree} -> Tree]
    /\ ids \in Version \cup {0} /\ files \in Version
    /\ proc \in [Proc -> Process]
    /\ genesis \in [Proc -> SUBSET (Trees \cup {CourtTree})] /\ crashes \in 0..MaxCrashes

(* A tree that carries the hash of a description is exactly what it describes:
   nothing of an earlier version is left and nothing is missing, wherever
   earlier imports were cut.  Otherwise no later import would repair it. *)
HashMeansComplete ==
    \A t \in Trees :
        tree[t].hash # 0 =>
            \E v \in Version : HashOf(v, t) = tree[t].hash /\ tree[t].data = Desired(v, t)

(* When a court starts its handlers all the trees its configuration names are
   there, complete, in the version it read. *)
UpMeansImported ==
    \A p \in Proc : proc[p].pc = "up" =>
        \A t \in Trees : /\ tree[t].owner = "court"
                         /\ tree[t].hash = HashOf(proc[p].v, t)

(* The trees are well formed, and a court that is up has imported all of them. *)
ImporterInv == TypeOK /\ UpMeansImported

(* An import that is repeated after every failure completes in the end, unless
   a failed change of owner left, in the memory of a process that lives on, a
   tree that every later import finds and none can write. *)
ImportCompletes ==
    <>[](\E p \in Proc :
            \/ proc[p].pc = "up"
            \/ \E t \in genesis[p] : tree[t].owner = "none")
=============================================================================
