--------------------------- MODULE ImporterSyncProofs --------------------------
(***************************************************************************)
(* The safety of the import, for all files, any number of their versions   *)
(* and any number of crashes.                                              *)
(*                                                                         *)
(* A court is one process.  Its types hold for any number; the rest is     *)
(* proved for one, because the tree is fetched again before its hash is    *)
(* stored, and a second process could have reset it in between.            *)
(***************************************************************************)
EXTENDS ImporterSync, TLAPS

\* The import of a process is cut.
Cut(p) == Crash(p) \/ CallFails(p)

\* What the counter of a process means where it stands.
ProcessesOK ==
    \A p \in Proc :
        /\ proc[p].pc # "down" => proc[p].v \in Version
        /\ proc[p].pc \in {"find", "chown"} => proc[p].t \in Trees \cup {CourtTree}
        /\ proc[p].pc \in {"reset", "load", "hash"} => proc[p].t \in Trees

\* A hash is only ever on a tree of the court.
HashedIsOurs == \A t \in Trees \cup {CourtTree} : tree[t].hash # 0 => tree[t].owner = "court"

\* The part that holds for any number of processes.
SharedInv == TypeOK /\ ProcessesOK /\ HashedIsOurs

\* A tree that a process rewrites has no hash and holds the blocks written so far.
LoadedSoFar ==
    \A p \in Proc :
        LET t == proc[p].t
            todo == Blocks(proc[p].v, t)
        IN  /\ proc[p].pc = "load" =>
                  /\ proc[p].i \in 1..Len(todo) + 1
                  /\ tree[t].hash = 0
                  /\ tree[t].data = {todo[k] : k \in 1..proc[p].i - 1}
            /\ proc[p].pc = "reset" => proc[p].i = 1
            /\ proc[p].pc = "hash" => tree[t].data = Desired(proc[p].v, t)

\* Every tree a process has dealt with carries the hash of its version.
DoneIsHashed ==
    \A p \in Proc :
        LET done == CASE proc[p].pc = "pick" -> Trees \ proc[p].todo
                      [] proc[p].pc \in {"reset", "load", "hash"}
                             -> Trees \ (proc[p].todo \cup {proc[p].t})
                      [] proc[p].pc = "up" -> Trees
                      [] OTHER -> {}
        IN  \A t \in done : tree[t].hash = HashOf(proc[p].v, t)

ImportIInv == SharedInv /\ LoadedSoFar /\ DoneIsHashed /\ HashMeansComplete
---------------------------------------------------------------------------
(* The description of a tree. *)

\* The kind and the key of an entry determine it, within one version: writing an
\* entry twice replaces it by itself.
LEMMA BlocksShape ==
    ASSUME NEW v \in Version, NEW t \in Trees
    PROVE  /\ Len(Blocks(v, t)) \in Nat /\ DOMAIN Blocks(v, t) = 1..Len(Blocks(v, t))
           /\ \A k \in DOMAIN Blocks(v, t) :
                 Blocks(v, t)[k] = Entry(v, Blocks(v, t)[k].kind, Blocks(v, t)[k].key)
           /\ Desired(v, t) \subseteq Described
<1> DEFINE data == [k \in DOMAIN Data[v][t] |-> Entry(v, "data", Data[v][t][k])]
           inter == [k \in DOMAIN Interactions[v][t] |-> Entry(v, "interaction", Interactions[v][t][k])]
           inv == IF t \in Location
                  THEN [k \in DOMAIN Inventory[v][t] |-> Entry(v, "object", Inventory[v][t][k])]
                  ELSE <<>>
           E == {e \in [kind : {"data", "interaction", "object"}, v : {v},
                        key : UNION {{Data[v][t][k] : k \in DOMAIN Data[v][t]},
                                     {Interactions[v][t][k] : k \in DOMAIN Interactions[v][t]},
                                     {Inventory[v][t][k] : k \in DOMAIN Inventory[v][t]}}] : TRUE}
<1>1. \A e \in E : e = Entry(v, e.kind, e.key)
  BY DEF Entry
<1>2. data \in Seq(E)
  <2>1. Len(Data[v][t]) \in Nat /\ DOMAIN Data[v][t] = 1..Len(Data[v][t])
    BY ImportAssumption
  <2>2. \A k \in DOMAIN Data[v][t] : Entry(v, "data", Data[v][t][k]) \in E
    BY DEF Entry
  <2> QED
    BY <2>1, <2>2
<1>3. inter \in Seq(E)
  <2>1. Len(Interactions[v][t]) \in Nat /\ DOMAIN Interactions[v][t] = 1..Len(Interactions[v][t])
    BY ImportAssumption
  <2>2. \A k \in DOMAIN Interactions[v][t] : Entry(v, "interaction", Interactions[v][t][k]) \in E
    BY DEF Entry
  <2> QED
    BY <2>1, <2>2
<1>4. inv \in Seq(E)
  <2>1. CASE t \in Location
    <3>1. Len(Inventory[v][t]) \in Nat /\ DOMAIN Inventory[v][t] = 1..Len(Inventory[v][t])
      BY <2>1, ImportAssumption
    <3>2. \A k \in DOMAIN Inventory[v][t] : Entry(v, "object", Inventory[v][t][k]) \in E
      BY DEF Entry
    <3> QED
      BY <2>1, <3>1, <3>2
  <2>2. CASE t \notin Location
    BY <2>2
  <2> QED
    BY <2>1, <2>2
<1>5. Blocks(v, t) = data \o inter \o inv
  BY DEF Blocks
<1> HIDE DEF data, inter, inv, E
<1>6. Blocks(v, t) \in Seq(E)
  BY <1>2, <1>3, <1>4, <1>5
<1>7. Desired(v, t) \subseteq Described
  BY DEF Described
<1>8. Len(Blocks(v, t)) \in Nat /\ DOMAIN Blocks(v, t) = 1..Len(Blocks(v, t))
  BY <1>6
<1>9. \A k \in DOMAIN Blocks(v, t) : Blocks(v, t)[k] \in E
  BY <1>6
<1> QED
  BY <1>1, <1>7, <1>8, <1>9

\* The hash of a description is a version, and never 0.
LEMMA HashIsVersion ==
    ASSUME NEW v \in Version, NEW t \in Trees
    PROVE  HashOf(v, t) \in Version /\ HashOf(v, t) # 0
<1>1. \E u \in Version :
         /\ Data[u][t] = Data[v][t] /\ Interactions[u][t] = Interactions[v][t]
         /\ t \in Location => Inventory[u][t] = Inventory[v][t]
  OBVIOUS
<1>2. HashOf(v, t) \in Version
  BY <1>1 DEF HashOf
<1> QED
  BY <1>2, ImportAssumption

---------------------------------------------------------------------------
(* Any number of processes. *)

\* No tree exists and no process runs at first.
LEMMA SharedInit == Init => SharedInv
<1> SUFFICES ASSUME Init PROVE SharedInv
  OBVIOUS
<1>1. Fresh \in Tree /\ Down \in Process
  BY DEF Fresh, Tree, Down, Process
<1>2. TypeOK
  <2>1. tree \in [Trees \cup {CourtTree} -> Tree]
    BY <1>1 DEF Init
  <2>2. proc \in [Proc -> Process]
    BY <1>1 DEF Init
  <2>3. ids \in Version \cup {0} /\ files \in Version /\ genesis \in [Proc -> SUBSET (Trees \cup {CourtTree})]
    BY DEF Init
  <2>4. crashes \in 0..MaxCrashes
    BY ImportAssumption DEF Init
  <2> QED
    BY <2>1, <2>2, <2>3, <2>4 DEF TypeOK
<1>3. ProcessesOK /\ HashedIsOurs
  BY DEF Init, ProcessesOK, HashedIsOurs, Fresh, Down
<1> QED
  BY <1>2, <1>3 DEF SharedInv

\* The process of an import is the only one that changes.
Alone(p) == \A q \in Proc : q # p => proc'[q] = proc[q]

\* Taking the next tree to find, or none when all are found.
LEMMA FindMoves ==
    ASSUME TypeOK, NEW p \in Proc, Find(p)
    PROVE  /\ proc' \in [Proc -> Process] /\ Alone(p) /\ UNCHANGED <<tree, ids, files>>
           /\ proc'[p].v = proc[p].v
           /\ \/ proc'[p].pc = "find" /\ proc'[p].t \in Trees
              \/ proc'[p].pc = "pick" /\ proc'[p].todo = Trees
<1> DEFINE all == Trees \cup {CourtTree, NoTree}
           pcs == {"down", "find", "chown", "pick", "reset", "load", "hash", "up"}
<1>1. proc[p] \in Process /\ proc \in [Proc -> Process] /\ tree[CourtTree].blocks \in Nat
  BY DEF TypeOK, Tree
<1>2. PICK next \in IF proc[p].todo = {} THEN {NoTree} ELSE proc[p].todo :
          proc' = [proc EXCEPT
              ![p].t = next,
              ![p].todo = IF next = NoTree THEN Trees ELSE proc[p].todo \ {next},
              ![p].pc = IF next = NoTree THEN "pick" ELSE "find",
              ![p].c = IF proc[p].t = CourtTree THEN tree[CourtTree].blocks ELSE proc[p].c]
  BY DEF Find
<1>3. UNCHANGED <<tree, ids, files>>
  BY DEF Find
<1> DEFINE todo == IF next = NoTree THEN Trees ELSE proc[p].todo \ {next}
           pc == IF next = NoTree THEN "pick" ELSE "find"
           c == IF proc[p].t = CourtTree THEN tree[CourtTree].blocks ELSE proc[p].c
<1>4. next \in all /\ todo \in SUBSET Trees /\ pc \in pcs /\ c \in Nat
  BY <1>1, <1>2 DEF Process
<1>5. \/ pc = "find" /\ next \in Trees
      \/ pc = "pick" /\ todo = Trees
  BY <1>1, <1>2 DEF Process
<1> HIDE DEF todo, pc, c, all, pcs
<1>6. /\ proc'[p] = [proc[p] EXCEPT !.t = next, !.todo = todo, !.pc = pc, !.c = c]
      /\ Alone(p)
      /\ proc' = [proc EXCEPT ![p] = proc'[p]]
  BY <1>1, <1>2 DEF Alone, todo, pc, c
<1>7. proc'[p] \in Process
  BY <1>1, <1>4, <1>6 DEF Process, all, pcs
<1>8. proc'[p].v = proc[p].v /\ proc'[p].pc = pc /\ proc'[p].t = next /\ proc'[p].todo = todo
  BY <1>1, <1>6 DEF Process
<1> QED
  BY <1>1, <1>3, <1>5, <1>6, <1>7, <1>8

\* Taking the next tree to load, and leaving it when its hash is the right one.
LEMMA PickMoves ==
    ASSUME TypeOK, NEW p \in Proc, NEW t \in Trees, PickTree(p, t)
    PROVE  /\ proc' \in [Proc -> Process] /\ Alone(p) /\ UNCHANGED <<tree, ids, files>>
           /\ proc[p].pc = "pick" /\ proc'[p].v = proc[p].v /\ proc'[p].t = t
           /\ proc'[p].i = 1 /\ proc'[p].todo = proc[p].todo \ {t}
           /\ proc'[p].pc = IF tree[t].hash = HashOf(proc[p].v, t) THEN "pick" ELSE "reset"
<1> DEFINE pc == IF tree[t].hash = HashOf(proc[p].v, t) THEN "pick" ELSE "reset"
           pcs == {"down", "find", "chown", "pick", "reset", "load", "hash", "up"}
<1>1. proc[p] \in Process /\ proc \in [Proc -> Process] /\ tree[t].blocks \in Nat
  BY DEF TypeOK, Tree
<1>2. /\ proc' = [proc EXCEPT
             ![p].todo = @ \ {t}, ![p].t = t, ![p].i = 1, ![p].h = tree[t].blocks,
             ![p].pc = pc]
      /\ UNCHANGED <<tree, ids, files>> /\ proc[p].pc = "pick"
  BY DEF PickTree
<1>3. /\ pc \in pcs /\ proc[p].todo \ {t} \in SUBSET Trees /\ 1 \in Nat
      /\ t \in Trees \cup {CourtTree, NoTree}
  BY <1>1 DEF Process
<1> HIDE DEF pc, pcs
<1>4. /\ proc'[p] = [proc[p] EXCEPT !.todo = proc[p].todo \ {t}, !.t = t, !.i = 1,
                                    !.h = tree[t].blocks, !.pc = pc]
      /\ Alone(p)
      /\ proc' = [proc EXCEPT ![p] = proc'[p]]
  BY <1>1, <1>2 DEF Alone
<1>5. proc'[p] \in Process
  BY <1>1, <1>3, <1>4 DEF Process, pcs
<1>6. /\ proc'[p].v = proc[p].v /\ proc'[p].t = t /\ proc'[p].i = 1
      /\ proc'[p].todo = proc[p].todo \ {t} /\ proc'[p].pc = pc
  BY <1>1, <1>4 DEF Process
<1> QED
  BY <1>1, <1>2, <1>4, <1>5, <1>6 DEF pc

\* A process that comes to another statement on the same tree; i and h count on
\* or are set.
LEMMA StepMoves ==
    ASSUME TypeOK, NEW p \in Proc, NEW i \in Nat, NEW h \in Nat,
           NEW pc \in {"down", "find", "chown", "pick", "reset", "load", "hash", "up"},
           proc' = [proc EXCEPT ![p] = [proc[p] EXCEPT !.pc = pc, !.i = i, !.h = h]]
    PROVE  /\ proc' \in [Proc -> Process] /\ Alone(p)
           /\ proc'[p].v = proc[p].v /\ proc'[p].t = proc[p].t /\ proc'[p].todo = proc[p].todo
           /\ proc'[p].pc = pc /\ proc'[p].i = i
<1>1. proc[p] \in Process /\ proc \in [Proc -> Process]
  BY DEF TypeOK
<1>2. proc'[p] = [proc[p] EXCEPT !.pc = pc, !.i = i, !.h = h] /\ Alone(p)
  BY <1>1 DEF Alone
<1>3. proc'[p] \in Process
  BY <1>1, <1>2 DEF Process
<1>4. /\ proc'[p].v = proc[p].v /\ proc'[p].t = proc[p].t /\ proc'[p].todo = proc[p].todo
      /\ proc'[p].pc = pc /\ proc'[p].i = i
  BY <1>1, <1>2 DEF Process
<1> QED
  BY <1>1, <1>2, <1>3, <1>4
\* A block on one tree leaves the others alone.
LEMMA TreeMoves ==
    ASSUME TypeOK, NEW t \in Trees \cup {CourtTree}, NEW x \in Tree,
           tree' = [tree EXCEPT ![t] = x]
    PROVE  /\ tree' \in [Trees \cup {CourtTree} -> Tree] /\ tree'[t] = x
           /\ \A u \in Trees \cup {CourtTree} : u # t => tree'[u] = tree[u]
  BY DEF TypeOK

\* A tree that is created belongs to its own key and has no hash.
LEMMA CreateMoves ==
    ASSUME SharedInv, NEW p \in Proc, CreateTree(p) \/ ChownTree(p)
    PROVE  /\ proc' \in [Proc -> Process] /\ Alone(p) /\ UNCHANGED <<ids, files, crashes>>
           /\ genesis' \in [Proc -> SUBSET (Trees \cup {CourtTree})]
           /\ proc'[p].v = proc[p].v /\ proc'[p].t = proc[p].t /\ proc[p].v \in Version
           /\ proc'[p].pc \in {"chown", "find"} /\ proc[p].t \in Trees \cup {CourtTree}
           /\ tree' \in [Trees \cup {CourtTree} -> Tree]
           /\ \A u \in Trees \cup {CourtTree} :
                 /\ tree'[u].hash = tree[u].hash /\ tree'[u].data = tree[u].data
                 /\ tree[u].owner = "court" => tree'[u].owner = "court"
<1> DEFINE t == proc[p].t
           o == IF CreateTree(p) THEN tree[t].owner ELSE "court"
           pc == IF CreateTree(p) THEN "chown" ELSE "find"
           x == [tree[t] EXCEPT !.owner = o]
<1>1. TypeOK /\ proc[p] \in Process /\ tree \in [Trees \cup {CourtTree} -> Tree]
      /\ proc \in [Proc -> Process]
  BY DEF SharedInv, TypeOK
<1>2. t \in Trees \cup {CourtTree} /\ proc[p].v \in Version
  BY DEF CreateTree, ChownTree, SharedInv, ProcessesOK
<1>3. /\ tree' = [tree EXCEPT ![t] = x] /\ proc' = [proc EXCEPT ![p].pc = pc]
      /\ UNCHANGED <<ids, files, crashes>> /\ tree[t].owner = "none"
  <2>1. CASE CreateTree(p)
    <3>1. tree' = tree /\ tree[t].owner = "none" /\ tree[t] \in Tree
      BY <1>1, <1>2, <2>1 DEF CreateTree
    <3>2. x = tree[t]
      BY <2>1, <3>1 DEF Tree
    <3> QED
      BY <1>1, <1>2, <2>1, <3>1, <3>2 DEF CreateTree, Step
  <2>2. CASE ChownTree(p)
    <3>1. ~CreateTree(p)
      BY <2>2 DEF CreateTree, ChownTree
    <3> QED
      BY <1>1, <2>2, <3>1 DEF ChownTree, Step
  <2> QED
    BY <2>1, <2>2
<1>g. genesis' \in [Proc -> SUBSET (Trees \cup {CourtTree})]
  <2>1. genesis \in [Proc -> SUBSET (Trees \cup {CourtTree})]
    BY <1>1 DEF TypeOK
  <2> QED
    BY <1>2, <2>1 DEF CreateTree, ChownTree
<1>4. o \in {"none", "court"} /\ pc \in {"chown", "find"}
  BY <1>3
<1> HIDE DEF o, pc, t
<1>5. x \in Tree /\ x.hash = tree[t].hash /\ x.data = tree[t].data
  BY <1>1, <1>2, <1>4 DEF Tree
<1> HIDE DEF x
<1>6. /\ tree' \in [Trees \cup {CourtTree} -> Tree] /\ tree'[t] = x
      /\ \A u \in Trees \cup {CourtTree} : u # t => tree'[u] = tree[u]
  BY <1>1, <1>2, <1>3, <1>5, TreeMoves
<1>7. \A u \in Trees \cup {CourtTree} :
         /\ tree'[u].hash = tree[u].hash /\ tree'[u].data = tree[u].data
         /\ tree[u].owner = "court" => tree'[u].owner = "court"
  BY <1>3, <1>5, <1>6
<1>8. proc' = [proc EXCEPT ![p] = [proc[p] EXCEPT !.pc = pc, !.i = proc[p].i, !.h = proc[p].h]]
  BY <1>1, <1>3 DEF Process
<1>9. /\ proc' \in [Proc -> Process] /\ Alone(p) /\ proc'[p].v = proc[p].v
      /\ proc'[p].t = proc[p].t /\ proc'[p].pc = pc
  <2>1. proc[p].i \in Nat /\ proc[p].h \in Nat
    BY <1>1 DEF Process
  <2> QED
    BY <1>1, <1>4, <1>8, <2>1, StepMoves
<1> QED
  BY <1>2, <1>3, <1>g, <1>4, <1>6, <1>7, <1>9 DEF t

\* A block on the tree that is rewritten: the reset, an entry, or the hash.
LEMMA RewriteMoves ==
    ASSUME SharedInv, NEW p \in Proc, ResetTree(p) \/ LoadEntry(p) \/ SetHash(p)
    PROVE  LET t == proc[p].t
               todo == Blocks(proc[p].v, t)
               e == todo[proc[p].i]
           IN  /\ proc' \in [Proc -> Process] /\ Alone(p)
               /\ UNCHANGED <<ids, files, genesis, crashes>>
               /\ proc'[p].v = proc[p].v /\ proc'[p].t = t /\ proc'[p].todo = proc[p].todo
               /\ proc[p].v \in Version /\ t \in Trees
               /\ tree' \in [Trees \cup {CourtTree} -> Tree]
               /\ \A u \in Trees \cup {CourtTree} : u # t => tree'[u] = tree[u]
               /\ tree[t].owner = "court" /\ tree'[t].owner = "court"
               /\ ResetTree(p) =>
                     /\ proc[p].pc = "reset" /\ proc'[p].pc = "load" /\ proc'[p].i = proc[p].i
                     /\ tree'[t].hash = 0 /\ tree'[t].data = {}
               /\ LoadEntry(p) =>
                     /\ proc[p].pc = "load" /\ proc'[p].pc = "load" /\ proc'[p].i = proc[p].i + 1
                     /\ proc[p].i \in DOMAIN todo /\ tree'[t].hash = tree[t].hash
                     /\ tree'[t].data = {x \in tree[t].data : <<x.kind, x.key>> # <<e.kind, e.key>>}
                                           \cup {e}
               /\ SetHash(p) =>
                     /\ proc[p].pc = "hash" /\ proc'[p].pc = "pick"
                     /\ tree'[t].hash = HashOf(proc[p].v, t) /\ tree'[t].data = tree[t].data
<1> DEFINE t == proc[p].t
           todo == Blocks(proc[p].v, t)
           e == todo[proc[p].i]
<1>1. TypeOK /\ proc[p] \in Process /\ tree \in [Trees \cup {CourtTree} -> Tree]
      /\ proc \in [Proc -> Process]
  BY DEF SharedInv, TypeOK
<1>2. t \in Trees /\ proc[p].v \in Version
  BY DEF ResetTree, LoadEntry, SetHash, SharedInv, ProcessesOK
<1>3. /\ tree[t] \in Tree /\ tree[t].blocks + 1 \in Nat /\ tree[t].owner = "court"
      /\ t \in Trees \cup {CourtTree} /\ tree[t].data \subseteq Described
  <2>1. tree[t].owner = "court"
    BY DEF ResetTree, LoadEntry, SetHash, MayWrite
  <2>2. t \in Trees \cup {CourtTree} /\ tree[t] \in Tree
    BY <1>1, <1>2
  <2> QED
    BY <2>1, <2>2 DEF Tree
<1>4. /\ proc[p].i \in Nat /\ proc[p].h \in Nat /\ proc[p].i + 1 \in Nat /\ proc[p].h + 1 \in Nat
  BY <1>1 DEF Process
<1>5. CASE ResetTree(p)
  <2> DEFINE x == [tree[t] EXCEPT !.blocks = @ + 1, !.data = {}, !.hash = 0]
  <2>1. /\ tree' = [tree EXCEPT ![t] = x] /\ proc[p].pc = "reset"
        /\ proc' = [proc EXCEPT ![p].h = @ + 1, ![p].pc = "load"]
        /\ UNCHANGED <<ids, files, genesis, crashes>>
    BY <1>1, <1>2, <1>5 DEF ResetTree
  <2>2. x \in Tree /\ x.owner = "court" /\ x.hash = 0 /\ x.data = {}
    BY <1>3 DEF Tree
  <2> HIDE DEF x
  <2>3. /\ tree' \in [Trees \cup {CourtTree} -> Tree] /\ tree'[t] = x
        /\ \A u \in Trees \cup {CourtTree} : u # t => tree'[u] = tree[u]
    BY <1>1, <1>3, <2>1, <2>2, TreeMoves
  <2>4. proc' = [proc EXCEPT ![p] = [proc[p] EXCEPT !.pc = "load", !.i = proc[p].i, !.h = proc[p].h + 1]]
    BY <1>1, <2>1 DEF Process
  <2>5. /\ proc' \in [Proc -> Process] /\ Alone(p)
        /\ proc'[p].v = proc[p].v /\ proc'[p].t = proc[p].t /\ proc'[p].todo = proc[p].todo
        /\ proc'[p].pc = "load" /\ proc'[p].i = proc[p].i
    BY <1>1, <1>4, <2>4, StepMoves
  <2>6. ~LoadEntry(p) /\ ~SetHash(p)
    BY <2>1 DEF LoadEntry, SetHash
  <2> QED
    BY <1>2, <1>3, <2>1, <2>2, <2>3, <2>5, <2>6
<1>6. CASE LoadEntry(p)
  <2> DEFINE data == {x \in tree[t].data : <<x.kind, x.key>> # <<e.kind, e.key>>} \cup {e}
             x == [tree[t] EXCEPT !.blocks = @ + 1, !.data = data]
  <2>1. /\ tree' = [tree EXCEPT ![t] = x] /\ proc[p].pc = "load" /\ proc[p].i \in DOMAIN todo
        /\ proc' = [proc EXCEPT ![p].h = @ + 1, ![p].i = @ + 1]
        /\ UNCHANGED <<ids, files, genesis, crashes>>
    BY <1>1, <1>2, <1>6 DEF LoadEntry
  <2>2. e \in Described
    <3>1. e \in Desired(proc[p].v, t)
      BY <2>1 DEF Desired
    <3> QED
      BY <1>2, <3>1, BlocksShape
  <2>3. data \subseteq Described
    BY <1>3, <2>2
  <2> HIDE DEF data
  <2>4. x \in Tree /\ x.owner = "court" /\ x.hash = tree[t].hash /\ x.data = data
    BY <1>3, <2>3 DEF Tree
  <2> HIDE DEF x
  <2>5. /\ tree' \in [Trees \cup {CourtTree} -> Tree] /\ tree'[t] = x
        /\ \A u \in Trees \cup {CourtTree} : u # t => tree'[u] = tree[u]
    BY <1>1, <1>3, <2>1, <2>4, TreeMoves
  <2>6. proc' = [proc EXCEPT ![p] = [proc[p] EXCEPT !.pc = "load", !.i = proc[p].i + 1, !.h = proc[p].h + 1]]
    BY <1>1, <2>1 DEF Process
  <2>7. /\ proc' \in [Proc -> Process] /\ Alone(p)
        /\ proc'[p].v = proc[p].v /\ proc'[p].t = proc[p].t /\ proc'[p].todo = proc[p].todo
        /\ proc'[p].pc = "load" /\ proc'[p].i = proc[p].i + 1
    BY <1>1, <1>4, <2>6, StepMoves
  <2>8. ~ResetTree(p) /\ ~SetHash(p)
    BY <2>1 DEF ResetTree, SetHash
  <2>9. tree'[t].data = {y \in tree[t].data : <<y.kind, y.key>> # <<e.kind, e.key>>} \cup {e}
    BY <2>4, <2>5 DEF data
  <2> QED
    BY <1>2, <1>3, <2>1, <2>4, <2>5, <2>7, <2>8, <2>9
<1>7. CASE SetHash(p)
  <2> DEFINE x == [tree[t] EXCEPT !.blocks = @ + 1, !.hash = HashOf(proc[p].v, t)]
  <2>1. /\ tree' = [tree EXCEPT ![t] = x] /\ proc[p].pc = "hash"
        /\ proc' = [proc EXCEPT ![p].pc = "pick"]
        /\ UNCHANGED <<ids, files, genesis, crashes>>
    BY <1>1, <1>2, <1>7 DEF SetHash, Step
  <2>2. HashOf(proc[p].v, t) \in Version
    BY <1>2, HashIsVersion
  <2>3. x \in Tree /\ x.owner = "court" /\ x.hash = HashOf(proc[p].v, t) /\ x.data = tree[t].data
    BY <1>3, <2>2 DEF Tree
  <2> HIDE DEF x
  <2>4. /\ tree' \in [Trees \cup {CourtTree} -> Tree] /\ tree'[t] = x
        /\ \A u \in Trees \cup {CourtTree} : u # t => tree'[u] = tree[u]
    BY <1>1, <1>3, <2>1, <2>3, TreeMoves
  <2>5. proc' = [proc EXCEPT ![p] = [proc[p] EXCEPT !.pc = "pick", !.i = proc[p].i, !.h = proc[p].h]]
    BY <1>1, <2>1 DEF Process
  <2>6. /\ proc' \in [Proc -> Process] /\ Alone(p)
        /\ proc'[p].v = proc[p].v /\ proc'[p].t = proc[p].t /\ proc'[p].todo = proc[p].todo
        /\ proc'[p].pc = "pick"
    BY <1>1, <1>4, <2>5, StepMoves
  <2>7. ~ResetTree(p) /\ ~LoadEntry(p)
    BY <2>1 DEF ResetTree, LoadEntry
  <2> QED
    BY <1>2, <1>3, <2>1, <2>3, <2>4, <2>6, <2>7
<1> QED
  BY <1>5, <1>6, <1>7
\* What a process does without touching a tree: it starts, fetches a tree again,
\* or stops.
LEMMA QuietMoves ==
    ASSUME SharedInv, NEW p \in Proc, Start(p) \/ Refetch(p) \/ Refused(p) \/ Cut(p)
    PROVE  /\ proc' \in [Proc -> Process] /\ Alone(p) /\ UNCHANGED <<tree, ids, files>>
           /\ Start(p) => proc'[p].pc = "find" /\ proc'[p].v \in Version /\ proc'[p].t = CourtTree
           /\ Refused(p) \/ Cut(p) => proc'[p].pc = "down"
           /\ Refetch(p) =>
                 /\ proc[p].pc = "load" /\ proc'[p].pc = "hash"
                 /\ proc[p].i \notin DOMAIN Blocks(proc[p].v, proc[p].t)
                 /\ proc'[p].v = proc[p].v /\ proc'[p].t = proc[p].t /\ proc'[p].todo = proc[p].todo
                 /\ proc[p].v \in Version /\ proc[p].t \in Trees
<1>1. TypeOK /\ proc[p] \in Process /\ proc \in [Proc -> Process] /\ files \in Version
      /\ tree \in [Trees \cup {CourtTree} -> Tree]
  BY DEF SharedInv, TypeOK
<1>2. Down \in Process /\ Down.pc = "down"
  BY DEF Down, Process
<1>3. CASE Refused(p) \/ Cut(p)
  <2>1. proc' = [proc EXCEPT ![p] = Down] /\ UNCHANGED <<tree, ids, files>>
    BY <1>3 DEF Refused, Cut, Crash, CallFails, ImportFails
  <2>2. proc' \in [Proc -> Process] /\ Alone(p) /\ proc'[p].pc = "down"
    BY <1>1, <1>2, <2>1 DEF Alone
  <2>3. ~Start(p) /\ ~Refetch(p)
    <3>1. Start(p) => proc'[p].pc = "find"
      BY <1>1 DEF Start, Down, Process
    <3>2. Refetch(p) => proc'[p].pc = "hash"
      BY <1>1 DEF Refetch, Process
    <3> QED
      BY <2>2, <3>1, <3>2
  <2> QED
    BY <2>1, <2>2, <2>3
<1>4. CASE Start(p) /\ ~(Refused(p) \/ Cut(p))
  <2> DEFINE r == [Down EXCEPT !.pc = "find", !.v = files, !.todo = Trees, !.t = CourtTree]
  <2>1. r \in Process /\ r.pc = "find" /\ r.v = files /\ r.t = CourtTree
    BY <1>1 DEF Down, Process
  <2>2. proc' = [proc EXCEPT ![p] = r] /\ UNCHANGED <<tree, ids, files>> /\ proc[p].pc = "down"
    BY <1>4 DEF Start
  <2> HIDE DEF r
  <2>3. proc' \in [Proc -> Process] /\ Alone(p) /\ proc'[p] = r
    BY <1>1, <2>1, <2>2 DEF Alone
  <2>4. ~Refetch(p)
    BY <2>2 DEF Refetch
  <2> QED
    BY <1>1, <1>4, <2>1, <2>2, <2>3, <2>4
<1>5. CASE Refetch(p) /\ ~Start(p) /\ ~(Refused(p) \/ Cut(p))
  <2>1. proc[p].pc = "load" /\ proc[p].v \in Version /\ proc[p].t \in Trees
    BY <1>5 DEF Refetch, SharedInv, ProcessesOK
  <2>2. tree[proc[p].t].blocks \in Nat /\ proc[p].i \in Nat
    BY <1>1, <2>1 DEF Tree, Process
  <2>3. /\ proc' = [proc EXCEPT ![p] =
                      [proc[p] EXCEPT !.pc = "hash", !.i = proc[p].i, !.h = tree[proc[p].t].blocks]]
        /\ UNCHANGED <<tree, ids, files>>
    BY <1>1, <1>5 DEF Refetch, Process
  <2>4. /\ proc' \in [Proc -> Process] /\ Alone(p)
        /\ proc'[p].v = proc[p].v /\ proc'[p].t = proc[p].t /\ proc'[p].todo = proc[p].todo
        /\ proc'[p].pc = "hash"
    BY <1>1, <2>2, <2>3, StepMoves
  <2> QED
    BY <1>5, <2>1, <2>3, <2>4 DEF Refetch
<1> QED
  BY <1>3, <1>4, <1>5

\* The court's own tree is written once, when everything has been dealt with.
LEMMA PublishMoves ==
    ASSUME SharedInv, NEW p \in Proc, PublishIds(p)
    PROVE  /\ proc' \in [Proc -> Process] /\ Alone(p) /\ UNCHANGED <<files, genesis, crashes>>
           /\ proc[p].pc = "pick" /\ proc[p].todo = {} /\ proc'[p].pc = "up"
           /\ proc'[p].v = proc[p].v /\ proc[p].v \in Version /\ ids' = proc[p].v
           /\ tree' \in [Trees \cup {CourtTree} -> Tree]
           /\ \A t \in Trees : tree'[t] = tree[t]
           /\ tree'[CourtTree].owner = "court"
<1> DEFINE x == [tree[CourtTree] EXCEPT !.blocks = @ + 1]
<1>1. TypeOK /\ proc[p] \in Process /\ proc \in [Proc -> Process]
      /\ tree \in [Trees \cup {CourtTree} -> Tree]
  BY DEF SharedInv, TypeOK
<1>2. /\ proc[p].pc = "pick" /\ proc[p].todo = {} /\ ids' = proc[p].v
      /\ proc' = [proc EXCEPT ![p].pc = "up"] /\ tree' = [tree EXCEPT ![CourtTree] = x]
      /\ tree[CourtTree].owner = "court" /\ UNCHANGED <<files, genesis, crashes>>
  BY <1>1 DEF PublishIds, MayPublish, Step
<1>3. proc[p].v \in Version
  BY <1>2 DEF SharedInv, ProcessesOK
<1>4. x \in Tree /\ x.owner = "court"
  <2>1. tree[CourtTree] \in Tree
    BY <1>1
  <2> QED
    BY <1>2, <2>1 DEF Tree
<1> HIDE DEF x
<1>5. /\ tree' \in [Trees \cup {CourtTree} -> Tree] /\ tree'[CourtTree] = x
      /\ \A u \in Trees \cup {CourtTree} : u # CourtTree => tree'[u] = tree[u]
  BY <1>1, <1>2, <1>4, TreeMoves
<1>6. proc' = [proc EXCEPT ![p] = [proc[p] EXCEPT !.pc = "up", !.i = proc[p].i, !.h = proc[p].h]]
  BY <1>1, <1>2 DEF Process
<1>7. /\ proc' \in [Proc -> Process] /\ Alone(p)
      /\ proc'[p].v = proc[p].v /\ proc'[p].pc = "up"
  <2>1. proc[p].i \in Nat /\ proc[p].h \in Nat
    BY <1>1 DEF Process
  <2> QED
    BY <1>1, <1>6, <2>1, StepMoves
<1> QED
  BY <1>2, <1>3, <1>4, <1>5, <1>7, ImportAssumption

\* What is to be shown of a step, when the trees and the processes are known.
LEMMA SharedStays ==
    ASSUME SharedInv, NEW p \in Proc, Alone(p),
           proc' \in [Proc -> Process], tree' \in [Trees \cup {CourtTree} -> Tree],
           ids' \in Version \cup {0}, files' = files, genesis' \in [Proc -> SUBSET (Trees \cup {CourtTree})],
           crashes' \in 0..MaxCrashes,
           \A t \in Trees \cup {CourtTree} : tree'[t].hash # 0 => tree'[t].owner = "court",
           proc'[p].pc # "down" => proc'[p].v \in Version,
           proc'[p].pc \in {"find", "chown"} => proc'[p].t \in Trees \cup {CourtTree},
           proc'[p].pc \in {"reset", "load", "hash"} => proc'[p].t \in Trees
    PROVE  SharedInv'
<1>1. TypeOK'
  BY DEF SharedInv, TypeOK
<1>2. ProcessesOK'
  BY DEF SharedInv, ProcessesOK, Alone
<1>3. HashedIsOurs'
  BY DEF HashedIsOurs
<1> QED
  BY <1>1, <1>2, <1>3 DEF SharedInv

\* A step of a process, whatever the others are at.
LEMMA ProcessShared ==
    ASSUME SharedInv, NEW p \in Proc, Import(p) \/ Cut(p)
    PROVE  SharedInv'
<1>1. TypeOK /\ ids \in Version \cup {0} /\ genesis \in [Proc -> SUBSET (Trees \cup {CourtTree})] /\ crashes \in 0..MaxCrashes
      /\ tree \in [Trees \cup {CourtTree} -> Tree] /\ proc[p].v \in Version \cup {0}
  BY DEF SharedInv, TypeOK, Process
<1>2. \A t \in Trees \cup {CourtTree} : tree[t].hash # 0 => tree[t].owner = "court"
  BY DEF SharedInv, HashedIsOurs
<1>3. CASE Find(p)
  <2>1. /\ proc' \in [Proc -> Process] /\ Alone(p) /\ UNCHANGED <<tree, ids, files>>
        /\ proc'[p].v = proc[p].v
        /\ \/ proc'[p].pc = "find" /\ proc'[p].t \in Trees
           \/ proc'[p].pc = "pick"
    BY <1>1, <1>3, FindMoves
  <2>2. UNCHANGED <<genesis, crashes>> /\ proc[p].v \in Version
    BY <1>3 DEF Find, SharedInv, ProcessesOK
  <2> QED
    BY <1>1, <1>2, <2>1, <2>2, SharedStays
<1>4. CASE \E t \in Trees : PickTree(p, t)
  <2>1. PICK t \in Trees : PickTree(p, t)
    BY <1>4
  <2>2. /\ proc' \in [Proc -> Process] /\ Alone(p) /\ UNCHANGED <<tree, ids, files>>
        /\ proc[p].pc = "pick" /\ proc'[p].v = proc[p].v /\ proc'[p].t = t
        /\ proc'[p].pc \in {"pick", "reset"}
    BY <1>1, <2>1, PickMoves
  <2>3. UNCHANGED <<genesis, crashes>> /\ proc[p].v \in Version
    BY <2>1, <2>2 DEF PickTree, SharedInv, ProcessesOK
  <2> QED
    BY <1>1, <1>2, <2>2, <2>3, SharedStays
<1>5. CASE CreateTree(p) \/ ChownTree(p)
  <2>1. /\ proc' \in [Proc -> Process] /\ Alone(p) /\ UNCHANGED <<ids, files, crashes>>
        /\ genesis' \in [Proc -> SUBSET (Trees \cup {CourtTree})]
        /\ proc'[p].v = proc[p].v /\ proc'[p].t = proc[p].t /\ proc[p].v \in Version
        /\ proc'[p].pc \in {"chown", "find"} /\ proc[p].t \in Trees \cup {CourtTree}
        /\ tree' \in [Trees \cup {CourtTree} -> Tree]
        /\ \A u \in Trees \cup {CourtTree} :
              /\ tree'[u].hash = tree[u].hash
              /\ tree[u].owner = "court" => tree'[u].owner = "court"
    BY <1>5, CreateMoves
  <2> QED
    BY <1>1, <1>2, <2>1, SharedStays
<1>6. CASE ResetTree(p) \/ LoadEntry(p) \/ SetHash(p)
  <2>1. /\ proc' \in [Proc -> Process] /\ Alone(p) /\ UNCHANGED <<ids, files, genesis, crashes>>
        /\ proc'[p].v = proc[p].v /\ proc'[p].t = proc[p].t /\ proc[p].v \in Version
        /\ proc[p].t \in Trees
        /\ tree' \in [Trees \cup {CourtTree} -> Tree]
        /\ \A u \in Trees \cup {CourtTree} : u # proc[p].t => tree'[u] = tree[u]
        /\ tree'[proc[p].t].owner = "court"
    BY <1>6, RewriteMoves
  <2> QED
    BY <1>1, <1>2, <2>1, SharedStays
<1>7. CASE PublishIds(p)
  <2>1. /\ proc' \in [Proc -> Process] /\ Alone(p) /\ UNCHANGED <<files, genesis, crashes>>
        /\ proc'[p].pc = "up" /\ proc'[p].v = proc[p].v /\ proc[p].v \in Version /\ ids' = proc[p].v
        /\ tree' \in [Trees \cup {CourtTree} -> Tree]
        /\ \A t \in Trees : tree'[t] = tree[t]
        /\ tree'[CourtTree].owner = "court"
    BY <1>7, PublishMoves
  <2> QED
    BY <1>1, <1>2, <2>1, SharedStays
<1>8. CASE Start(p) \/ Refetch(p) \/ Refused(p) \/ Cut(p)
  <2>1. /\ proc' \in [Proc -> Process] /\ Alone(p) /\ UNCHANGED <<tree, ids, files>>
        /\ \/ proc'[p].pc = "find" /\ proc'[p].v \in Version /\ proc'[p].t = CourtTree
           \/ proc'[p].pc = "down"
           \/ proc'[p].pc = "hash" /\ proc'[p].v \in Version /\ proc'[p].t \in Trees
    BY <1>8, QuietMoves
  <2>2. genesis' \in [Proc -> SUBSET (Trees \cup {CourtTree})]
    BY <1>1, <1>8 DEF Start, Refetch, Refused, Cut, Crash, CallFails
  <2>3. crashes' \in 0..MaxCrashes
    BY <1>1, <1>8, ImportAssumption DEF Start, Refetch, Refused, Cut, Crash, CallFails
  <2> QED
    BY <1>1, <1>2, <2>1, <2>2, <2>3, SharedStays
<1> QED
  BY <1>3, <1>4, <1>5, <1>6, <1>7, <1>8 DEF Import

\* Every step keeps the part of the invariant that holds for any number of processes.
LEMMA SharedNext == SharedInv /\ [Next]_vars => SharedInv'
<1> SUFFICES ASSUME SharedInv, [Next]_vars PROVE SharedInv'
  OBVIOUS
<1>1. CASE \E p \in Proc : Import(p) \/ Cut(p)
  BY <1>1, ProcessShared
<1>2. CASE \E v \in Version : Deploy(v)
  BY <1>2 DEF Deploy, SharedInv, TypeOK, ProcessesOK, HashedIsOurs
<1>3. CASE UNCHANGED vars
  BY <1>3 DEF vars, SharedInv, TypeOK, ProcessesOK, HashedIsOurs
<1> QED
  BY <1>1, <1>2, <1>3 DEF Next, Cut
---------------------------------------------------------------------------
(* One process. *)

\* The trees this process has dealt with carry the hash of its version.
Hashed(p, S) == \A t \in S : tree[t].hash = HashOf(proc[p].v, t)

\* What this process has loaded, and what it has dealt with.
Loaded(p) ==
    LET t == proc[p].t
        todo == Blocks(proc[p].v, t)
    IN  /\ proc[p].pc = "load" =>
              /\ proc[p].i \in 1..Len(todo) + 1
              /\ tree[t].hash = 0
              /\ tree[t].data = {todo[k] : k \in 1..proc[p].i - 1}
        /\ proc[p].pc = "reset" => proc[p].i = 1
        /\ proc[p].pc = "hash" => tree[t].data = Desired(proc[p].v, t)

Done(p) ==
    /\ proc[p].pc = "pick" => Hashed(p, Trees \ proc[p].todo)
    /\ proc[p].pc \in {"reset", "load", "hash"} =>
          Hashed(p, Trees \ (proc[p].todo \cup {proc[p].t}))
    /\ proc[p].pc = "up" => Hashed(p, Trees)

\* The two parts about processes, for the only one there is.
LEMMA OnlyProcess ==
    ASSUME NEW p, Proc = {p}
    PROVE  (LoadedSoFar <=> Loaded(p)) /\ (DoneIsHashed <=> Done(p))
<1>1. LoadedSoFar <=> Loaded(p)
  BY DEF LoadedSoFar, Loaded
<1>2. CASE proc[p].pc = "pick"
  BY <1>1, <1>2 DEF DoneIsHashed, Done, Hashed
<1>3. CASE proc[p].pc = "up"
  BY <1>1, <1>3 DEF DoneIsHashed, Done, Hashed
<1>4. CASE proc[p].pc \in {"reset", "load", "hash"}
  BY <1>1, <1>4 DEF DoneIsHashed, Done, Hashed
<1>5. CASE proc[p].pc \notin {"pick", "up", "reset", "load", "hash"}
  BY <1>1, <1>5 DEF DoneIsHashed, Done, Hashed
<1> QED
  BY <1>2, <1>3, <1>4, <1>5

\* The same after a step.
LEMMA OnlyProcessNext ==
    ASSUME NEW p, Proc = {p}
    PROVE  (Loaded(p)' => LoadedSoFar') /\ (Done(p)' => DoneIsHashed')
  BY OnlyProcess, PTL

\* The next entry joins those written before it.
LEMMA EntryJoins ==
    ASSUME NEW v \in Version, NEW t \in Trees, NEW i \in DOMAIN Blocks(v, t), NEW data,
           data = {Blocks(v, t)[k] : k \in 1..i - 1}
    PROVE  LET e == Blocks(v, t)[i]
           IN  /\ {x \in data : <<x.kind, x.key>> # <<e.kind, e.key>>} \cup {e}
                     = {Blocks(v, t)[k] : k \in 1..i + 1 - 1}
               /\ i + 1 \in 1..Len(Blocks(v, t)) + 1
<1> DEFINE s == Blocks(v, t)
           e == s[i]
<1>1. Len(s) \in Nat /\ DOMAIN s = 1..Len(s) /\ \A k \in DOMAIN s : s[k] = Entry(v, s[k].kind, s[k].key)
  BY BlocksShape
<1> HIDE DEF s
<1>2. i \in 1..Len(s) /\ i + 1 - 1 = i /\ i + 1 \in 1..Len(s) + 1
  BY <1>1 DEF s
<1>3. \A k \in 1..i - 1 : k \in DOMAIN s
  BY <1>1, <1>2
<1>4. \A k \in 1..i - 1 : <<s[k].kind, s[k].key>> = <<e.kind, e.key>> => s[k] = e
  <2> SUFFICES ASSUME NEW k \in 1..i - 1, s[k].kind = e.kind, s[k].key = e.key
               PROVE  s[k] = e
    OBVIOUS
  <2>1. s[k] = Entry(v, s[k].kind, s[k].key) /\ e = Entry(v, e.kind, e.key)
    BY <1>1, <1>2, <1>3
  <2> QED
    BY <2>1
<1>5. {x \in data : <<x.kind, x.key>> # <<e.kind, e.key>>} \cup {e} = data \cup {e}
  BY <1>4 DEF s
<1>6. data \cup {e} = {s[k] : k \in 1..i}
  BY <1>2 DEF s
<1> QED
  BY <1>2, <1>5, <1>6 DEF s

\* A tree that keeps its hash and its data stays as complete as it was.
LEMMA CompleteStays ==
    ASSUME HashMeansComplete,
           \A t \in Trees : \/ tree'[t].hash = 0
                            \/ tree'[t].hash = tree[t].hash /\ tree'[t].data = tree[t].data
    PROVE  HashMeansComplete'
  BY DEF HashMeansComplete

\* A step of the only process.
LEMMA ProcessLoads ==
    ASSUME ImportIInv, NEW p \in Proc, Proc = {p}, Import(p) \/ Cut(p)
    PROVE  LoadedSoFar' /\ DoneIsHashed' /\ HashMeansComplete'
<1> DEFINE t == proc[p].t
           v == proc[p].v
<1>0. SharedInv /\ TypeOK /\ HashMeansComplete
  BY DEF ImportIInv, SharedInv
<1>1. Loaded(p) /\ Done(p)
  BY OnlyProcess DEF ImportIInv
<1>2. SUFFICES Loaded(p)' /\ Done(p)' /\ HashMeansComplete'
  BY OnlyProcessNext
<1>5. CASE proc'[p].pc \in {"down", "find", "chown"} /\ ~\E u \in Trees : PickTree(p, u)
  <2>1. Loaded(p)' /\ Done(p)'
    BY <1>5 DEF Loaded, Done
  <2>2. \A u \in Trees : tree'[u].hash = tree[u].hash /\ tree'[u].data = tree[u].data
    <3>1. CASE Find(p)
      BY <3>1 DEF Find
    <3>2. CASE CreateTree(p) \/ ChownTree(p)
      BY <1>0, <3>2, CreateMoves
    <3>3. CASE Start(p) \/ Refetch(p) \/ Refused(p) \/ Cut(p)
      BY <1>0, <3>3, QuietMoves
    <3>4. CASE ResetTree(p) \/ LoadEntry(p) \/ SetHash(p)
      BY <1>0, <1>5, <3>4, RewriteMoves
    <3>5. CASE PublishIds(p)
      BY <1>0, <1>5, <3>5, PublishMoves
    <3> QED
      BY <1>5, <3>1, <3>2, <3>3, <3>4, <3>5 DEF Import
  <2> QED
    BY <1>0, <2>1, <2>2, CompleteStays
<1>6. CASE Find(p) /\ proc'[p].pc = "pick"
  <2>1. UNCHANGED tree /\ proc'[p].todo = Trees
    BY <1>0, <1>6, FindMoves
  <2>2. Loaded(p)' /\ Done(p)'
    BY <1>6, <2>1 DEF Hashed, Loaded, Done
  <2> QED
    BY <1>0, <2>1, <2>2, CompleteStays
<1>7. ASSUME NEW u \in Trees, PickTree(p, u) PROVE Loaded(p)' /\ Done(p)' /\ HashMeansComplete'
  <2>1. /\ UNCHANGED tree /\ proc[p].pc = "pick" /\ proc'[p].v = v /\ proc'[p].t = u
        /\ proc'[p].i = 1 /\ proc'[p].todo = proc[p].todo \ {u}
        /\ proc'[p].pc = IF tree[u].hash = HashOf(v, u) THEN "pick" ELSE "reset"
    BY <1>0, <1>7, PickMoves
  <2>2. Hashed(p, Trees \ proc[p].todo)
    BY <1>1, <2>1 DEF Loaded, Done
  <2>3. Loaded(p)'
    BY <2>1 DEF Loaded, Done
  <2>4. Done(p)'
    BY <2>1, <2>2 DEF Hashed, Loaded, Done
  <2> QED
    BY <1>0, <2>1, <2>3, <2>4, CompleteStays
<1>8. CASE ResetTree(p)
  <2>1. /\ proc'[p].v = v /\ proc'[p].t = t /\ proc'[p].todo = proc[p].todo
        /\ v \in Version /\ t \in Trees
        /\ \A u \in Trees : u # t => tree'[u] = tree[u]
        /\ proc[p].pc = "reset" /\ proc'[p].pc = "load" /\ proc'[p].i = proc[p].i
        /\ tree'[t].hash = 0 /\ tree'[t].data = {}
    BY <1>0, <1>8, RewriteMoves
  <2>2. proc[p].i = 1 /\ Hashed(p, Trees \ (proc[p].todo \cup {t}))
    BY <1>1, <2>1 DEF Loaded, Done
  <2>3. Len(Blocks(v, t)) \in Nat
    BY <2>1, BlocksShape
  <2> HIDE DEF t, v
  <2>4. Done(p)'
    BY <2>1, <2>2 DEF Hashed, t, v, Loaded, Done
  <2>5. {Blocks(v, t)[k] : k \in 1..1 - 1} = {} /\ 1 \in 1..Len(Blocks(v, t)) + 1
    BY <2>3
  <2>6. Loaded(p)'
    BY <2>1, <2>2, <2>5 DEF t, v, Loaded, Done
  <2> QED
    BY <1>0, <2>1, <2>4, <2>6, CompleteStays
<1>9. CASE LoadEntry(p)
  <2> DEFINE i == proc[p].i
             e == Blocks(v, t)[i]
             next == {x \in tree[t].data : <<x.kind, x.key>> # <<e.kind, e.key>>} \cup {e}
  <2>1. /\ proc'[p].v = v /\ proc'[p].t = t /\ proc'[p].todo = proc[p].todo
        /\ v \in Version /\ t \in Trees
        /\ \A u \in Trees : u # t => tree'[u] = tree[u]
        /\ proc[p].pc = "load" /\ proc'[p].pc = "load" /\ proc'[p].i = i + 1
        /\ i \in DOMAIN Blocks(v, t) /\ tree'[t].hash = tree[t].hash
        /\ tree'[t].data = next
    BY <1>0, <1>9, RewriteMoves
  <2>2. /\ tree[t].hash = 0 /\ tree[t].data = {Blocks(v, t)[k] : k \in 1..i - 1}
        /\ Hashed(p, Trees \ (proc[p].todo \cup {t}))
    BY <1>1, <2>1 DEF Loaded, Done
  <2>3. /\ next = {Blocks(v, t)[k] : k \in 1..i + 1 - 1}
        /\ i + 1 \in 1..Len(Blocks(v, t)) + 1
    <3>1. v \in Version /\ t \in Trees /\ i \in DOMAIN Blocks(v, t)
      BY <2>1
    <3>2. tree[t].data = {Blocks(v, t)[k] : k \in 1..i - 1}
      BY <2>2
    <3> HIDE DEF t, v, i
    <3> QED
      BY <3>1, <3>2, EntryJoins, Zenon
  <2> HIDE DEF e, t, v, i, next
  <2>4. Done(p)'
    BY <2>1, <2>2 DEF Hashed, t, v, Done
  <2>5. Loaded(p)'
    BY <2>1, <2>2, <2>3 DEF Loaded
  <2> QED
    BY <1>0, <2>1, <2>2, <2>4, <2>5, CompleteStays
<1>10. CASE Refetch(p)
  <2>1. /\ UNCHANGED tree /\ proc[p].pc = "load" /\ proc'[p].pc = "hash"
        /\ proc[p].i \notin DOMAIN Blocks(v, t)
        /\ proc'[p].v = v /\ proc'[p].t = t /\ proc'[p].todo = proc[p].todo
        /\ v \in Version /\ t \in Trees
    BY <1>0, <1>10, QuietMoves
  <2>2. /\ proc[p].i \in 1..Len(Blocks(v, t)) + 1
        /\ tree[t].data = {Blocks(v, t)[k] : k \in 1..proc[p].i - 1}
        /\ Hashed(p, Trees \ (proc[p].todo \cup {t}))
    BY <1>1, <2>1 DEF Loaded, Done
  <2>3. Len(Blocks(v, t)) \in Nat /\ DOMAIN Blocks(v, t) = 1..Len(Blocks(v, t))
    BY <2>1, BlocksShape
  <2>4. proc[p].i = Len(Blocks(v, t)) + 1
    BY <2>1, <2>2, <2>3
  <2>5. tree[t].data = Desired(v, t)
    BY <2>2, <2>3, <2>4 DEF Desired
  <2> HIDE DEF t, v
  <2>6. Done(p)'
    BY <2>1, <2>2 DEF Hashed, t, v, Loaded, Done
  <2>7. Loaded(p)'
    BY <2>1, <2>5 DEF t, v, Loaded, Done
  <2> QED
    BY <1>0, <2>1, <2>6, <2>7, CompleteStays
<1>11. CASE SetHash(p)
  <2>1. /\ proc'[p].v = v /\ proc'[p].t = t /\ proc'[p].todo = proc[p].todo
        /\ v \in Version /\ t \in Trees
        /\ \A u \in Trees : u # t => tree'[u] = tree[u]
        /\ proc[p].pc = "hash" /\ proc'[p].pc = "pick"
        /\ tree'[t].hash = HashOf(v, t) /\ tree'[t].data = tree[t].data
    BY <1>0, <1>11, RewriteMoves
  <2>2. tree[t].data = Desired(v, t) /\ Hashed(p, Trees \ (proc[p].todo \cup {t}))
    BY <1>1, <2>1 DEF Loaded, Done
  <2> HIDE DEF t, v
  <2>3. Done(p)'
    BY <2>1, <2>2 DEF Hashed, t, v, Loaded, Done
  <2>4. Loaded(p)'
    BY <2>1 DEF Loaded, Done
  <2>5. HashMeansComplete'
    BY <1>0, <2>1, <2>2 DEF HashMeansComplete
  <2> QED
    BY <2>3, <2>4, <2>5
<1>12. CASE PublishIds(p)
  <2>1. /\ proc[p].pc = "pick" /\ proc[p].todo = {} /\ proc'[p].pc = "up"
        /\ proc'[p].v = v /\ \A u \in Trees : tree'[u] = tree[u]
    BY <1>0, <1>12, PublishMoves
  <2>2. Hashed(p, Trees)
    BY <1>1, <2>1 DEF Loaded, Done
  <2> HIDE DEF t, v
  <2>3. Loaded(p)' /\ Done(p)'
    BY <2>1, <2>2 DEF Hashed, v, Loaded, Done
  <2> QED
    BY <1>0, <2>1, <2>3, CompleteStays
<1>13. CASE Start(p) \/ Refused(p) \/ Cut(p) \/ CreateTree(p) \/ ChownTree(p)
  <2>1. proc'[p].pc \in {"down", "find", "chown"}
    BY <1>0, <1>13, QuietMoves, CreateMoves
  <2> QED
    BY <1>5, <1>7, <2>1
<1>14. CASE Find(p)
  <2>1. proc'[p].pc \in {"find", "pick"}
    BY <1>0, <1>14, FindMoves
  <2> QED
    BY <1>5, <1>6, <1>7, <1>14, <2>1
<1> QED
  BY <1>7, <1>8, <1>9, <1>10, <1>11, <1>12, <1>13, <1>14 DEF Import
\* Nothing is loaded at first.
LEMMA ImportInit == Init => ImportIInv
<1> SUFFICES ASSUME Init PROVE ImportIInv
  OBVIOUS
<1>1. \A p \in Proc : proc[p].pc = "down"
  BY DEF Init, Down
<1>2. LoadedSoFar /\ DoneIsHashed
  BY <1>1 DEF LoadedSoFar, DoneIsHashed
<1>3. HashMeansComplete
  BY DEF Init, HashMeansComplete, Fresh
<1> QED
  BY <1>2, <1>3, SharedInit DEF ImportIInv

\* Every step of a single process, and new files, keep the invariant.
LEMMA ImportNext ==
    ASSUME NEW p, Proc = {p}
    PROVE  ImportIInv /\ [Next]_vars => ImportIInv'
<1> SUFFICES ASSUME ImportIInv, [Next]_vars PROVE ImportIInv'
  OBVIOUS
<1>1. SharedInv'
  BY SharedNext DEF ImportIInv
<1>2. CASE \E q \in Proc : Import(q) \/ Cut(q)
  BY <1>1, <1>2, ProcessLoads DEF ImportIInv
<1>3. CASE UNCHANGED <<tree, proc>>
  BY <1>1, <1>3 DEF ImportIInv, LoadedSoFar, DoneIsHashed, HashMeansComplete
<1>4. CASE \E v \in Version : Deploy(v)
  BY <1>3, <1>4 DEF Deploy
<1>5. CASE UNCHANGED vars
  BY <1>3, <1>5 DEF vars
<1> QED
  BY <1>2, <1>4, <1>5 DEF Next, Cut

\* The types hold, and a hash is only on a tree of the court, for any number of
\* processes that import at the same time.
THEOREM ImporterTypes == Spec => []SharedInv
  BY SharedInit, SharedNext, PTL DEF Spec

\* One process: the inductive invariant.
THEOREM ImportInductive ==
    ASSUME NEW p, Proc = {p}
    PROVE  Spec => []ImportIInv
<1>1. ImportIInv /\ [Next]_vars => ImportIInv'
  BY ImportNext
<1> QED
  BY <1>1, ImportInit, PTL DEF Spec

\* One process: a tree that carries the hash of a description is exactly what it
\* describes, wherever earlier imports were cut.
THEOREM HashIsComplete ==
    ASSUME NEW p, Proc = {p}
    PROVE  Spec => []HashMeansComplete
<1>1. ImportIInv => HashMeansComplete
  BY DEF ImportIInv
<1>2. Spec => []ImportIInv
  BY ImportInductive
<1> QED
  BY <1>1, <1>2, PTL

\* One process: the trees are well formed, and a court that is up has imported all of
\* them, in the version it read.
THEOREM UpIsImported ==
    ASSUME NEW p, Proc = {p}
    PROVE  Spec => []ImporterInv
<1>1. ImportIInv => ImporterInv
  <2> SUFFICES ASSUME ImportIInv PROVE ImporterInv
    OBVIOUS
  <2>1. TypeOK /\ HashedIsOurs /\ DoneIsHashed /\ ProcessesOK
    BY DEF ImportIInv, SharedInv
  <2>2. ASSUME NEW q \in Proc, proc[q].pc = "up", NEW t \in Trees
        PROVE  tree[t].owner = "court" /\ tree[t].hash = HashOf(proc[q].v, t)
    <3>1. tree[t].hash = HashOf(proc[q].v, t) /\ proc[q].v \in Version
      BY <2>1, <2>2 DEF DoneIsHashed, ProcessesOK
    <3>2. tree[t].hash # 0
      BY <3>1, HashIsVersion
    <3> QED
      BY <2>1, <3>1, <3>2 DEF HashedIsOurs
  <2> QED
    BY <2>1, <2>2 DEF ImporterInv, UpMeansImported
<1>2. Spec => []ImportIInv
  BY ImportInductive
<1> QED
  BY <1>1, <1>2, PTL

===============================================================================
