--------------------------- MODULE ArtifactQuest ---------------------------
(***************************************************************************)
(* Artifacts and altars.  A court's respawn actor keeps one artifact at a  *)
(* location and makes the next one when that one changes hands.  A player  *)
(* collects artifacts, inscribes them, lays them on altars (each player    *)
(* has an inventory of their own at every altar) and asks arcadia for its  *)
(* prize; the validator reads the altars, judges the artifacts, and takes  *)
(* them away whether they are right or wrong.  The spring court does the   *)
(* same with pages the player made, on pedestals.                          *)
(*                                                                         *)
(* Objects are chains of blocks (Ownership).  The four inscriptions a      *)
(* player may change are one mark; altar i wants mark i, forger i and an   *)
(* artifact made by this court.  The transfer of one object and the steps  *)
(* of an award are ObjectTransfer's and PrizeHandler's; here a transfer    *)
(* is the two blocks it leaves in the object's history.                    *)
(***************************************************************************)
EXTENDS Ownership, FiniteSets

CONSTANTS
    N,           \* number of altars
    MaxSpawns,   \* bound on the artifacts the respawn actor makes
    Made,        \* objects the player made: false artifacts, or pages
    NameOf,      \* [objects -> the names they are listed by]
    Forger,      \* the forger and
    FirstMark,   \*   the mark the artifact's did picks from the pools
    MaxActs,     \* bound on what the player does with objects
    MaxAsks,     \* bound on requests for the prize
    MaxFaults    \* bound on lost messages, failed steps and crashes

ASSUME QuestAssumption ==
    /\ N \in Nat \ {0} /\ MaxSpawns \in Nat
    /\ IsFiniteSet(Made) /\ Made # {} /\ Made \cap Nat = {}
    /\ Forger \in [1..MaxSpawns -> 0..N] /\ FirstMark \in [1..MaxSpawns -> 0..N + 1]
    /\ MaxActs \in Nat /\ MaxAsks \in Nat /\ MaxFaults \in Nat

Altar == 1..N
Artifact == 1..MaxSpawns
Object == Artifact \cup Made
FirstMade == CHOOSE o \in Made : TRUE
Mark == 0..N + 1    \* 0: blank; N + 1: a page inscribed twice

VARIABLES
    scene,    \* what the player is about: "spawn", "arcadia" or "spring"
    chain,    \* [Object -> the blocks of its tree]
    last,     \* the respawn tree: the artifacts written to "last", in order
    at,       \* the inventory of the spawn location
    transit,  \* artifacts between the two blocks of a pick-up
    bag,      \* the player's inventory
    seen,     \* altars for which the player has an inventory
    altar,    \* [Altar -> that inventory]
    sp,       \* the respawn actor
    inbox,    \* CurrentState messages on their way to it
    lapse,    \* did its artifact change while it could not hear of it?
    genesis,  \* is the next artifact's tree in its memory, not yet the court's?
    req,      \* the validator
    prize,    \* does the player hold the prize?
    taken,    \* objects the court removed from an altar
    acts, asks, faults, restarts

spawner == <<last, sp, inbox, lapse, genesis>>
places == <<at, transit, bag, seen, altar, taken>>
court == <<req, prize, asks>>
vars == <<scene, chain, last, at, transit, bag, seen, altar, sp, inbox, lapse,
          genesis, req, prize, taken, acts, asks, faults, restarts>>

Blank == [mark |-> 0, forged |-> 0]
Empty == [mark |-> 0, forged |-> 0, empty |-> TRUE]
Data(mark, forged) == [mark |-> mark, forged |-> forged, empty |-> FALSE]

Chown(owners, data) == [chown |-> TRUE, owners |-> owners, data |-> data]
Write(owners, data) == [chown |-> FALSE, owners |-> owners, data |-> data]
Now(o) == chain[o][Len(chain[o])]

Stopped == [pc |-> "started", art |-> 0, tip |-> 0, sub |-> "none"]
Quiet == [pc |-> "idle", read |-> [i \in Altar |-> {}], todo |-> {}, seen |-> {},
          valid |-> {}, judged |-> [i \in Altar |-> Blank], hand |-> 0, left |-> {},
          fresh |-> FALSE, disturbed |-> {}, result |-> "none"]

---------------------------------------------------------------------------
(* Inventory trees *)

\* All turns the stored map round, from did to name; updateObjects turns it back,
\* and of two objects with one name keeps the one it meets last.
updateObjects(objects) ==
    {kept \in SUBSET objects :
        \A o \in objects : Cardinality({k \in kept : NameOf[k] = NameOf[o]}) = 1}

Add(o, inventory) ==
    IF o \in inventory THEN {inventory} ELSE updateObjects(inventory \cup {o})

---------------------------------------------------------------------------
\* The blocks of an artifact the player has picked up.
Collected(a) ==
    <<Chown({"court"}, Empty), Write({"court"}, Data(FirstMark[a], Forger[a])),
      Chown({"court", "player"}, Data(FirstMark[a], Forger[a])),
      Chown({"player"}, Data(FirstMark[a], Forger[a]))>>

\* The blocks of an object the player made: a false artifact, or an empty page.
Created ==
    <<Chown({"player"}, Empty),
      Write({"player"}, Data(IF scene = "spring" THEN 0 ELSE 1, 1))>>

(* The respawn actor and the altars share nothing but the histories of artifacts, so
   each has a scene of its own: at the altars the artifacts are collected. *)
Init ==
    /\ scene \in {"spawn", "arcadia", "spring"}
    /\ bag \in CASE scene = "spawn" -> {{FirstMade}}
                 [] scene = "arcadia" -> updateObjects({FirstMade} \cup Artifact)
                 [] scene = "spring" -> {Made}
    /\ chain = [o \in Object |->
                   CASE o \in Artifact -> IF scene = "arcadia" THEN Collected(o) ELSE <<>>
                     [] o \in Made /\ (o = FirstMade \/ scene = "spring") -> Created
                     [] OTHER -> <<>>]
    /\ last = IF scene = "arcadia" THEN [k \in Artifact |-> k] ELSE <<>>
    /\ at = {} /\ transit = {}
    /\ seen = {} /\ altar = [i \in Altar |-> {}] /\ taken = {}
    /\ sp = Stopped /\ inbox = {} /\ lapse = FALSE /\ genesis = FALSE
    /\ req = Quiet /\ prize = FALSE
    /\ acts = 0 /\ asks = 0 /\ faults = 0 /\ restarts = 0

---------------------------------------------------------------------------
\* Blocks of an object reach the respawn actor when its subscription is on.
Publish(o, blocks) ==
    /\ chain' = [chain EXCEPT ![o] = @ \o blocks]
    /\ IF o = sp.art /\ sp.sub = "on"
       THEN /\ inbox' = inbox \cup {<<o, Len(chain[o]) + k>> : k \in 0..Len(blocks) - 1}
            /\ UNCHANGED lapse
       ELSE /\ lapse' = (lapse \/ (o = sp.art /\ sp.pc \notin {"create", "load"}))
            /\ UNCHANGED inbox

---------------------------------------------------------------------------
(* The respawn actor *)

Spawns == scene = "spawn"

\* Started: the last artifact's location is read first ...
Started ==
    /\ Spawns /\ sp.pc = "started"
    /\ lapse' = FALSE
    /\ sp' = IF last # <<>> /\ last[Len(last)] \in at
             THEN [sp EXCEPT !.pc = "found", !.art = last[Len(last)]]
             ELSE [sp EXCEPT !.pc = "create", !.art = 0]
    /\ UNCHANGED <<scene, chain, last, genesis, places, inbox, court, acts, faults, restarts>>

\* ... then the artifact's tip, and a subscription to it is spawned.
Attach ==
    /\ sp.pc = "found"
    /\ sp' = [sp EXCEPT !.pc = "idle", !.tip = Len(chain[sp.art]), !.sub = "pending"]
    /\ UNCHANGED <<scene, chain, last, places, inbox, lapse, genesis, court, acts, faults, restarts>>

\* A salt of its own for every attempt.
CreateFresh ==
    /\ sp.pc = "create" /\ Len(last) < MaxSpawns
    /\ \E a \in Artifact :
       /\ chain[a] = <<>>
       /\ chain' = [chain EXCEPT ![a] = <<Chown({"court"}, Empty)>>]
       /\ sp' = [sp EXCEPT !.pc = "load", !.art = a]
    /\ UNCHANGED <<scene, last, places, inbox, lapse, genesis, court, acts, faults, restarts>>

\* The artifact's key is derived from the tip of the respawn tree: as long as
\* nothing is recorded there, every attempt finds the same tree.  A tree that is not
\* found is made, and its first block makes it the court's.
CreateArtifact ==
    /\ sp.pc = "create" /\ Len(last) < MaxSpawns /\ ~genesis
    /\ LET a == Len(last) + 1 IN
       /\ chain' = IF chain[a] = <<>>
                   THEN [chain EXCEPT ![a] = <<Chown({"court"}, Empty)>>]
                   ELSE chain
       /\ sp' = [sp EXCEPT !.pc = "load", !.art = a]
    /\ UNCHANGED <<scene, last, places, inbox, lapse, genesis, court, acts, faults, restarts>>

\* A tree in memory that is not the court's yet is found, and UpdateObject is refused.
UpdateRefused ==
    /\ sp.pc = "create" /\ Len(last) < MaxSpawns /\ genesis
    /\ sp' = Stopped /\ inbox' = {} /\ lapse' = FALSE
    /\ UNCHANGED <<scene, chain, last, genesis, places, court, acts, faults, restarts>>

\* The tip to wait for is taken before the template is written.
LoadKeepsTip ==
    /\ sp.pc = "load"
    /\ LET a == sp.art
           new == IF Len(chain[a]) > 1 THEN chain[a]
                  ELSE Append(chain[a], Write({"court"}, Data(FirstMark[a], Forger[a])))
       IN /\ chain' = [chain EXCEPT ![a] = new]
          /\ sp' = [sp EXCEPT !.pc = "place", !.tip = Len(chain[a]), !.sub = "pending"]
    /\ lapse' = FALSE
    /\ UNCHANGED <<scene, last, genesis, places, inbox, court, acts, faults, restarts>>

\* UpdateObject writes the template unless the tree holds its hash; the tip to
\* wait for is the one after that, and the subscriber is spawned.
LoadArtifact ==
    /\ sp.pc = "load"
    /\ LET a == sp.art
           new == IF Len(chain[a]) > 1 THEN chain[a]
                  ELSE Append(chain[a], Write({"court"}, Data(FirstMark[a], Forger[a])))
       IN /\ chain' = [chain EXCEPT ![a] = new]
          /\ sp' = [sp EXCEPT !.pc = "place", !.tip = Len(new), !.sub = "pending"]
    /\ lapse' = FALSE
    /\ UNCHANGED <<scene, last, genesis, places, inbox, court, acts, faults, restarts>>

\* The subscriber is an actor of its own and subscribes when it starts.
Subscribed ==
    /\ sp.sub = "pending"
    /\ sp' = [sp EXCEPT !.sub = "on"]
    /\ UNCHANGED <<scene, chain, last, places, inbox, lapse, genesis, court, acts, faults, restarts>>

addArtifactToRandomLocation ==
    /\ sp.pc = "place"
    /\ at' \in Add(sp.art, at)
    /\ sp' = [sp EXCEPT !.pc = "record"]
    /\ UNCHANGED <<scene, chain, last, transit, bag, seen, altar, taken, inbox, lapse, genesis,
                   court, acts, faults, restarts>>

RecordLast ==
    /\ sp.pc = "record"
    /\ last' = Append(last, sp.art)
    /\ sp' = [sp EXCEPT !.pc = "idle"]
    /\ UNCHANGED <<scene, chain, places, inbox, lapse, genesis, court, acts, faults, restarts>>

\* A message is handled between spawns; only a block on the artifact's tip counts.
CurrentState ==
    /\ sp.pc = "idle"
    /\ \E m \in inbox :
       /\ inbox' = inbox \ {m}
       /\ sp' = IF m = <<sp.art, sp.tip>> THEN [sp EXCEPT !.pc = "create"] ELSE sp
    /\ UNCHANGED <<scene, chain, last, places, lapse, genesis, court, acts, faults, restarts>>

\* pubsub promises nothing.
LoseMessage ==
    /\ faults < MaxFaults
    /\ \E m \in inbox :
       /\ inbox' = inbox \ {m}
       /\ lapse' = (lapse \/ m = <<sp.art, sp.tip>>)
    /\ faults' = faults + 1
    /\ UNCHANGED <<scene, chain, last, genesis, places, sp, court, acts, restarts>>

\* Any failed step panics; the actor restarts, its subscriber is stopped.  The process
\* lives on or is started again.  When the failed step is the change of owner, the tree
\* it was for stays in the memory of the process.
Panic ==
    /\ Spawns /\ sp.pc # "started" /\ faults < MaxFaults
    /\ \/ genesis' \in {genesis, FALSE}
       \/ /\ sp.pc = "create" /\ Len(last) < MaxSpawns /\ chain[Len(last) + 1] = <<>>
          /\ genesis' = TRUE
    /\ sp' = Stopped /\ inbox' = {} /\ lapse' = FALSE
    /\ faults' = faults + 1 /\ restarts' = restarts + 1
    /\ UNCHANGED <<scene, chain, last, places, court, acts>>

---------------------------------------------------------------------------
(* The player *)

Act == acts < MaxActs /\ acts' = acts + 1

\* The court signs the first block of a pick-up: both own the artifact.
StartPickUp(a) ==
    /\ Act /\ a \in at
    /\ "court" \in Now(a).owners
    /\ Publish(a, <<Chown({"court", "player"}, Now(a).data)>>)
    /\ at' = at \ {a} /\ transit' = transit \cup {a}
    /\ UNCHANGED <<scene, last, genesis, bag, seen, altar, sp, court, taken, faults, restarts>>

FinishPickUp(a) ==
    /\ a \in transit
    /\ bag' \in Add(a, bag)
    /\ Publish(a, <<Chown({"player"}, Now(a).data)>>)
    /\ transit' = transit \ {a}
    /\ UNCHANGED <<scene, last, genesis, at, seen, altar, sp, court, taken, acts, faults, restarts>>

\* The rollback restores the owner only.
RollBackOwner(a) ==
    /\ a \in transit /\ faults < MaxFaults
    /\ Publish(a, <<Chown({"court"}, Now(a).data)>>)
    /\ transit' = transit \ {a}
    /\ faults' = faults + 1
    /\ UNCHANGED <<scene, last, genesis, at, bag, seen, altar, sp, court, taken, acts, restarts>>

\* The receiver never confirmed: the source takes the artifact back.
RollBack(a) ==
    /\ a \in transit /\ faults < MaxFaults
    /\ at' \in Add(a, at)
    /\ Publish(a, <<Chown({"court"}, Now(a).data)>>)
    /\ transit' = transit \ {a}
    /\ faults' = faults + 1
    /\ UNCHANGED <<scene, last, genesis, bag, seen, altar, sp, court, taken, acts, restarts>>

\* Coming to an altar makes the player's inventory there.
Visit(i) ==
    /\ ~Spawns /\ i \notin seen
    /\ seen' = seen \cup {i}
    /\ UNCHANGED <<scene, chain, spawner, at, transit, bag, altar, court, taken, acts,
                   faults, restarts>>

\* A move of the player at altar i makes the court's handle on it stale.
Touch(i) ==
    req' = [req EXCEPT !.fresh = @ /\ req.hand # i,
                       !.disturbed = IF req.pc = "idle" THEN @ ELSE @ \cup {i}]

Drop(o, i) ==
    /\ Act /\ o \in bag /\ i \in seen
    /\ altar' \in {[altar EXCEPT ![i] = inv] : inv \in Add(o, altar[i])}
    /\ bag' = bag \ {o}
    /\ Publish(o, <<Chown({"player", "court"}, Now(o).data),
                    Chown({"player", "court"}, Now(o).data)>>)
    /\ Touch(i)
    /\ UNCHANGED <<scene, last, genesis, at, transit, seen, sp, prize, asks, taken, faults, restarts>>

TakeBack(o, i) ==
    /\ Act /\ o \in altar[i]
    /\ altar' = [altar EXCEPT ![i] = @ \ {o}]
    /\ bag' \in Add(o, bag)
    /\ Publish(o, <<Chown({"player", "court"}, Now(o).data),
                    Chown({"player"}, Now(o).data)>>)
    /\ Touch(i)
    /\ UNCHANGED <<scene, last, genesis, at, transit, seen, sp, prize, asks, taken, faults, restarts>>

\* SetTreeValueInteraction: a page keeps every inscription, an artifact the newest.
Inscribed(o, mark) ==
    LET old == Now(o).data IN
    Data(IF scene = "spring" /\ old.mark # 0 THEN N + 1 ELSE mark, old.forged)

Inscribe(o, mark) ==
    /\ Act /\ o \in bag \cup UNION {altar[i] : i \in Altar}
    /\ Now(o).data.mark # mark
    /\ Publish(o, <<Write(Now(o).owners, Inscribed(o, mark))>>)
    /\ UNCHANGED <<scene, last, genesis, places, sp, court, faults, restarts>>

\* The value is at the path "forged by": the owner may write that as well.
Reforge(o, forger) ==
    /\ Act /\ scene # "spring" /\ o \in bag
    /\ Now(o).data.forged # forger
    /\ Publish(o, <<Write(Now(o).owners, Data(Now(o).data.mark, forger))>>)
    /\ UNCHANGED <<scene, last, genesis, places, sp, court, faults, restarts>>

---------------------------------------------------------------------------
(* The validators *)

\* handleTransfer gets to the validator when the player has no prize yet.
RequestPrize ==
    /\ ~Spawns /\ req.pc = "idle" /\ asks < MaxAsks /\ ~prize
    /\ req' = [Quiet EXCEPT !.pc = "read", !.todo = Altar, !.seen = seen]
    /\ asks' = asks + 1
    /\ UNCHANGED <<scene, chain, spawner, places, prize, acts, faults, restarts>>

ReadInventory(i) ==
    /\ req.pc = "read" /\ i \in req.todo
    /\ req' = IF i \notin req.seen
              THEN [req EXCEPT !.pc = "idle", !.result = "error"]
              ELSE [req EXCEPT !.read[i] = altar[i], !.todo = @ \ {i},
                               !.pc = IF req.todo = {i} THEN "judge" ELSE "read"]
    /\ UNCHANGED <<scene, chain, spawner, places, prize, asks, acts, faults, restarts>>

ReadAltar(i) == scene = "arcadia" /\ ReadInventory(i)
ReadPedestal(i) == scene = "spring" /\ ReadInventory(i)

\* Without the check of the owner at creation ...
ValidAnyCreator(a, i) ==
    LET changes == OwnershipChanges(chain[a])
        origin == changes[Len(changes) - 1]
    IN /\ VerifyOwnership(chain[a], origin, {"court"})
       /\ Now(a).data.mark = i
       /\ Now(a).data.forged = i
       /\ chain[a][origin].data.forged = Now(a).data.forged

\* An object on an altar has come there by a transfer, so it has changed hands at
\* least twice.  Made empty by this court, still the court's when the player first became an
\* owner, and forged then as it is now.
ValidArtifact(a, i) ==
    LET changes == OwnershipChanges(chain[a])
        created == changes[Len(changes)]
        origin == changes[Len(changes) - 1]
    IN /\ chain[a][created].owners = {"court"}
       /\ chain[a][created].data.empty
       /\ VerifyOwnership(chain[a], origin, {"court"})
       /\ Now(a).data.mark = i
       /\ Now(a).data.forged = i
       /\ chain[a][origin].data.forged = Now(a).data.forged

\* The altars in turn, up to the first that is wrong.
JudgeAltar ==
    /\ scene = "arcadia" /\ req.pc = "judge"
    /\ LET i == Cardinality(req.valid) + 1
           a == CHOOSE o \in req.read[i] : TRUE
           good == Cardinality(req.read[i]) = 1 /\ ValidArtifact(a, i)
       IN req' = IF good
                 THEN [req EXCEPT !.valid = @ \cup {i}, !.judged[i] = [art |-> a, data |-> Now(a).data],
                                  !.pc = IF i = N THEN "award" ELSE "judge"]
                 ELSE [req EXCEPT !.pc = "delete", !.todo = Altar]
    /\ UNCHANGED <<scene, chain, spawner, places, prize, asks, acts, faults, restarts>>

\* The pedestals in any order; one right page is enough, whatever lies with it.  A
\* page without inscriptions ends the check at once, and nothing is taken away.
JudgePedestal(i) ==
    /\ scene = "spring" /\ req.pc = "judge" /\ i \in Altar \ (req.valid \cup req.todo)
    /\ LET right == {o \in req.read[i] : Now(o).data.mark = i}
           blank == {o \in req.read[i] : Now(o).data.mark = 0}
           after(r) == IF req.valid \cup req.todo \cup {i} # Altar THEN r
                       ELSE IF r.todo = {} THEN [r EXCEPT !.pc = "award"]
                       ELSE [r EXCEPT !.pc = "delete", !.todo = Altar]
       IN \/ \E o \in right :
                req' = after([req EXCEPT !.valid = @ \cup {i},
                                         !.judged[i] = [art |-> o, data |-> Now(o).data]])
          \/ /\ blank # {}
             /\ req' = [req EXCEPT !.pc = "idle", !.todo = {}, !.result = "invalid"]
          \/ /\ right = {} /\ blank = {}
             /\ req' = after([req EXCEPT !.todo = @ \cup {i}])
    /\ UNCHANGED <<scene, chain, spawner, places, prize, asks, acts, faults, restarts>>

\* The rest of handleTransfer: the prize is the player's before the cleanup runs.
Award ==
    /\ req.pc = "award"
    /\ prize' = TRUE
    /\ req' = [req EXCEPT !.pc = "clean", !.todo = seen, !.result = "won"]
    /\ UNCHANGED <<scene, chain, spawner, places, asks, acts, faults, restarts>>

\* Cleanup removes what lies there now, a failed check what it has read.
Fetch(i, pc) ==
    /\ req.pc = pc /\ i \in req.todo /\ req.hand = 0
    /\ req' = [req EXCEPT !.hand = i, !.fresh = TRUE,
                          !.left = IF pc = "clean" THEN altar[i] ELSE req.read[i] \cap altar[i]]
    /\ UNCHANGED <<scene, chain, spawner, places, prize, asks, acts, faults, restarts>>

\* Only the altar that was wrong is emptied.
EmptyWrong(i) ==
    /\ scene = "arcadia" /\ req.pc = "delete" /\ i \in req.todo /\ req.hand = 0
    /\ req' = [req EXCEPT !.hand = i, !.fresh = TRUE,
                          !.left = IF i \in req.valid THEN {} ELSE req.read[i] \cap altar[i]]
    /\ UNCHANGED <<scene, chain, spawner, places, prize, asks, acts, faults, restarts>>

CleanAltar(i) == scene = "arcadia" /\ Fetch(i, "clean")
CleanPedestal(i) == scene = "spring" /\ Fetch(i, "clean")
EmptyAltar(i) == scene = "arcadia" /\ Fetch(i, "delete")
EmptyPedestal(i) == scene = "spring" /\ Fetch(i, "delete")

\* One block per object, on the handle of the block before; refused when the player
\* has written to the inventory since.
Remove ==
    /\ req.hand # 0 /\ req.left # {}
    /\ \E o \in req.left :
       /\ req' = [req EXCEPT !.left = @ \ {o}]
       /\ IF req.fresh
          THEN /\ altar' = [altar EXCEPT ![req.hand] = @ \ {o}]
               /\ taken' = taken \cup {o}
          ELSE UNCHANGED <<altar, taken>>
    /\ UNCHANGED <<scene, chain, spawner, at, transit, bag, seen, prize, asks, acts,
                   faults, restarts>>

\* A failed Remove is logged and the next object taken.  If its block was played all
\* the same, the handle is behind.
RemoveFails ==
    /\ req.hand # 0 /\ req.left # {} /\ faults < MaxFaults
    /\ \E o \in req.left, played \in BOOLEAN :
       /\ req' = [req EXCEPT !.left = @ \ {o}, !.fresh = @ /\ ~played,
                             !.disturbed = @ \cup {req.hand}]
       /\ IF played /\ req.fresh
          THEN /\ altar' = [altar EXCEPT ![req.hand] = @ \ {o}]
               /\ taken' = taken \cup {o}
          ELSE UNCHANGED <<altar, taken>>
    /\ faults' = faults + 1
    /\ UNCHANGED <<scene, chain, spawner, at, transit, bag, seen, prize, asks, acts, restarts>>

\* An inventory that cannot be fetched is passed over; so is, in effect, one that is
\* fetched at an old tip, where every Remove is refused.
FetchFails(i) ==
    /\ req.pc \in {"clean", "delete"} /\ i \in req.todo /\ req.hand = 0 /\ faults < MaxFaults
    /\ req' = [req EXCEPT !.hand = i, !.left = {}, !.fresh = FALSE, !.disturbed = @ \cup {i}]
    /\ faults' = faults + 1
    /\ UNCHANGED <<scene, chain, spawner, places, prize, asks, acts, restarts>>

NextInventory ==
    /\ req.hand # 0 /\ req.left = {}
    /\ req' = LET rest == req.todo \ {req.hand} IN
              [req EXCEPT !.hand = 0, !.todo = rest,
                          !.pc = IF rest = {} THEN "idle" ELSE @,
                          !.result = IF req.pc = "clean" THEN @ ELSE "lost"]
    /\ UNCHANGED <<scene, chain, spawner, places, prize, asks, acts, faults, restarts>>

\* The player passes the prize on.
DropPrize ==
    /\ Act /\ prize /\ req.pc = "idle"
    /\ prize' = FALSE
    /\ UNCHANGED <<scene, chain, spawner, places, req, asks, faults, restarts>>

\* A crash; or a call fails that the validator or the whole cleanup needs.
CrashCourt ==
    /\ req.pc # "idle" /\ faults < MaxFaults
    /\ req' = [Quiet EXCEPT !.result = "crashed"]
    /\ faults' = faults + 1
    /\ UNCHANGED <<scene, chain, spawner, places, prize, asks, acts, restarts>>

---------------------------------------------------------------------------
Respawn ==
    \/ Started \/ Attach \/ CreateArtifact \/ UpdateRefused \/ LoadArtifact \/ Subscribed
    \/ addArtifactToRandomLocation \/ RecordLast \/ CurrentState

Player ==
    \/ \E a \in Artifact : StartPickUp(a) \/ FinishPickUp(a) \/ RollBack(a)
    \/ \E i \in Altar : Visit(i)
    \/ \E o \in Object, i \in Altar :
          Drop(o, i) \/ TakeBack(o, i) \/ Inscribe(o, i) \/ Reforge(o, i)
    \/ DropPrize

Validate ==
    \/ \E i \in Altar : \/ ReadAltar(i) \/ ReadPedestal(i) \/ JudgePedestal(i)
                        \/ CleanAltar(i) \/ CleanPedestal(i)
                        \/ EmptyAltar(i) \/ EmptyPedestal(i)
    \/ JudgeAltar \/ Award \/ Remove \/ NextInventory

Next ==
    \/ Respawn \/ Player \/ RequestPrize \/ Validate
    \/ LoseMessage \/ Panic \/ CrashCourt
    \/ RemoveFails \/ \E i \in Altar : FetchFails(i)

Spec == Init /\ [][Next]_vars

(* The respawn actor's mailbox is served without end and what it spawns starts; the
   player, the validator and the faults are free. *)
FairSpec == Spec /\ WF_vars(Respawn)

---------------------------------------------------------------------------
Block == [chown : BOOLEAN, owners : SUBSET {"court", "player"},
          data : [mark : Mark, forged : Altar \cup {0}, empty : BOOLEAN]]

(* Types; a tree's first block sets its owners and holds no data; an artifact has a
   tree before any inventory lists it. *)
TypeOK ==
    /\ \A o \in Object : \A k \in DOMAIN chain[o] : chain[o][k] \in Block
    /\ \A o \in Object : chain[o] # <<>> => chain[o][1].chown /\ chain[o][1].data.empty
    /\ \A o \in at \cup transit \cup bag : Len(chain[o]) > 1
    /\ \A i \in Altar : \A o \in altar[i] : "court" \in Now(o).owners
    /\ \A k \in DOMAIN last : last[k] \in Artifact
    /\ sp.art \in Artifact \cup {0} /\ sp.sub \in {"none", "pending", "on"}
    /\ req.todo \subseteq Altar /\ req.valid \subseteq Altar
    /\ {prize, lapse, genesis} \subseteq BOOLEAN

(* OwnershipChanges and AtHeight against what they stand for: the walk meets every
   block that sets the owners, newest first, and between two of them the owners at
   any height are those of the change below it. *)
HistoryIsExact ==
    \A o \in Object :
        LET c == chain[o]
            changes == OwnershipChanges(c)
        IN /\ {changes[k] : k \in DOMAIN changes} = {t \in DOMAIN c : c[t].chown}
           /\ \A k \in 1..Len(changes) - 1 : changes[k] > changes[k + 1]
           /\ \A k \in DOMAIN changes :
                 \A h \in Height(changes[k])..(IF k = 1 THEN Len(c) - 1
                                               ELSE Height(changes[k - 1]) - 1) :
                    VerifyOwnershipAt(c, h, c[changes[k]].owners)
           /\ AtHeight(c, Len(c)) = 0

(* arcadia: what the validator accepted at altar i was made by the court, with the
   forger the court gave it, and carried the altar's mark when it was judged.
   spring: a page with the pedestal's inscription. *)
AcceptedIsGenuine ==
    \A i \in req.valid :
        LET j == req.judged[i] IN
        /\ j.data.mark = i
        /\ scene = "arcadia" => j.art \in Artifact /\ Forger[j.art] = i

(* After a request was decided nothing that was read is left on an altar, right or
   wrong, unless the player moved something there meanwhile or a call of the court for
   that altar failed: a failure at one altar spares no other.  disturbed holds the
   altars of these two kinds. *)
RequestConsumes ==
    req.pc = "idle" /\ req.result \in {"won", "lost"} =>
        \A i \in Altar \ req.disturbed : req.read[i] \cap altar[i] = {}

(* However often the respawn actor is interrupted, at most the artifact it is at is
   not recorded, so nothing is spawned and forgotten. *)
OneUnrecorded ==
    \A a \in Artifact : chain[a] # <<>> =>
        (\E k \in DOMAIN last : last[k] = a) \/ a = Len(last) + 1

Held == at \cup transit \cup bag \cup UNION {altar[i] : i \in Altar}

(* An object that was listed and is no more was taken by the court, or shared its
   name with another object. *)
LostOnlyToNamesake ==
    \A o \in Object :
        Len(chain[o]) > 1 /\ ~(o = sp.art /\ sp.pc \in {"load", "place"}) =>
            \/ o \in Held \cup taken
            \/ \E other \in Object \ {o} : NameOf[other] = NameOf[o] /\ chain[other] # <<>>
            \/ restarts > 0 /\ o = Len(last) + 1

(* Without a restart no artifact is listed at the spawn location and held by the
   player as well. *)
NotListedTwice ==
    restarts = 0 =>
        \A a \in at : a \notin transit \cup bag \cup UNION {altar[i] : i \in Altar}

(* Types, one artifact in one place, and no artifact spawned and forgotten. *)
QuestInv == TypeOK /\ NotListedTwice /\ OneUnrecorded

(* When the artifact is gone another one comes, unless the change that told so was
   missed (or the bound on artifacts is reached), or a failed change of owner has left
   the next one's tree, which the court cannot write, in the memory of the process; a
   crash of the process ends that. *)
ArtifactReturns ==
    (Spawns /\ at = {} /\ Len(last) < MaxSpawns)
        ~> (at # {} \/ lapse \/ genesis \/ Len(last) = MaxSpawns)
=============================================================================
