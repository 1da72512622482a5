---------------------------- MODULE GameCommands ----------------------------
(***************************************************************************)
(* What a player can do next: the Game actor, the LocationActor of the     *)
(* place the player is in with the inventory actor below it, and the       *)
(* blocks other players add to the trees of the place.                     *)
(*                                                                         *)
(* The game keeps a list of commands per actor (commandsByActorCache) and  *)
(* offers the union of the lists.  It asks for a list when it enters a     *)
(* place, and again when the actor says that its state changed.  Location  *)
(* and inventory actor each keep a copy of their tree, each updated by a   *)
(* subscription of its own; in most places both trees are the same, with a *)
(* per-player inventory they are two.  While the game handles a message it *)
(* waits for other actors, at most 30 seconds each.  When an error makes   *)
(* it panic, its children stop and it is started again with the same cache *)
(* and at the place in the data store.  A panic comes after such a wait,   *)
(* so the supervisor, which allows ten restarts in ten seconds, never      *)
(* gives up.                                                               *)
(***************************************************************************)
EXTENDS Naturals, Sequences, FiniteSets

CONSTANTS
    Place,        \* locations
    Home,         \* the player's own one
    Mine,         \* those the player owns
    PerPlayer,    \* those with a per-player inventory
    Broken,       \* dids without a tree that a portal may lead to
    Target,       \* where the owners of places build portals to
    Nil,
    Pid,          \* pids of the actors the game spawns, reused when forgotten
    MaxBlocks,    \* bound on the blocks others add, and on those a portal is changed on
    MaxFaults,    \* bound on requests that time out though the actor is alive (before a restart)
    MaxRestarts   \* restarts of the program

ASSUME PlaceAssumption ==
    /\ Home \in Mine /\ Mine \subseteq Place /\ Home \notin Broken
    /\ PerPlayer \subseteq Place /\ Broken \subseteq Place /\ Target \subseteq Place
    /\ Nil \notin Place \cup Pid
    /\ {MaxBlocks, MaxFaults, MaxRestarts} \subseteq Nat

VARIABLES
    blocks,    \* [tree -> the blocks on it: the portal and the objects it shows]
    here,      \* the location actor and the inventory actor below it
    game,      \* what the game actor is at
    cache,     \* commandsByActorCache: pid -> list
    commands,  \* the lists the player is offered, by pid
    mail,      \* the game's mailbox: the pids of StateChange messages
    last,      \* the last location in the data store
    added, faults, restarts

offers == <<cache, commands>>
bounds == <<added, faults, restarts>>
gameVars == <<blocks, here, game, offers, mail, last, bounds>>

LocTree(p) == <<"location", p>>
InvTree(p) == IF p \in PerPlayer THEN <<"inventory", p>> ELSE LocTree(p)
Tree == {LocTree(p) : p \in Place \ Broken} \cup {InvTree(p) : p \in Place \ Broken}

\* What a list of commands was made from: a portal, and the blocks of the two
\* trees.  The lists of the player's own inventory, and one that could not be
\* had, are Empty.
Empty == [portal |-> Nil, ver |-> 0, iver |-> 0]

NoActor == [pid |-> Nil, place |-> Nil, pc |-> "dead", ver |-> 0, iver |-> 0,
            seen |-> 0, iseen |-> 0, box |-> <<>>, told |-> 0]
Starting == [pc |-> "start", why |-> "none", loc |-> Nil, inv |-> Nil, asked |-> Nil, todo |-> {}, to |-> Nil]
Now(pc) == [Starting EXCEPT !.pc = pc, !.loc = game.loc, !.inv = game.inv]

GameInit ==
    /\ blocks = [t \in Tree |-> <<Nil>>]
    /\ here = NoActor
    /\ game = Starting
    /\ cache = << >> /\ commands = << >>
    /\ mail = <<>>
    /\ last = Nil
    /\ added = 0 /\ faults = 0 /\ restarts = 0

---------------------------------------------------------------------------
(* The trees of a place *)

\* Another player adds a block: objects come and go, and the owner of a location
\* may change its portal.
OtherPlayer(t, portal) ==
    /\ added < MaxBlocks
    /\ added' = added + 1
    /\ portal # blocks[t][Len(blocks[t])] => \E p \in Place \ Mine : t = LocTree(p)
    /\ blocks' = [blocks EXCEPT ![t] = Append(@, portal)]
    /\ UNCHANGED <<here, game, offers, mail, last, faults, restarts>>

---------------------------------------------------------------------------
(* The game: requests to the actors and what follows an answer *)

\* A request is known by the number of requests that were given up before it.
Request(type, to) == [type |-> type, id |-> faults, to |-> to]
Awaited(m) == m.id = faults

\* ListInteractionsRequest to an actor; a dead one gets nothing.
AskList(h, pid) == IF pid = h.pid THEN [h EXCEPT !.box = Append(@, Request("list", Nil))] ELSE h

\* refreshInteractionsFor: the list goes into the cache and all lists of the
\* cache are offered.
SetList(pid, list) ==
    /\ cache' = [q \in DOMAIN cache \cup {pid} |-> IF q = pid THEN list ELSE cache[q]]
    /\ commands' = cache'

\* What the game does when it got a list: initializeGame goes to a location,
\* refresh asks the next actor, and a new location is shown.
ListAnswered(h, pid, list) ==
    /\ SetList(pid, list)
    /\ CASE game.why = "init"  -> /\ game' = [Now("goto") EXCEPT !.to = IF last = Nil THEN Home ELSE last]
                                  /\ here' = h
         [] game.why = "enter" -> /\ game' = Now("look")
                                  /\ here' = [h EXCEPT !.box = Append(@, Request("look", Nil))]
         [] game.why = "state" -> /\ game' = Now("idle")
                                  /\ here' = h
         [] game.why = "refresh" /\ game.todo # {} ->
               \E q \in game.todo : /\ game' = [game EXCEPT !.asked = q, !.todo = @ \ {q}]
                                    /\ here' = AskList(h, q)
         [] game.why = "refresh" /\ game.todo = {} ->
               /\ game' = Now("look")
               /\ here' = [h EXCEPT !.box = Append(@, Request("look", Nil))]

\* Started: initializeGame spawns the player's inventory actor and asks it.
Used == DOMAIN cache \cup DOMAIN commands \cup {game.loc, game.inv} \cup {mail[i] : i \in DOMAIN mail}
Fresh == CHOOSE q \in Pid : q \notin Used

\* The lists of the inventory actors of all earlier starts stay in the cache, each
\* without an actor and Empty: one of them stands for all.
StartGame ==
    /\ game.pc = "start"
    /\ game' = [Now("list") EXCEPT !.why = "init", !.inv = Fresh, !.asked = Fresh]
    /\ cache' = [q \in DOMAIN cache \cap {game.loc, game.inv} |-> cache[q]]
    /\ UNCHANGED <<blocks, here, commands, mail, last, bounds>>

\* The player's inventory actor answers.
InventoryAnswers ==
    /\ game.pc = "list" /\ game.asked = game.inv
    /\ ListAnswered(here, game.inv, Empty)
    /\ UNCHANGED <<blocks, mail, last, bounds>>

\* Mutant: the list of the old location actor stays in the cache.
SetLocationOnly ==
    /\ game.pc = "goto"
    /\ here' = AskList([NoActor EXCEPT !.pid = Fresh, !.place = game.to, !.pc = "starting"], Fresh)
    /\ last' = IF game.to = Home THEN last ELSE game.to
    /\ game' = [Now("list") EXCEPT !.why = "enter", !.loc = Fresh, !.asked = Fresh]
    /\ UNCHANGED <<blocks, offers, mail, bounds>>

\* setLocation: the old location actor stops, a new one starts, the did is stored
\* unless it is that of home, the old list is dropped and a new one asked for.
SetLocation ==
    /\ game.pc = "goto"
    /\ here' = AskList([NoActor EXCEPT !.pid = Fresh, !.place = game.to, !.pc = "starting"], Fresh)
    /\ last' = IF game.to = Home THEN last ELSE game.to
    /\ cache' = [q \in DOMAIN cache \ {game.loc} |-> cache[q]]
    /\ game' = [Now("list") EXCEPT !.why = "enter", !.loc = Fresh, !.asked = Fresh]
    /\ UNCHANGED <<blocks, commands, mail, bounds>>

---------------------------------------------------------------------------
(* The game: messages *)

\* Mutant: only the player's own inventory is refreshed.
HandleOwnChange ==
    /\ game.pc = "idle" /\ mail # <<>>
    /\ mail' = Tail(mail)
    /\ IF Head(mail) = game.inv
       THEN game' = [Now("list") EXCEPT !.why = "state", !.asked = Head(mail)]
       ELSE UNCHANGED game
    /\ UNCHANGED <<blocks, here, offers, last, bounds>>

\* A StateChange counts only if the actor's list is in the cache.
HandleStateChange ==
    /\ game.pc = "idle" /\ mail # <<>>
    /\ mail' = Tail(mail)
    /\ IF Head(mail) \in DOMAIN cache
       THEN /\ game' = [game EXCEPT !.pc = "list", !.why = "state", !.asked = Head(mail)]
            /\ here' = AskList(here, Head(mail))
       ELSE UNCHANGED <<game, here>>
    /\ UNCHANGED <<blocks, offers, last, bounds>>

\* The player goes where a command leads: through the portal that is offered,
\* home, back to the last location, or by tip-zoom to any tree there is.
ChangeLocation(p) ==
    /\ game.pc = "idle"
    /\ p \in {commands[q].portal : q \in DOMAIN commands} \cup {Home, last} \cup (Place \ Broken)
    /\ p # Nil
    /\ game' = [Now("goto") EXCEPT !.to = p]
    /\ UNCHANGED <<blocks, here, offers, mail, last, bounds>>

\* build portal and delete portal, offered to the owner of the location.
ChangePortal(to) ==
    /\ game.pc = "idle" /\ game.loc \in DOMAIN commands
    /\ here.place \in Mine
    /\ (to = Nil) # (commands[game.loc].portal = Nil)
    /\ Len(blocks[LocTree(here.place)]) <= MaxBlocks
    /\ game' = Now("write")
    /\ here' = [here EXCEPT !.box = Append(@, Request("write", to))]
    /\ UNCHANGED <<blocks, offers, mail, last, bounds>>

\* refresh: every actor of the cache is asked, one after the other.
RefreshAll ==
    /\ game.pc = "idle"
    /\ \E q \in DOMAIN cache :
          /\ game' = [game EXCEPT !.pc = "list", !.why = "refresh", !.asked = q, !.todo = DOMAIN cache \ {q}]
          /\ here' = AskList(here, q)
    /\ UNCHANGED <<blocks, offers, mail, last, bounds>>

---------------------------------------------------------------------------
(* The location actor and its inventory actor *)

\* initialize: the tree is fetched, then the subscriptions start.
FetchLocation ==
    /\ here.pc = "starting" /\ here.place \notin Broken
    /\ here' = [here EXCEPT !.pc = "subscribe", !.ver = Len(blocks[LocTree(here.place)])]
    /\ UNCHANGED <<blocks, game, offers, mail, last, bounds>>

Subscribe ==
    /\ here.pc = "subscribe"
    /\ here' = [here EXCEPT !.pc = "idle", !.seen = Len(blocks[LocTree(here.place)])]
    /\ UNCHANGED <<blocks, game, offers, mail, last, bounds>>

StartInventory ==
    /\ here.pc \in {"idle", "asking"} /\ here.iver = 0
    /\ here' = [here EXCEPT !.iver = Len(blocks[InvTree(here.place)]),
                            !.iseen = Len(blocks[InvTree(here.place)])]
    /\ UNCHANGED <<blocks, game, offers, mail, last, bounds>>

Next1(type) == here.pc = "idle" /\ here.box # <<>> /\ Head(here.box).type = type
Done1 == [here EXCEPT !.box = Tail(@)]

\* CurrentState from the location's subscription, at its own pace: the copy of the
\* tree is replaced and the game told.
LocationState ==
    /\ here.pc = "idle"
    /\ here.seen < Len(blocks[LocTree(here.place)])
    /\ here' = [here EXCEPT !.ver = here.seen + 1, !.seen = @ + 1]
    /\ mail' = Append(mail, here.pid)
    /\ UNCHANGED <<blocks, game, offers, last, bounds>>

\* Mutant: changes of the inventory are never forwarded.
NeverForward ==
    /\ here.pc = "idle" /\ here.told > 0
    /\ here' = [here EXCEPT !.told = @ - 1]
    /\ UNCHANGED <<blocks, game, offers, mail, last, bounds>>

\* StateChange of the inventory actor: forwarded if the inventory is another tree.
ForwardChange ==
    /\ here.pc = "idle" /\ here.told > 0
    /\ here' = [here EXCEPT !.told = @ - 1]
    /\ mail' = IF here.place \in PerPlayer THEN Append(mail, here.pid) ELSE mail
    /\ UNCHANGED <<blocks, game, offers, last, bounds>>

\* ListInteractionsRequest: the inventory actor is asked for its part.
LocationList ==
    /\ Next1("list")
    /\ here' = [here EXCEPT !.pc = "asking"]
    /\ UNCHANGED <<blocks, game, offers, mail, last, bounds>>

\* CurrentState from the inventory's subscription: the location actor is told.
InventoryState ==
    /\ here.iver > 0
    /\ here.iseen < Len(blocks[InvTree(here.place)])
    /\ here' = [here EXCEPT !.iver = here.iseen + 1, !.iseen = @ + 1, !.told = @ + 1]
    /\ UNCHANGED <<blocks, game, offers, mail, last, bounds>>

\* The inventory's part comes back and the location's list goes to the game.
InventoryList ==
    LET list == [portal |-> blocks[LocTree(here.place)][here.ver], ver |-> here.ver, iver |-> here.iver]
        h == [Done1 EXCEPT !.pc = "idle"]
    IN  /\ here.pc = "asking" /\ here.iver > 0
        /\ IF Awaited(Head(here.box))
           THEN ListAnswered(h, here.pid, list)
           ELSE here' = h /\ UNCHANGED <<game, offers>>
        /\ UNCHANGED <<blocks, mail, last, bounds>>

\* Mutant: nothing is answered when the location has no portal.
LookSilently ==
    /\ Next1("look")
    /\ here' = Done1
    /\ game' = IF Awaited(Head(here.box)) /\ blocks[LocTree(here.place)][here.ver] # Nil
               THEN Now("idle") ELSE game
    /\ UNCHANGED <<blocks, offers, mail, last, bounds>>

\* GetLocation: the location is shown to the player.
LocationLook ==
    /\ Next1("look")
    /\ here' = Done1
    /\ game' = IF Awaited(Head(here.box)) THEN Now("idle") ELSE game
    /\ UNCHANGED <<blocks, offers, mail, last, bounds>>

\* BuildPortal and DeletePortal on the actor's copy, which must not have, or have, a
\* portal; the block is refused when the copy is not the newest.  The game is not
\* told of an error.
LocationWrite ==
    LET t == LocTree(here.place)
        to == Head(here.box).to
    IN  /\ Next1("write")
        /\ IF (to = Nil) # (blocks[t][here.ver] = Nil) /\ here.ver = Len(blocks[t])
           THEN /\ blocks' = [blocks EXCEPT ![t] = Append(@, to)]
                /\ here' = [Done1 EXCEPT !.ver = @ + 1]
           ELSE /\ here' = Done1 /\ UNCHANGED blocks
        /\ game' = IF Awaited(Head(here.box)) THEN Now("idle") ELSE game
        /\ UNCHANGED <<offers, mail, last, bounds>>

---------------------------------------------------------------------------
(* Errors, restarts and crashes *)

\* The game panics: its children stop and it starts again as the same object.
Panic == here' = NoActor /\ game' = Now("start")

\* No answer can come: the actor is gone, or it cannot start.
Unanswerable ==
    \/ game.asked \notin {game.inv, here.pid}
    \/ game.asked = here.pid /\ here.place \in Broken

\* A list could not be had: the cache gets an empty one.  initializeGame and
\* setLocation panic, a StateChange is logged, refresh shows the location.
ListFails ==
    /\ game.pc = "list"
    /\ \/ Unanswerable /\ UNCHANGED faults
       \/ ~Unanswerable /\ faults + restarts < MaxFaults /\ faults' = faults + 1
    /\ cache' = [q \in DOMAIN cache \cup {game.asked} |-> IF q = game.asked THEN Empty ELSE cache[q]]
    /\ CASE game.why \in {"init", "enter"} -> Panic
         [] game.why = "state" -> game' = Now("idle") /\ UNCHANGED here
         [] game.why = "refresh" ->
               /\ game' = Now("look")
               /\ here' = [here EXCEPT !.box = Append(@, [type |-> "look", id |-> faults', to |-> Nil])]
    /\ UNCHANGED <<blocks, commands, mail, last, added, restarts>>

\* The location or the portal request times out; showing no location panics.
RequestTimesOut ==
    /\ game.pc \in {"look", "write"}
    /\ faults + restarts < MaxFaults
    /\ faults' = faults + 1
    /\ IF game.pc = "look" THEN Panic
                           ELSE game' = Now("idle") /\ UNCHANGED here
    /\ UNCHANGED <<blocks, offers, mail, last, added, restarts>>

\* The program ends and is started again: only the data store remains.
Restart ==
    /\ restarts < MaxRestarts
    /\ restarts' = restarts + 1
    /\ here' = NoActor /\ game' = Starting /\ mail' = <<>>
    /\ cache' = << >> /\ commands' = << >>
    /\ UNCHANGED <<blocks, last, added, faults>>

---------------------------------------------------------------------------
LocationActor ==
    \/ FetchLocation \/ Subscribe \/ LocationState \/ ForwardChange \/ LocationList
    \/ LocationLook \/ LocationWrite
InventoryActor == StartInventory \/ InventoryState \/ InventoryList
GameActor == StartGame \/ SetLocation \/ HandleStateChange \/ InventoryAnswers \/ (Unanswerable /\ ListFails)

GameNext ==
    \/ LocationActor \/ InventoryActor
    \/ StartGame \/ InventoryAnswers \/ SetLocation \/ HandleStateChange \/ RefreshAll
    \/ \E p \in Place : ChangeLocation(p)
    \/ \E to \in Target \cup {Nil} : ChangePortal(to)
    \/ \E t \in Tree : \E portal \in Target \cup {Nil} : OtherPlayer(t, portal)
    \/ ListFails \/ RequestTimesOut \/ Restart

GameSpec == GameInit /\ [][GameNext]_gameVars

\* Every actor handles its messages and a request that cannot be answered ends.
\* Players need not do anything, and messages are handled between commands.
GameFairSpec ==
    /\ GameSpec
    /\ WF_gameVars(LocationActor) /\ WF_gameVars(InventoryActor)
    /\ WF_gameVars(GameActor) /\ SF_gameVars(HandleStateChange)

---------------------------------------------------------------------------
(* Types; an actor has not seen a block that was not played. *)
GameTypeOK ==
    /\ DOMAIN blocks = Tree
    /\ \A t \in Tree : blocks[t] \in Seq(Place \cup {Nil}) /\ blocks[t] # <<>>
    /\ here.pid \in Pid \cup {Nil} /\ here.pc \in {"dead", "starting", "subscribe", "idle", "asking"}
    /\ here.place \in Place \ Broken =>
          here.ver <= Len(blocks[LocTree(here.place)]) /\ here.iver <= Len(blocks[InvTree(here.place)])
    /\ game.pc \in {"start", "list", "goto", "look", "write", "idle"}
    /\ DOMAIN cache \subseteq Pid /\ DOMAIN commands \subseteq Pid
    /\ last \in Place \cup {Nil}

(* When the game waits for a command it offers a list of the actor of the place
   the player is in and of no other location actor, whatever places were left,
   requests timed out and restarts happened before. *)
OffersThisPlace ==
    game.pc = "idle" =>
        /\ game.loc = here.pid /\ here.pid \in DOMAIN commands
        /\ \A q \in DOMAIN commands : commands[q].ver > 0 => q = here.pid

(* Types, and what the game offers when it waits for a command. *)
GameInv == GameTypeOK /\ OffersThisPlace

Offered == IF here.pid \in DOMAIN commands THEN commands[here.pid] ELSE Empty

Behind == Offered.ver < here.ver \/ Offered.iver < here.iver

(* A change that the location actor has told the game of leads to a list of all that
   the location actor and its inventory actor know then, unless the player leaves or
   a request times out: also one that is told while the game is busy with a command.
   Where both have one tree the inventory actor may learn of the block later, and
   what it tells then is dropped: this is about what the location actor passes on. *)
ChangesAreOffered ==
    (Behind /\ \E i \in DOMAIN mail : mail[i] = here.pid) ~> (~Behind \/ faults > 0)

(* With a per-player inventory changes that only the inventory actor hears of get
   into the commands. *)
InventoryIsOffered ==
    (here.place \in PerPlayer /\ Offered.iver < here.iver) ~> (Offered.iver >= here.iver \/ faults > 0)

(* Every command ends and the game takes another, also after requests that time out
   in its start: unless the place it stored as its last has no tree.  A command that
   leads to such a place never ends, nor does any start of the game after it. *)
CommandEnds == (game.pc # "idle") ~> (game.pc = "idle" \/ last \in Broken)
=============================================================================
