--------------------------- MODULE ElementCombiner --------------------------
(***************************************************************************)
(* The weaver and the binder of the autumn court.  A player drops elements *)
(* at their location; the handler collects them in a bowl that the         *)
(* player's own inventory for that location lists.  When the player picks  *)
(* the bowl up the handler turns it into the element its contents make.    *)
(*                                                                         *)
(* The service runs ten handlers at once (elementCombinerConcurrency) over *)
(* the same trees, so every statement that writes a block is a step of its *)
(* own.  A block is refused when it does not extend the tree's tip or is   *)
(* not signed by an owner.  Players share nothing here but the pool, so    *)
(* there is one player.  The bowl made on block v of the inventory has the *)
(* key derived from that tip and is called v.                              *)
(*                                                                         *)
(* The drop is the UnrestrictedRemoveHandler of the player's bag: it waits *)
(* for a block on the element and takes the element back when none comes,  *)
(* whether its message is lost, late or being handled right then.          *)
(***************************************************************************)
EXTENDS Naturals, Sequences, FiniteSets

CONSTANTS
    Worker,       \* the handlers of the pool
    Element,      \* the element objects the player may drop
    Kind,         \* [Element -> element names]
    Configured,   \* the names the court's configuration knows
    Genuine,      \* the objects whose origin validateElementOrigin accepts
    Combine,      \* [sets of names -> the new name, "nothing" or "blocked"]
    MinRequired,  \* the size of the smallest combination
    None,         \* no object
    MaxTip,       \* bound on the blocks of the inventory
    MaxAsks,      \* bound on the player's attempts to pick the bowl up
    MaxLapses,    \* [Element -> bound on its drops that the player's bag takes back]
    MaxFaults     \* bound on calls to the network that fail

ASSUME CombinerAssumption ==
    /\ Genuine \subseteq Element
    /\ Combine \in [SUBSET Configured -> Configured \cup {"nothing", "blocked"}]
    /\ MinRequired \in Nat \ {0}
    /\ MaxTip \in Nat \ {0} /\ MaxAsks \in Nat /\ MaxLapses \in [Element -> Nat] /\ MaxFaults \in Nat
    /\ None \notin Element

Bowl == 1..MaxTip

VARIABLES
    slot,      \* Seq: the bowl the inventory lists after each block, 0 for none
    bowl,      \* [Bowl -> the bowl's tree]
    owner,     \* [Element -> {"player", "both", "court", "none"}]
    tip,       \* [Element -> the blocks on its tree since the start]
    dropping,  \* the element whose drop the player's bag is at, or None
    lapsed,    \* [Element -> its drops that the player's bag took back]
    mail,      \* messages on their way to the handler
    waiting,   \* does the player's game wait for the answer to a pick-up?
    won,       \* the element names the player's inventory got from the handler
    asks,
    wk,        \* [Worker -> what the handler is at, and its handles]
    taken,     \* elements whose handler returned without an error
    spent,     \* elements that were in a bowl when it was handed in
    overlap,   \* have two handlers ever run at the same time?
    stranded,  \* has a failure left a bowl that still belongs to its own key?
    refused,   \* has the network refused a handler's block on a bowl or on the inventory?
    outrun,    \* elements on which the network has refused a handler's block
    unheard,   \* did a request to combine, or its answer, not get through?
    faults

vars == <<slot, bowl, owner, tip, dropping, lapsed, mail, waiting, won, asks, wk, taken,
          spent, overlap, stranded, refused, outrun, unheard, faults>>

\* What the player's bag has to do with.
drop == <<owner, tip, dropping, lapsed>>

ghosts == <<overlap, stranded, faults, outrun>>

\* The names a bowl may have; what makes nothing has a name too.
Name == Configured \cup {"", "bowl", "nothing", "blocked"}

(* A bowl's tree.  owner "none": it does not exist; "key": it is owned by the
   key it was created with. *)
Tree == [owner : {"none", "key", "court", "player"}, height : Nat, name : Name,
         dressed : BOOLEAN, player : BOOLEAN, elements : SUBSET Element,
         used : SUBSET Element]
NoTree == [owner |-> "none", height |-> 0, name |-> "", dressed |-> FALSE,
           player |-> FALSE, elements |-> {}, used |-> {}]

Idle == [pc |-> "idle", obj |-> None, e |-> 0, at |-> 0, b |-> 0, h |-> 0, new |-> ""]

Receiving == {"bowl", "created", "reset", "name", "interactions", "player",
              "element", "describe", "chown", "add"}
Granting == {"read", "remove", "refuse", "wipe", "rename", "grant"}

Init ==
    /\ slot = <<0>>
    /\ bowl = [b \in Bowl |-> NoTree]
    /\ owner = [e \in Element |-> "player"] /\ tip = [e \in Element |-> 0]
    /\ dropping = None /\ lapsed = [e \in Element |-> 0]
    /\ mail = {}
    /\ waiting = FALSE
    /\ won = {}
    /\ asks = 0
    /\ wk = [w \in Worker |-> Idle]
    /\ taken = {} /\ spent = {}
    /\ overlap = FALSE /\ stranded = FALSE /\ refused = FALSE
    /\ outrun = {} /\ unheard = FALSE
    /\ faults = 0

Listed == slot[Len(slot)]
Names(S) == {Kind[e] : e \in S}

---------------------------------------------------------------------------
(* The player *)

\* A block on the tree of an element.
Own(e, o) ==
    /\ owner' = [owner EXCEPT ![e] = o]
    /\ tip' = [tip EXCEPT ![e] = @ + 1]

\* Dropping an element gives it to the owners of the player's inventory for
\* the location, who are the player and the court, and tells the handler.  The
\* bag's actor does one drop at a time.
Drop(e) ==
    /\ ~waiting
    /\ dropping = None
    /\ owner[e] = "player"
    /\ Own(e, "both")
    /\ dropping' = e
    /\ mail' = mail \cup {[type |-> "transferred", obj |-> e, at |-> tip[e] + 1]}
    /\ UNCHANGED <<slot, bowl, lapsed, waiting, won, asks, wk, taken, spent, refused, unheard, ghosts>>

\* A block of another on the element ends the drop.
DropConfirmed ==
    /\ dropping # None
    /\ owner[dropping] # "both"
    /\ dropping' = None
    /\ UNCHANGED <<slot, bowl, owner, tip, lapsed, mail, waiting, won, asks, wk, taken, spent,
                   refused, unheard, ghosts>>

\* The message was not sent, or no block came in 20 seconds: the bag takes the
\* element back.
DropLapses ==
    /\ dropping # None
    /\ owner[dropping] = "both"
    /\ lapsed[dropping] < MaxLapses[dropping]
    /\ Own(dropping, "player")
    /\ lapsed' = [lapsed EXCEPT ![dropping] = @ + 1]
    /\ dropping' = None
    /\ UNCHANGED <<slot, bowl, mail, waiting, won, asks, wk, taken, spent, refused, unheard, ghosts>>

\* "submit offering": the game asks for the bowl it lists and waits.
SubmitOffering ==
    /\ ~waiting
    /\ Listed # 0
    /\ asks < MaxAsks
    /\ asks' = asks + 1
    /\ waiting' = TRUE
    /\ mail' = mail \cup {[type |-> "request", obj |-> Listed, at |-> Len(slot)]}
    /\ UNCHANGED <<slot, bowl, drop, won, wk, taken, spent, refused, unheard, ghosts>>

\* The request is broadcast and may be lost.  A drop's message that is lost is one
\* that stays in the mail: nothing waits for it but the drop.
LoseRequest(m) ==
    /\ m \in mail /\ m.type = "request"
    /\ mail' = mail \ {m}
    /\ unheard' = TRUE
    /\ UNCHANGED <<slot, bowl, drop, waiting, won, asks, wk, taken, spent, refused, ghosts>>

---------------------------------------------------------------------------
(* Steps of a handler *)

Goto(w, p) == wk' = [wk EXCEPT ![w].pc = p]
Return(w) == wk' = [wk EXCEPT ![w] = Idle]

\* A handler's handle on its bowl extends the tip and the court may sign.
MayWrite(w) ==
    /\ bowl[wk[w].b].height = wk[w].h
    /\ bowl[wk[w].b].owner = "court"

\* One block on the bowl, and the handler's next statement.
Write(w, new, next) ==
    /\ bowl' = [bowl EXCEPT ![wk[w].b] = [new EXCEPT !.height = @ + 1]]
    /\ wk' = [wk EXCEPT ![w].h = @ + 1, ![w].pc = next]

\* The pool hands a message to an idle handler, which reads the inventory.
Take(w, m) ==
    /\ wk[w].pc = "idle"
    /\ m \in mail
    /\ mail' = mail \ {m}
    /\ wk' = [wk EXCEPT ![w] =
                 [Idle EXCEPT !.pc = IF m.type = "request" THEN "read" ELSE "bowl",
                              !.obj = m.obj, !.at = Len(slot)]]
    /\ overlap' = (overlap \/ \E v \in Worker : wk[v].pc # "idle")
    /\ UNCHANGED <<slot, bowl, drop, waiting, won, asks, taken, spent, refused, stranded, outrun,
                   unheard, faults>>

ValidElement(e) == Kind[e] \in Configured /\ e \in Genuine

\* The court may sign a block on the element.
CourtOwns(e) == owner[e] \in {"both", "court"}

\* isValidElement: an element whose origin is wrong is destroyed, one that the
\* configuration does not know is left alone.
RejectElement(w) ==
    /\ wk[w].pc = "bowl"
    /\ ~ValidElement(wk[w].obj)
    /\ IF Kind[wk[w].obj] \in Configured
       THEN CourtOwns(wk[w].obj) /\ Own(wk[w].obj, "none")
       ELSE UNCHANGED <<owner, tip>>
    /\ Return(w)
    /\ UNCHANGED <<slot, bowl, dropping, lapsed, mail, waiting, won, asks, taken, spent, refused, unheard, ghosts>>

\* Mutant: the tree is used as an earlier failure left it.
FindNoReset(w) ==
    LET b == IF slot[wk[w].at] # 0 THEN slot[wk[w].at] ELSE wk[w].at
    IN  /\ wk[w].pc = "bowl"
        /\ ValidElement(wk[w].obj)
        /\ bowl[b].owner # "none"
        /\ wk' = [wk EXCEPT ![w].e = tip[wk[w].obj], ![w].b = b, ![w].h = bowl[b].height,
                            ![w].pc = IF slot[wk[w].at] # 0 THEN "element" ELSE "name"]
        /\ UNCHANGED <<slot, bowl, drop, mail, waiting, won, asks, taken, spent, refused, unheard, ghosts>>

\* The bowl the inventory lists, if the court made it, else the tree whose key
\* comes from the tip of the inventory: FindOrCreateNamedTree.  A tree that is
\* already in use by then is reset.
FindBowl(w) ==
    LET b == IF slot[wk[w].at] # 0 THEN slot[wk[w].at] ELSE wk[w].at
        next == IF slot[wk[w].at] # 0 THEN "element"
                ELSE IF bowl[b].height > 1 THEN "reset" ELSE "name"
    IN  /\ wk[w].pc = "bowl"
        /\ ValidElement(wk[w].obj)
        /\ bowl[b].owner # "none"
        /\ wk' = [wk EXCEPT ![w].e = tip[wk[w].obj], ![w].b = b, ![w].h = bowl[b].height,
                            ![w].pc = next]
        /\ UNCHANGED <<slot, bowl, drop, mail, waiting, won, asks, taken, spent, refused, unheard, ghosts>>

CreateBowl(w) ==
    LET b == wk[w].at
    IN  /\ wk[w].pc = "bowl"
        /\ ValidElement(wk[w].obj)
        /\ slot[b] = 0
        /\ bowl[b].owner = "none"
        /\ bowl' = [bowl EXCEPT ![b].owner = "key"]
        /\ wk' = [wk EXCEPT ![w].e = tip[wk[w].obj], ![w].b = b, ![w].pc = "created"]
        /\ UNCHANGED <<slot, drop, mail, waiting, won, asks, taken, spent, refused, unheard, ghosts>>

\* The second half of FindOrCreatePassphraseTree: its first block, signed by
\* the key it was created with, gives the tree to the court.
ChownBowl(w) ==
    /\ wk[w].pc = "created"
    /\ bowl[wk[w].b].owner = "key"
    /\ bowl' = [bowl EXCEPT ![wk[w].b].owner = "court"]
    /\ Goto(w, "name")
    /\ UNCHANGED <<slot, drop, mail, waiting, won, asks, taken, spent, refused, unheard, ghosts>>

ResetBowl(w) ==
    /\ wk[w].pc = "reset"
    /\ MayWrite(w)
    /\ Write(w, [NoTree EXCEPT !.owner = "court", !.height = bowl[wk[w].b].height], "name")
    /\ UNCHANGED <<slot, drop, mail, waiting, won, asks, taken, spent, refused, unheard, ghosts>>

NameBowl(w) ==
    /\ wk[w].pc = "name"
    /\ MayWrite(w)
    /\ Write(w, [bowl[wk[w].b] EXCEPT !.name = "bowl"], "interactions")
    /\ UNCHANGED <<slot, drop, mail, waiting, won, asks, taken, spent, refused, unheard, ghosts>>

\* AddInteraction refuses an interaction the tree already has.
DressBowl(w) ==
    /\ wk[w].pc = "interactions"
    /\ MayWrite(w) /\ ~bowl[wk[w].b].dressed
    /\ Write(w, [bowl[wk[w].b] EXCEPT !.dressed = TRUE], "player")
    /\ UNCHANGED <<slot, drop, mail, waiting, won, asks, taken, spent, refused, unheard, ghosts>>

SetPlayer(w) ==
    /\ wk[w].pc = "player"
    /\ MayWrite(w)
    /\ Write(w, [bowl[wk[w].b] EXCEPT !.player = TRUE], "element")
    /\ UNCHANGED <<slot, drop, mail, waiting, won, asks, taken, spent, refused, unheard, ghosts>>

\* Mutant: the map of elements is written anew instead of one entry of it.
PutOnly(w) ==
    /\ wk[w].pc = "element"
    /\ MayWrite(w)
    /\ Write(w, [bowl[wk[w].b] EXCEPT !.elements = {wk[w].obj}], "describe")
    /\ UNCHANGED <<slot, drop, mail, waiting, won, asks, taken, spent, refused, unheard, ghosts>>

\* The elements of a bowl are a map from name to did.
PutElement(w) ==
    LET e == wk[w].obj
    IN  /\ wk[w].pc = "element"
        /\ MayWrite(w)
        /\ Write(w, [bowl[wk[w].b] EXCEPT
                        !.elements = {x \in @ : Kind[x] # Kind[e]} \cup {e}], "describe")
        /\ UNCHANGED <<slot, drop, mail, waiting, won, asks, taken, spent, refused, unheard, ghosts>>

DescribeBowl(w) ==
    /\ wk[w].pc = "describe"
    /\ MayWrite(w)
    /\ Write(w, bowl[wk[w].b], "chown")
    /\ UNCHANGED <<slot, drop, mail, waiting, won, asks, taken, spent, refused, unheard, ghosts>>

\* The handle read at the start extends the element's tip and the court may sign.
MayChown(w) == tip[wk[w].obj] = wk[w].e /\ CourtOwns(wk[w].obj)

\* The element goes to the court alone.
ChownElement(w) ==
    /\ wk[w].pc = "chown"
    /\ MayChown(w)
    /\ Own(wk[w].obj, "court")
    /\ Goto(w, "add")
    /\ UNCHANGED <<slot, bowl, dropping, lapsed, mail, waiting, won, asks, taken, spent, refused,
                   unheard, ghosts>>

\* The player's bag took the element back first: the handler returns, and what
\* it put into the bowl stays there.
ElementRefused(w) ==
    /\ \/ wk[w].pc = "chown" /\ ~MayChown(w)
       \/ /\ wk[w].pc = "bowl"
          /\ ~ValidElement(wk[w].obj) /\ Kind[wk[w].obj] \in Configured
          /\ ~CourtOwns(wk[w].obj)
    /\ outrun' = outrun \cup {wk[w].obj}
    /\ Return(w)
    /\ UNCHANGED <<slot, bowl, drop, mail, waiting, won, asks, taken, spent, refused, unheard,
                   overlap, stranded, faults>>

\* ForceAdd looks the bowl's name up, which a reset may just have erased.
MayAdd(w) == Len(slot) = wk[w].at /\ bowl[wk[w].b].name # ""

\* The bound on the blocks of the inventory.
Bounded == Len(slot) < MaxTip

ForceAddBowl(w) ==
    /\ wk[w].pc = "add"
    /\ MayAdd(w) /\ Bounded
    /\ slot' = Append(slot, wk[w].b)
    /\ taken' = taken \cup {wk[w].obj}
    /\ Return(w)
    /\ UNCHANGED <<bowl, drop, mail, waiting, won, asks, spent, refused, unheard, ghosts>>

\* A block on the bowl or the inventory that the network refuses ends it.
ReceiveRefused(w) ==
    /\ \/ wk[w].pc = "created" /\ bowl[wk[w].b].owner # "key"
       \/ wk[w].pc \in Receiving \ {"bowl", "created", "chown", "add"} /\ ~MayWrite(w)
       \/ wk[w].pc = "interactions" /\ bowl[wk[w].b].dressed
       \/ wk[w].pc = "add" /\ ~MayAdd(w)
    /\ refused' = TRUE
    /\ Return(w)
    /\ UNCHANGED <<slot, bowl, drop, mail, waiting, won, asks, taken, spent, unheard, ghosts>>

---------------------------------------------------------------------------
(* handlePickupElement *)

\* Every path ends with an answer, Send or Errorf.  It goes through a call that
\* may fail and a broadcast that may be lost.
Answer(w) ==
    /\ Return(w)
    /\ \/ waiting' = FALSE /\ UNCHANGED unheard
       \/ unheard' = TRUE /\ UNCHANGED waiting

\* What the bowl makes, when the bowl can be combined at all.
Combinable(w) ==
    LET b == wk[w].obj
    IN  /\ slot[wk[w].at] = b
        /\ bowl[b].player
        /\ bowl[b].elements # {}
        /\ Cardinality(bowl[b].elements) >= MinRequired

\* The checks that only answer: there is no bowl or another one, it is not this
\* player's, there is too little in it, or the player has such an element.
PickUpChecks(w) ==
    LET b == wk[w].obj
        new == Combine[Names(bowl[b].elements)]
    IN  /\ wk[w].pc = "read"
        /\ IF ~Combinable(w) \/ new \in won
           THEN Answer(w)
           ELSE /\ wk' = [wk EXCEPT ![w].pc = IF new \in {"nothing", "blocked"}
                                              THEN "refuse" ELSE "remove",
                                    ![w].b = b, ![w].h = bowl[b].height, ![w].new = new]
                /\ UNCHANGED <<waiting, unheard>>
        /\ UNCHANGED <<slot, bowl, drop, mail, won, asks, taken, spent, refused, ghosts>>

\* inventory.Remove
RemoveBowl(w) ==
    /\ slot' = Append(slot, 0)
    /\ spent' = spent \cup taken

MayRemove(w) == Len(slot) = wk[w].at

\* An offering that makes nothing is forfeited; a Remove that fails is logged.
ForfeitBowl(w) ==
    /\ wk[w].pc = "refuse" /\ Bounded
    /\ IF MayRemove(w) THEN RemoveBowl(w) ELSE UNCHANGED <<slot, spent>>
    /\ Answer(w)
    /\ UNCHANGED <<bowl, drop, mail, won, asks, taken, refused, ghosts>>

HandInBowl(w) ==
    /\ wk[w].pc = "remove"
    /\ MayRemove(w) /\ Bounded
    /\ RemoveBowl(w)
    /\ Goto(w, "wipe")
    /\ UNCHANGED <<bowl, drop, mail, waiting, won, asks, taken, refused, unheard, ghosts>>

\* Mutant: the bowl is fetched again before it is erased.
WipeFresh(w) ==
    LET b == wk[w].b
    IN  /\ wk[w].pc = "wipe"
        /\ bowl' = [bowl EXCEPT ![b] = [NoTree EXCEPT !.owner = "court", !.height = bowl[b].height + 1,
                                                      !.used = bowl[b].elements]]
        /\ wk' = [wk EXCEPT ![w].h = bowl[b].height + 1, ![w].pc = "rename"]
        /\ UNCHANGED <<slot, drop, mail, waiting, won, asks, taken, spent, refused, unheard, ghosts>>

\* "This resets the object back to a vanilla state"
WipeBowl(w) ==
    LET b == wk[w].b
    IN  /\ wk[w].pc = "wipe"
        /\ MayWrite(w)
        /\ Write(w, [NoTree EXCEPT !.owner = "court", !.height = bowl[b].height,
                                   !.used = bowl[b].elements], "rename")
        /\ UNCHANGED <<slot, drop, mail, waiting, won, asks, taken, spent, refused, unheard, ghosts>>

\* CreateObjectOnTree and SetDescription
RenameBowl(w) ==
    /\ wk[w].pc = "rename"
    /\ MayWrite(w)
    /\ Write(w, [bowl[wk[w].b] EXCEPT !.name = wk[w].new, !.dressed = TRUE], "grant")
    /\ UNCHANGED <<slot, drop, mail, waiting, won, asks, taken, spent, refused, unheard, ghosts>>

\* The object goes to the player and the game hears of it.
GrantElement(w) ==
    /\ wk[w].pc = "grant"
    /\ MayWrite(w)
    /\ bowl' = [bowl EXCEPT ![wk[w].b].owner = "player", ![wk[w].b].height = @ + 1]
    /\ won' = won \cup {wk[w].new}
    /\ Answer(w)
    /\ UNCHANGED <<slot, drop, mail, asks, taken, spent, refused, ghosts>>

\* Mutant: the error is returned without an answer.
RefusedSilently(w) ==
    /\ \/ wk[w].pc = "remove" /\ ~MayRemove(w)
       \/ wk[w].pc \in {"wipe", "rename", "grant"} /\ ~MayWrite(w)
    /\ refused' = TRUE
    /\ Return(w)
    /\ UNCHANGED <<slot, bowl, drop, mail, waiting, won, asks, taken, spent, unheard, ghosts>>

\* A block of handlePickupElement that the network refuses is answered.
PickUpRefused(w) ==
    /\ \/ wk[w].pc = "remove" /\ ~MayRemove(w)
       \/ wk[w].pc \in {"wipe", "rename", "grant"} /\ ~MayWrite(w)
    /\ refused' = TRUE
    /\ Answer(w)
    /\ UNCHANGED <<slot, bowl, drop, mail, won, asks, taken, spent, ghosts>>

---------------------------------------------------------------------------
\* A call to the network fails: the handler stops where it is.
CallFails(w) ==
    /\ wk[w].pc \in Receiving \cup Granting
    /\ faults < MaxFaults
    /\ faults' = faults + 1
    /\ stranded' = (stranded \/ wk[w].pc = "created")
    /\ IF wk[w].pc \in Granting THEN Answer(w) ELSE Return(w) /\ UNCHANGED <<waiting, unheard>>
    /\ UNCHANGED <<slot, bowl, drop, mail, won, asks, taken, spent, refused, outrun, overlap>>

Handle(w) ==
    \/ \E m \in mail : Take(w, m)
    \/ RejectElement(w) \/ FindBowl(w) \/ CreateBowl(w) \/ ChownBowl(w)
    \/ ResetBowl(w) \/ NameBowl(w) \/ DressBowl(w) \/ SetPlayer(w)
    \/ PutElement(w) \/ DescribeBowl(w) \/ ChownElement(w) \/ ForceAddBowl(w)
    \/ ReceiveRefused(w) \/ ElementRefused(w)
    \/ PickUpChecks(w) \/ ForfeitBowl(w) \/ HandInBowl(w) \/ WipeBowl(w)
    \/ RenameBowl(w) \/ GrantElement(w) \/ PickUpRefused(w)

Next ==
    \/ \E e \in Element : Drop(e)
    \/ DropConfirmed \/ DropLapses
    \/ SubmitOffering
    \/ \E m \in mail : LoseRequest(m)
    \/ \E w \in Worker : Handle(w) \/ CallFails(w)

Spec == Init /\ [][Next]_vars

\* The actors of the pool and the mailboxes are scheduled fairly.
FairSpec == Spec /\ WF_vars(\E w \in Worker : Handle(w))

---------------------------------------------------------------------------
Work == [pc : {"idle"} \cup Receiving \cup Granting, obj : Element \cup Bowl \cup {None},
         e : Nat, at : Nat, b : Bowl \cup {0}, h : Nat, new : Name]

Message == [type : {"transferred", "request"}, obj : Element \cup Bowl, at : Nat]

(* Types; the inventory has a bowl slot from the start. *)
TypeOK ==
    /\ slot \in Seq(Bowl \cup {0}) /\ slot # <<>>
    /\ bowl \in [Bowl -> Tree]
    /\ owner \in [Element -> {"player", "both", "court", "none"}]
    /\ tip \in [Element -> Nat]
    /\ dropping \in Element \cup {None} /\ lapsed \in [Element -> Nat]
    /\ mail \subseteq Message
    /\ waiting \in BOOLEAN /\ overlap \in BOOLEAN
    /\ stranded \in BOOLEAN /\ refused \in BOOLEAN /\ unheard \in BOOLEAN
    /\ taken \subseteq Element /\ spent \subseteq Element /\ outrun \subseteq Element
    /\ asks \in 0..MaxAsks /\ faults \in 0..MaxFaults
    /\ wk \in [Worker -> Work]

(* An object that became the player's is the combination of exactly the
   elements that were in the bowl when its contents were erased: an element
   that arrives while the bowl is being combined either counts or stops the
   hand-out, however the ten handlers interleave. *)
RewardMatchesOffering ==
    \A b \in Bowl :
        bowl[b].owner = "player" =>
            /\ bowl[b].name = Combine[Names(bowl[b].used)]
            /\ Cardinality(bowl[b].used) >= MinRequired

(* As long as handlers did not run at the same time, an element the handler
   accepted is not lost: until the bowl is handed in, the bowl that the
   player's inventory lists holds an element of that name, whatever calls
   failed before. *)
AcceptedIsInBowl ==
    ~overlap =>
        \A e \in taken \ spent :
            Listed # 0 /\ Kind[e] \in Names(bowl[Listed].elements)

\* The elements whose drop the player's bag has taken back at some time.
TakenBack == {e \in Element : lapsed[e] > 0}

(* "Sometimes a tree can be created, but not fully make it to adding to
   inventory, which gives it some corrupt / inflight state, if thats the case,
   reset it": on bowls and inventory a handler that runs alone is never refused,
   whatever state an earlier failure left the bowl in (short of a failed first
   block, which leaves the tree to its own key), and on an element no handler is
   refused unless the player's bag had taken that element back. *)
FailureIsRepaired ==
    /\ ~overlap /\ ~stranded => ~refused
    /\ outrun \subseteq TakenBack

(* An element that a handler accepted is the court's alone, whatever handlers
   overlapped, calls failed and drops lapsed; one that a reward used is too,
   unless the player's bag took it back, or is still at the drop. *)
UsedIsSurrendered ==
    /\ \A e \in taken : owner[e] = "court"
    /\ \A b \in Bowl : \A e \in bowl[b].used :
          owner[e] = "court" \/ e = dropping \/ e \in TakenBack

(* The handlers' state is well formed, and an element is where it belongs: one the
   handler accepted is in the bowl and the court's alone. *)
CombinerInv == TypeOK /\ AcceptedIsInBowl /\ UsedIsSurrendered

(* The player's game, which waits without a timeout, hears of every offering,
   also when another handler wins the race or a call before the answer fails:
   only a request or an answer that does not get through leaves it waiting. *)
OfferingIsAnswered == waiting ~> ~waiting \/ unheard
=============================================================================
