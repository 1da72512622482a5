------------------------- MODULE ElementCombinerProofs -------------------------
(***************************************************************************)
(* The safety of the autumn court, for any number of elements and of       *)
(* handlers in the pool.                                                   *)
(*                                                                         *)
(* The reward is right however the handlers interleave: the argument is    *)
(* that of optimistic concurrency, a handler whose handle still extends    *)
(* the tip of the bowl has seen everything that is in it.  That nothing is *)
(* lost and that a failure is repaired holds as long as no two handlers    *)
(* have run at the same time, and that part describes the single handler   *)
(* that is not idle, statement by statement.                               *)
(***************************************************************************)
EXTENDS ElementCombiner, TLAPS

---------------------------------------------------------------------------
(* Any interleaving. *)

\* The types of what the player's bag, the refusals and the answers change.
BagTyped ==
    /\ owner \in [Element -> {"player", "both", "court", "none"}]
    /\ tip \in [Element -> Nat]
    /\ dropping \in Element \cup {None} /\ lapsed \in [Element -> Nat]
    /\ outrun \subseteq Element /\ unheard \in BOOLEAN

\* Messages carry what their type says.
MailOK ==
    \A m \in mail : /\ m.type = "transferred" => m.obj \in Element
                    /\ m.type = "request" => m.obj \in Bowl

\* The inventory stays below its bound and lists bowls made on an earlier block.
SlotOK ==
    /\ Len(slot) <= MaxTip
    /\ \A i \in 1..Len(slot) : slot[i] # 0 => slot[i] < i

\* The elements a handler may have put into a bowl.
Valid == {e \in Element : Kind[e] \in Configured /\ e \in Genuine}

\* A bowl holds valid elements; it has no block before it is the court's, is dressed
\* by its second block at the earliest, and was listed before it is given away.
BowlOK ==
    \A b \in Bowl :
        /\ bowl[b].elements \subseteq Valid /\ bowl[b].used \subseteq Valid
        /\ bowl[b].owner \in {"none", "key"} => bowl[b].height = 0
        /\ bowl[b].height <= 1 => ~bowl[b].dressed
        /\ bowl[b].owner = "player" => b < Len(slot)

Rewarding(new, S) == new = Combine[Names(S)] /\ Cardinality(S) >= MinRequired

\* A handler's handle is never ahead of the bowl, and while it is not behind, what
\* the handler has computed is what the bowl makes.
HandleOK(w) ==
    LET s == wk[w]
        t == bowl[s.b]
    IN  /\ s.pc # "idle" => s.at \in 1..Len(slot)
        /\ s.pc \in Receiving => s.obj \in Element
        /\ s.pc \in Granting => s.obj \in Bowl
        /\ s.pc = "bowl" => s.h = 0
        /\ s.pc \in Receiving \ {"bowl"} =>
              /\ s.obj \in Valid /\ s.b \in 1..s.at /\ s.h \in 0..t.height
        /\ s.pc = "interactions" => s.h >= 1
        /\ s.pc \in Granting \ {"read"} =>
              /\ s.b \in Bowl /\ s.b < s.at /\ s.h \in 0..t.height
              /\ s.pc \in {"rename", "grant"} => s.h >= 1
              /\ s.pc \in {"remove", "wipe"} /\ t.height = s.h => Rewarding(s.new, t.elements)
              /\ s.pc \in {"rename", "grant"} /\ t.height = s.h => Rewarding(s.new, t.used)
              /\ s.pc = "grant" /\ t.height = s.h => t.name = s.new

PoolIInv ==
    /\ TypeOK /\ MailOK /\ SlotOK /\ BowlOK
    /\ \A w \in Worker : HandleOK(w)
    /\ RewardMatchesOffering

---------------------------------------------------------------------------
(* One handler at a time. *)

\* Only one handler is at work.
OneAtWork ==
    \A v, w \in Worker : v # w => wk[v].pc = "idle" \/ wk[w].pc = "idle"

\* The handle of a handler is the tip of the bowl, and the bowl is the court's.
Current(w) == bowl[wk[w].b].owner = "court" /\ bowl[wk[w].b].height = wk[w].h

\* The bowl has no interactions yet when they are about to be added.
Undressed(w) == wk[w].pc \in {"name", "interactions"} => ~bowl[wk[w].b].dressed

\* What a handler that works alone knows at each statement.
AloneOK(w) ==
    LET s == wk[w]
        t == bowl[s.b]
    IN  /\ s.pc \notin {"idle", "wipe", "rename", "grant"} => s.at = Len(slot)
        /\ s.pc = "created" => Listed = 0 /\ s.b = s.at /\ t.owner = "key" /\ s.h = 0
        /\ s.pc \in {"reset", "name", "interactions", "player"} =>
              Listed = 0 /\ s.b = s.at
        /\ s.pc \in {"reset", "name"} => Current(w) \/ (stranded /\ t.owner = "key")
        /\ s.pc \in {"interactions", "player"} => Current(w)
        /\ Undressed(w)
        /\ s.pc \in {"interactions", "player"} => t.name # ""
        /\ s.pc \in {"element", "describe", "chown", "add"} =>
              Current(w) /\ t.name # "" /\ (Listed # 0 => s.b = Listed)
        /\ s.pc \in {"describe", "chown", "add"} => Kind[s.obj] \in Names(t.elements)
        /\ s.pc \in {"remove", "refuse"} => Listed = s.b /\ Current(w)
        /\ s.pc \in {"wipe", "rename", "grant"} => Listed = 0 /\ Current(w)

\* The bowl the inventory lists is the court's and has a name.
ListedIsReady == Listed # 0 => bowl[Listed].owner = "court" /\ bowl[Listed].name # ""

\* A bowl that belongs to its own key has just been created.
KeyIsNew ==
    ~stranded =>
        \A b \in Bowl : bowl[b].owner = "key" =>
            \E w \in Worker : wk[w].pc = "created" /\ wk[w].b = b

\* An element that was accepted is in the bowl that the inventory lists.
InBowl == \A e \in taken \ spent : Listed # 0 /\ Kind[e] \in Names(bowl[Listed].elements)

\* No block was refused.
Repaired == ~stranded => ~refused

SequentialInv ==
    /\ OneAtWork
    /\ \A w \in Worker : AloneOK(w)
    /\ ListedIsReady /\ KeyIsNew /\ InBowl /\ Repaired

CombinerIInv == PoolIInv /\ (~overlap => SequentialInv)
---------------------------------------------------------------------------
(* What a step changes. *)

\* Only this handler moves.
Only(w) == wk' \in [Worker -> Work] /\ \A v \in Worker : v # w => wk'[v] = wk[v]

\* The bowls keep their contents or get another block, and so does the inventory.
Extended ==
    /\ bowl' \in [Bowl -> Tree] /\ slot' \in Seq(Bowl \cup {0}) /\ Len(slot) <= Len(slot')
    /\ \A b \in Bowl :
          \/ bowl'[b].height > bowl[b].height
          \/ /\ bowl'[b].height = bowl[b].height /\ bowl'[b].name = bowl[b].name
             /\ bowl'[b].elements = bowl[b].elements /\ bowl'[b].used = bowl[b].used

\* The types, spelled out.
LEMMA Types ==
    ASSUME TypeOK
    PROVE  /\ slot \in Seq(Bowl \cup {0}) /\ Len(slot) \in Nat \ {0} /\ Listed \in Bowl \cup {0}
           /\ Len(slot) \in 1..Len(slot) /\ \A i \in 1..Len(slot) : slot[i] \in Bowl \cup {0}
           /\ bowl \in [Bowl -> Tree] /\ wk \in [Worker -> Work]
           /\ \A b \in Bowl : /\ bowl[b] \in Tree /\ bowl[b].height \in Nat
                              /\ bowl[b].elements \subseteq Element /\ bowl[b].used \subseteq Element
                              /\ bowl[b].owner \in {"none", "key", "court", "player"}
                              /\ bowl[b].name \in Name
           /\ \A w \in Worker : /\ wk[w] \in Work /\ wk[w].h \in Nat /\ wk[w].at \in Nat
                                /\ wk[w].pc \in {"idle"} \cup Receiving \cup Granting
                                /\ wk[w].b \in Bowl \cup {0} /\ wk[w].new \in Name
                                /\ wk[w].obj \in Element \cup Bowl \cup {None}
<1>1. /\ slot \in Seq(Bowl \cup {0}) /\ Len(slot) \in Nat \ {0} /\ Listed \in Bowl \cup {0}
      /\ Len(slot) \in 1..Len(slot) /\ \A i \in 1..Len(slot) : slot[i] \in Bowl \cup {0}
  BY DEF TypeOK, Listed
<1>2. bowl \in [Bowl -> Tree] /\ wk \in [Worker -> Work]
  BY DEF TypeOK
<1>3. ASSUME NEW b \in Bowl
      PROVE  /\ bowl[b] \in Tree /\ bowl[b].height \in Nat
             /\ bowl[b].elements \subseteq Element /\ bowl[b].used \subseteq Element
             /\ bowl[b].owner \in {"none", "key", "court", "player"} /\ bowl[b].name \in Name
  BY <1>2 DEF Tree
<1>4. ASSUME NEW w \in Worker
      PROVE  /\ wk[w] \in Work /\ wk[w].h \in Nat /\ wk[w].at \in Nat
             /\ wk[w].pc \in {"idle"} \cup Receiving \cup Granting
             /\ wk[w].b \in Bowl \cup {0} /\ wk[w].new \in Name
             /\ wk[w].obj \in Element \cup Bowl \cup {None}
  BY <1>2 DEF Work
<1> QED
  BY <1>1, <1>2, <1>3, <1>4

\* What a handler knows stays true when others extend the trees.
LEMMA HandleStays ==
    ASSUME PoolIInv, Extended, NEW v \in Worker, wk'[v] = wk[v]
    PROVE  HandleOK(v)'
<1>1. HandleOK(v) /\ TypeOK
  BY DEF PoolIInv
<1>2. /\ Len(slot) \in Nat /\ Len(slot') \in Nat /\ Len(slot) <= Len(slot')
      /\ wk[v].b \in Bowl \cup {0} /\ wk[v].at \in Nat /\ wk[v].h \in Nat
  BY <1>1, Types DEF Extended
<1>3. CASE wk[v].b \in Bowl
  <2>1. /\ bowl[wk[v].b].height \in Nat /\ bowl'[wk[v].b].height \in Nat
        /\ \/ bowl'[wk[v].b].height > bowl[wk[v].b].height
           \/ /\ bowl'[wk[v].b].height = bowl[wk[v].b].height
              /\ bowl'[wk[v].b].name = bowl[wk[v].b].name
              /\ bowl'[wk[v].b].elements = bowl[wk[v].b].elements
              /\ bowl'[wk[v].b].used = bowl[wk[v].b].used
    BY <1>1, <1>3, Types DEF Extended, Tree
  <2> QED
    BY <1>1, <1>2, <2>1 DEF HandleOK
<1>4. CASE wk[v].b = 0
  BY <1>1, <1>2, <1>4 DEF HandleOK, Bowl, Receiving, Granting
<1> QED
  BY <1>2, <1>3, <1>4

\* What is to be shown of a step of a handler.
LEMMA PoolStays ==
    ASSUME PoolIInv, NEW w \in Worker, Only(w), Extended,
           BagTyped', mail' \subseteq mail,
           waiting' \in BOOLEAN, overlap' \in BOOLEAN, stranded' \in BOOLEAN, refused' \in BOOLEAN,
           taken' \subseteq Element, spent' \subseteq Element, asks' = asks, faults' \in 0..MaxFaults,
           SlotOK', BowlOK', HandleOK(w)', RewardMatchesOffering'
    PROVE  PoolIInv'
<1>1. slot' # <<>>
  <2>1. Len(slot) \in Nat \ {0} /\ Len(slot') >= Len(slot)
    BY Types DEF PoolIInv, Extended
  <2>2. slot' = <<>> => Len(slot') = 0
    OBVIOUS
  <2> QED
    BY <2>1, <2>2
<1>2. TypeOK'
  <2>1. mail' \subseteq Message
    BY DEF PoolIInv, TypeOK
  <2>2. asks' \in 0..MaxAsks
    BY DEF PoolIInv, TypeOK
  <2> QED
    BY <1>1, <2>1, <2>2 DEF TypeOK, BagTyped, Only, Extended
<1>3. MailOK'
  BY DEF PoolIInv, MailOK
<1>4. ASSUME NEW v \in Worker PROVE HandleOK(v)'
  BY HandleStays DEF Only
<1> QED
  BY <1>2, <1>3, <1>4 DEF PoolIInv

\* A step that leaves the trees alone.
LEMMA TreesAlone ==
    ASSUME PoolIInv, UNCHANGED <<slot, bowl>>
    PROVE  Extended /\ SlotOK' /\ BowlOK' /\ RewardMatchesOffering'
<1>1. Extended
  BY Types DEF PoolIInv, Extended
<1>2. SlotOK' /\ BowlOK' /\ RewardMatchesOffering'
  BY DEF PoolIInv, SlotOK, BowlOK, RewardMatchesOffering
<1> QED
  BY <1>1, <1>2

\* A handler that is idle knows nothing.
LEMMA ReturnMoves ==
    ASSUME TypeOK, NEW w \in Worker, Return(w)
    PROVE  Only(w) /\ wk'[w] = Idle /\ wk'[w].pc = "idle" /\ HandleOK(w)'
<1>1. Idle \in Work /\ Idle.pc = "idle"
  <2>1. "" \in Name
    BY DEF Name
  <2>2. "idle" \in {"idle"} \cup Receiving \cup Granting
    OBVIOUS
  <2>3. Idle.pc = "idle"
    BY DEF Idle
  <2> QED
    BY <2>1, <2>2, <2>3 DEF Idle, Work
<1>2. wk \in [Worker -> Work] /\ wk' = [wk EXCEPT ![w] = Idle]
  BY DEF TypeOK, Return
<1>3. Only(w) /\ wk'[w] = Idle
  BY <1>1, <1>2 DEF Only
<1>4. HandleOK(w)'
  BY <1>1, <1>3 DEF HandleOK, Receiving, Granting
<1> QED
  BY <1>1, <1>3, <1>4

\* The state of a handler is replaced.
LEMMA Moves ==
    ASSUME TypeOK, NEW w \in Worker, NEW r \in Work, wk' = [wk EXCEPT ![w] = r]
    PROVE  Only(w) /\ wk'[w] = r
  BY DEF TypeOK, Only

\* A handler that goes on with the same bowl.
LEMMA NextMoves ==
    ASSUME TypeOK, NEW w \in Worker, NEW pc \in {"idle"} \cup Receiving \cup Granting,
           Goto(w, pc)
    PROVE  /\ Only(w) /\ wk'[w].pc = pc /\ wk'[w].b = wk[w].b /\ wk'[w].h = wk[w].h
           /\ wk'[w].new = wk[w].new /\ wk'[w].obj = wk[w].obj /\ wk'[w].at = wk[w].at
           /\ wk'[w].e = wk[w].e
<1> DEFINE r == [wk[w] EXCEPT !.pc = pc]
<1>1. wk[w] \in Work
  BY Types
<1>2. /\ r \in Work /\ r.pc = pc /\ r.b = wk[w].b /\ r.h = wk[w].h
      /\ r.new = wk[w].new /\ r.obj = wk[w].obj /\ r.at = wk[w].at /\ r.e = wk[w].e
  BY <1>1 DEF Work
<1>3. wk' = [wk EXCEPT ![w] = r]
  BY DEF Goto
<1> HIDE DEF r
<1>4. Only(w) /\ wk'[w] = r
  BY <1>2, <1>3, Moves
<1> QED
  BY <1>2, <1>4

\* A block on a bowl: the handler's handle moves with the tip.
LEMMA WriteMoves ==
    ASSUME PoolIInv, NEW w \in Worker, wk[w].b \in Bowl, MayWrite(w),
           NEW new \in Tree, NEW pc \in {"idle"} \cup Receiving \cup Granting,
           new.height = bowl[wk[w].b].height, Write(w, new, pc),
           new.elements \subseteq Valid, new.used \subseteq Valid, new.owner = "court",
           new.dressed => new.height >= 1, UNCHANGED slot
    PROVE  /\ Only(w) /\ wk'[w].pc = pc /\ wk'[w].b = wk[w].b /\ wk'[w].h = wk[w].h + 1
           /\ wk'[w].new = wk[w].new /\ wk'[w].obj = wk[w].obj /\ wk'[w].at = wk[w].at
           /\ wk'[w].e = wk[w].e /\ Extended /\ SlotOK' /\ BowlOK' /\ RewardMatchesOffering'
           /\ \A b \in Bowl : b # wk[w].b => bowl'[b] = bowl[b]
           /\ LET t == bowl'[wk[w].b]
              IN  /\ t.height = wk'[w].h /\ t.name = new.name /\ t.owner = "court"
                  /\ t.elements = new.elements /\ t.used = new.used /\ (t.dressed <=> new.dressed)
<1> DEFINE b == wk[w].b
           x == [new EXCEPT !.height = new.height + 1]
           r == [wk[w] EXCEPT !.pc = pc, !.h = wk[w].h + 1]
<1>1. /\ TypeOK /\ bowl \in [Bowl -> Tree] /\ wk \in [Worker -> Work] /\ wk[w] \in Work
      /\ wk[w].h \in Nat /\ wk[w].new \in Name /\ bowl[b].height = wk[w].h
      /\ bowl[b].owner = "court"
  BY Types DEF PoolIInv, MayWrite
<1>2. bowl' = [bowl EXCEPT ![b] = x] /\ wk' = [wk EXCEPT ![w].h = @ + 1, ![w].pc = pc]
  BY DEF Write
<1>3. x.dressed <=> new.dressed
  BY Zenon DEF Tree
<1>4. /\ x \in Tree /\ x.height = new.height + 1 /\ x.name = new.name /\ x.owner = new.owner
      /\ x.elements = new.elements /\ x.used = new.used
  BY <1>1 DEF Tree
<1> HIDE DEF x
<1>5. bowl' \in [Bowl -> Tree] /\ bowl'[b] = x /\ \A c \in Bowl : c # b => bowl'[c] = bowl[c]
  BY <1>1, <1>2, <1>4
<1>6. /\ r \in Work /\ r.pc = pc /\ r.b = wk[w].b /\ r.h = wk[w].h + 1
      /\ r.new = wk[w].new /\ r.obj = wk[w].obj /\ r.at = wk[w].at /\ r.e = wk[w].e
  <2>1. wk[w].h + 1 \in Nat /\ wk[w] \in Work
    BY <1>1
  <2>2. /\ r.pc = pc /\ r.b = wk[w].b /\ r.h = wk[w].h + 1
        /\ r.new = wk[w].new /\ r.obj = wk[w].obj /\ r.at = wk[w].at /\ r.e = wk[w].e
    BY <2>1 DEF Work
  <2>3. r \in Work
    BY <2>1 DEF Work
  <2> QED
    BY <2>2, <2>3
<1>6a. wk' = [wk EXCEPT ![w] = r]
  <2>1. wk'[w] = r
    BY <1>1, <1>2 DEF Work
  <2>2. \A v \in Worker : v # w => wk'[v] = wk[v]
    BY <1>1, <1>2
  <2> HIDE DEF r
  <2>3. wk' \in [Worker -> Work]
    BY <1>1, <1>2, <1>6, <2>1, <2>2
  <2> QED
    BY <1>1, <2>1, <2>2, <2>3
<1> HIDE DEF r
<1>7. Only(w) /\ wk'[w] = r
  BY <1>1, <1>6, <1>6a, Moves
<1>8. Extended
  BY <1>1, <1>4, <1>5, Types DEF Extended
<1>9. SlotOK'
  BY DEF PoolIInv, SlotOK
<1>10. BowlOK'
  BY <1>1, <1>3, <1>4, <1>5 DEF PoolIInv, BowlOK
<1>11. RewardMatchesOffering'
  BY <1>4, <1>5 DEF PoolIInv, RewardMatchesOffering
<1> QED
  BY <1>1, <1>3, <1>4, <1>5, <1>6, <1>7, <1>8, <1>9, <1>10, <1>11

\* The rest of the state of a step that only writes a bowl or moves the handler.
Rest == UNCHANGED <<drop, mail, waiting, asks, taken, spent, refused, unheard, ghosts>>

\* What a block on a bowl does to the handler and the bowls.
Wrote(w, new, pc) ==
    /\ Only(w) /\ wk'[w].pc = pc /\ wk'[w].b = wk[w].b /\ wk'[w].h = wk[w].h + 1
    /\ wk'[w].new = wk[w].new /\ wk'[w].obj = wk[w].obj /\ wk'[w].at = wk[w].at
    /\ wk'[w].e = wk[w].e /\ slot' = slot /\ Extended
    /\ \A b \in Bowl : b # wk[w].b => bowl'[b] = bowl[b]
    /\ LET t == bowl'[wk[w].b]
       IN  /\ t.height = wk'[w].h /\ t.name = new.name /\ t.owner = "court"
           /\ t.elements = new.elements /\ t.used = new.used /\ (t.dressed <=> new.dressed)

\* A handler that has a bowl has one that exists.
LEMMA HandleHasBowl ==
    ASSUME PoolIInv, NEW w \in Worker, wk[w].pc \in (Receiving \cup Granting) \ {"bowl", "read"}
    PROVE  /\ wk[w].b \in Bowl /\ wk[w].at \in 1..Len(slot) /\ wk[w].b <= wk[w].at
           /\ wk[w].h \in Nat /\ wk[w].h <= bowl[wk[w].b].height
           /\ wk[w].pc \in Granting => wk[w].b < wk[w].at
<1>1. TypeOK /\ HandleOK(w) /\ Len(slot) <= MaxTip
  BY DEF PoolIInv, SlotOK
<1>2. Len(slot) \in Nat /\ wk[w].at \in Nat /\ wk[w].h \in Nat /\ wk[w].pc # "idle"
  BY <1>1, Types DEF Receiving, Granting
<1>3. wk[w].at \in 1..Len(slot)
  BY <1>1, <1>2 DEF HandleOK
<1>4. CASE wk[w].pc \in Receiving \ {"bowl"}
  <2>1. wk[w].b \in 1..wk[w].at /\ wk[w].h \in 0..bowl[wk[w].b].height
    BY <1>1, <1>4 DEF HandleOK
  <2>2. wk[w].pc \notin Granting
    BY <1>4 DEF Receiving, Granting
  <2>3. wk[w].b \in Bowl /\ wk[w].b <= wk[w].at
    BY <1>1, <1>2, <1>3, <2>1, CombinerAssumption DEF Bowl
  <2>4. bowl[wk[w].b].height \in Nat
    BY <1>1, <2>3, Types
  <2> QED
    BY <1>2, <1>3, <2>1, <2>2, <2>3, <2>4
<1>5. CASE wk[w].pc \in Granting \ {"read"}
  <2>1. wk[w].b \in Bowl /\ wk[w].b < wk[w].at /\ wk[w].h \in 0..bowl[wk[w].b].height
    BY <1>1, <1>5 DEF HandleOK
  <2>2. bowl[wk[w].b].height \in Nat
    BY <1>1, <2>1, Types
  <2> QED
    BY <1>2, <1>3, <2>1, <2>2, CombinerAssumption DEF Bowl
<1> QED
  BY <1>4, <1>5

\* A block of handleReceiveElement on the bowl.
LEMMA ReceiveWrites ==
    ASSUME PoolIInv, NEW w \in Worker, wk[w].pc \in Receiving \ {"bowl"}, MayWrite(w),
           NEW new \in Tree, NEW pc \in Receiving \ {"bowl"},
           new.height = bowl[wk[w].b].height, Write(w, new, pc),
           new.elements \subseteq Valid, new.used \subseteq Valid, new.owner = "court",
           new.dressed => new.height >= 1, UNCHANGED slot, Rest
    PROVE  PoolIInv' /\ Wrote(w, new, pc)
<1>1. wk[w].b \in Bowl /\ wk[w].h \in Nat
  <2>1. wk[w].pc \in (Receiving \cup Granting) \ {"bowl", "read"}
    BY DEF Receiving
  <2> QED
    BY <2>1, HandleHasBowl
<1>2. pc \in {"idle"} \cup Receiving \cup Granting
  OBVIOUS
<1>3. /\ Wrote(w, new, pc)
      /\ Extended /\ SlotOK' /\ BowlOK' /\ RewardMatchesOffering'
  BY <1>1, <1>2, WriteMoves DEF Wrote
<1>4. wk[w].at \in 1..Len(slot) /\ wk[w].obj \in Valid /\ wk[w].b \in 1..wk[w].at
  BY DEF PoolIInv, HandleOK, Receiving
<1>5. HandleOK(w)'
  <2>1. /\ wk'[w].pc = pc /\ wk'[w].b = wk[w].b /\ wk'[w].h = wk[w].h + 1
        /\ wk'[w].obj = wk[w].obj /\ wk'[w].at = wk[w].at /\ slot' = slot
        /\ bowl'[wk[w].b].height = wk'[w].h
    BY <1>3 DEF Wrote
  <2>2. pc \notin Granting /\ pc # "idle" /\ wk[w].obj \in Element
    BY <1>4 DEF Receiving, Granting, Valid
  <2> QED
    BY <1>1, <1>4, <2>1, <2>2 DEF HandleOK
<1>6. Only(w)
  BY <1>3 DEF Wrote
<1>7. /\ BagTyped' /\ mail' \subseteq mail
      /\ taken' \subseteq Element /\ spent' \subseteq Element /\ asks' = asks /\ faults' \in 0..MaxFaults
  BY DEF Rest, drop, ghosts, PoolIInv, TypeOK, BagTyped
<1>8. waiting' \in BOOLEAN /\ overlap' \in BOOLEAN /\ stranded' \in BOOLEAN /\ refused' \in BOOLEAN
  BY DEF Rest, ghosts, PoolIInv, TypeOK
<1> QED
  BY <1>3, <1>5, <1>6, <1>7, <1>8, PoolStays

\* A block of handlePickupElement on the bowl before it is handed out.
LEMMA GrantWrites ==
    ASSUME PoolIInv, NEW w \in Worker, wk[w].pc \in {"wipe", "rename"}, MayWrite(w),
           NEW new \in Tree, NEW pc \in {"rename", "grant"},
           new.height = bowl[wk[w].b].height, Write(w, new, pc),
           new.elements \subseteq Valid, new.used \subseteq Valid, new.owner = "court",
           new.dressed => new.height >= 1, UNCHANGED slot, Rest,
           Rewarding(wk[w].new, new.used), pc = "grant" => new.name = wk[w].new
    PROVE  PoolIInv' /\ Wrote(w, new, pc)
<1>1. wk[w].b \in Bowl /\ wk[w].h \in Nat /\ wk[w].at \in 1..Len(slot) /\ wk[w].b < wk[w].at
  BY HandleHasBowl DEF Granting
<1>2. pc \in {"idle"} \cup Receiving \cup Granting
  BY DEF Granting
<1>3. /\ Wrote(w, new, pc)
      /\ Extended /\ SlotOK' /\ BowlOK' /\ RewardMatchesOffering'
  BY <1>1, <1>2, WriteMoves DEF Wrote
<1>4. wk[w].obj \in Bowl
  BY DEF PoolIInv, HandleOK, Granting
<1>5. HandleOK(w)'
  <2>1. /\ wk'[w].pc = pc /\ wk'[w].b = wk[w].b /\ wk'[w].h = wk[w].h + 1
        /\ wk'[w].obj = wk[w].obj /\ wk'[w].at = wk[w].at /\ slot' = slot
        /\ wk'[w].new = wk[w].new /\ bowl'[wk[w].b].height = wk'[w].h
        /\ bowl'[wk[w].b].used = new.used /\ bowl'[wk[w].b].name = new.name
    BY <1>3 DEF Wrote
  <2>2. pc \notin Receiving /\ pc # "idle"
    BY DEF Receiving
  <2> QED
    BY <1>1, <1>4, <2>1, <2>2 DEF HandleOK
<1>6. Only(w)
  BY <1>3 DEF Wrote
<1>7. /\ BagTyped' /\ mail' \subseteq mail
      /\ taken' \subseteq Element /\ spent' \subseteq Element /\ asks' = asks /\ faults' \in 0..MaxFaults
  BY DEF Rest, drop, ghosts, PoolIInv, TypeOK, BagTyped
<1>8. waiting' \in BOOLEAN /\ overlap' \in BOOLEAN /\ stranded' \in BOOLEAN /\ refused' \in BOOLEAN
  BY DEF Rest, ghosts, PoolIInv, TypeOK
<1> QED
  BY <1>3, <1>5, <1>6, <1>7, <1>8, PoolStays

---------------------------------------------------------------------------
(* The blocks of handleReceiveElement: what each makes of the bowl's contents. *)

ResetBowlMakes(new, t, e) ==
    /\ new.name = "" /\ new.elements = {} /\ new.used = {} /\ ~new.dressed
NameBowlMakes(new, t, e) ==
    /\ new.name = "bowl" /\ new.elements = t.elements /\ new.used = t.used /\ (new.dressed <=> t.dressed)
DressBowlMakes(new, t, e) ==
    /\ new.name = t.name /\ new.elements = t.elements /\ new.used = t.used
SetPlayerMakes(new, t, e) ==
    /\ new.name = t.name /\ new.elements = t.elements /\ new.used = t.used
PutElementMakes(new, t, e) ==
    /\ new.name = t.name /\ new.used = t.used
    /\ new.elements = {x \in t.elements : Kind[x] # Kind[e]} \cup {e}
DescribeBowlMakes(new, t, e) ==
    /\ new.name = t.name /\ new.elements = t.elements /\ new.used = t.used

\* A reset leaves nothing in the bowl.
LEMMA ResetStep ==
    ASSUME PoolIInv, NEW w \in Worker, ResetBowl(w)
    PROVE  /\ PoolIInv' /\ wk[w].b \in Bowl /\ MayWrite(w)
           /\ \E new \in Tree : Wrote(w, new, "name") /\ ResetBowlMakes(new, bowl[wk[w].b], wk[w].obj)
<1> DEFINE t == bowl[wk[w].b]
           new == [NoTree EXCEPT !.owner = "court", !.height = bowl[wk[w].b].height]
<1>1. wk[w].pc = "reset" /\ MayWrite(w) /\ Write(w, new, "name") /\ slot' = slot /\ Rest
  BY DEF ResetBowl, Rest
<1>2. wk[w].b \in Bowl /\ wk[w].h \in Nat
  <2>1. wk[w].pc \in (Receiving \cup Granting) \ {"bowl", "read"}
    BY <1>1 DEF Receiving
  <2> QED
    BY <2>1, HandleHasBowl
<1>3. /\ t \in Tree /\ t.height \in Nat /\ t.owner = "court" /\ t.height = wk[w].h
      /\ t.elements \subseteq Valid /\ t.used \subseteq Valid /\ wk[w].obj \in Valid
      /\ Valid \subseteq Element
  <2>1. TypeOK /\ BowlOK /\ HandleOK(w) /\ wk[w].pc \in Receiving \ {"bowl"}
    BY <1>1 DEF PoolIInv, Receiving
  <2>2. wk[w].obj \in Valid
    BY <2>1 DEF HandleOK
  <2> QED
    BY <1>1, <1>2, <2>1, <2>2, Types DEF MayWrite, BowlOK, Valid
<1>4. t.dressed => t.height >= 2
  BY <1>2, <1>3 DEF PoolIInv, BowlOK
<1>5. new.dressed <=> FALSE
  BY <1>3, Zenon DEF Tree, NoTree
<1>6. /\ new \in Tree /\ new.height = t.height /\ new.owner = "court"
      /\ new.name = "" /\ new.elements = {} /\ new.used = {}
  BY <1>3 DEF Tree, NoTree, Name
<1>7. ResetBowlMakes(new, t, wk[w].obj)
  BY <1>5, <1>6 DEF ResetBowlMakes
<1> HIDE DEF new
<1>8. new.elements \subseteq Valid /\ new.used \subseteq Valid
  BY <1>3, <1>6
<1>9. new.dressed => new.height >= 1
  BY <1>2, <1>3, <1>4, <1>5, <1>6
<1>10. "name" \in Receiving \ {"bowl"} /\ wk[w].pc \in Receiving \ {"bowl"}
  BY <1>1 DEF Receiving
<1> DEFINE q == "name"
<1>11. PoolIInv' /\ Wrote(w, new, q)
  <2>1. q \in Receiving \ {"bowl"} /\ Write(w, new, q)
    BY <1>1, <1>10
  <2> HIDE DEF q
  <2> QED
    BY <1>1, <1>6, <1>8, <1>9, <1>10, <2>1, ReceiveWrites
<1> QED
  BY <1>1, <1>2, <1>6, <1>7, <1>11

\* The bowl gets its name.
LEMMA NameStep ==
    ASSUME PoolIInv, NEW w \in Worker, NameBowl(w)
    PROVE  /\ PoolIInv' /\ wk[w].b \in Bowl /\ MayWrite(w)
           /\ \E new \in Tree : Wrote(w, new, "interactions") /\ NameBowlMakes(new, bowl[wk[w].b], wk[w].obj)
<1> DEFINE t == bowl[wk[w].b]
           new == [bowl[wk[w].b] EXCEPT !.name = "bowl"]
<1>1. wk[w].pc = "name" /\ MayWrite(w) /\ Write(w, new, "interactions") /\ slot' = slot /\ Rest
  BY DEF NameBowl, Rest
<1>2. wk[w].b \in Bowl /\ wk[w].h \in Nat
  <2>1. wk[w].pc \in (Receiving \cup Granting) \ {"bowl", "read"}
    BY <1>1 DEF Receiving
  <2> QED
    BY <2>1, HandleHasBowl
<1>3. /\ t \in Tree /\ t.height \in Nat /\ t.owner = "court" /\ t.height = wk[w].h
      /\ t.elements \subseteq Valid /\ t.used \subseteq Valid /\ wk[w].obj \in Valid
      /\ Valid \subseteq Element
  <2>1. TypeOK /\ BowlOK /\ HandleOK(w) /\ wk[w].pc \in Receiving \ {"bowl"}
    BY <1>1 DEF PoolIInv, Receiving
  <2>2. wk[w].obj \in Valid
    BY <2>1 DEF HandleOK
  <2> QED
    BY <1>1, <1>2, <2>1, <2>2, Types DEF MayWrite, BowlOK, Valid
<1>4. t.dressed => t.height >= 2
  BY <1>2, <1>3 DEF PoolIInv, BowlOK
<1>5. new.dressed <=> t.dressed
  BY <1>3, Zenon DEF Tree, NoTree
<1>6. /\ new \in Tree /\ new.height = t.height /\ new.owner = "court"
      /\ new.name = "bowl" /\ new.elements = t.elements /\ new.used = t.used
  BY <1>3 DEF Tree, NoTree, Name
<1>7. NameBowlMakes(new, t, wk[w].obj)
  BY <1>5, <1>6 DEF NameBowlMakes
<1> HIDE DEF new
<1>8. new.elements \subseteq Valid /\ new.used \subseteq Valid
  BY <1>3, <1>6
<1>9. new.dressed => new.height >= 1
  BY <1>2, <1>3, <1>4, <1>5, <1>6
<1>10. "interactions" \in Receiving \ {"bowl"} /\ wk[w].pc \in Receiving \ {"bowl"}
  BY <1>1 DEF Receiving
<1> DEFINE q == "interactions"
<1>11. PoolIInv' /\ Wrote(w, new, q)
  <2>1. q \in Receiving \ {"bowl"} /\ Write(w, new, q)
    BY <1>1, <1>10
  <2> HIDE DEF q
  <2> QED
    BY <1>1, <1>6, <1>8, <1>9, <1>10, <2>1, ReceiveWrites
<1> QED
  BY <1>1, <1>2, <1>6, <1>7, <1>11

\* The bowl gets its interactions.
LEMMA DressStep ==
    ASSUME PoolIInv, NEW w \in Worker, DressBowl(w)
    PROVE  /\ PoolIInv' /\ wk[w].b \in Bowl /\ MayWrite(w)
           /\ \E new \in Tree : Wrote(w, new, "player") /\ DressBowlMakes(new, bowl[wk[w].b], wk[w].obj)
<1> DEFINE t == bowl[wk[w].b]
           new == [bowl[wk[w].b] EXCEPT !.dressed = TRUE]
<1>1. wk[w].pc = "interactions" /\ MayWrite(w) /\ Write(w, new, "player") /\ slot' = slot /\ Rest
  BY DEF DressBowl, Rest
<1>2. wk[w].b \in Bowl /\ wk[w].h \in Nat
  <2>1. wk[w].pc \in (Receiving \cup Granting) \ {"bowl", "read"}
    BY <1>1 DEF Receiving
  <2> QED
    BY <2>1, HandleHasBowl
<1>3. /\ t \in Tree /\ t.height \in Nat /\ t.owner = "court" /\ t.height = wk[w].h
      /\ t.elements \subseteq Valid /\ t.used \subseteq Valid /\ wk[w].obj \in Valid
      /\ Valid \subseteq Element
  <2>1. TypeOK /\ BowlOK /\ HandleOK(w) /\ wk[w].pc \in Receiving \ {"bowl"}
    BY <1>1 DEF PoolIInv, Receiving
  <2>2. wk[w].obj \in Valid
    BY <2>1 DEF HandleOK
  <2> QED
    BY <1>1, <1>2, <2>1, <2>2, Types DEF MayWrite, BowlOK, Valid
<1>4. t.dressed => t.height >= 2
  BY <1>2, <1>3 DEF PoolIInv, BowlOK
<1>4a. t.height >= 1
  BY <1>1, <1>3 DEF PoolIInv, HandleOK
<1>5. new.dressed <=> TRUE
  BY <1>3, Zenon DEF Tree, NoTree
<1>6. /\ new \in Tree /\ new.height = t.height /\ new.owner = "court"
      /\ new.name = t.name /\ new.elements = t.elements /\ new.used = t.used
  BY <1>3 DEF Tree, NoTree, Name
<1>7. DressBowlMakes(new, t, wk[w].obj)
  BY <1>5, <1>6 DEF DressBowlMakes
<1> HIDE DEF new
<1>8. new.elements \subseteq Valid /\ new.used \subseteq Valid
  BY <1>3, <1>6
<1>9. new.dressed => new.height >= 1
  BY <1>2, <1>3, <1>4a, <1>6
<1>10. "player" \in Receiving \ {"bowl"} /\ wk[w].pc \in Receiving \ {"bowl"}
  BY <1>1 DEF Receiving
<1> DEFINE q == "player"
<1>11. PoolIInv' /\ Wrote(w, new, q)
  <2>1. q \in Receiving \ {"bowl"} /\ Write(w, new, q)
    BY <1>1, <1>10
  <2> HIDE DEF q
  <2> QED
    BY <1>1, <1>6, <1>8, <1>9, <1>10, <2>1, ReceiveWrites
<1> QED
  BY <1>1, <1>2, <1>6, <1>7, <1>11

\* The bowl learns whose it is.
LEMMA SetPlayerStep ==
    ASSUME PoolIInv, NEW w \in Worker, SetPlayer(w)
    PROVE  /\ PoolIInv' /\ wk[w].b \in Bowl /\ MayWrite(w)
           /\ \E new \in Tree : Wrote(w, new, "element") /\ SetPlayerMakes(new, bowl[wk[w].b], wk[w].obj)
<1> DEFINE t == bowl[wk[w].b]
           new == [bowl[wk[w].b] EXCEPT !.player = TRUE]
<1>1. wk[w].pc = "player" /\ MayWrite(w) /\ Write(w, new, "element") /\ slot' = slot /\ Rest
  BY DEF SetPlayer, Rest
<1>2. wk[w].b \in Bowl /\ wk[w].h \in Nat
  <2>1. wk[w].pc \in (Receiving \cup Granting) \ {"bowl", "read"}
    BY <1>1 DEF Receiving
  <2> QED
    BY <2>1, HandleHasBowl
<1>3. /\ t \in Tree /\ t.height \in Nat /\ t.owner = "court" /\ t.height = wk[w].h
      /\ t.elements \subseteq Valid /\ t.used \subseteq Valid /\ wk[w].obj \in Valid
      /\ Valid \subseteq Element
  <2>1. TypeOK /\ BowlOK /\ HandleOK(w) /\ wk[w].pc \in Receiving \ {"bowl"}
    BY <1>1 DEF PoolIInv, Receiving
  <2>2. wk[w].obj \in Valid
    BY <2>1 DEF HandleOK
  <2> QED
    BY <1>1, <1>2, <2>1, <2>2, Types DEF MayWrite, BowlOK, Valid
<1>4. t.dressed => t.height >= 2
  BY <1>2, <1>3 DEF PoolIInv, BowlOK
<1>5. new.dressed <=> t.dressed
  BY <1>3, Zenon DEF Tree, NoTree
<1>6. /\ new \in Tree /\ new.height = t.height /\ new.owner = "court"
      /\ new.name = t.name /\ new.elements = t.elements /\ new.used = t.used
  BY <1>3 DEF Tree, NoTree, Name
<1>7. SetPlayerMakes(new, t, wk[w].obj)
  BY <1>5, <1>6 DEF SetPlayerMakes
<1> HIDE DEF new
<1>8. new.elements \subseteq Valid /\ new.used \subseteq Valid
  BY <1>3, <1>6
<1>9. new.dressed => new.height >= 1
  BY <1>2, <1>3, <1>4, <1>5, <1>6
<1>10. "element" \in Receiving \ {"bowl"} /\ wk[w].pc \in Receiving \ {"bowl"}
  BY <1>1 DEF Receiving
<1> DEFINE q == "element"
<1>11. PoolIInv' /\ Wrote(w, new, q)
  <2>1. q \in Receiving \ {"bowl"} /\ Write(w, new, q)
    BY <1>1, <1>10
  <2> HIDE DEF q
  <2> QED
    BY <1>1, <1>6, <1>8, <1>9, <1>10, <2>1, ReceiveWrites
<1> QED
  BY <1>1, <1>2, <1>6, <1>7, <1>11

\* The element takes the place of one of its name.
LEMMA PutStep ==
    ASSUME PoolIInv, NEW w \in Worker, PutElement(w)
    PROVE  /\ PoolIInv' /\ wk[w].b \in Bowl /\ MayWrite(w)
           /\ \E new \in Tree : Wrote(w, new, "describe") /\ PutElementMakes(new, bowl[wk[w].b], wk[w].obj)
<1> DEFINE t == bowl[wk[w].b]
           new == [bowl[wk[w].b] EXCEPT !.elements = {x \in @ : Kind[x] # Kind[wk[w].obj]} \cup {wk[w].obj}]
<1>1. wk[w].pc = "element" /\ MayWrite(w) /\ Write(w, new, "describe") /\ slot' = slot /\ Rest
  BY DEF PutElement, Rest
<1>2. wk[w].b \in Bowl /\ wk[w].h \in Nat
  <2>1. wk[w].pc \in (Receiving \cup Granting) \ {"bowl", "read"}
    BY <1>1 DEF Receiving
  <2> QED
    BY <2>1, HandleHasBowl
<1>3. /\ t \in Tree /\ t.height \in Nat /\ t.owner = "court" /\ t.height = wk[w].h
      /\ t.elements \subseteq Valid /\ t.used \subseteq Valid /\ wk[w].obj \in Valid
      /\ Valid \subseteq Element
  <2>1. TypeOK /\ BowlOK /\ HandleOK(w) /\ wk[w].pc \in Receiving \ {"bowl"}
    BY <1>1 DEF PoolIInv, Receiving
  <2>2. wk[w].obj \in Valid
    BY <2>1 DEF HandleOK
  <2> QED
    BY <1>1, <1>2, <2>1, <2>2, Types DEF MayWrite, BowlOK, Valid
<1>4. t.dressed => t.height >= 2
  BY <1>2, <1>3 DEF PoolIInv, BowlOK
<1>5. new.dressed <=> t.dressed
  BY <1>3, Zenon DEF Tree, NoTree
<1>6. /\ new \in Tree /\ new.height = t.height /\ new.owner = "court"
      /\ new.name = t.name /\ new.used = t.used
      /\ new.elements = {x \in t.elements : Kind[x] # Kind[wk[w].obj]} \cup {wk[w].obj}
  BY <1>3 DEF Tree, NoTree, Name
<1>7. PutElementMakes(new, t, wk[w].obj)
  BY <1>5, <1>6 DEF PutElementMakes
<1> HIDE DEF new
<1>8. new.elements \subseteq Valid /\ new.used \subseteq Valid
  BY <1>3, <1>6
<1>9. new.dressed => new.height >= 1
  BY <1>2, <1>3, <1>4, <1>5, <1>6
<1>10. "describe" \in Receiving \ {"bowl"} /\ wk[w].pc \in Receiving \ {"bowl"}
  BY <1>1 DEF Receiving
<1> DEFINE q == "describe"
<1>11. PoolIInv' /\ Wrote(w, new, q)
  <2>1. q \in Receiving \ {"bowl"} /\ Write(w, new, q)
    BY <1>1, <1>10
  <2> HIDE DEF q
  <2> QED
    BY <1>1, <1>6, <1>8, <1>9, <1>10, <2>1, ReceiveWrites
<1> QED
  BY <1>1, <1>2, <1>6, <1>7, <1>11

\* The description is all that changes.
LEMMA DescribeStep ==
    ASSUME PoolIInv, NEW w \in Worker, DescribeBowl(w)
    PROVE  /\ PoolIInv' /\ wk[w].b \in Bowl /\ MayWrite(w)
           /\ \E new \in Tree : Wrote(w, new, "chown") /\ DescribeBowlMakes(new, bowl[wk[w].b], wk[w].obj)
<1> DEFINE t == bowl[wk[w].b]
           new == bowl[wk[w].b]
<1>1. wk[w].pc = "describe" /\ MayWrite(w) /\ Write(w, new, "chown") /\ slot' = slot /\ Rest
  BY DEF DescribeBowl, Rest
<1>2. wk[w].b \in Bowl /\ wk[w].h \in Nat
  <2>1. wk[w].pc \in (Receiving \cup Granting) \ {"bowl", "read"}
    BY <1>1 DEF Receiving
  <2> QED
    BY <2>1, HandleHasBowl
<1>3. /\ t \in Tree /\ t.height \in Nat /\ t.owner = "court" /\ t.height = wk[w].h
      /\ t.elements \subseteq Valid /\ t.used \subseteq Valid /\ wk[w].obj \in Valid
      /\ Valid \subseteq Element
  <2>1. TypeOK /\ BowlOK /\ HandleOK(w) /\ wk[w].pc \in Receiving \ {"bowl"}
    BY <1>1 DEF PoolIInv, Receiving
  <2>2. wk[w].obj \in Valid
    BY <2>1 DEF HandleOK
  <2> QED
    BY <1>1, <1>2, <2>1, <2>2, Types DEF MayWrite, BowlOK, Valid
<1>4. t.dressed => t.height >= 2
  BY <1>2, <1>3 DEF PoolIInv, BowlOK
<1>5. new.dressed <=> t.dressed
  BY <1>3, Zenon DEF Tree, NoTree
<1>6. /\ new \in Tree /\ new.height = t.height /\ new.owner = "court"
      /\ new.name = t.name /\ new.elements = t.elements /\ new.used = t.used
  BY <1>3 DEF Tree, NoTree, Name
<1>7. DescribeBowlMakes(new, t, wk[w].obj)
  BY <1>5, <1>6 DEF DescribeBowlMakes
<1> HIDE DEF new
<1>8. new.elements \subseteq Valid /\ new.used \subseteq Valid
  BY <1>3, <1>6
<1>9. new.dressed => new.height >= 1
  BY <1>2, <1>3, <1>4, <1>5, <1>6
<1>10. "chown" \in Receiving \ {"bowl"} /\ wk[w].pc \in Receiving \ {"bowl"}
  BY <1>1 DEF Receiving
<1> DEFINE q == "chown"
<1>11. PoolIInv' /\ Wrote(w, new, q)
  <2>1. q \in Receiving \ {"bowl"} /\ Write(w, new, q)
    BY <1>1, <1>10
  <2> HIDE DEF q
  <2> QED
    BY <1>1, <1>6, <1>8, <1>9, <1>10, <2>1, ReceiveWrites
<1> QED
  BY <1>1, <1>2, <1>6, <1>7, <1>11

---------------------------------------------------------------------------
(* The other steps keep the pool's part. *)

\* What is not a handler's step: the player's game and bag, and the network.
PlayerMoves ==
    \/ \E e \in Element : Drop(e)
    \/ DropConfirmed \/ DropLapses \/ SubmitOffering
    \/ \E m \in mail : LoseRequest(m)

\* The player's steps leave the handlers and the trees alone.
LEMMA PlayerStep ==
    ASSUME PoolIInv, PlayerMoves
    PROVE  PoolIInv' /\ UNCHANGED <<slot, bowl, wk, taken, spent, refused, ghosts>>
<1>1. UNCHANGED <<slot, bowl, wk, taken, spent, refused, ghosts>>
  BY DEF PlayerMoves, Drop, DropConfirmed, DropLapses, SubmitOffering, LoseRequest, drop
<1>2. TypeOK /\ MailOK /\ Listed \in Bowl \cup {0} /\ Len(slot) \in Nat
  BY Types DEF PoolIInv
<1>3. BagTyped' /\ mail' \subseteq Message /\ MailOK' /\ waiting' \in BOOLEAN /\ asks' \in 0..MaxAsks
  <2>1. ASSUME NEW e \in Element, Drop(e)
        PROVE  BagTyped' /\ mail' \subseteq Message /\ MailOK' /\ waiting' \in BOOLEAN /\ asks' \in 0..MaxAsks
    <3>1. /\ Own(e, "both") /\ dropping' = e /\ UNCHANGED <<lapsed, outrun, unheard, waiting, asks>>
          /\ mail' = mail \cup {[type |-> "transferred", obj |-> e, at |-> tip[e] + 1]}
      BY <2>1 DEF Drop, ghosts
    <3>2. BagTyped'
      BY <1>2, <3>1 DEF Own, TypeOK, BagTyped
    <3>3. tip[e] + 1 \in Nat
      BY <1>2 DEF TypeOK
    <3>4. mail' \subseteq Message /\ MailOK'
      BY <1>2, <3>1, <3>3 DEF TypeOK, MailOK, Message
    <3> QED
      BY <1>2, <3>1, <3>2, <3>4 DEF TypeOK
  <2>2. ASSUME DropConfirmed \/ DropLapses
        PROVE  BagTyped' /\ mail' \subseteq Message /\ MailOK' /\ waiting' \in BOOLEAN /\ asks' \in 0..MaxAsks
    <3>1. UNCHANGED <<mail, outrun, unheard, waiting, asks>>
      BY <2>2 DEF DropConfirmed, DropLapses, ghosts
    <3>2. BagTyped'
      <4>1. CASE DropConfirmed
        <5>1. UNCHANGED <<owner, tip, lapsed>> /\ dropping' = None
          BY <4>1 DEF DropConfirmed
        <5> QED
          BY <1>2, <3>1, <5>1 DEF TypeOK, BagTyped
      <4>2. CASE DropLapses
        <5>1. /\ Own(dropping, "player") /\ dropping' = None /\ dropping \in Element
              /\ lapsed' = [lapsed EXCEPT ![dropping] = @ + 1]
          BY <1>2, <4>2 DEF DropLapses, TypeOK
        <5>2. /\ owner' \in [Element -> {"player", "both", "court", "none"}]
              /\ tip' \in [Element -> Nat]
          BY <1>2, <5>1 DEF Own, TypeOK
        <5>3. lapsed' \in [Element -> Nat]
          BY <1>2, <5>1 DEF TypeOK
        <5> QED
          BY <1>2, <3>1, <5>1, <5>2, <5>3 DEF TypeOK, BagTyped
      <4> QED
        BY <2>2, <4>1, <4>2
    <3> QED
      BY <1>2, <3>1, <3>2 DEF TypeOK, MailOK
  <2>3. ASSUME SubmitOffering
        PROVE  BagTyped' /\ mail' \subseteq Message /\ MailOK' /\ waiting' \in BOOLEAN /\ asks' \in 0..MaxAsks
    <3>1. asks' \in 0..MaxAsks
      BY <1>2, <2>3, CombinerAssumption DEF SubmitOffering, TypeOK
    <3>2. mail' = mail \cup {[type |-> "request", obj |-> Listed, at |-> Len(slot)]} /\ Listed \in Bowl
      BY <1>2, <2>3 DEF SubmitOffering
    <3>3. waiting' = TRUE /\ UNCHANGED <<owner, tip, dropping, lapsed, outrun, unheard>>
      BY <2>3 DEF SubmitOffering, drop, ghosts
    <3>4. mail' \subseteq Message /\ MailOK'
      BY <1>2, <3>2 DEF TypeOK, MailOK, Message
    <3> QED
      BY <1>2, <3>1, <3>3, <3>4 DEF TypeOK, BagTyped
  <2>4. ASSUME NEW m \in mail, LoseRequest(m)
        PROVE  BagTyped' /\ mail' \subseteq Message /\ MailOK' /\ waiting' \in BOOLEAN /\ asks' \in 0..MaxAsks
    <3>1. mail' = mail \ {m} /\ unheard' = TRUE /\ UNCHANGED <<waiting, asks, owner, tip, dropping, lapsed, outrun>>
      BY <2>4 DEF LoseRequest, drop, ghosts
    <3> QED
      BY <1>2, <3>1 DEF TypeOK, MailOK, BagTyped
  <2> QED
    BY <2>1, <2>2, <2>3, <2>4 DEF PlayerMoves
<1>4. ASSUME NEW w \in Worker PROVE HandleOK(w)'
  BY <1>1 DEF PoolIInv, HandleOK
<1>5. SlotOK' /\ BowlOK' /\ RewardMatchesOffering'
  BY <1>1, TreesAlone DEF PoolIInv
<1>6. TypeOK'
  BY <1>1, <1>2, <1>3 DEF TypeOK, BagTyped, ghosts
<1> QED
  BY <1>1, <1>3, <1>4, <1>5, <1>6 DEF PoolIInv

\* The types a step keeps when it leaves these variables alone.
LEMMA RestKeeps ==
    ASSUME PoolIInv
    PROVE  /\ UNCHANGED <<drop, outrun>> /\ unheard' \in {TRUE, unheard} => BagTyped'
           /\ UNCHANGED mail => mail' \subseteq mail
           /\ UNCHANGED taken => taken' \subseteq Element
           /\ UNCHANGED spent => spent' \subseteq Element
           /\ UNCHANGED faults => faults' \in 0..MaxFaults
           /\ UNCHANGED waiting => waiting' \in BOOLEAN
           /\ UNCHANGED overlap => overlap' \in BOOLEAN
           /\ UNCHANGED stranded => stranded' \in BOOLEAN
           /\ UNCHANGED refused => refused' \in BOOLEAN
<1>1. UNCHANGED <<drop, outrun>> /\ unheard' \in {TRUE, unheard} => BagTyped'
  <2>1. unheard' \in {TRUE, unheard} => unheard' \in BOOLEAN
    BY Zenon DEF PoolIInv, TypeOK
  <2> QED
    BY <2>1 DEF PoolIInv, TypeOK, BagTyped, drop
<1> QED
  BY <1>1 DEF PoolIInv, TypeOK

\* A handler takes a message and reads the inventory.
LEMMA TakeStep ==
    ASSUME PoolIInv, NEW w \in Worker, NEW m \in mail, Take(w, m)
    PROVE  /\ PoolIInv' /\ Only(w) /\ wk[w].pc = "idle" /\ wk'[w].obj = m.obj
           /\ wk'[w].pc = (IF m.type = "request" THEN "read" ELSE "bowl") /\ wk'[w].at = Len(slot)
<1> DEFINE pc == IF m.type = "request" THEN "read" ELSE "bowl"
           r == [Idle EXCEPT !.pc = pc, !.obj = m.obj, !.at = Len(slot)]
<1>1. wk' = [wk EXCEPT ![w] = r] /\ wk[w].pc = "idle"
  BY DEF Take
<1>2. m.type \in {"transferred", "request"} /\ m.obj \in Element \cup Bowl
  BY DEF PoolIInv, TypeOK, Message
<1>3. /\ pc = "bowl" => m.obj \in Element
      /\ pc = "read" => m.obj \in Bowl
  BY <1>2 DEF PoolIInv, MailOK
<1>4. pc \in {"read", "bowl"}
  OBVIOUS
<1>5. TypeOK /\ Len(slot) \in Nat /\ Len(slot) \in 1..Len(slot)
  BY Types DEF PoolIInv
<1>6. /\ r \in Work /\ r.pc = pc /\ r.obj = m.obj /\ r.at = Len(slot) /\ r.h = 0
  <2>1. pc \in {"idle"} \cup Receiving \cup Granting
    BY <1>4 DEF Receiving, Granting
  <2> HIDE DEF pc
  <2>2. "" \in Name
    BY DEF Name
  <2> QED
    BY <1>2, <1>5, <2>1, <2>2 DEF Work, Idle
<1> HIDE DEF r, pc
<1>7. Only(w) /\ wk'[w] = r
  BY <1>1, <1>5, <1>6, Moves
<1>8. UNCHANGED <<slot, bowl, drop, waiting, asks, taken, spent, refused, stranded, outrun, unheard, faults>>
  BY DEF Take
<1>9. HandleOK(w)'
  BY <1>3, <1>4, <1>5, <1>6, <1>7, <1>8 DEF HandleOK, Receiving, Granting
<1>10. overlap' \in BOOLEAN /\ mail' \subseteq mail
  <2>1. overlap \in BOOLEAN
    BY DEF PoolIInv, TypeOK
  <2>2. overlap' = (overlap \/ \E v \in Worker : wk[v].pc # "idle")
    BY DEF Take
  <2> QED
    BY <2>1, <2>2 DEF Take
<1>11. PoolIInv'
  BY <1>7, <1>8, <1>9, <1>10, PoolStays, TreesAlone, RestKeeps
<1> QED
  BY <1>1, <1>6, <1>7, <1>11 DEF pc

\* The paths of handleReceiveElement that end it and change no tree.
LEMMA RejectStep ==
    ASSUME PoolIInv, NEW w \in Worker, RejectElement(w)
    PROVE  PoolIInv' /\ Only(w) /\ wk'[w].pc = "idle"
<1>1. TypeOK /\ Return(w)
  BY DEF PoolIInv, RejectElement
<1>2. UNCHANGED <<slot, bowl, mail, waiting, asks, taken, spent, refused, overlap, stranded, faults>>
  BY DEF RejectElement, ghosts
<1>3. wk[w].obj \in Element
  BY DEF RejectElement, PoolIInv, HandleOK, Receiving
<1>4. BagTyped'
  <2>1. UNCHANGED <<dropping, lapsed, outrun, unheard>>
    BY DEF RejectElement, ghosts
  <2>2. CASE Own(wk[w].obj, "none")
    BY <1>1, <1>3, <2>1, <2>2 DEF Own, TypeOK, BagTyped
  <2>3. CASE UNCHANGED <<owner, tip>>
    BY <1>1, <2>1, <2>3 DEF TypeOK, BagTyped
  <2>4. Own(wk[w].obj, "none") \/ UNCHANGED <<owner, tip>>
    BY DEF RejectElement
  <2> QED
    BY <2>2, <2>3, <2>4
<1> QED
  BY <1>1, <1>2, <1>4, ReturnMoves, PoolStays, TreesAlone, RestKeeps

\* The player's bag took the element back first.
LEMMA ElementRefusedStep ==
    ASSUME PoolIInv, NEW w \in Worker, ElementRefused(w)
    PROVE  /\ PoolIInv' /\ Only(w) /\ wk'[w].pc = "idle"
           /\ wk[w].pc \in {"bowl", "chown"} /\ wk[w].obj \in Element
<1>1. TypeOK /\ Return(w) /\ wk[w].pc \in {"bowl", "chown"}
  BY DEF PoolIInv, ElementRefused
<1>2. UNCHANGED <<slot, bowl, mail, waiting, asks, taken, spent, refused, overlap, stranded, faults>>
  BY DEF ElementRefused
<1>3. wk[w].obj \in Element
  BY <1>1 DEF PoolIInv, HandleOK, Receiving
<1>4. BagTyped'
  BY <1>1, <1>3 DEF ElementRefused, TypeOK, BagTyped, drop
<1> QED
  BY <1>1, <1>2, <1>3, <1>4, ReturnMoves, PoolStays, TreesAlone, RestKeeps

\* A block of handleReceiveElement is refused.
LEMMA ReceiveRefusedStep ==
    ASSUME PoolIInv, NEW w \in Worker, ReceiveRefused(w)
    PROVE  PoolIInv' /\ Only(w) /\ wk'[w].pc = "idle"
<1>1. TypeOK /\ Return(w) /\ refused' \in BOOLEAN
  BY DEF PoolIInv, ReceiveRefused
<1>2. UNCHANGED <<slot, bowl, drop, mail, waiting, asks, taken, spent, outrun, unheard, overlap, stranded, faults>>
  BY DEF ReceiveRefused, ghosts
<1> QED
  BY <1>1, <1>2, ReturnMoves, PoolStays, TreesAlone, RestKeeps

\* A block of handlePickupElement is refused.
LEMMA PickUpRefusedStep ==
    ASSUME PoolIInv, NEW w \in Worker, PickUpRefused(w)
    PROVE  PoolIInv' /\ Only(w) /\ wk'[w].pc = "idle"
<1>1. TypeOK /\ Return(w) /\ refused' \in BOOLEAN /\ waiting' \in BOOLEAN
  BY DEF PoolIInv, PickUpRefused, Answer, TypeOK
<1>2. /\ UNCHANGED <<slot, bowl, drop, mail, asks, taken, spent, outrun, overlap, stranded, faults>>
      /\ unheard' \in {TRUE, unheard}
  BY DEF PickUpRefused, Answer, ghosts
<1> QED
  BY <1>1, <1>2, ReturnMoves, PoolStays, TreesAlone, RestKeeps

\* A call to the network fails.
LEMMA FailStep ==
    ASSUME PoolIInv, NEW w \in Worker, CallFails(w)
    PROVE  PoolIInv' /\ Only(w) /\ wk'[w].pc = "idle" /\ faults' \in Nat \ {0}
<1>1. TypeOK /\ Return(w) /\ waiting' \in BOOLEAN
  BY DEF PoolIInv, CallFails, Answer, TypeOK
<1>2. /\ UNCHANGED <<slot, bowl, drop, mail, asks, taken, spent, refused, outrun, overlap>>
      /\ unheard' \in {TRUE, unheard}
  BY DEF CallFails, Answer
<1>3. faults' \in 0..MaxFaults /\ faults' \in Nat \ {0}
  BY <1>1, CombinerAssumption DEF CallFails, TypeOK
<1>4. stranded' \in BOOLEAN
  BY <1>1, Zenon DEF CallFails, TypeOK
<1> QED
  BY <1>1, <1>2, <1>3, <1>4, ReturnMoves, PoolStays, TreesAlone, RestKeeps

\* An element that may go into a bowl.
LEMMA Accepts ==
    ASSUME PoolIInv, NEW w \in Worker, wk[w].pc = "bowl", ValidElement(wk[w].obj)
    PROVE  /\ wk[w].obj \in Valid /\ wk[w].at \in 1..Len(slot) /\ wk[w].at \in Bowl /\ wk[w].h = 0
           /\ slot[wk[w].at] \in Bowl \cup {0}
           /\ slot[wk[w].at] # 0 => slot[wk[w].at] \in 1..(wk[w].at - 1)
<1>1. /\ wk[w].obj \in Element /\ wk[w].at \in 1..Len(slot) /\ wk[w].h = 0
  BY DEF PoolIInv, HandleOK, Receiving
<1>2. /\ Len(slot) \in Nat /\ Len(slot) <= MaxTip /\ \A i \in 1..Len(slot) : slot[i] \in Bowl \cup {0}
      /\ \A i \in 1..Len(slot) : slot[i] # 0 => slot[i] < i
  BY Types DEF PoolIInv, SlotOK
<1> QED
  BY <1>1, <1>2, CombinerAssumption DEF Valid, ValidElement, Bowl

\* The handler finds a bowl.
LEMMA FindStep ==
    ASSUME PoolIInv, NEW w \in Worker, FindBowl(w)
    PROVE  /\ PoolIInv' /\ Only(w) /\ wk'[w].obj = wk[w].obj /\ wk'[w].at = wk[w].at
           /\ wk'[w].e = tip[wk[w].obj] /\ wk'[w].b \in Bowl /\ wk'[w].h = bowl[wk'[w].b].height
           /\ wk[w].pc = "bowl" /\ bowl[wk'[w].b].owner # "none"
           /\ \/ slot[wk[w].at] # 0 /\ wk'[w].b = slot[wk[w].at] /\ wk'[w].pc = "element"
              \/ /\ slot[wk[w].at] = 0 /\ wk'[w].b = wk[w].at
                 /\ \/ bowl[wk'[w].b].height > 1 /\ wk'[w].pc = "reset"
                    \/ ~(bowl[wk'[w].b].height > 1) /\ wk'[w].pc = "name"
<1> DEFINE b == IF slot[wk[w].at] # 0 THEN slot[wk[w].at] ELSE wk[w].at
           next == IF slot[wk[w].at] # 0 THEN "element"
                   ELSE IF bowl[b].height > 1 THEN "reset" ELSE "name"
           r == [wk[w] EXCEPT !.e = tip[wk[w].obj], !.b = b, !.h = bowl[b].height, !.pc = next]
<1>1. /\ wk[w].pc = "bowl" /\ ValidElement(wk[w].obj) /\ bowl[b].owner # "none"
      /\ wk' = [wk EXCEPT ![w].e = tip[wk[w].obj], ![w].b = b, ![w].h = bowl[b].height, ![w].pc = next]
      /\ UNCHANGED <<slot, bowl, drop, mail, waiting, won, asks, taken, spent, refused, unheard, ghosts>>
  BY DEF FindBowl
<1>2. /\ b \in Bowl /\ b \in 1..wk[w].at /\ wk[w].obj \in Valid /\ wk[w].at \in 1..Len(slot)
  <2>1. /\ wk[w].obj \in Valid /\ wk[w].at \in 1..Len(slot) /\ wk[w].at \in Bowl
        /\ slot[wk[w].at] # 0 => slot[wk[w].at] \in 1..(wk[w].at - 1)
        /\ slot[wk[w].at] \in Bowl \cup {0}
    BY <1>1, Accepts
  <2>2. wk[w].at \in Nat
    BY Types DEF PoolIInv
  <2> QED
    BY <2>1, <2>2
<1>3. wk[w] \in Work /\ bowl[b].height \in Nat /\ TypeOK /\ tip[wk[w].obj] \in Nat
  BY <1>2, Types DEF PoolIInv, TypeOK, Valid
<1>4. next \in {"element", "reset", "name"}
  OBVIOUS
<1>5. /\ slot[wk[w].at] # 0 => next = "element" /\ b = slot[wk[w].at]
      /\ slot[wk[w].at] = 0 => b = wk[w].at
      /\ slot[wk[w].at] = 0 /\ bowl[b].height > 1 => next = "reset"
      /\ slot[wk[w].at] = 0 /\ ~(bowl[b].height > 1) => next = "name"
  OBVIOUS
<1>6. wk' = [wk EXCEPT ![w] = r]
  BY <1>1, <1>3 DEF TypeOK, Work
<1> HIDE DEF next, b
<1>7. /\ r \in Work /\ r.pc = next /\ r.b = b /\ r.h = bowl[b].height
      /\ r.obj = wk[w].obj /\ r.at = wk[w].at /\ r.e = tip[wk[w].obj]
  BY <1>2, <1>3, <1>4 DEF Work, Receiving
<1> HIDE DEF r
<1>8. Only(w) /\ wk'[w] = r
  BY <1>3, <1>6, <1>7, Moves
<1>9. HandleOK(w)'
  <2>1. slot' = slot /\ bowl' = bowl
    BY <1>1
  <2>2. next \notin Granting /\ next \notin {"idle", "bowl", "interactions"} /\ wk[w].obj \in Element
    BY <1>2, <1>4 DEF Granting, Valid
  <2> QED
    BY <1>2, <1>3, <1>7, <1>8, <2>1, <2>2 DEF HandleOK
<1>10. PoolIInv'
  BY <1>1, <1>8, <1>9, PoolStays, TreesAlone, RestKeeps DEF ghosts
<1> QED
  BY <1>1, <1>2, <1>5, <1>7, <1>8, <1>10

\* The owner of a bowl changes before its first block.
LEMMA OwnerStep ==
    ASSUME PoolIInv, NEW b \in Bowl, NEW o \in {"key", "court"}, bowl' = [bowl EXCEPT ![b].owner = o],
           bowl[b].owner \in {"none", "key"}, slot' = slot
    PROVE  /\ Extended /\ SlotOK' /\ BowlOK' /\ RewardMatchesOffering'
           /\ bowl'[b].owner = o /\ bowl'[b].height = 0 /\ bowl[b].height = 0
           /\ bowl'[b].name = bowl[b].name /\ bowl'[b].elements = bowl[b].elements
           /\ bowl'[b].used = bowl[b].used /\ (bowl'[b].dressed <=> bowl[b].dressed)
           /\ \A c \in Bowl : c # b => bowl'[c] = bowl[c]
<1> DEFINE x == [bowl[b] EXCEPT !.owner = o]
<1>1. /\ bowl \in [Bowl -> Tree] /\ bowl[b] \in Tree /\ bowl[b].height \in Nat /\ bowl[b].height = 0
  BY Types DEF PoolIInv, BowlOK
<1>2. bowl' = [bowl EXCEPT ![b] = x]
  BY <1>1
<1>3. x.dressed <=> bowl[b].dressed
  BY <1>1, Zenon DEF Tree
<1>4. /\ x \in Tree /\ x.owner = o /\ x.height = bowl[b].height /\ x.name = bowl[b].name
      /\ x.elements = bowl[b].elements /\ x.used = bowl[b].used
  BY <1>1 DEF Tree
<1> HIDE DEF x
<1>5. bowl' \in [Bowl -> Tree] /\ bowl'[b] = x /\ \A c \in Bowl : c # b => bowl'[c] = bowl[c]
  BY <1>1, <1>2, <1>4
<1>6. Extended
  BY <1>1, <1>4, <1>5, Types DEF Extended, PoolIInv
<1>7. SlotOK'
  BY DEF PoolIInv, SlotOK
<1>8. BowlOK' /\ RewardMatchesOffering'
  BY <1>1, <1>3, <1>4, <1>5 DEF PoolIInv, BowlOK, RewardMatchesOffering
<1> QED
  BY <1>1, <1>3, <1>4, <1>5, <1>6, <1>7, <1>8

\* The handler creates the bowl.
LEMMA CreateStep ==
    ASSUME PoolIInv, NEW w \in Worker, CreateBowl(w)
    PROVE  /\ PoolIInv' /\ Only(w) /\ wk'[w].obj = wk[w].obj /\ wk'[w].at = wk[w].at
           /\ wk'[w].e = tip[wk[w].obj] /\ wk'[w].b = wk[w].at /\ wk'[w].h = 0 /\ wk'[w].pc = "created" /\ wk[w].pc = "bowl"
           /\ wk[w].at \in Bowl /\ slot[wk[w].at] = 0 /\ bowl'[wk[w].at].owner = "key"
           /\ bowl[wk[w].at].owner = "none" /\ \A c \in Bowl : c # wk[w].at => bowl'[c] = bowl[c]
           /\ \A c \in Bowl : bowl'[c].elements = bowl[c].elements /\ bowl'[c].used = bowl[c].used
<1> DEFINE b == wk[w].at
           r == [wk[w] EXCEPT !.e = tip[wk[w].obj], !.b = b, !.pc = "created"]
<1>1. /\ wk[w].pc = "bowl" /\ ValidElement(wk[w].obj) /\ bowl[b].owner = "none" /\ slot[b] = 0
      /\ bowl' = [bowl EXCEPT ![b].owner = "key"]
      /\ wk' = [wk EXCEPT ![w].e = tip[wk[w].obj], ![w].b = b, ![w].pc = "created"]
      /\ UNCHANGED <<slot, drop, mail, waiting, won, asks, taken, spent, refused, unheard, ghosts>>
  BY DEF CreateBowl
<1>2. b \in Bowl /\ wk[w].obj \in Valid /\ b \in 1..Len(slot) /\ wk[w].h = 0
  BY <1>1, Accepts
<1>3. wk[w] \in Work /\ TypeOK /\ tip[wk[w].obj] \in Nat
  BY <1>2, Types DEF PoolIInv, TypeOK, Valid
<1>4. wk' = [wk EXCEPT ![w] = r]
  BY <1>1, <1>3 DEF TypeOK, Work
<1>5. /\ r \in Work /\ r.pc = "created" /\ r.b = b /\ r.h = 0
      /\ r.obj = wk[w].obj /\ r.at = wk[w].at /\ r.e = tip[wk[w].obj]
  BY <1>2, <1>3 DEF Work, Receiving
<1> HIDE DEF r
<1>6. Only(w) /\ wk'[w] = r
  BY <1>3, <1>4, <1>5, Moves
<1>7. /\ Extended /\ SlotOK' /\ BowlOK' /\ RewardMatchesOffering'
      /\ bowl'[b].owner = "key" /\ bowl'[b].height = 0
      /\ bowl'[b].elements = bowl[b].elements /\ bowl'[b].used = bowl[b].used
      /\ \A c \in Bowl : c # b => bowl'[c] = bowl[c]
  BY <1>1, <1>2, OwnerStep
<1>8. HandleOK(w)'
  <2>1. /\ r.obj \in Valid /\ r.obj \in Element /\ r.at \in 1..Len(slot') /\ r.b \in 1..r.at
        /\ r.h \in 0..bowl'[r.b].height
    BY <1>1, <1>2, <1>5, <1>7 DEF Valid
  <2>2. r.pc \in Receiving /\ r.pc \notin Granting /\ r.pc # "interactions" /\ r.pc # "bowl"
    BY <1>5 DEF Receiving, Granting
  <2> QED
    BY <1>6, <2>1, <2>2 DEF HandleOK
<1>9. PoolIInv'
  BY <1>1, <1>6, <1>7, <1>8, PoolStays, RestKeeps DEF ghosts
<1> QED
  BY <1>1, <1>2, <1>5, <1>6, <1>7, <1>9

\* The bowl becomes the court's.
LEMMA ChownBowlStep ==
    ASSUME PoolIInv, NEW w \in Worker, ChownBowl(w)
    PROVE  /\ PoolIInv' /\ Only(w) /\ wk[w].b \in Bowl /\ wk[w].pc = "created" /\ wk'[w].pc = "name"
           /\ wk'[w].b = wk[w].b /\ wk'[w].h = wk[w].h /\ wk'[w].e = wk[w].e
           /\ wk'[w].obj = wk[w].obj /\ wk'[w].at = wk[w].at
           /\ bowl'[wk[w].b].owner = "court" /\ bowl'[wk[w].b].height = 0
           /\ (bowl'[wk[w].b].dressed <=> bowl[wk[w].b].dressed) /\ bowl[wk[w].b].height = 0
           /\ \A c \in Bowl : c # wk[w].b => bowl'[c] = bowl[c]
           /\ \A c \in Bowl : bowl'[c].elements = bowl[c].elements /\ bowl'[c].used = bowl[c].used
           /\ \A c \in Bowl : bowl'[c].name = bowl[c].name
<1> DEFINE b == wk[w].b
           q == "name"
<1>1. /\ wk[w].pc = "created" /\ bowl[b].owner = "key"
      /\ bowl' = [bowl EXCEPT ![b].owner = "court"] /\ Goto(w, q)
      /\ UNCHANGED <<slot, drop, mail, waiting, won, asks, taken, spent, refused, unheard, ghosts>>
  BY DEF ChownBowl
<1>2. b \in Bowl
  <2>1. wk[w].pc \in (Receiving \cup Granting) \ {"bowl", "read"}
    BY <1>1 DEF Receiving
  <2> QED
    BY <2>1, HandleHasBowl
<1>3. TypeOK /\ HandleOK(w)
  BY DEF PoolIInv
<1>4. /\ Only(w) /\ wk'[w].pc = q /\ wk'[w].b = wk[w].b /\ wk'[w].h = wk[w].h
      /\ wk'[w].obj = wk[w].obj /\ wk'[w].at = wk[w].at /\ wk'[w].e = wk[w].e
  <2>1. q \in {"idle"} \cup Receiving \cup Granting
    BY DEF Receiving
  <2> HIDE DEF q
  <2> QED
    BY <1>1, <1>3, <2>1, NextMoves
<1>5. /\ Extended /\ SlotOK' /\ BowlOK' /\ RewardMatchesOffering'
      /\ bowl'[b].owner = "court" /\ bowl'[b].height = 0 /\ bowl[b].height = 0
      /\ bowl'[b].name = bowl[b].name /\ bowl'[b].elements = bowl[b].elements
      /\ bowl'[b].used = bowl[b].used /\ (bowl'[b].dressed <=> bowl[b].dressed)
      /\ \A c \in Bowl : c # b => bowl'[c] = bowl[c]
  BY <1>1, <1>2, OwnerStep
<1>6. HandleOK(w)'
  <2>1. /\ wk[w].at \in 1..Len(slot) /\ wk[w].obj \in Valid /\ wk[w].b \in 1..wk[w].at
        /\ wk[w].h \in 0..bowl[b].height
    BY <1>1, <1>3 DEF HandleOK, Receiving
  <2> QED
    BY <1>1, <1>4, <1>5, <2>1 DEF HandleOK, Receiving, Granting, Valid
<1>7. PoolIInv'
  BY <1>1, <1>4, <1>5, <1>6, PoolStays, RestKeeps DEF ghosts
<1> QED
  BY <1>1, <1>2, <1>4, <1>5, <1>7

\* The element becomes the court's alone.
LEMMA ChownElementStep ==
    ASSUME PoolIInv, NEW w \in Worker, ChownElement(w)
    PROVE  /\ PoolIInv' /\ Only(w) /\ wk[w].pc = "chown" /\ wk'[w].pc = "add"
           /\ wk'[w].b = wk[w].b /\ wk'[w].h = wk[w].h /\ wk[w].obj \in Element /\ wk'[w].e = wk[w].e
           /\ wk'[w].obj = wk[w].obj /\ wk'[w].at = wk[w].at
<1> DEFINE q == "add"
<1>1. /\ wk[w].pc = "chown" /\ Goto(w, q) /\ Own(wk[w].obj, "court")
      /\ UNCHANGED <<slot, bowl, dropping, lapsed, mail, waiting, won, asks, taken, spent, refused, unheard, ghosts>>
  BY DEF ChownElement
<1>2. TypeOK /\ HandleOK(w)
  BY DEF PoolIInv
<1>3. /\ Only(w) /\ wk'[w].pc = q /\ wk'[w].b = wk[w].b /\ wk'[w].h = wk[w].h
      /\ wk'[w].obj = wk[w].obj /\ wk'[w].at = wk[w].at /\ wk'[w].e = wk[w].e
  <2>1. q \in {"idle"} \cup Receiving \cup Granting
    BY DEF Receiving
  <2> HIDE DEF q
  <2> QED
    BY <1>1, <1>2, <2>1, NextMoves
<1>4. wk[w].obj \in Element /\ HandleOK(w)'
  BY <1>1, <1>2, <1>3 DEF HandleOK, Receiving, Granting
<1>5. BagTyped'
  BY <1>1, <1>2, <1>4 DEF Own, TypeOK, BagTyped, ghosts
<1>6. PoolIInv'
  BY <1>1, <1>3, <1>4, <1>5, PoolStays, TreesAlone, RestKeeps DEF ghosts
<1> QED
  BY <1>1, <1>3, <1>4, <1>6

\* The inventory gets another block.
LEMMA InventoryGrows ==
    ASSUME PoolIInv, NEW b \in Bowl \cup {0}, b <= Len(slot), Len(slot) < MaxTip,
           slot' = Append(slot, b), bowl' = bowl
    PROVE  /\ Extended /\ SlotOK' /\ BowlOK' /\ RewardMatchesOffering'
           /\ Len(slot') = Len(slot) + 1 /\ Listed' = b
<1>1. /\ slot \in Seq(Bowl \cup {0}) /\ Len(slot) \in Nat /\ bowl \in [Bowl -> Tree]
      /\ \A c \in Bowl : bowl[c].height \in Nat
  BY Types DEF PoolIInv
<1>2. /\ slot' \in Seq(Bowl \cup {0}) /\ Len(slot') = Len(slot) + 1
      /\ \A i \in 1..Len(slot) : slot'[i] = slot[i]
      /\ slot'[Len(slot) + 1] = b
  BY <1>1
<1>3. Extended
  BY <1>1, <1>2 DEF Extended
<1>4. SlotOK'
  BY <1>1, <1>2, CombinerAssumption DEF PoolIInv, SlotOK, Bowl
<1>5. BowlOK' /\ RewardMatchesOffering'
  BY <1>1, <1>2 DEF PoolIInv, BowlOK, RewardMatchesOffering, Bowl
<1> QED
  BY <1>2, <1>3, <1>4, <1>5 DEF Listed

\* The bowl is listed in the inventory.
LEMMA AddStep ==
    ASSUME PoolIInv, NEW w \in Worker, ForceAddBowl(w)
    PROVE  /\ PoolIInv' /\ Only(w) /\ wk'[w].pc = "idle"
           /\ wk[w].b \in Bowl /\ Listed' = wk[w].b /\ wk[w].obj \in Element
<1>1. /\ wk[w].pc = "add" /\ MayAdd(w) /\ Bounded /\ Return(w)
      /\ slot' = Append(slot, wk[w].b) /\ taken' = taken \cup {wk[w].obj}
      /\ UNCHANGED <<bowl, drop, mail, waiting, won, asks, spent, refused, unheard, ghosts>>
  BY DEF ForceAddBowl
<1>2. wk[w].b \in Bowl /\ wk[w].b <= wk[w].at /\ wk[w].at \in 1..Len(slot)
  <2>1. wk[w].pc \in (Receiving \cup Granting) \ {"bowl", "read"}
    BY <1>1 DEF Receiving
  <2> QED
    BY <2>1, HandleHasBowl
<1>3. wk[w].obj \in Element
  BY <1>1 DEF PoolIInv, HandleOK, Receiving
<1>4. Len(slot) \in Nat /\ wk[w].at \in Nat /\ TypeOK
  BY Types DEF PoolIInv
<1>5. /\ Extended /\ SlotOK' /\ BowlOK' /\ RewardMatchesOffering' /\ Listed' = wk[w].b
  <2>1. wk[w].b \in Bowl \cup {0} /\ wk[w].b <= Len(slot) /\ Len(slot) < MaxTip
    BY <1>1, <1>2, <1>4 DEF Bounded, MayAdd
  <2> QED
    BY <1>1, <2>1, InventoryGrows
<1>6. taken' \subseteq Element
  BY <1>1, <1>3, <1>4 DEF TypeOK
<1>7. Only(w) /\ wk'[w].pc = "idle" /\ HandleOK(w)'
  BY <1>1, <1>4, ReturnMoves
<1>8. PoolIInv'
  BY <1>1, <1>5, <1>6, <1>7, PoolStays, RestKeeps DEF ghosts
<1> QED
  BY <1>2, <1>3, <1>5, <1>7, <1>8

---------------------------------------------------------------------------
(* The statements of handlePickupElement. *)

\* The name of what a bowl makes is a name.
LEMMA MakesName ==
    ASSUME NEW S, S \subseteq Valid
    PROVE  Combine[Names(S)] \in Name
<1>1. Names(S) \in SUBSET Configured
  BY DEF Names, Valid
<1>2. Combine[Names(S)] \in Configured \cup {"nothing", "blocked"}
  BY <1>1, CombinerAssumption
<1> QED
  BY <1>2 DEF Name

\* The handler answers, or it goes on with a bowl that makes something or nothing.
LEMMA ChecksStep ==
    ASSUME PoolIInv, NEW w \in Worker, PickUpChecks(w)
    PROVE  /\ PoolIInv' /\ Only(w) /\ wk[w].pc = "read"
           /\ \/ wk'[w].pc = "idle"
              \/ /\ wk'[w].pc \in {"refuse", "remove"} /\ wk'[w].at = wk[w].at
                 /\ wk'[w].b \in Bowl /\ slot[wk[w].at] = wk'[w].b
                 /\ wk'[w].h = bowl[wk'[w].b].height
<1> DEFINE b == wk[w].obj
           new == Combine[Names(bowl[b].elements)]
           q == IF new \in {"nothing", "blocked"} THEN "refuse" ELSE "remove"
           r == [wk[w] EXCEPT !.pc = q, !.b = b, !.h = bowl[b].height, !.new = new]
<1>1. /\ wk[w].pc = "read"
      /\ UNCHANGED <<slot, bowl, drop, mail, won, asks, taken, spent, refused, ghosts>>
      /\ \/ Answer(w)
         \/ /\ Combinable(w) /\ waiting' = waiting /\ unheard' = unheard
            /\ wk' = [wk EXCEPT ![w].pc = q, ![w].b = b, ![w].h = bowl[b].height, ![w].new = new]
  BY DEF PickUpChecks
<1>2. TypeOK
  BY DEF PoolIInv
<1>3. CASE Answer(w)
  <2>1. Return(w) /\ waiting' \in BOOLEAN /\ unheard' \in {TRUE, unheard}
    BY <1>2, <1>3 DEF Answer, TypeOK
  <2> QED
    BY <1>1, <1>2, <2>1, ReturnMoves, PoolStays, TreesAlone, RestKeeps DEF ghosts
<1>4. CASE /\ Combinable(w) /\ waiting' = waiting /\ unheard' = unheard
           /\ wk' = [wk EXCEPT ![w].pc = q, ![w].b = b, ![w].h = bowl[b].height, ![w].new = new]
  <2>1. b \in Bowl /\ wk[w].at \in 1..Len(slot)
    BY <1>1 DEF PoolIInv, HandleOK, Granting
  <2>2. slot[wk[w].at] = b /\ Cardinality(bowl[b].elements) >= MinRequired
    BY <1>4 DEF Combinable
  <2>3. b < wk[w].at
    BY <2>1, <2>2 DEF PoolIInv, SlotOK, Bowl
  <2>4. /\ wk[w] \in Work /\ bowl[b].height \in Nat /\ bowl[b].elements \subseteq Valid
    BY <2>1, Types DEF PoolIInv, BowlOK
  <2>5. new \in Name /\ Rewarding(new, bowl[b].elements)
    BY <2>2, <2>4, MakesName DEF Rewarding
  <2>6. q \in {"refuse", "remove"}
    OBVIOUS
  <2>7. wk' = [wk EXCEPT ![w] = r]
    BY <1>2, <1>4, <2>4 DEF TypeOK, Work
  <2> HIDE DEF q, new, b
  <2>8. /\ r \in Work /\ r.pc = q /\ r.b = b /\ r.h = bowl[b].height /\ r.new = new
        /\ r.obj = wk[w].obj /\ r.at = wk[w].at
    BY <2>1, <2>4, <2>5, <2>6 DEF Work, Granting
  <2> HIDE DEF r
  <2>9. Only(w) /\ wk'[w] = r
    BY <1>2, <2>7, <2>8, Moves
  <2>10. HandleOK(w)'
    <3>1. wk[w].obj \in Bowl
      BY <2>1 DEF b
    <3>2. q \notin Receiving /\ q \notin {"idle", "bowl", "interactions", "rename", "grant"}
      BY <2>6 DEF Receiving
    <3> QED
      BY <1>1, <2>1, <2>3, <2>4, <2>5, <2>8, <2>9, <3>1, <3>2 DEF HandleOK
  <2>11. PoolIInv'
    BY <1>1, <1>4, <2>9, <2>10, PoolStays, TreesAlone, RestKeeps DEF ghosts
  <2> QED
    BY <1>1, <2>1, <2>2, <2>6, <2>8, <2>9, <2>11
<1> QED
  BY <1>1, <1>3, <1>4

\* The bowl leaves the inventory, or not.
LEMMA ForfeitStep ==
    ASSUME PoolIInv, NEW w \in Worker, ForfeitBowl(w)
    PROVE  PoolIInv' /\ Only(w) /\ wk'[w].pc = "idle"
<1>1. /\ wk[w].pc = "refuse" /\ Len(slot) < MaxTip /\ Return(w) /\ waiting' \in {FALSE, waiting}
      /\ unheard' \in {TRUE, unheard}
      /\ \/ RemoveBowl(w)
         \/ UNCHANGED <<slot, spent>>
      /\ UNCHANGED <<bowl, drop, mail, won, asks, taken, refused, ghosts>>
  BY DEF ForfeitBowl, Answer, Bounded
<1>2. TypeOK /\ Len(slot) \in Nat /\ waiting' \in BOOLEAN
  BY <1>1, Types DEF PoolIInv, TypeOK
<1>3. Extended /\ SlotOK' /\ BowlOK' /\ RewardMatchesOffering' /\ spent' \subseteq Element
  <2>1. CASE RemoveBowl(w)
    <3>1. slot' = Append(slot, 0) /\ spent' = spent \cup taken /\ 0 <= Len(slot) /\ 0 \in Bowl \cup {0}
      BY <1>2, <2>1 DEF RemoveBowl
    <3>2. Extended /\ SlotOK' /\ BowlOK' /\ RewardMatchesOffering'
      BY <1>1, <3>1, InventoryGrows
    <3> QED
      BY <1>2, <3>1, <3>2 DEF TypeOK
  <2>2. CASE UNCHANGED <<slot, spent>>
    BY <1>1, <2>2, TreesAlone, RestKeeps
  <2> QED
    BY <1>1, <2>1, <2>2
<1>4. Only(w) /\ wk'[w].pc = "idle" /\ HandleOK(w)'
  BY <1>1, <1>2, ReturnMoves
<1> QED
  BY <1>1, <1>2, <1>3, <1>4, PoolStays, RestKeeps DEF ghosts

\* The bowl leaves the inventory to be erased.
LEMMA HandInStep ==
    ASSUME PoolIInv, NEW w \in Worker, HandInBowl(w)
    PROVE  /\ PoolIInv' /\ Only(w) /\ wk[w].pc = "remove" /\ wk'[w].pc = "wipe"
           /\ wk'[w].b = wk[w].b /\ wk'[w].h = wk[w].h /\ wk[w].b \in Bowl
           /\ Listed' = 0
<1> DEFINE q == "wipe"
<1>1. /\ wk[w].pc = "remove" /\ Len(slot) < MaxTip /\ Goto(w, q)
      /\ slot' = Append(slot, 0) /\ spent' = spent \cup taken
      /\ UNCHANGED <<bowl, drop, mail, waiting, won, asks, taken, refused, unheard, ghosts>>
  BY DEF HandInBowl, RemoveBowl, Bounded
<1>2. TypeOK /\ Len(slot) \in Nat /\ HandleOK(w) /\ spent' \subseteq Element
  BY <1>1, Types DEF PoolIInv, TypeOK
<1>3. /\ Only(w) /\ wk'[w].pc = q /\ wk'[w].b = wk[w].b /\ wk'[w].h = wk[w].h
      /\ wk'[w].new = wk[w].new /\ wk'[w].obj = wk[w].obj /\ wk'[w].at = wk[w].at
  <2>1. q \in {"idle"} \cup Receiving \cup Granting
    BY DEF Granting
  <2> HIDE DEF q
  <2> QED
    BY <1>1, <1>2, <2>1, NextMoves
<1>4. /\ Extended /\ SlotOK' /\ BowlOK' /\ RewardMatchesOffering'
      /\ Len(slot') = Len(slot) + 1 /\ Listed' = 0
  <2>1. 0 <= Len(slot) /\ 0 \in Bowl \cup {0}
    BY <1>2
  <2> QED
    BY <1>1, <2>1, InventoryGrows
<1>5. wk[w].at \in 1..Len(slot) /\ wk[w].obj \in Bowl
  BY <1>1, <1>2 DEF HandleOK, Granting
<1>6. /\ wk[w].b \in Bowl /\ wk[w].b < wk[w].at /\ wk[w].h \in 0..bowl[wk[w].b].height
      /\ bowl[wk[w].b].height = wk[w].h => Rewarding(wk[w].new, bowl[wk[w].b].elements)
  BY <1>1, <1>2 DEF HandleOK, Granting
<1>7. HandleOK(w)'
  <2>1. wk[w].at \in 1..Len(slot')
    BY <1>2, <1>4, <1>5
  <2>2. q \notin Receiving /\ q \notin {"idle", "bowl", "interactions", "rename", "grant"}
    BY DEF Receiving
  <2> HIDE DEF q
  <2> QED
    BY <1>1, <1>3, <1>5, <1>6, <2>1, <2>2 DEF HandleOK
<1>8. PoolIInv'
  BY <1>1, <1>2, <1>3, <1>4, <1>7, PoolStays, RestKeeps DEF ghosts
<1> QED
  BY <1>1, <1>3, <1>4, <1>6, <1>8

\* The contents of the bowl are erased.
LEMMA WipeStep ==
    ASSUME PoolIInv, NEW w \in Worker, WipeBowl(w)
    PROVE  /\ PoolIInv' /\ MayWrite(w) /\ wk[w].b \in Bowl /\ wk[w].pc = "wipe"
           /\ \E new \in Tree : /\ Wrote(w, new, "rename")
                                /\ new.elements = {} /\ new.used = bowl[wk[w].b].elements
<1> DEFINE t == bowl[wk[w].b]
           new == [NoTree EXCEPT !.owner = "court", !.height = bowl[wk[w].b].height,
                                 !.used = bowl[wk[w].b].elements]
           q == "rename"
<1>1. wk[w].pc = "wipe" /\ MayWrite(w) /\ Write(w, new, q) /\ slot' = slot /\ Rest
  BY DEF WipeBowl, Rest
<1>2. wk[w].b \in Bowl /\ wk[w].h \in Nat /\ TypeOK /\ HandleOK(w) /\ wk[w].new \in Name
  <2>1. wk[w].pc \in (Receiving \cup Granting) \ {"bowl", "read"}
    BY <1>1 DEF Granting
  <2> QED
    BY <2>1, HandleHasBowl, Types DEF PoolIInv
<1>3. /\ t \in Tree /\ t.height \in Nat /\ t.height = wk[w].h /\ t.owner = "court"
      /\ t.elements \subseteq Valid /\ t.used \subseteq Valid /\ Valid \subseteq Element
  BY <1>1, <1>2, Types DEF PoolIInv, BowlOK, MayWrite, Valid
<1>4. Rewarding(wk[w].new, t.elements)
  BY <1>1, <1>2, <1>3 DEF HandleOK, Granting
<1>5. new.dressed <=> FALSE
  BY <1>3, Zenon DEF Tree, NoTree
<1>6. /\ new \in Tree /\ new.height = t.height /\ new.owner = "court"
      /\ new.name = "" /\ new.elements = {} /\ new.used = t.elements
  BY <1>2, <1>3 DEF Tree, NoTree, Name
<1> HIDE DEF new
<1>7. new.dressed => new.height >= 1
  BY <1>3, <1>4, <1>5, <1>6
<1>8. q \in {"rename", "grant"} /\ wk[w].pc \in {"wipe", "rename"}
  BY <1>1
<1>9. new.elements \subseteq Valid /\ new.used \subseteq Valid /\ Rewarding(wk[w].new, new.used)
  BY <1>3, <1>4, <1>6
<1>10. q = "grant" => new.name = wk[w].new
  BY <1>6
<1>11. PoolIInv' /\ Wrote(w, new, q)
  <2> HIDE DEF q
  <2> QED
    BY <1>1, <1>6, <1>7, <1>8, <1>9, <1>10, GrantWrites
<1> QED
  BY <1>1, <1>2, <1>6, <1>11

\* The bowl becomes what it made.
LEMMA RenameStep ==
    ASSUME PoolIInv, NEW w \in Worker, RenameBowl(w)
    PROVE  /\ PoolIInv' /\ MayWrite(w) /\ wk[w].b \in Bowl /\ wk[w].pc = "rename"
           /\ \E new \in Tree : /\ Wrote(w, new, "grant")
                                /\ new.elements = bowl[wk[w].b].elements /\ new.used = bowl[wk[w].b].used
<1> DEFINE t == bowl[wk[w].b]
           new == [bowl[wk[w].b] EXCEPT !.name = wk[w].new, !.dressed = TRUE]
           q == "grant"
<1>1. wk[w].pc = "rename" /\ MayWrite(w) /\ Write(w, new, q) /\ slot' = slot /\ Rest
  BY DEF RenameBowl, Rest
<1>2. wk[w].b \in Bowl /\ wk[w].h \in Nat /\ TypeOK /\ HandleOK(w) /\ wk[w].new \in Name
  <2>1. wk[w].pc \in (Receiving \cup Granting) \ {"bowl", "read"}
    BY <1>1 DEF Granting
  <2> QED
    BY <2>1, HandleHasBowl, Types DEF PoolIInv
<1>3. /\ t \in Tree /\ t.height \in Nat /\ t.height = wk[w].h /\ t.owner = "court"
      /\ t.elements \subseteq Valid /\ t.used \subseteq Valid /\ Valid \subseteq Element
  BY <1>1, <1>2, Types DEF PoolIInv, BowlOK, MayWrite, Valid
<1>4. Rewarding(wk[w].new, t.used) /\ t.height >= 1
  BY <1>1, <1>2, <1>3 DEF HandleOK, Granting
<1>5. new.dressed <=> TRUE
  BY <1>3, Zenon DEF Tree, NoTree
<1>6. /\ new \in Tree /\ new.height = t.height /\ new.owner = "court"
      /\ new.name = wk[w].new /\ new.elements = t.elements /\ new.used = t.used
  BY <1>2, <1>3 DEF Tree, NoTree, Name
<1> HIDE DEF new
<1>7. new.dressed => new.height >= 1
  BY <1>3, <1>4, <1>5, <1>6
<1>8. q \in {"rename", "grant"} /\ wk[w].pc \in {"wipe", "rename"}
  BY <1>1
<1>9. new.elements \subseteq Valid /\ new.used \subseteq Valid /\ Rewarding(wk[w].new, new.used)
  BY <1>3, <1>4, <1>6
<1>10. q = "grant" => new.name = wk[w].new
  BY <1>6
<1>11. PoolIInv' /\ Wrote(w, new, q)
  <2> HIDE DEF q
  <2> QED
    BY <1>1, <1>6, <1>7, <1>8, <1>9, <1>10, GrantWrites
<1> QED
  BY <1>1, <1>2, <1>6, <1>11

\* The object is handed out: it is what the bowl made.
LEMMA GrantStep ==
    ASSUME PoolIInv, NEW w \in Worker, GrantElement(w)
    PROVE  /\ PoolIInv' /\ MayWrite(w) /\ Only(w) /\ wk'[w].pc = "idle" /\ wk[w].pc = "grant"
           /\ wk[w].b \in Bowl /\ bowl'[wk[w].b].owner = "player"
           /\ bowl'[wk[w].b].used = bowl[wk[w].b].used
           /\ bowl'[wk[w].b].elements = bowl[wk[w].b].elements
           /\ \A c \in Bowl : c # wk[w].b => bowl'[c] = bowl[c]
<1> DEFINE b == wk[w].b
           x == [bowl[b] EXCEPT !.owner = "player", !.height = bowl[b].height + 1]
<1>1. /\ wk[w].pc = "grant" /\ MayWrite(w) /\ Return(w) /\ waiting' \in {FALSE, waiting}
      /\ unheard' \in {TRUE, unheard}
      /\ bowl' = [bowl EXCEPT ![b].owner = "player", ![b].height = @ + 1]
      /\ UNCHANGED <<slot, drop, mail, asks, taken, spent, refused, ghosts>>
  BY DEF GrantElement, Answer
<1>2. /\ b \in Bowl /\ wk[w].h \in Nat /\ TypeOK /\ HandleOK(w) /\ b < wk[w].at /\ waiting' \in BOOLEAN
      /\ wk[w].at \in 1..Len(slot) /\ Len(slot) \in Nat
  <2>1. wk[w].pc \in (Receiving \cup Granting) \ {"bowl", "read"} /\ wk[w].pc \in Granting
    BY <1>1 DEF Granting
  <2> QED
    BY <1>1, <2>1, HandleHasBowl, Types DEF PoolIInv, TypeOK
<1>3. /\ bowl[b] \in Tree /\ bowl[b].height \in Nat /\ bowl[b].height = wk[w].h
      /\ bowl \in [Bowl -> Tree]
  BY <1>1, <1>2, Types DEF MayWrite
<1>4. bowl[b].name = wk[w].new /\ Rewarding(wk[w].new, bowl[b].used) /\ bowl[b].height >= 1
  BY <1>1, <1>2, <1>3 DEF HandleOK, Granting
<1>5. bowl' = [bowl EXCEPT ![b] = x]
  <2>1. bowl'[b] = x
    BY <1>1, <1>2, <1>3 DEF Tree
  <2>2. \A c \in Bowl : c # b => bowl'[c] = bowl[c]
    BY <1>1, <1>3
  <2>3. DOMAIN bowl' = Bowl /\ bowl' = [c \in Bowl |-> bowl'[c]]
    BY <1>1, <1>3
  <2> HIDE DEF x
  <2> QED
    BY <1>3, <2>1, <2>2, <2>3
<1>6. x.dressed <=> bowl[b].dressed
  BY <1>3, Zenon DEF Tree
<1>7. /\ x \in Tree /\ x.owner = "player" /\ x.height = bowl[b].height + 1
      /\ x.name = bowl[b].name /\ x.elements = bowl[b].elements /\ x.used = bowl[b].used
  <2>1. bowl[b].height + 1 \in Nat
    BY <1>3
  <2> QED
    BY <1>3, <2>1 DEF Tree
<1> HIDE DEF x
<1>8. bowl' \in [Bowl -> Tree] /\ bowl'[b] = x /\ \A c \in Bowl : c # b => bowl'[c] = bowl[c]
  BY <1>2, <1>3, <1>5, <1>7
<1>9. Extended
  <2>1. slot' \in Seq(Bowl \cup {0}) /\ Len(slot) <= Len(slot')
    BY <1>1, <1>2, Types
  <2>2. bowl'[b].height > bowl[b].height
    BY <1>3, <1>7, <1>8
  <2> QED
    BY <1>8, <2>1, <2>2 DEF Extended
<1>10. SlotOK'
  BY <1>1 DEF PoolIInv, SlotOK
<1>11. BowlOK'
  <2> DEFINE OK(t, c) == /\ t.elements \subseteq Valid /\ t.used \subseteq Valid
                         /\ t.owner \in {"none", "key"} => t.height = 0
                         /\ t.height <= 1 => ~t.dressed
                         /\ t.owner = "player" => c < Len(slot)
  <2>1. b < Len(slot)
    BY <1>2 DEF Bowl
  <2>2. \A c \in Bowl : OK(bowl[c], c)
    BY DEF PoolIInv, BowlOK
  <2>3. MayWrite(w) /\ bowl[b].owner = "court"
    BY <1>1 DEF MayWrite
  <2>4. OK(x, b)
    BY <1>2, <1>3, <1>4, <1>6, <1>7, <2>1, <2>2, <2>3
  <2>5. \A c \in Bowl : OK(bowl'[c], c)
    BY <1>8, <2>2, <2>4
  <2> QED
    BY <1>1, <2>5 DEF BowlOK
<1>12. RewardMatchesOffering'
  BY <1>4, <1>7, <1>8 DEF PoolIInv, RewardMatchesOffering, Rewarding
<1>13. Only(w) /\ wk'[w].pc = "idle" /\ HandleOK(w)'
  BY <1>1, <1>2, ReturnMoves
<1>14. PoolIInv'
  BY <1>1, <1>2, <1>9, <1>10, <1>11, <1>12, <1>13, PoolStays, RestKeeps DEF ghosts
<1> QED
  BY <1>1, <1>2, <1>7, <1>8, <1>13, <1>14

---------------------------------------------------------------------------
(* The pool's part is inductive. *)

\* Nothing has happened yet.
LEMMA PoolInit == Init => PoolIInv
<1> SUFFICES ASSUME Init PROVE PoolIInv
  OBVIOUS
<1>1. NoTree \in Tree /\ NoTree.owner = "none" /\ NoTree.height = 0 /\ NoTree.elements = {} /\ NoTree.used = {}
  BY DEF Tree, NoTree, Name
<1>2. ~NoTree.dressed
  BY Zenon DEF NoTree
<1>3. Idle \in Work /\ Idle.pc = "idle"
  BY DEF Idle, Work, Name
<1>4. slot \in Seq(Bowl \cup {0}) /\ Len(slot) = 1 /\ slot[1] = 0 /\ slot # <<>>
  BY DEF Init
<1>5. bowl \in [Bowl -> Tree] /\ wk \in [Worker -> Work]
  BY <1>1, <1>3 DEF Init
<1>6. TypeOK
  <2>1. asks \in 0..MaxAsks /\ faults \in 0..MaxFaults
    BY CombinerAssumption DEF Init
  <2>2. waiting \in BOOLEAN /\ overlap \in BOOLEAN /\ stranded \in BOOLEAN /\ refused \in BOOLEAN
        /\ unheard \in BOOLEAN
    BY Zenon DEF Init
  <2>3. owner \in [Element -> {"player", "both", "court", "none"}] /\ mail \subseteq Message
    BY DEF Init
  <2> QED
    BY <1>4, <1>5, <2>1, <2>2, <2>3 DEF Init, TypeOK
<1>7. MailOK /\ SlotOK
  BY <1>4, CombinerAssumption DEF Init, MailOK, SlotOK
<1>8. BowlOK /\ RewardMatchesOffering
  BY <1>1, <1>2 DEF Init, BowlOK, RewardMatchesOffering
<1>9. ASSUME NEW w \in Worker PROVE HandleOK(w)
  BY <1>3 DEF Init, HandleOK, Receiving, Granting
<1> QED
  BY <1>6, <1>7, <1>8, <1>9 DEF PoolIInv

\* Every step keeps it, however the handlers interleave.
LEMMA PoolNext == PoolIInv /\ [Next]_vars => PoolIInv'
<1> SUFFICES ASSUME PoolIInv, [Next]_vars PROVE PoolIInv'
  OBVIOUS
<1>1. CASE PlayerMoves
  BY <1>1, PlayerStep
<1>2. ASSUME NEW w \in Worker, Handle(w) PROVE PoolIInv'
  <2>1. ASSUME NEW m \in mail, Take(w, m) PROVE PoolIInv'
    BY <2>1, TakeStep
  <2>2. CASE RejectElement(w) \/ FindBowl(w) \/ CreateBowl(w) \/ ChownBowl(w)
           \/ ReceiveRefused(w) \/ ElementRefused(w)
    BY <2>2, RejectStep, FindStep, CreateStep, ChownBowlStep, ReceiveRefusedStep, ElementRefusedStep
  <2>3. CASE ResetBowl(w) \/ NameBowl(w) \/ DressBowl(w) \/ SetPlayer(w) \/ PutElement(w) \/ DescribeBowl(w)
    BY <2>3, ResetStep, NameStep, DressStep, SetPlayerStep, PutStep, DescribeStep
  <2>4. CASE ChownElement(w) \/ ForceAddBowl(w) \/ PickUpChecks(w) \/ ForfeitBowl(w) \/ HandInBowl(w)
    BY <2>4, ChownElementStep, AddStep, ChecksStep, ForfeitStep, HandInStep
  <2>5. CASE WipeBowl(w) \/ RenameBowl(w) \/ GrantElement(w) \/ PickUpRefused(w)
    BY <2>5, WipeStep, RenameStep, GrantStep, PickUpRefusedStep
  <2> QED
    BY <1>2, <2>1, <2>2, <2>3, <2>4, <2>5 DEF Handle
<1>3. ASSUME NEW w \in Worker, CallFails(w) PROVE PoolIInv'
  BY <1>3, FailStep
<1>4. CASE UNCHANGED vars
  <2>1. /\ UNCHANGED <<slot, bowl, mail, waiting, asks, wk, taken, spent, refused, overlap, stranded, faults>>
        /\ UNCHANGED <<owner, tip, dropping, lapsed, outrun, unheard>>
    BY <1>4 DEF vars
  <2>2. TypeOK'
    BY <2>1 DEF PoolIInv, TypeOK
  <2>3. MailOK' /\ SlotOK' /\ BowlOK' /\ RewardMatchesOffering'
    BY <2>1 DEF PoolIInv, MailOK, SlotOK, BowlOK, RewardMatchesOffering
  <2>4. ASSUME NEW w \in Worker PROVE HandleOK(w)'
    BY <2>1 DEF PoolIInv, HandleOK
  <2> QED
    BY <2>2, <2>3, <2>4 DEF PoolIInv
<1> QED
  BY <1>1, <1>2, <1>3, <1>4 DEF Next, PlayerMoves

\* What the pool keeps true however its handlers interleave: the handlers' handles are
\* never ahead of the trees, and what they computed is right while the handle is current.
THEOREM PoolInductive == Spec => []PoolIInv
<1> QED
  BY PoolInit, PoolNext, PTL DEF Spec

\* An element the court hands out is what the bowl's contents made, for any number of
\* handlers and whatever calls fail (handlePickupElement).
THEOREM RewardMatches == Spec => []RewardMatchesOffering
<1>1. PoolIInv => RewardMatchesOffering
  BY DEF PoolIInv
<1> QED
  BY <1>1, PoolInductive, PTL

---------------------------------------------------------------------------
(* What the player's bag does to an element, however the handlers interleave. *)

\* An element that never left has no block; one the bag is dropping has both owners; one
\* that is the player's again was taken back; only an invalid one is destroyed.
BagElements ==
    \A e \in Element :
        /\ tip[e] = 0 => owner[e] = "player"
        /\ owner[e] = "both" => dropping = e
        /\ owner[e] = "player" /\ tip[e] # 0 => e \in TakenBack
        /\ owner[e] = "none" => e \notin Valid

\* The message of an element that was never taken back is of its latest block.
BagMail ==
    \A m \in mail : m.type = "transferred" =>
        /\ tip[m.obj] # 0
        /\ m.obj \in TakenBack \/ (owner[m.obj] = "both" /\ m.at = tip[m.obj])

\* No message of the handler's element is left, and no other handler is at it.
Sole(w) ==
    /\ \A m \in mail : m.type = "transferred" => m.obj # wk[w].obj
    /\ \A v \in Worker : v # w /\ wk[v].pc \in Receiving => wk[v].obj # wk[w].obj

\* The court may sign the element, and the handle extends its tip.
Signable(w) ==
    wk[w].pc # "add" =>
        /\ owner[wk[w].obj] = "both"
        /\ wk[w].pc # "bowl" => wk[w].e = tip[wk[w].obj]

\* What a handler of a dropped element knows of it.
BagHandler(w) ==
    wk[w].pc \in Receiving =>
        /\ tip[wk[w].obj] # 0
        /\ wk[w].obj \in TakenBack \/ (Sole(w) /\ Signable(w))
        /\ wk[w].pc = "add" => owner[wk[w].obj] = "court"

\* Accepted elements are the court's; what is in a bowl, or was, had been dropped.
BagContents ==
    /\ \A e \in taken : e \in Valid /\ owner[e] = "court"
    /\ \A b \in Bowl : \A e \in bowl[b].elements \cup bowl[b].used : tip[e] # 0
    /\ outrun \subseteq TakenBack

BagInv == BagElements /\ BagMail /\ (\A w \in Worker : BagHandler(w)) /\ BagContents

BagIInv == PoolIInv /\ BagInv

\* A step of a handler that leaves the elements alone.
LEMMA BagKeeps ==
    ASSUME BagIInv, NEW w \in Worker, Only(w), UNCHANGED <<drop, mail>>, outrun' \subseteq TakenBack,
           wk'[w].pc \in Receiving =>
               /\ wk[w].pc \in Receiving \ {"add"} /\ wk'[w].pc \notin {"add", "bowl"}
               /\ wk'[w].obj = wk[w].obj
               /\ wk'[w].e = tip[wk[w].obj] \/ (wk[w].pc # "bowl" /\ wk'[w].e = wk[w].e),
           \A e \in taken' : e \in Valid /\ owner[e] = "court",
           \A b \in Bowl : \A e \in bowl'[b].elements \cup bowl'[b].used : tip[e] # 0
    PROVE  BagInv'
<1>1. UNCHANGED <<owner, tip, dropping, lapsed, mail>> /\ TakenBack' = TakenBack
  BY DEF drop, TakenBack
<1>2. BagElements' /\ BagMail' /\ BagContents'
  BY <1>1 DEF BagIInv, BagInv, BagElements, BagMail, BagContents
<1>3. ASSUME NEW v \in Worker PROVE BagHandler(v)'
  <2>1. CASE v = w
    <3> SUFFICES ASSUME wk'[w].pc \in Receiving PROVE BagHandler(w)'
      BY <2>1 DEF BagHandler
    <3>1. BagHandler(w) /\ wk[w].pc \in Receiving
      BY DEF BagIInv, BagInv
    <3>2. Sole(w) => Sole(w)'
      BY <1>1 DEF Sole, Only
    <3>3. Signable(w) => Signable(w)'
      BY <1>1 DEF Signable
    <3> QED
      BY <1>1, <3>1, <3>2, <3>3 DEF BagHandler
  <2>2. CASE v # w
    <3>1. wk'[v] = wk[v] /\ BagHandler(v)
      BY <2>2 DEF Only, BagIInv, BagInv
    <3>2. Sole(v) => Sole(v)'
      BY <1>1, <3>1 DEF Sole, Only
    <3>3. Signable(v) => Signable(v)'
      BY <1>1, <3>1 DEF Signable
    <3> QED
      BY <1>1, <3>1, <3>2, <3>3 DEF BagHandler
  <2> QED
    BY <2>1, <2>2
<1> QED
  BY <1>2, <1>3 DEF BagInv

\* A handler's block on its element: it becomes the court's alone, or is destroyed.
LEMMA ElementBlock ==
    ASSUME BagIInv, NEW w \in Worker, Only(w), NEW o \in {"court", "none"}, Own(wk[w].obj, o),
           wk[w].pc \in {"bowl", "chown"}, wk[w].obj \in Element,
           UNCHANGED <<bowl, dropping, lapsed, mail, taken, outrun>>,
           \/ o = "none" /\ wk'[w].pc = "idle" /\ wk[w].obj \notin Valid
           \/ o = "court" /\ wk'[w].pc = "add" /\ wk'[w].obj = wk[w].obj
    PROVE  BagInv'
<1> DEFINE x == wk[w].obj
<1>1. /\ owner \in [Element -> {"player", "both", "court", "none"}] /\ tip \in [Element -> Nat]
      /\ \A m \in mail : m.type = "transferred" => m.obj \in Element
      /\ \A v \in Worker : wk[v].pc \in Receiving => wk[v].obj \in Element
      /\ \A v \in Worker : wk[v].pc = "add" => wk[v].obj \in Valid
  BY DEF BagIInv, PoolIInv, TypeOK, MailOK, HandleOK, Receiving
<1>2. /\ owner'[x] = o /\ tip'[x] = tip[x] + 1 /\ tip'[x] # 0
      /\ \A e \in Element : e # x => owner'[e] = owner[e] /\ tip'[e] = tip[e]
      /\ \A e \in Element : tip[e] # 0 => tip'[e] # 0
  BY <1>1 DEF Own
<1>3. TakenBack' = TakenBack
  BY DEF TakenBack
<1>4. BagHandler(w) /\ wk[w].pc \in Receiving
  BY DEF BagIInv, BagInv, Receiving
<1>5. x \in TakenBack \/ Sole(w)
  BY <1>4 DEF BagHandler
<1>6. BagElements'
  BY <1>2, <1>3 DEF BagIInv, BagInv, BagElements
<1>7. BagMail'
  <2> SUFFICES ASSUME NEW m \in mail, m.type = "transferred"
               PROVE  /\ tip'[m.obj] # 0
                      /\ m.obj \in TakenBack \/ (owner'[m.obj] = "both" /\ m.at = tip'[m.obj])
    BY <1>3 DEF BagMail
  <2>1. /\ tip[m.obj] # 0 /\ m.obj \in Element
        /\ m.obj \in TakenBack \/ (owner[m.obj] = "both" /\ m.at = tip[m.obj])
    BY <1>1 DEF BagIInv, BagInv, BagMail
  <2>2. m.obj = x => x \in TakenBack
    BY <1>5 DEF Sole
  <2> QED
    BY <1>2, <2>1, <2>2
<1>8. ASSUME NEW v \in Worker PROVE BagHandler(v)'
  <2>1. CASE v = w
    <3> SUFFICES ASSUME o = "court", wk'[w].pc = "add", wk'[w].obj = x PROVE BagHandler(w)'
      <4>1. "idle" \notin Receiving
        BY DEF Receiving
      <4> QED
        BY <2>1, <4>1 DEF BagHandler
    <3>1. Sole(w) => Sole(w)'
      BY DEF Sole, Only
    <3>2. Signable(w)'
      BY DEF Signable
    <3> QED
      BY <1>2, <1>3, <1>5, <3>1, <3>2 DEF BagHandler
  <2>2. CASE v # w
    <3> SUFFICES ASSUME wk[v].pc \in Receiving PROVE BagHandler(v)'
      BY <2>2 DEF BagHandler, Only
    <3>1. wk'[v] = wk[v] /\ BagHandler(v) /\ wk[v].obj \in Element
      BY <1>1, <2>2 DEF Only, BagIInv, BagInv
    <3>2. Sole(v) => Sole(v)'
      <4> SUFFICES ASSUME Sole(v) PROVE Sole(v)'
        OBVIOUS
      <4>1. \A u \in Worker : u # v /\ wk'[u].pc \in Receiving => wk'[u].obj # wk[v].obj
        <5> SUFFICES ASSUME NEW u \in Worker, u # v, wk'[u].pc \in Receiving
                     PROVE  wk'[u].obj # wk[v].obj
          OBVIOUS
        <5>1. CASE u = w
          <6>1. wk'[w].obj = wk[w].obj
            BY <5>1 DEF Receiving
          <6> QED
            BY <1>4, <2>2, <5>1, <6>1 DEF Sole
        <5>2. CASE u # w
          BY <5>2 DEF Sole, Only
        <5> QED
          BY <5>1, <5>2
      <4> QED
        BY <3>1, <4>1 DEF Sole
    <3>3. wk[v].obj # x => (Signable(v) => Signable(v)')
      BY <1>2, <3>1 DEF Signable
    <3>4. wk[v].obj = x => x \in TakenBack
      BY <1>5, <2>2 DEF Sole
    <3>5. wk[v].pc = "add" => owner'[wk[v].obj] = "court"
      <4> SUFFICES ASSUME wk[v].pc = "add" PROVE owner'[wk[v].obj] = "court"
        OBVIOUS
      <4>1. owner[wk[v].obj] = "court" /\ wk[v].obj \in Valid
        BY <1>1, <3>1 DEF BagHandler
      <4> QED
        BY <1>2, <3>1, <4>1
    <3> QED
      BY <1>2, <1>3, <3>1, <3>2, <3>3, <3>4, <3>5 DEF BagHandler
  <2> QED
    BY <2>1, <2>2
<1>9. BagContents'
  <2>1. ASSUME NEW e \in taken PROVE e \in Valid /\ owner'[e] = "court"
    <3>1. e \in Valid /\ owner[e] = "court"
      BY DEF BagIInv, BagInv, BagContents
    <3> QED
      BY <1>2, <3>1 DEF Valid
  <2>2. ASSUME NEW b \in Bowl, NEW e \in bowl[b].elements \cup bowl[b].used PROVE tip'[e] # 0
    <3>1. e \in Element /\ tip[e] # 0
      BY DEF BagIInv, BagInv, BagContents, PoolIInv, BowlOK, Valid
    <3> QED
      BY <1>2, <3>1
  <2>3. outrun' \subseteq TakenBack'
    BY <1>3 DEF BagIInv, BagInv, BagContents
  <2> QED
    BY <2>1, <2>2, <2>3 DEF BagContents
<1> QED
  BY <1>6, <1>7, <1>8, <1>9 DEF BagInv

\* A block of a handler of a dropped element on its bowl.
LEMMA BagWrites ==
    ASSUME BagIInv, NEW w \in Worker, NEW new \in Tree, NEW pc, Rest, Wrote(w, new, pc),
           wk[w].b \in Bowl,
           pc \in Receiving => wk[w].pc \in Receiving \ {"add", "bowl"} /\ pc \notin {"add", "bowl"},
           \A e \in new.elements \cup new.used :
               \/ e \in bowl[wk[w].b].elements \cup bowl[wk[w].b].used
               \/ e = wk[w].obj /\ wk[w].pc \in Receiving
    PROVE  BagInv'
<1>1. /\ Only(w) /\ wk'[w].pc = pc /\ wk'[w].obj = wk[w].obj /\ wk'[w].e = wk[w].e
      /\ \A b \in Bowl : b # wk[w].b => bowl'[b] = bowl[b]
      /\ bowl'[wk[w].b].elements = new.elements /\ bowl'[wk[w].b].used = new.used
  BY DEF Wrote
<1>2. UNCHANGED <<drop, mail, taken, outrun>>
  BY DEF Rest, ghosts
<1>3. wk[w].pc \in Receiving => tip[wk[w].obj] # 0
  BY DEF BagIInv, BagInv, BagHandler
<1>4. \A b \in Bowl : \A e \in bowl[b].elements \cup bowl[b].used : tip[e] # 0
  BY DEF BagIInv, BagInv, BagContents
<1>5. \A b \in Bowl : \A e \in bowl'[b].elements \cup bowl'[b].used : tip[e] # 0
  BY <1>1, <1>3, <1>4
<1>6. outrun' \subseteq TakenBack /\ \A e \in taken' : e \in Valid /\ owner[e] = "court"
  BY <1>2 DEF BagIInv, BagInv, BagContents
<1> QED
  BY <1>1, <1>2, <1>5, <1>6, BagKeeps

\* The blocks that fill and erase a bowl hold nothing that was not dropped.
LEMMA BagBlocks ==
    ASSUME BagIInv, NEW w \in Worker,
           \/ ResetBowl(w) \/ NameBowl(w) \/ DressBowl(w) \/ SetPlayer(w) \/ PutElement(w)
           \/ DescribeBowl(w) \/ WipeBowl(w) \/ RenameBowl(w)
    PROVE  BagInv'
<1>1. PoolIInv /\ Rest
  BY DEF BagIInv, Rest, ResetBowl, NameBowl, DressBowl, SetPlayer, PutElement, DescribeBowl,
         WipeBowl, RenameBowl
<1>2. ASSUME ResetBowl(w) PROVE BagInv'
  <2>1. PICK new \in Tree : Wrote(w, new, "name") /\ ResetBowlMakes(new, bowl[wk[w].b], wk[w].obj)
    BY <1>1, <1>2, ResetStep
  <2>2. wk[w].b \in Bowl /\ wk[w].pc = "reset"
    BY <1>1, <1>2, ResetStep DEF ResetBowl
  <2> QED
    BY <1>1, <2>1, <2>2, BagWrites DEF ResetBowlMakes, Receiving
<1>3. ASSUME NameBowl(w) PROVE BagInv'
  <2>1. PICK new \in Tree : Wrote(w, new, "interactions") /\ NameBowlMakes(new, bowl[wk[w].b], wk[w].obj)
    BY <1>1, <1>3, NameStep
  <2>2. wk[w].b \in Bowl /\ wk[w].pc = "name"
    BY <1>1, <1>3, NameStep DEF NameBowl
  <2> QED
    BY <1>1, <2>1, <2>2, BagWrites DEF NameBowlMakes, Receiving
<1>4. ASSUME DressBowl(w) PROVE BagInv'
  <2>1. PICK new \in Tree : Wrote(w, new, "player") /\ DressBowlMakes(new, bowl[wk[w].b], wk[w].obj)
    BY <1>1, <1>4, DressStep
  <2>2. wk[w].b \in Bowl /\ wk[w].pc = "interactions"
    BY <1>1, <1>4, DressStep DEF DressBowl
  <2> QED
    BY <1>1, <2>1, <2>2, BagWrites DEF DressBowlMakes, Receiving
<1>5. ASSUME SetPlayer(w) PROVE BagInv'
  <2>1. PICK new \in Tree : Wrote(w, new, "element") /\ SetPlayerMakes(new, bowl[wk[w].b], wk[w].obj)
    BY <1>1, <1>5, SetPlayerStep
  <2>2. wk[w].b \in Bowl /\ wk[w].pc = "player"
    BY <1>1, <1>5, SetPlayerStep DEF SetPlayer
  <2> QED
    BY <1>1, <2>1, <2>2, BagWrites DEF SetPlayerMakes, Receiving
<1>6. ASSUME PutElement(w) PROVE BagInv'
  <2>1. PICK new \in Tree : Wrote(w, new, "describe") /\ PutElementMakes(new, bowl[wk[w].b], wk[w].obj)
    BY <1>1, <1>6, PutStep
  <2>2. wk[w].b \in Bowl /\ wk[w].pc = "element"
    BY <1>1, <1>6, PutStep DEF PutElement
  <2> QED
    BY <1>1, <2>1, <2>2, BagWrites DEF PutElementMakes, Receiving
<1>7. ASSUME DescribeBowl(w) PROVE BagInv'
  <2>1. PICK new \in Tree : Wrote(w, new, "chown") /\ DescribeBowlMakes(new, bowl[wk[w].b], wk[w].obj)
    BY <1>1, <1>7, DescribeStep
  <2>2. wk[w].b \in Bowl /\ wk[w].pc = "describe"
    BY <1>1, <1>7, DescribeStep DEF DescribeBowl
  <2> QED
    BY <1>1, <2>1, <2>2, BagWrites DEF DescribeBowlMakes, Receiving
<1>8. ASSUME WipeBowl(w) PROVE BagInv'
  <2>1. PICK new \in Tree : /\ Wrote(w, new, "rename")
                            /\ new.elements = {} /\ new.used = bowl[wk[w].b].elements
    BY <1>1, <1>8, WipeStep
  <2>2. wk[w].b \in Bowl
    BY <1>1, <1>8, WipeStep
  <2> QED
    BY <1>1, <2>1, <2>2, BagWrites DEF Receiving
<1>9. ASSUME RenameBowl(w) PROVE BagInv'
  <2>1. PICK new \in Tree : /\ Wrote(w, new, "grant")
                            /\ new.elements = bowl[wk[w].b].elements /\ new.used = bowl[wk[w].b].used
    BY <1>1, <1>9, RenameStep
  <2>2. wk[w].b \in Bowl
    BY <1>1, <1>9, RenameStep
  <2> QED
    BY <1>1, <2>1, <2>2, BagWrites DEF Receiving
<1> QED
  BY <1>2, <1>3, <1>4, <1>5, <1>6, <1>7, <1>8, <1>9

\* A message in the mail is the only one of its element, or that was taken back.
LEMMA BagTakes ==
    ASSUME BagIInv, NEW w \in Worker, NEW m \in mail, Take(w, m)
    PROVE  BagInv'
<1>1. /\ UNCHANGED <<bowl, owner, tip, dropping, lapsed, taken, outrun>> /\ mail' = mail \ {m}
      /\ TakenBack' = TakenBack
  BY DEF Take, drop, TakenBack
<1>2. /\ Only(w) /\ wk[w].pc = "idle" /\ wk'[w].obj = m.obj
      /\ wk'[w].pc = (IF m.type = "request" THEN "read" ELSE "bowl")
  BY TakeStep DEF BagIInv
<1>3. BagElements' /\ BagMail' /\ BagContents'
  BY <1>1 DEF BagIInv, BagInv, BagElements, BagMail, BagContents
<1>4. ASSUME NEW v \in Worker PROVE BagHandler(v)'
  <2>1. CASE v = w /\ m.type = "request"
    BY <1>2, <2>1 DEF BagHandler, Receiving
  <2>2. CASE v = w /\ m.type # "request"
    <3>1. m.type = "transferred" /\ wk'[w].pc = "bowl" /\ mail \subseteq Message
      BY <1>2, <2>2 DEF BagIInv, PoolIInv, TypeOK, Message
    <3>2. /\ tip[m.obj] # 0
          /\ m.obj \in TakenBack \/ (owner[m.obj] = "both" /\ m.at = tip[m.obj])
      BY <3>1 DEF BagIInv, BagInv, BagMail
    <3>3. m.obj \notin TakenBack => Sole(w)'
      <4> SUFFICES ASSUME m.obj \notin TakenBack PROVE Sole(w)'
        OBVIOUS
      <4>1. ASSUME NEW n \in mail', n.type = "transferred" PROVE n.obj # wk'[w].obj
        <5> SUFFICES ASSUME n.obj = m.obj PROVE FALSE
          BY <1>2
        <5>1. n \in mail /\ n # m /\ n \in Message /\ m \in Message
          BY <1>1, <3>1
        <5>2. n.at = m.at
          BY <3>2, <4>1, <5>1 DEF BagIInv, BagInv, BagMail
        <5> QED
          BY <3>1, <4>1, <5>1, <5>2 DEF Message
      <4>2. ASSUME NEW u \in Worker, u # w, wk'[u].pc \in Receiving PROVE wk'[u].obj # wk'[w].obj
        <5>1. wk'[u] = wk[u] /\ BagHandler(u)
          BY <1>2, <4>2 DEF Only, BagIInv, BagInv
        <5> QED
          BY <1>2, <3>1, <4>2, <5>1 DEF BagHandler, Sole
      <4> QED
        BY <4>1, <4>2 DEF Sole
    <3>4. m.obj \notin TakenBack => Signable(w)'
      BY <1>1, <1>2, <3>1, <3>2 DEF Signable
    <3> QED
      BY <1>1, <1>2, <2>2, <3>1, <3>2, <3>3, <3>4 DEF BagHandler
  <2>3. CASE v # w
    <3> SUFFICES ASSUME wk[v].pc \in Receiving PROVE BagHandler(v)'
      BY <1>2, <2>3 DEF BagHandler, Only
    <3>1. wk'[v] = wk[v] /\ BagHandler(v)
      BY <1>2, <2>3 DEF Only, BagIInv, BagInv
    <3>2. Sole(v) => Sole(v)'
      <4> SUFFICES ASSUME Sole(v) PROVE Sole(v)'
        OBVIOUS
      <4>1. m.type = "transferred" \/ m.type = "request"
        BY DEF BagIInv, PoolIInv, TypeOK, Message
      <4>2. wk'[w].pc \in Receiving => wk'[w].obj # wk[v].obj
        BY <1>2, <4>1 DEF Sole, Receiving
      <4> QED
        BY <1>1, <1>2, <3>1, <4>2 DEF Sole, Only
    <3>3. Signable(v) => Signable(v)'
      BY <1>1, <3>1 DEF Signable
    <3> QED
      BY <1>1, <3>1, <3>2, <3>3 DEF BagHandler
  <2> QED
    BY <2>1, <2>2, <2>3
<1> QED
  BY <1>3, <1>4 DEF BagInv

\* The other steps of a handler of a dropped element.
LEMMA BagReceives ==
    ASSUME BagIInv, NEW w \in Worker,
           \/ RejectElement(w) \/ FindBowl(w) \/ CreateBowl(w) \/ ChownBowl(w) \/ ChownElement(w)
           \/ ForceAddBowl(w) \/ ReceiveRefused(w) \/ ElementRefused(w)
    PROVE  BagInv'
<1>1. PoolIInv /\ BagContents /\ BagHandler(w) /\ "idle" \notin Receiving
  BY DEF BagIInv, BagInv, Receiving
<1>2. ASSUME RejectElement(w) PROVE BagInv'
  <2>1. Only(w) /\ wk'[w].pc = "idle" /\ wk[w].pc = "bowl" /\ wk[w].obj \in Element
    BY <1>1, <1>2, RejectStep DEF RejectElement, PoolIInv, HandleOK, Receiving
  <2>2. UNCHANGED <<bowl, dropping, lapsed, mail, taken, outrun>> /\ wk[w].obj \notin Valid
    BY <1>2 DEF RejectElement, ghosts, ValidElement, Valid
  <2>3. CASE Kind[wk[w].obj] \in Configured
    <3>1. Own(wk[w].obj, "none")
      BY <1>2, <2>3 DEF RejectElement
    <3> QED
      BY <2>1, <2>2, <3>1, ElementBlock
  <2>4. CASE Kind[wk[w].obj] \notin Configured
    <3>1. UNCHANGED drop
      BY <1>2, <2>2, <2>4 DEF RejectElement, drop
    <3> QED
      BY <1>1, <2>1, <2>2, <3>1, BagKeeps DEF BagContents
  <2> QED
    BY <2>3, <2>4
<1>3. ASSUME FindBowl(w) PROVE BagInv'
  <2>1. /\ Only(w) /\ wk'[w].obj = wk[w].obj /\ wk'[w].e = tip[wk[w].obj] /\ wk[w].pc = "bowl"
        /\ wk'[w].pc \in {"element", "reset", "name"}
    BY <1>1, <1>3, FindStep
  <2>2. UNCHANGED <<bowl, drop, mail, taken, outrun>>
    BY <1>3 DEF FindBowl, ghosts
  <2> QED
    BY <1>1, <2>1, <2>2, BagKeeps DEF BagContents, Receiving
<1>4. ASSUME CreateBowl(w) PROVE BagInv'
  <2>1. /\ Only(w) /\ wk'[w].obj = wk[w].obj /\ wk'[w].e = tip[wk[w].obj] /\ wk[w].pc = "bowl"
        /\ wk'[w].pc = "created"
        /\ \A c \in Bowl : bowl'[c].elements = bowl[c].elements /\ bowl'[c].used = bowl[c].used
    BY <1>1, <1>4, CreateStep
  <2>2. UNCHANGED <<drop, mail, taken, outrun>>
    BY <1>4 DEF CreateBowl, ghosts
  <2> QED
    BY <1>1, <2>1, <2>2, BagKeeps DEF BagContents, Receiving
<1>5. ASSUME ChownBowl(w) PROVE BagInv'
  <2>1. /\ Only(w) /\ wk'[w].obj = wk[w].obj /\ wk'[w].e = wk[w].e /\ wk[w].pc = "created"
        /\ wk'[w].pc = "name"
        /\ \A c \in Bowl : bowl'[c].elements = bowl[c].elements /\ bowl'[c].used = bowl[c].used
    BY <1>1, <1>5, ChownBowlStep
  <2>2. UNCHANGED <<drop, mail, taken, outrun>>
    BY <1>5 DEF ChownBowl, ghosts
  <2> QED
    BY <1>1, <2>1, <2>2, BagKeeps DEF BagContents, Receiving
<1>6. ASSUME ChownElement(w) PROVE BagInv'
  <2>1. /\ Only(w) /\ wk[w].pc = "chown" /\ wk'[w].pc = "add" /\ wk[w].obj \in Element
        /\ wk'[w].obj = wk[w].obj
    BY <1>1, <1>6, ChownElementStep
  <2>2. UNCHANGED <<bowl, dropping, lapsed, mail, taken, outrun>> /\ Own(wk[w].obj, "court")
    BY <1>6 DEF ChownElement, ghosts
  <2> QED
    BY <2>1, <2>2, ElementBlock
<1>7. ASSUME ForceAddBowl(w) PROVE BagInv'
  <2>1. Only(w) /\ wk'[w].pc = "idle" /\ wk[w].pc = "add"
    BY <1>1, <1>7, AddStep DEF ForceAddBowl
  <2>2. UNCHANGED <<bowl, drop, mail, outrun>> /\ taken' = taken \cup {wk[w].obj}
    BY <1>7 DEF ForceAddBowl, ghosts
  <2>3. wk[w].obj \in Valid /\ owner[wk[w].obj] = "court"
    BY <1>1, <2>1 DEF PoolIInv, HandleOK, BagHandler, Receiving
  <2> QED
    BY <1>1, <2>1, <2>2, <2>3, BagKeeps DEF BagContents
<1>8. ASSUME ReceiveRefused(w) PROVE BagInv'
  <2>1. Only(w) /\ wk'[w].pc = "idle"
    BY <1>1, <1>8, ReceiveRefusedStep
  <2>2. UNCHANGED <<bowl, drop, mail, taken, outrun>>
    BY <1>8 DEF ReceiveRefused, ghosts
  <2> QED
    BY <1>1, <2>1, <2>2, BagKeeps DEF BagContents
<1>9. ASSUME ElementRefused(w) PROVE BagInv'
  <2>1. Only(w) /\ wk'[w].pc = "idle" /\ wk[w].pc \in {"bowl", "chown"} /\ wk[w].obj \in Element
    BY <1>1, <1>9, ElementRefusedStep
  <2>2. UNCHANGED <<bowl, drop, mail, taken>> /\ outrun' = outrun \cup {wk[w].obj}
    BY <1>9 DEF ElementRefused
  <2>3. wk[w].obj \in TakenBack
    <3>1. Signable(w) => CourtOwns(wk[w].obj) /\ (wk[w].pc = "chown" => MayChown(w))
      BY <2>1 DEF Signable, CourtOwns, MayChown
    <3>2. ~Signable(w)
      BY <1>9, <2>1, <3>1 DEF ElementRefused
    <3> QED
      BY <1>1, <2>1, <3>2 DEF BagHandler, Receiving
  <2> QED
    BY <1>1, <2>1, <2>2, <2>3, BagKeeps DEF BagContents
<1> QED
  BY <1>2, <1>3, <1>4, <1>5, <1>6, <1>7, <1>8, <1>9

\* The steps of a pick-up, and a call that fails.
LEMMA BagGrants ==
    ASSUME BagIInv, NEW w \in Worker,
           \/ PickUpChecks(w) \/ ForfeitBowl(w) \/ HandInBowl(w) \/ GrantElement(w)
           \/ PickUpRefused(w) \/ CallFails(w)
    PROVE  BagInv'
<1>1. PoolIInv /\ BagContents
  BY DEF BagIInv, BagInv
<1>2. UNCHANGED <<drop, mail, taken, outrun>>
  BY DEF PickUpChecks, ForfeitBowl, HandInBowl, GrantElement, PickUpRefused, CallFails, RemoveBowl, ghosts
<1>3. Only(w) /\ wk'[w].pc \notin Receiving
  <2>1. CASE PickUpChecks(w)
    BY <1>1, <2>1, ChecksStep DEF Receiving
  <2>2. CASE ForfeitBowl(w) \/ GrantElement(w) \/ PickUpRefused(w) \/ CallFails(w)
    BY <1>1, <2>2, ForfeitStep, GrantStep, PickUpRefusedStep, FailStep DEF Receiving
  <2>3. CASE HandInBowl(w)
    BY <1>1, <2>3, HandInStep DEF Receiving
  <2> QED
    BY <2>1, <2>2, <2>3
<1>4. \A b \in Bowl : bowl'[b].elements = bowl[b].elements /\ bowl'[b].used = bowl[b].used
  <2>1. CASE GrantElement(w)
    BY <1>1, <2>1, GrantStep
  <2>2. CASE ~GrantElement(w)
    <3>1. UNCHANGED bowl
      BY <2>2 DEF PickUpChecks, ForfeitBowl, HandInBowl, PickUpRefused, CallFails
    <3> QED
      BY <3>1
  <2> QED
    BY <2>1, <2>2
<1> QED
  BY <1>1, <1>2, <1>3, <1>4, BagKeeps DEF BagContents

\* The steps of the player and of the bag.
LEMMA BagMoves ==
    ASSUME BagIInv, PlayerMoves
    PROVE  BagInv'
<1>1. /\ UNCHANGED <<bowl, wk, taken, outrun>>
  BY PlayerStep DEF BagIInv, ghosts
<1>2. /\ owner \in [Element -> {"player", "both", "court", "none"}] /\ tip \in [Element -> Nat]
      /\ lapsed \in [Element -> Nat] /\ dropping \in Element \cup {None} /\ None \notin Element
      /\ \A m \in mail : m.type = "transferred" => m.obj \in Element
      /\ \A v \in Worker : wk[v].pc \in Receiving => wk[v].obj \in Element
      /\ \A b \in Bowl : bowl[b].elements \cup bowl[b].used \subseteq Element
      /\ BagElements /\ BagMail /\ BagContents /\ \A w \in Worker : BagHandler(w)
  BY CombinerAssumption DEF BagIInv, BagInv, PoolIInv, TypeOK, MailOK, HandleOK, BowlOK, Valid
<1>3. ASSUME NEW x \in Element, Drop(x) PROVE BagInv'
  <2>1. /\ owner[x] = "player" /\ dropping = None /\ dropping' = x
        /\ owner' = [owner EXCEPT ![x] = "both"] /\ tip' = [tip EXCEPT ![x] = @ + 1]
        /\ mail' = mail \cup {[type |-> "transferred", obj |-> x, at |-> tip[x] + 1]}
        /\ lapsed' = lapsed /\ TakenBack' = TakenBack
    BY <1>3 DEF Drop, Own, TakenBack
  <2>2. /\ owner'[x] = "both" /\ tip'[x] = tip[x] + 1 /\ tip'[x] # 0
        /\ \A e \in Element : e # x => owner'[e] = owner[e] /\ tip'[e] = tip[e]
        /\ \A e \in Element : tip[e] # 0 => tip'[e] # 0
    BY <1>2, <2>1
  <2>3. x \in TakenBack \/ tip[x] = 0
    BY <1>2, <2>1 DEF BagElements
  <2>4. BagElements'
    BY <1>2, <2>1, <2>2 DEF BagElements
  <2>5. BagMail'
    <3>1. ASSUME NEW m \in mail, m.type = "transferred"
          PROVE  /\ tip'[m.obj] # 0
                 /\ m.obj \in TakenBack' \/ (owner'[m.obj] = "both" /\ m.at = tip'[m.obj])
      BY <1>2, <2>1, <2>2, <2>3, <3>1 DEF BagMail
    <3> QED
      BY <2>1, <2>2, <3>1 DEF BagMail
  <2>6. ASSUME NEW v \in Worker PROVE BagHandler(v)'
    <3> SUFFICES ASSUME wk[v].pc \in Receiving PROVE BagHandler(v)'
      BY <1>1 DEF BagHandler
    <3>1. /\ wk[v].obj \in Element /\ tip[wk[v].obj] # 0
          /\ wk[v].obj \in TakenBack \/ (Sole(v) /\ Signable(v))
          /\ wk[v].pc = "add" => owner[wk[v].obj] = "court"
      BY <1>2 DEF BagHandler
    <3>2. wk[v].obj # x \/ wk[v].obj \in TakenBack
      BY <2>3, <3>1
    <3>3. wk[v].obj # x => (Sole(v) => Sole(v)') /\ (Signable(v) => Signable(v)')
      BY <1>1, <2>1, <2>2, <3>1 DEF Sole, Signable
    <3>4. wk[v].pc = "add" => owner'[wk[v].obj] = "court"
      BY <2>1, <2>2, <3>1
    <3> QED
      BY <1>1, <2>1, <2>2, <3>1, <3>2, <3>3, <3>4 DEF BagHandler
  <2>7. BagContents'
    BY <1>1, <1>2, <2>1, <2>2 DEF BagContents, Valid
  <2> QED
    BY <2>4, <2>5, <2>6, <2>7 DEF BagInv
<1>4. ASSUME DropLapses PROVE BagInv'
  <2> DEFINE x == dropping
  <2>1. /\ x \in Element /\ owner[x] = "both" /\ dropping' = None
        /\ owner' = [owner EXCEPT ![x] = "player"] /\ tip' = [tip EXCEPT ![x] = @ + 1]
        /\ mail' = mail /\ lapsed' = [lapsed EXCEPT ![x] = @ + 1]
    BY <1>2, <1>4 DEF DropLapses, Own
  <2> HIDE DEF x
  <2>2. /\ owner'[x] = "player" /\ tip'[x] = tip[x] + 1 /\ tip'[x] # 0
        /\ \A e \in Element : e # x => owner'[e] = owner[e] /\ tip'[e] = tip[e]
        /\ \A e \in Element : tip[e] # 0 => tip'[e] # 0
    BY <1>2, <2>1
  <2>3. x \in TakenBack' /\ TakenBack \subseteq TakenBack'
    BY <1>2, <2>1 DEF TakenBack
  <2>4. BagElements'
    <3>1. \A e \in Element : owner[e] = "both" => e = x
      BY <1>2 DEF BagElements, x
    <3> QED
      BY <1>2, <2>1, <2>2, <2>3, <3>1 DEF BagElements
  <2>5. BagMail'
    BY <1>2, <2>1, <2>2, <2>3 DEF BagMail
  <2>6. ASSUME NEW v \in Worker PROVE BagHandler(v)'
    <3> SUFFICES ASSUME wk[v].pc \in Receiving PROVE BagHandler(v)'
      BY <1>1 DEF BagHandler
    <3>1. /\ wk[v].obj \in Element /\ tip[wk[v].obj] # 0
          /\ wk[v].obj \in TakenBack \/ (Sole(v) /\ Signable(v))
          /\ wk[v].pc = "add" => owner[wk[v].obj] = "court"
      BY <1>2 DEF BagHandler
    <3>2. wk[v].obj # x => (Sole(v) => Sole(v)') /\ (Signable(v) => Signable(v)')
      BY <1>1, <2>1, <2>2, <3>1 DEF Sole, Signable
    <3>3. wk[v].pc = "add" => owner'[wk[v].obj] = "court"
      BY <2>1, <2>2, <3>1
    <3> QED
      BY <1>1, <2>1, <2>2, <2>3, <3>1, <3>2, <3>3 DEF BagHandler
  <2>7. BagContents'
    <3>1. \A e \in taken : e \in Element /\ owner'[e] = "court"
      BY <1>2, <2>1, <2>2 DEF BagContents, Valid
    <3> QED
      BY <1>1, <1>2, <2>2, <2>3, <3>1 DEF BagContents
  <2> QED
    BY <2>4, <2>5, <2>6, <2>7 DEF BagInv
<1>5. ASSUME DropConfirmed PROVE BagInv'
  <2>1. UNCHANGED <<owner, tip, lapsed, mail>> /\ TakenBack' = TakenBack /\ owner[dropping] # "both"
    BY <1>5 DEF DropConfirmed, TakenBack
  <2>2. BagElements' /\ BagMail' /\ BagContents'
    BY <1>1, <1>2, <2>1 DEF BagElements, BagMail, BagContents
  <2>3. ASSUME NEW v \in Worker PROVE BagHandler(v)'
    BY <1>1, <1>2, <2>1 DEF BagHandler, Sole, Signable
  <2> QED
    BY <2>2, <2>3 DEF BagInv
<1>6. ASSUME SubmitOffering \/ \E m \in mail : LoseRequest(m) PROVE BagInv'
  <2>1. UNCHANGED <<owner, tip, dropping, lapsed>> /\ TakenBack' = TakenBack
    BY <1>6 DEF SubmitOffering, LoseRequest, drop, TakenBack
  <2>2. \A m \in mail' : m.type = "transferred" => m \in mail
    BY <1>6 DEF SubmitOffering, LoseRequest
  <2>3. BagElements' /\ BagMail' /\ BagContents'
    BY <1>1, <1>2, <2>1, <2>2 DEF BagElements, BagMail, BagContents
  <2>4. ASSUME NEW v \in Worker PROVE BagHandler(v)'
    BY <1>1, <1>2, <2>1, <2>2 DEF BagHandler, Sole, Signable
  <2> QED
    BY <2>3, <2>4 DEF BagInv
<1> QED
  BY <1>3, <1>4, <1>5, <1>6 DEF PlayerMoves

\* Every step keeps what the handlers know of the elements.
LEMMA BagNext == BagIInv /\ [Next]_vars => BagIInv'
<1> SUFFICES ASSUME BagIInv, [Next]_vars PROVE BagIInv'
  OBVIOUS
<1>1. PoolIInv'
  BY PoolNext DEF BagIInv
<1>2. CASE PlayerMoves
  BY <1>1, <1>2, BagMoves DEF BagIInv
<1>3. ASSUME NEW w \in Worker, Handle(w) \/ CallFails(w) PROVE BagInv'
  <2>1. ASSUME NEW m \in mail, Take(w, m) PROVE BagInv'
    BY <2>1, BagTakes
  <2> QED
    BY <1>3, <2>1, BagReceives, BagBlocks, BagGrants DEF Handle
<1>4. CASE UNCHANGED vars
  <2>1. /\ UNCHANGED <<bowl, owner, tip, dropping, lapsed, mail, wk, taken, outrun>>
        /\ TakenBack' = TakenBack
    BY <1>4 DEF vars, TakenBack
  <2>2. BagElements' /\ BagMail' /\ BagContents'
    BY <2>1 DEF BagIInv, BagInv, BagElements, BagMail, BagContents
  <2>3. ASSUME NEW v \in Worker PROVE BagHandler(v)'
    BY <2>1 DEF BagIInv, BagInv, BagHandler, Sole, Signable
  <2> QED
    BY <1>1, <2>2, <2>3 DEF BagIInv, BagInv
<1> QED
  BY <1>1, <1>2, <1>3, <1>4 DEF Next, PlayerMoves, BagIInv

\* Nothing has left the player's bag yet.
LEMMA BagInit == Init => BagIInv
<1> SUFFICES ASSUME Init PROVE BagIInv
  OBVIOUS
<1>1. \A w \in Worker : wk[w].pc = "idle"
  BY DEF Init, Idle
<1>2. \A b \in Bowl : bowl[b].elements = {} /\ bowl[b].used = {}
  BY DEF Init, NoTree
<1>3. BagElements /\ BagMail /\ BagContents
  BY <1>2 DEF Init, BagElements, BagMail, BagContents
<1>4. \A w \in Worker : BagHandler(w)
  BY <1>1 DEF BagHandler, Receiving
<1> QED
  BY <1>3, <1>4, PoolInit DEF BagIInv, BagInv

\* What the pool and the player's bag keep true of an element however they race: until
\* the bag takes it back, one handler at most is at it, and the network lets it sign.
THEOREM BagInductive == Spec => []BagIInv
<1> QED
  BY BagInit, BagNext, PTL DEF Spec

---------------------------------------------------------------------------
(* One handler at a time: what a step of the handler at work has to show. *)

\* A handler that is not idle is the only one.
LEMMA Alone ==
    ASSUME SequentialInv, NEW w \in Worker, wk[w].pc # "idle"
    PROVE  /\ \A v \in Worker : v # w => wk[v].pc = "idle"
           /\ AloneOK(w)
           /\ ~stranded /\ wk[w].pc # "created" => \A b \in Bowl : bowl[b].owner # "key"
           /\ ~stranded => \A b \in Bowl : bowl[b].owner = "key" => wk[w].b = b
<1>1. \A v \in Worker : v # w => wk[v].pc = "idle"
  BY DEF SequentialInv, OneAtWork
<1>2. \A v \in Worker : wk[v].pc = "created" => v = w
  BY <1>1
<1> QED
  BY <1>1, <1>2 DEF SequentialInv, KeyIsNew

\* The handler that moves is the only one at work, before and after.
LEMMA Assemble ==
    ASSUME NEW w \in Worker, Only(w), \A v \in Worker : v # w => wk[v].pc = "idle",
           AloneOK(w)', ListedIsReady', KeyIsNew', InBowl', Repaired'
    PROVE  SequentialInv'
<1>1. \A v \in Worker : v # w => wk'[v].pc = "idle"
  BY DEF Only
<1>2. OneAtWork'
  BY <1>1 DEF OneAtWork
<1>3. ASSUME NEW v \in Worker PROVE AloneOK(v)'
  <2>1. CASE v = w
    BY <2>1
  <2>2. CASE v # w
    BY <1>1, <2>2 DEF AloneOK, Undressed
  <2> QED
    BY <2>1, <2>2
<1> QED
  BY <1>2, <1>3 DEF SequentialInv

\* An idle handler knows nothing.
LEMMA IdleAlone ==
    ASSUME NEW w \in Worker, wk'[w].pc = "idle" PROVE AloneOK(w)'
  BY DEF AloneOK, Undressed

\* A block on a bowl that keeps what has to stay.
LEMMA AloneWrites ==
    ASSUME CombinerIInv, ~overlap, NEW w \in Worker, NEW new \in Tree, NEW pc,
           wk[w].pc \notin {"idle", "created", "chown"}, wk[w].b \in Bowl,
           Wrote(w, new, pc), Rest, AloneOK(w)',
           Listed = wk[w].b =>
               new.name # "" /\ Names(bowl[wk[w].b].elements) \subseteq Names(new.elements)
    PROVE  SequentialInv'
<1> DEFINE b == wk[w].b
<1>1. SequentialInv /\ Listed \in Bowl \cup {0}
  BY Types DEF CombinerIInv, PoolIInv
<1>2. /\ Only(w) /\ slot' = slot /\ Listed' = Listed /\ wk'[w].pc = pc /\ wk'[w].obj = wk[w].obj
      /\ \A c \in Bowl : c # b => bowl'[c] = bowl[c]
      /\ bowl'[b].name = new.name /\ bowl'[b].owner = "court"
      /\ bowl'[b].elements = new.elements /\ bowl'[b].used = new.used
  BY DEF Wrote, Listed
<1>3. UNCHANGED <<taken, spent, refused, stranded, faults>>
  BY DEF Rest, ghosts
<1>4. ListedIsReady'
  BY <1>1, <1>2 DEF SequentialInv, ListedIsReady
<1>5. KeyIsNew'
  BY <1>1, <1>2, <1>3, Alone DEF KeyIsNew
<1>6. InBowl'
  BY <1>1, <1>2, <1>3 DEF SequentialInv, InBowl
<1>8. Repaired'
  BY <1>1, <1>3 DEF SequentialInv, Repaired
<1> QED
  BY <1>1, <1>2, <1>4, <1>5, <1>6, <1>8, Alone, Assemble

---------------------------------------------------------------------------
(* The statements of a handler that works alone. *)

\* After a reset the bowl is as good as new.
LEMMA ResetAlone ==
    ASSUME CombinerIInv, ~overlap, NEW w \in Worker, ResetBowl(w)
    PROVE  SequentialInv'
<1> DEFINE b == wk[w].b
<1>1. wk[w].pc = "reset" /\ Rest /\ slot' = slot
  BY DEF ResetBowl, Rest
<1>2. PICK new \in Tree : Wrote(w, new, "name") /\ ResetBowlMakes(new, bowl[b], wk[w].obj)
  BY ResetStep DEF CombinerIInv
<1>3. b \in Bowl /\ MayWrite(w)
  BY ResetStep DEF CombinerIInv
<1>4. SequentialInv /\ AloneOK(w)
  BY <1>1, Alone DEF CombinerIInv
<1>5. /\ wk'[w].pc = "name" /\ wk'[w].b = b /\ wk'[w].obj = wk[w].obj /\ wk'[w].at = wk[w].at
      /\ slot' = slot /\ Listed' = Listed /\ bowl'[b].owner = "court"
      /\ bowl'[b].height = wk'[w].h /\ bowl'[b].name = new.name /\ bowl'[b].elements = new.elements
  BY <1>2 DEF Wrote, Listed
<1>6. Undressed(w)'
  <2>1. bowl'[b].dressed <=> new.dressed
    BY <1>2 DEF Wrote
  <2>2. ~new.dressed
    BY <1>2 DEF ResetBowlMakes
  <2> QED
    BY <1>5, <2>1, <2>2, Zenon DEF Undressed
<1>8. AloneOK(w)'
  BY <1>1, <1>4, <1>5, <1>6 DEF AloneOK, Current
<1>9. Listed # b
  <2>1. Listed = 0
    BY <1>1, <1>4 DEF AloneOK
  <2> QED
    BY <1>3, <2>1 DEF Bowl
<1> QED
  BY <1>1, <1>2, <1>3, <1>8, <1>9, AloneWrites DEF ResetBowlMakes

\* The bowl has a name.
LEMMA NameAlone ==
    ASSUME CombinerIInv, ~overlap, NEW w \in Worker, NameBowl(w)
    PROVE  SequentialInv'
<1> DEFINE b == wk[w].b
<1>1. wk[w].pc = "name" /\ Rest /\ slot' = slot
  BY DEF NameBowl, Rest
<1>2. PICK new \in Tree : Wrote(w, new, "interactions") /\ NameBowlMakes(new, bowl[b], wk[w].obj)
  BY NameStep DEF CombinerIInv
<1>3. b \in Bowl /\ MayWrite(w)
  BY NameStep DEF CombinerIInv
<1>4. SequentialInv /\ AloneOK(w)
  BY <1>1, Alone DEF CombinerIInv
<1>5. /\ wk'[w].pc = "interactions" /\ wk'[w].b = b /\ wk'[w].obj = wk[w].obj /\ wk'[w].at = wk[w].at
      /\ slot' = slot /\ Listed' = Listed /\ bowl'[b].owner = "court"
      /\ bowl'[b].height = wk'[w].h /\ bowl'[b].name = new.name /\ bowl'[b].elements = new.elements
  BY <1>2 DEF Wrote, Listed
<1>6. Undressed(w)'
  <2>1. bowl'[b].dressed <=> new.dressed
    BY <1>2 DEF Wrote
  <2>2. new.dressed <=> bowl[b].dressed
    BY <1>2 DEF NameBowlMakes
  <2>3. ~bowl[b].dressed
    BY <1>1, <1>4 DEF AloneOK, Undressed
  <2> QED
    BY <1>5, <2>1, <2>2, <2>3, Zenon DEF Undressed
<1>7. new.name # ""
  BY <1>2 DEF NameBowlMakes
<1>8. AloneOK(w)'
  BY <1>1, <1>4, <1>5, <1>6, <1>7 DEF AloneOK, Current
<1>9. Listed # b
  <2>1. Listed = 0
    BY <1>1, <1>4 DEF AloneOK
  <2> QED
    BY <1>3, <2>1 DEF Bowl
<1> QED
  BY <1>1, <1>2, <1>3, <1>8, <1>9, AloneWrites DEF NameBowlMakes

\* The bowl keeps its name.
LEMMA DressAlone ==
    ASSUME CombinerIInv, ~overlap, NEW w \in Worker, DressBowl(w)
    PROVE  SequentialInv'
<1> DEFINE b == wk[w].b
<1>1. wk[w].pc = "interactions" /\ Rest /\ slot' = slot
  BY DEF DressBowl, Rest
<1>2. PICK new \in Tree : Wrote(w, new, "player") /\ DressBowlMakes(new, bowl[b], wk[w].obj)
  BY DressStep DEF CombinerIInv
<1>3. b \in Bowl /\ MayWrite(w)
  BY DressStep DEF CombinerIInv
<1>4. SequentialInv /\ AloneOK(w)
  BY <1>1, Alone DEF CombinerIInv
<1>5. /\ wk'[w].pc = "player" /\ wk'[w].b = b /\ wk'[w].obj = wk[w].obj /\ wk'[w].at = wk[w].at
      /\ slot' = slot /\ Listed' = Listed /\ bowl'[b].owner = "court"
      /\ bowl'[b].height = wk'[w].h /\ bowl'[b].name = new.name /\ bowl'[b].elements = new.elements
  BY <1>2 DEF Wrote, Listed
<1>6. Undressed(w)'
  BY <1>5 DEF Undressed
<1>7. new.name = bowl[b].name
  BY <1>2 DEF DressBowlMakes
<1>8. AloneOK(w)'
  BY <1>1, <1>4, <1>5, <1>6, <1>7 DEF AloneOK, Current
<1>9. Listed # b
  <2>1. Listed = 0
    BY <1>1, <1>4 DEF AloneOK
  <2> QED
    BY <1>3, <2>1 DEF Bowl
<1> QED
  BY <1>1, <1>2, <1>3, <1>8, <1>9, AloneWrites DEF DressBowlMakes

\* The bowl is ready for an element.
LEMMA SetPlayerAlone ==
    ASSUME CombinerIInv, ~overlap, NEW w \in Worker, SetPlayer(w)
    PROVE  SequentialInv'
<1> DEFINE b == wk[w].b
<1>1. wk[w].pc = "player" /\ Rest /\ slot' = slot
  BY DEF SetPlayer, Rest
<1>2. PICK new \in Tree : Wrote(w, new, "element") /\ SetPlayerMakes(new, bowl[b], wk[w].obj)
  BY SetPlayerStep DEF CombinerIInv
<1>3. b \in Bowl /\ MayWrite(w)
  BY SetPlayerStep DEF CombinerIInv
<1>4. SequentialInv /\ AloneOK(w)
  BY <1>1, Alone DEF CombinerIInv
<1>5. /\ wk'[w].pc = "element" /\ wk'[w].b = b /\ wk'[w].obj = wk[w].obj /\ wk'[w].at = wk[w].at
      /\ slot' = slot /\ Listed' = Listed /\ bowl'[b].owner = "court"
      /\ bowl'[b].height = wk'[w].h /\ bowl'[b].name = new.name /\ bowl'[b].elements = new.elements
  BY <1>2 DEF Wrote, Listed
<1>6. Undressed(w)'
  BY <1>5 DEF Undressed
<1>7. new.name = bowl[b].name
  BY <1>2 DEF SetPlayerMakes
<1>8. AloneOK(w)'
  BY <1>1, <1>4, <1>5, <1>6, <1>7 DEF AloneOK, Current
<1>9. Listed # b
  <2>1. Listed = 0
    BY <1>1, <1>4 DEF AloneOK
  <2> QED
    BY <1>3, <2>1 DEF Bowl
<1> QED
  BY <1>1, <1>2, <1>3, <1>8, <1>9, AloneWrites DEF SetPlayerMakes

\* The element is in the bowl, and so is one of every name that was.
LEMMA PutAlone ==
    ASSUME CombinerIInv, ~overlap, NEW w \in Worker, PutElement(w)
    PROVE  SequentialInv'
<1> DEFINE b == wk[w].b
<1>1. wk[w].pc = "element" /\ Rest /\ slot' = slot
  BY DEF PutElement, Rest
<1>2. PICK new \in Tree : Wrote(w, new, "describe") /\ PutElementMakes(new, bowl[b], wk[w].obj)
  BY PutStep DEF CombinerIInv
<1>3. b \in Bowl /\ MayWrite(w)
  BY PutStep DEF CombinerIInv
<1>4. SequentialInv /\ AloneOK(w)
  BY <1>1, Alone DEF CombinerIInv
<1>5. /\ wk'[w].pc = "describe" /\ wk'[w].b = b /\ wk'[w].obj = wk[w].obj /\ wk'[w].at = wk[w].at
      /\ slot' = slot /\ Listed' = Listed /\ bowl'[b].owner = "court"
      /\ bowl'[b].height = wk'[w].h /\ bowl'[b].name = new.name /\ bowl'[b].elements = new.elements
  BY <1>2 DEF Wrote, Listed
<1>6. Undressed(w)'
  BY <1>5 DEF Undressed
<1>7. new.name = bowl[b].name
  BY <1>2 DEF PutElementMakes
<1>7a. /\ Kind[wk[w].obj] \in Names(new.elements)
       /\ Names(bowl[b].elements) \subseteq Names(new.elements)
  BY <1>2 DEF PutElementMakes, Names
<1>8. AloneOK(w)'
  BY <1>1, <1>4, <1>5, <1>6, <1>7, <1>7a DEF AloneOK, Current
<1>9. Listed = b => new.name # "" /\ Names(bowl[b].elements) \subseteq Names(new.elements)
  BY <1>1, <1>2, <1>3, <1>4, <1>7, <1>7a DEF AloneOK, Bowl, Names
<1> QED
  BY <1>1, <1>2, <1>3, <1>8, <1>9, AloneWrites DEF PutElementMakes

\* The bowl keeps what is in it.
LEMMA DescribeAlone ==
    ASSUME CombinerIInv, ~overlap, NEW w \in Worker, DescribeBowl(w)
    PROVE  SequentialInv'
<1> DEFINE b == wk[w].b
<1>1. wk[w].pc = "describe" /\ Rest /\ slot' = slot
  BY DEF DescribeBowl, Rest
<1>2. PICK new \in Tree : Wrote(w, new, "chown") /\ DescribeBowlMakes(new, bowl[b], wk[w].obj)
  BY DescribeStep DEF CombinerIInv
<1>3. b \in Bowl /\ MayWrite(w)
  BY DescribeStep DEF CombinerIInv
<1>4. SequentialInv /\ AloneOK(w)
  BY <1>1, Alone DEF CombinerIInv
<1>5. /\ wk'[w].pc = "chown" /\ wk'[w].b = b /\ wk'[w].obj = wk[w].obj /\ wk'[w].at = wk[w].at
      /\ slot' = slot /\ Listed' = Listed /\ bowl'[b].owner = "court"
      /\ bowl'[b].height = wk'[w].h /\ bowl'[b].name = new.name /\ bowl'[b].elements = new.elements
  BY <1>2 DEF Wrote, Listed
<1>6. Undressed(w)'
  BY <1>5 DEF Undressed
<1>7. new.name = bowl[b].name
  BY <1>2 DEF DescribeBowlMakes
<1>7a. new.elements = bowl[b].elements
  BY <1>2 DEF DescribeBowlMakes
<1>8. AloneOK(w)'
  BY <1>1, <1>4, <1>5, <1>6, <1>7, <1>7a DEF AloneOK, Current
<1>9. Listed = b => new.name # "" /\ Names(bowl[b].elements) \subseteq Names(new.elements)
  BY <1>1, <1>2, <1>3, <1>4, <1>7, <1>7a DEF AloneOK, Bowl, Names
<1> QED
  BY <1>1, <1>2, <1>3, <1>8, <1>9, AloneWrites DEF DescribeBowlMakes

\* The bowl that is erased is not in the inventory.
LEMMA WipeAlone ==
    ASSUME CombinerIInv, ~overlap, NEW w \in Worker, WipeBowl(w)
    PROVE  SequentialInv'
<1> DEFINE b == wk[w].b
<1>1. wk[w].pc = "wipe" /\ Rest /\ slot' = slot
  BY DEF WipeBowl, Rest
<1>2. PICK new \in Tree : Wrote(w, new, "rename") /\ new.elements = {} /\ new.used = bowl[b].elements
  BY WipeStep DEF CombinerIInv
<1>3. b \in Bowl /\ MayWrite(w)
  BY WipeStep DEF CombinerIInv
<1>4. SequentialInv /\ AloneOK(w)
  BY <1>1, Alone DEF CombinerIInv
<1>5. /\ wk'[w].pc = "rename" /\ wk'[w].b = b /\ wk'[w].obj = wk[w].obj /\ wk'[w].at = wk[w].at
      /\ slot' = slot /\ Listed' = Listed /\ bowl'[b].owner = "court"
      /\ bowl'[b].height = wk'[w].h /\ bowl'[b].name = new.name /\ bowl'[b].elements = new.elements
  BY <1>2 DEF Wrote, Listed
<1>6. Undressed(w)'
  BY <1>5 DEF Undressed
<1>8. AloneOK(w)'
  BY <1>1, <1>4, <1>5, <1>6 DEF AloneOK, Current
<1>9. Listed # b
  <2>1. Listed = 0
    BY <1>1, <1>4 DEF AloneOK
  <2> QED
    BY <1>3, <2>1 DEF Bowl
<1> QED
  BY <1>1, <1>2, <1>3, <1>8, <1>9, AloneWrites

\* The bowl that becomes an object is not in the inventory.
LEMMA RenameAlone ==
    ASSUME CombinerIInv, ~overlap, NEW w \in Worker, RenameBowl(w)
    PROVE  SequentialInv'
<1> DEFINE b == wk[w].b
<1>1. wk[w].pc = "rename" /\ Rest /\ slot' = slot
  BY DEF RenameBowl, Rest
<1>2. PICK new \in Tree : Wrote(w, new, "grant") /\ new.elements = bowl[b].elements /\ new.used = bowl[b].used
  BY RenameStep DEF CombinerIInv
<1>3. b \in Bowl /\ MayWrite(w)
  BY RenameStep DEF CombinerIInv
<1>4. SequentialInv /\ AloneOK(w)
  BY <1>1, Alone DEF CombinerIInv
<1>5. /\ wk'[w].pc = "grant" /\ wk'[w].b = b /\ wk'[w].obj = wk[w].obj /\ wk'[w].at = wk[w].at
      /\ slot' = slot /\ Listed' = Listed /\ bowl'[b].owner = "court"
      /\ bowl'[b].height = wk'[w].h /\ bowl'[b].name = new.name /\ bowl'[b].elements = new.elements
  BY <1>2 DEF Wrote, Listed
<1>6. Undressed(w)'
  BY <1>5 DEF Undressed
<1>8. AloneOK(w)'
  BY <1>1, <1>4, <1>5, <1>6 DEF AloneOK, Current
<1>9. Listed # b
  <2>1. Listed = 0
    BY <1>1, <1>4 DEF AloneOK
  <2> QED
    BY <1>3, <2>1 DEF Bowl
<1> QED
  BY <1>1, <1>2, <1>3, <1>8, <1>9, AloneWrites

\* The trees and the ghosts stay, and so do the inventory and who owns what is in a bowl.
LEMMA Undisturbed ==
    ASSUME SequentialInv, NEW w \in Worker, wk[w].pc # "idle",
           UNCHANGED <<slot, bowl, stranded, taken, spent>>
    PROVE  ListedIsReady' /\ InBowl' /\ (wk[w].pc # "created" => KeyIsNew')
<1>1. ListedIsReady' /\ InBowl'
  BY DEF SequentialInv, ListedIsReady, InBowl, Listed
<1>2. wk[w].pc # "created" => KeyIsNew'
  BY Alone DEF KeyIsNew
<1> QED
  BY <1>1, <1>2

\* A handler that rejects an element leaves the bowls as they are.
LEMMA RejectAlone ==
    ASSUME CombinerIInv, ~overlap, NEW w \in Worker, RejectElement(w)
    PROVE  SequentialInv'
<1>1. wk[w].pc = "bowl" /\ UNCHANGED <<slot, bowl, taken, spent, refused, stranded, faults>>
  BY DEF RejectElement, ghosts
<1>2. SequentialInv /\ PoolIInv /\ Only(w) /\ wk'[w].pc = "idle"
  BY RejectStep DEF CombinerIInv
<1>5. ListedIsReady' /\ InBowl' /\ KeyIsNew'
  BY <1>1, <1>2, Undisturbed
<1>6. Repaired'
  BY <1>1, <1>2 DEF SequentialInv, Repaired
<1> QED
  BY <1>1, <1>2, <1>5, <1>6, Alone, IdleAlone, Assemble

\* The bowl that is listed is ready, and one that is not is the court's unless a
\* failure stranded it.
LEMMA FindAlone ==
    ASSUME CombinerIInv, ~overlap, NEW w \in Worker, FindBowl(w)
    PROVE  SequentialInv'
<1> DEFINE b == wk'[w].b
<1>1. UNCHANGED <<slot, bowl, taken, spent, refused, stranded, faults>>
  BY DEF FindBowl, ghosts
<1>2. /\ Only(w) /\ wk'[w].at = wk[w].at /\ b \in Bowl /\ wk'[w].h = bowl[b].height
      /\ wk[w].pc = "bowl" /\ bowl[b].owner # "none"
      /\ \/ slot[wk[w].at] # 0 /\ b = slot[wk[w].at] /\ wk'[w].pc = "element"
         \/ /\ slot[wk[w].at] = 0 /\ b = wk[w].at
            /\ \/ bowl[b].height > 1 /\ wk'[w].pc = "reset"
               \/ ~(bowl[b].height > 1) /\ wk'[w].pc = "name"
  BY FindStep DEF CombinerIInv
<1>3. SequentialInv /\ AloneOK(w) /\ PoolIInv
  BY <1>2, Alone DEF CombinerIInv
<1>4. wk[w].at = Len(slot) /\ Len(slot) \in Nat
  BY <1>2, <1>3, Types DEF AloneOK, PoolIInv
<1>5. /\ bowl[b].owner \in {"none", "key", "court", "player"} /\ bowl[b].height \in Nat
  BY <1>2, <1>3, Types DEF PoolIInv
<1>6. AloneOK(w)'
  <2>1. CASE slot[wk[w].at] # 0
    <3>1. Listed = b /\ wk'[w].pc = "element" /\ bowl[b].owner = "court" /\ bowl[b].name # ""
      BY <1>2, <1>3, <1>4, <2>1 DEF Listed, SequentialInv, ListedIsReady
    <3>2. Undressed(w)'
      BY <3>1 DEF Undressed
    <3>3. Listed' = Listed /\ wk'[w].at = Len(slot')
      BY <1>1, <1>2, <1>4 DEF Listed
    <3> QED
      BY <1>1, <1>2, <3>1, <3>2, <3>3 DEF AloneOK, Current
  <2>2. CASE slot[wk[w].at] = 0
    <3>1. Listed = 0 /\ b = Len(slot) /\ wk'[w].pc \in {"reset", "name"}
      BY <1>2, <1>4, <2>2 DEF Listed
    <3>2. bowl[b].owner # "player"
      BY <1>2, <1>3, <1>4, <3>1 DEF PoolIInv, BowlOK
    <3>3. bowl[b].owner = "court" \/ (stranded /\ bowl[b].owner = "key")
      <4>1. ~stranded => bowl[b].owner # "key"
        BY <1>2, <1>3, Alone
      <4>2. stranded \in BOOLEAN
        BY <1>3 DEF PoolIInv, TypeOK
      <4> QED
        BY <1>2, <1>5, <3>2, <4>1, <4>2
    <3>4. wk'[w].pc = "name" => bowl[b].height <= 1
      BY <1>2, <1>5
    <3>5. wk'[w].pc = "name" => ~bowl[b].dressed
      BY <1>2, <1>3, <3>4 DEF PoolIInv, BowlOK
    <3>6. Undressed(w)'
      BY <1>1, <3>1, <3>5 DEF Undressed
    <3>7. Listed' = Listed /\ wk'[w].at = Len(slot') /\ b = wk'[w].at
      BY <1>1, <1>2, <1>4, <3>1 DEF Listed
    <3> QED
      BY <1>1, <1>2, <3>1, <3>3, <3>6, <3>7 DEF AloneOK, Current
  <2> QED
    BY <2>1, <2>2
<1>7. ListedIsReady' /\ InBowl' /\ KeyIsNew'
  BY <1>1, <1>2, <1>3, Undisturbed
<1>8. Repaired'
  BY <1>1, <1>3 DEF SequentialInv, Repaired
<1> QED
  BY <1>2, <1>3, <1>6, <1>7, <1>8, Alone, Assemble

\* The checks of a pick-up pass with the bowl that is listed.
LEMMA ChecksAlone ==
    ASSUME CombinerIInv, ~overlap, NEW w \in Worker, PickUpChecks(w)
    PROVE  SequentialInv'
<1> DEFINE b == wk'[w].b
<1>1. UNCHANGED <<slot, bowl, taken, spent, refused, stranded, faults>>
  BY DEF PickUpChecks, ghosts
<1>2. /\ Only(w) /\ wk[w].pc = "read"
      /\ \/ wk'[w].pc = "idle"
         \/ /\ wk'[w].pc \in {"refuse", "remove"} /\ wk'[w].at = wk[w].at
            /\ b \in Bowl /\ slot[wk[w].at] = b /\ wk'[w].h = bowl[b].height
  BY ChecksStep DEF CombinerIInv
<1>3. SequentialInv /\ AloneOK(w)
  BY <1>2, Alone DEF CombinerIInv
<1>4. wk[w].at = Len(slot)
  BY <1>2, <1>3 DEF AloneOK
<1>5. AloneOK(w)'
  <2>1. CASE wk'[w].pc = "idle"
    BY <2>1, IdleAlone
  <2>2. CASE wk'[w].pc # "idle"
    <3>1. Listed = b /\ bowl[b].owner = "court"
      <4>1. slot[wk[w].at] = b /\ b \in Bowl
        BY <1>2, <2>2
      <4>2. Listed = b /\ b # 0
        BY <1>4, <4>1 DEF Listed, Bowl
      <4> QED
        BY <1>3, <4>2 DEF SequentialInv, ListedIsReady
    <3>2. Undressed(w)'
      BY <1>2, <2>2 DEF Undressed
    <3>3. Listed' = Listed /\ wk'[w].at = Len(slot')
      BY <1>1, <1>2, <1>4, <2>2 DEF Listed
    <3> QED
      BY <1>1, <1>2, <2>2, <3>1, <3>2, <3>3 DEF AloneOK, Current
  <2> QED
    BY <2>1, <2>2
<1>6. ListedIsReady' /\ InBowl' /\ KeyIsNew'
  BY <1>1, <1>2, <1>3, Undisturbed
<1>7. Repaired'
  BY <1>1, <1>3 DEF SequentialInv, Repaired
<1> QED
  BY <1>2, <1>3, <1>5, <1>6, <1>7, Alone, Assemble

\* The first message of an idle pool.
LEMMA TakeAlone ==
    ASSUME CombinerIInv, ~overlap, ~overlap', NEW w \in Worker, NEW m \in mail, Take(w, m)
    PROVE  SequentialInv'
<1>1. UNCHANGED <<slot, bowl, taken, spent, refused, stranded, faults>>
  BY DEF Take
<1>2. Only(w) /\ wk[w].pc = "idle" /\ wk'[w].pc \in {"read", "bowl"} /\ wk'[w].at = Len(slot)
  <2>1. (IF m.type = "request" THEN "read" ELSE "bowl") \in {"read", "bowl"}
    OBVIOUS
  <2> QED
    BY <2>1, TakeStep DEF CombinerIInv
<1>3. \A v \in Worker : wk[v].pc = "idle"
  BY DEF Take
<1>4. SequentialInv
  BY DEF CombinerIInv
<1>5. AloneOK(w)'
  BY <1>1, <1>2 DEF AloneOK, Undressed
<1>6. ListedIsReady' /\ InBowl' /\ Repaired'
  BY <1>1, <1>4 DEF SequentialInv, ListedIsReady, InBowl, Repaired, Listed
<1>7. KeyIsNew'
  BY <1>1, <1>3, <1>4 DEF SequentialInv, KeyIsNew
<1> QED
  BY <1>2, <1>3, <1>5, <1>6, <1>7, Assemble

\* The player drops an element that no handler has, or asks for the bowl.
LEMMA PlayerAlone ==
    ASSUME CombinerIInv, ~overlap, PlayerMoves
    PROVE  SequentialInv'
<1>1. UNCHANGED <<slot, bowl, wk, taken, spent, refused, stranded, faults>>
  BY PlayerStep DEF CombinerIInv, ghosts
<1>2. SequentialInv /\ PoolIInv
  BY DEF CombinerIInv
<1>3. OneAtWork' /\ ListedIsReady' /\ InBowl' /\ Repaired' /\ KeyIsNew'
  BY <1>1, <1>2 DEF SequentialInv, OneAtWork, ListedIsReady, InBowl, Repaired, KeyIsNew, Listed
<1>4. ASSUME NEW w \in Worker PROVE AloneOK(w)'
  BY <1>1, <1>2 DEF SequentialInv, AloneOK, Undressed, Current, Listed
<1> QED
  BY <1>3, <1>4 DEF SequentialInv

\* The bowl that is created is the only one that belongs to its own key.
LEMMA CreateAlone ==
    ASSUME CombinerIInv, ~overlap, NEW w \in Worker, CreateBowl(w)
    PROVE  SequentialInv'
<1> DEFINE b == wk[w].at
<1>1. UNCHANGED <<slot, taken, spent, refused, stranded, faults>>
  BY DEF CreateBowl, ghosts
<1>2. /\ Only(w) /\ wk'[w].at = b /\ wk'[w].b = b /\ wk'[w].h = 0 /\ wk'[w].pc = "created"
      /\ wk[w].pc = "bowl" /\ b \in Bowl /\ slot[b] = 0 /\ bowl'[b].owner = "key"
      /\ \A c \in Bowl : c # b => bowl'[c] = bowl[c]
      /\ \A c \in Bowl : bowl'[c].elements = bowl[c].elements /\ bowl'[c].used = bowl[c].used
  BY CreateStep DEF CombinerIInv
<1>3. SequentialInv /\ AloneOK(w)
  BY <1>2, Alone DEF CombinerIInv
<1>4. b = Len(slot) /\ Listed = 0 /\ Listed' = 0
  <2>1. b = Len(slot)
    BY <1>2, <1>3 DEF AloneOK
  <2> QED
    BY <1>1, <1>2, <2>1 DEF Listed
<1>5. AloneOK(w)'
  BY <1>1, <1>2, <1>4 DEF AloneOK, Undressed
<1>6. ListedIsReady' /\ InBowl' /\ Repaired'
  BY <1>1, <1>3, <1>4 DEF SequentialInv, ListedIsReady, InBowl, Repaired
<1>7. KeyIsNew'
  BY <1>1, <1>2, <1>3, Alone DEF KeyIsNew
<1> QED
  BY <1>2, <1>3, <1>5, <1>6, <1>7, Alone, Assemble

\* The bowl becomes the court's.
LEMMA ChownBowlAlone ==
    ASSUME CombinerIInv, ~overlap, NEW w \in Worker, ChownBowl(w)
    PROVE  SequentialInv'
<1> DEFINE b == wk[w].b
<1>1. UNCHANGED <<slot, taken, spent, refused, stranded, faults>>
  BY DEF ChownBowl, ghosts
<1>2. /\ Only(w) /\ wk[w].pc = "created" /\ wk'[w].pc = "name" /\ b \in Bowl
      /\ wk'[w].b = b /\ wk'[w].h = wk[w].h /\ wk'[w].at = wk[w].at
      /\ bowl'[b].owner = "court" /\ bowl'[b].height = 0 /\ bowl[b].height = 0
      /\ \A c \in Bowl : c # b => bowl'[c] = bowl[c]
      /\ \A c \in Bowl : bowl'[c].elements = bowl[c].elements /\ bowl'[c].used = bowl[c].used
  BY ChownBowlStep DEF CombinerIInv
<1>3. SequentialInv /\ AloneOK(w) /\ PoolIInv
  BY <1>2, Alone DEF CombinerIInv
<1>4. /\ wk[w].at = Len(slot) /\ Listed = 0 /\ Listed' = 0 /\ wk[w].h = 0 /\ b = wk[w].at
  BY <1>1, <1>2, <1>3 DEF AloneOK, Listed
<1>5. AloneOK(w)'
  <2>1. ~bowl'[b].dressed
    <3>1. bowl[b].height <= 1
      BY <1>2
    <3>2. ~bowl[b].dressed
      BY <1>2, <1>3, <3>1 DEF PoolIInv, BowlOK
    <3>3. bowl'[b].dressed <=> bowl[b].dressed
      BY ChownBowlStep DEF CombinerIInv
    <3> QED
      BY <3>2, <3>3, Zenon
  <2>2. Undressed(w)'
    BY <1>2, <2>1 DEF Undressed
  <2> QED
    BY <1>1, <1>2, <1>4, <2>2 DEF AloneOK, Current
<1>6. ListedIsReady' /\ InBowl' /\ Repaired'
  BY <1>1, <1>3, <1>4 DEF SequentialInv, ListedIsReady, InBowl, Repaired
<1>7. KeyIsNew'
  BY <1>1, <1>2, <1>3, Alone DEF KeyIsNew
<1> QED
  BY <1>2, <1>3, <1>5, <1>6, <1>7, Alone, Assemble

\* The element is surrendered.
LEMMA ChownElementAlone ==
    ASSUME CombinerIInv, ~overlap, NEW w \in Worker, ChownElement(w)
    PROVE  SequentialInv'
<1>1. UNCHANGED <<slot, bowl, taken, spent, refused, stranded, faults>>
  BY DEF ChownElement, ghosts
<1>2. /\ Only(w) /\ wk[w].pc = "chown" /\ wk'[w].pc = "add" /\ wk[w].obj \in Element
      /\ wk'[w].b = wk[w].b /\ wk'[w].h = wk[w].h
      /\ wk'[w].obj = wk[w].obj /\ wk'[w].at = wk[w].at
  BY ChownElementStep DEF CombinerIInv
<1>3. SequentialInv /\ AloneOK(w) /\ PoolIInv
  BY <1>2, Alone DEF CombinerIInv
<1>4. Listed' = Listed
  BY <1>1 DEF Listed
<1>5. AloneOK(w)'
  BY <1>1, <1>2, <1>3, <1>4 DEF AloneOK, Undressed, Current
<1>6. ListedIsReady' /\ InBowl' /\ Repaired'
  BY <1>1, <1>3, <1>4 DEF SequentialInv, ListedIsReady, InBowl, Repaired
<1>7. KeyIsNew'
  BY <1>1, <1>2, <1>3, Alone DEF KeyIsNew
<1> QED
  BY <1>2, <1>3, <1>5, <1>6, <1>7, Alone, Assemble

\* The bowl that is listed holds what was accepted, and the new element.
LEMMA AddAlone ==
    ASSUME CombinerIInv, ~overlap, NEW w \in Worker, ForceAddBowl(w)
    PROVE  SequentialInv'
<1>1. /\ wk[w].pc = "add" /\ taken' = taken \cup {wk[w].obj}
      /\ UNCHANGED <<bowl, spent, refused, stranded, faults>>
  BY DEF ForceAddBowl, ghosts
<1>2. /\ Only(w) /\ wk'[w].pc = "idle" /\ wk[w].b \in Bowl /\ Listed' = wk[w].b
  BY AddStep DEF CombinerIInv
<1>3. SequentialInv /\ AloneOK(w)
  BY <1>1, Alone DEF CombinerIInv
<1>4. /\ bowl[wk[w].b].owner = "court" /\ bowl[wk[w].b].name # ""
      /\ Listed # 0 => wk[w].b = Listed
      /\ Kind[wk[w].obj] \in Names(bowl[wk[w].b].elements)
  BY <1>1, <1>3 DEF AloneOK, Current
<1>5. ListedIsReady' /\ Repaired'
  BY <1>1, <1>2, <1>3, <1>4 DEF SequentialInv, ListedIsReady, Repaired
<1>6. InBowl'
  <2>1. \A e \in taken \ spent : Kind[e] \in Names(bowl[wk[w].b].elements)
    BY <1>3, <1>4 DEF SequentialInv, InBowl
  <2>2. wk[w].b # 0
    BY <1>2 DEF Bowl
  <2> QED
    BY <1>1, <1>2, <1>4, <2>1, <2>2 DEF InBowl
<1>7. KeyIsNew'
  BY <1>1, <1>2, <1>3, Alone DEF KeyIsNew
<1> QED
  BY <1>1, <1>2, <1>3, <1>5, <1>6, <1>7, Alone, IdleAlone, Assemble

\* The inventory lists no bowl, and every accepted element is spent.
LEMMA RemoveAlone ==
    ASSUME CombinerIInv, ~overlap, NEW w \in Worker, ForfeitBowl(w) \/ HandInBowl(w)
    PROVE  SequentialInv'
<1>1. /\ wk[w].pc \in {"refuse", "remove"}
      /\ UNCHANGED <<bowl, taken, refused, stranded, faults>>
      /\ RemoveBowl(w) \/ UNCHANGED <<slot, spent>>
  BY DEF ForfeitBowl, HandInBowl, ghosts
<1>2. SequentialInv /\ AloneOK(w) /\ PoolIInv
  BY <1>1, Alone DEF CombinerIInv
<1>3. Listed = wk[w].b /\ Current(w)
  BY <1>1, <1>2 DEF AloneOK
<1>4. Only(w) /\ AloneOK(w)'
  <2>1. CASE ForfeitBowl(w)
    BY <1>2, <2>1, ForfeitStep, IdleAlone
  <2>2. CASE HandInBowl(w)
    <3>1. /\ Only(w) /\ wk'[w].pc = "wipe" /\ wk'[w].b = wk[w].b /\ wk'[w].h = wk[w].h
          /\ Listed' = 0
      BY <1>2, <2>2, HandInStep
    <3> QED
      BY <1>1, <1>3, <3>1 DEF AloneOK, Undressed, Current
  <2> QED
    BY <2>1, <2>2
<1>5. ListedIsReady' /\ InBowl'
  <2>1. CASE RemoveBowl(w)
    <3>1. Listed' = 0 /\ taken' \ spent' = {}
      BY <1>1, <1>2, <2>1, Types DEF RemoveBowl, Listed, PoolIInv
    <3> QED
      BY <3>1 DEF ListedIsReady, InBowl
  <2>2. CASE UNCHANGED <<slot, spent>>
    BY <1>1, <1>2, <2>2 DEF SequentialInv, ListedIsReady, InBowl, Listed
  <2> QED
    BY <1>1, <2>1, <2>2
<1>6. Repaired'
  BY <1>1, <1>2 DEF SequentialInv, Repaired
<1>7. KeyIsNew'
  BY <1>1, <1>2, Alone DEF KeyIsNew
<1> QED
  BY <1>1, <1>2, <1>4, <1>5, <1>6, <1>7, Alone, Assemble

\* The object that is handed out is not in the inventory.
LEMMA GrantAlone ==
    ASSUME CombinerIInv, ~overlap, NEW w \in Worker, GrantElement(w)
    PROVE  SequentialInv'
<1>1. UNCHANGED <<slot, taken, spent, refused, stranded, faults>>
  BY DEF GrantElement, ghosts
<1>2. /\ Only(w) /\ wk'[w].pc = "idle" /\ wk[w].pc = "grant"
      /\ wk[w].b \in Bowl /\ bowl'[wk[w].b].owner = "player"
      /\ bowl'[wk[w].b].used = bowl[wk[w].b].used
      /\ bowl'[wk[w].b].elements = bowl[wk[w].b].elements
      /\ \A c \in Bowl : c # wk[w].b => bowl'[c] = bowl[c]
  BY GrantStep DEF CombinerIInv
<1>3. SequentialInv /\ AloneOK(w)
  BY <1>2, Alone DEF CombinerIInv
<1>4. Listed = 0 /\ Listed' = 0
  BY <1>1, <1>2, <1>3 DEF AloneOK, Listed
<1>5. ListedIsReady' /\ InBowl' /\ Repaired'
  BY <1>1, <1>3, <1>4 DEF SequentialInv, ListedIsReady, InBowl, Repaired
<1>6. \A c \in Bowl : bowl'[c].used = bowl[c].used /\ bowl'[c].elements = bowl[c].elements
  BY <1>2
<1>7. KeyIsNew'
  BY <1>1, <1>2, <1>3, Alone DEF KeyIsNew
<1> QED
  BY <1>2, <1>3, <1>5, <1>7, Alone, IdleAlone, Assemble

\* A handler of a dropped element that works alone is only refused by a stranded bowl.
LEMMA ReceiveRefusedAlone ==
    ASSUME CombinerIInv, ~overlap, NEW w \in Worker, ReceiveRefused(w)
    PROVE  SequentialInv'
<1>1. UNCHANGED <<slot, bowl, taken, spent, stranded, faults>>
  BY DEF ReceiveRefused, ghosts
<1>2. Only(w) /\ wk'[w].pc = "idle"
  BY ReceiveRefusedStep DEF CombinerIInv
<1>3. wk[w].pc \in Receiving \ {"bowl"} /\ wk[w].pc # "idle" /\ wk[w].pc # "chown"
  BY DEF ReceiveRefused, Receiving
<1>4. SequentialInv /\ AloneOK(w) /\ stranded \in BOOLEAN
  BY <1>3, Alone DEF CombinerIInv, PoolIInv, TypeOK
<1>5. stranded
  <2> SUFFICES ASSUME ~stranded PROVE FALSE
    BY <1>4
  <2>1. ~(wk[w].pc = "created" /\ bowl[wk[w].b].owner # "key")
    BY <1>4 DEF AloneOK
  <2>2. wk[w].pc \in Receiving \ {"bowl", "created", "chown", "add"} => MayWrite(w)
    BY <1>4 DEF AloneOK, Current, MayWrite, Receiving
  <2>3. ~(wk[w].pc = "interactions" /\ bowl[wk[w].b].dressed)
    BY <1>4 DEF AloneOK, Undressed
  <2>4. wk[w].pc = "add" => MayAdd(w)
    BY <1>4 DEF AloneOK, MayAdd
  <2> QED
    BY <2>1, <2>2, <2>3, <2>4 DEF ReceiveRefused
<1>6. ListedIsReady' /\ InBowl' /\ Repaired' /\ KeyIsNew'
  BY <1>1, <1>4, <1>5 DEF SequentialInv, ListedIsReady, InBowl, Repaired, KeyIsNew, Listed
<1> QED
  BY <1>2, <1>3, <1>4, <1>6, Alone, IdleAlone, Assemble

\* A handler whose element the player's bag took back leaves the bowls as they are.
LEMMA ElementRefusedAlone ==
    ASSUME CombinerIInv, ~overlap, NEW w \in Worker, ElementRefused(w)
    PROVE  SequentialInv'
<1>1. UNCHANGED <<slot, bowl, taken, spent, refused, stranded>>
  BY DEF ElementRefused
<1>2. SequentialInv /\ PoolIInv /\ Only(w) /\ wk'[w].pc = "idle" /\ wk[w].pc \in {"bowl", "chown"}
  BY ElementRefusedStep DEF CombinerIInv
<1>3. ListedIsReady' /\ InBowl' /\ KeyIsNew'
  BY <1>1, <1>2, Undisturbed
<1>4. Repaired'
  BY <1>1, <1>2 DEF SequentialInv, Repaired
<1> QED
  BY <1>2, <1>3, <1>4, Alone, IdleAlone, Assemble

\* A handler of a pick-up that works alone is never refused.
LEMMA PickUpNotRefused ==
    ASSUME CombinerIInv, ~overlap, NEW w \in Worker
    PROVE  ~PickUpRefused(w)
<1> SUFFICES ASSUME PickUpRefused(w) PROVE FALSE
  OBVIOUS
<1>1. wk[w].pc \in {"remove", "wipe", "rename", "grant"}
  BY DEF PickUpRefused
<1>2. AloneOK(w)
  BY <1>1, Alone DEF CombinerIInv
<1>3. wk[w].pc = "remove" => MayRemove(w)
  BY <1>2 DEF AloneOK, MayRemove
<1>4. wk[w].pc \in {"wipe", "rename", "grant"} => MayWrite(w)
  BY <1>2 DEF AloneOK, Current, MayWrite
<1> QED
  BY <1>3, <1>4 DEF PickUpRefused

\* A failure leaves a bowl with its own key only where it strands it.
LEMMA FailAlone ==
    ASSUME CombinerIInv, ~overlap, NEW w \in Worker, CallFails(w)
    PROVE  SequentialInv'
<1>1. /\ UNCHANGED <<slot, bowl, taken, spent, refused>>
      /\ stranded' = (stranded \/ wk[w].pc = "created") /\ wk[w].pc # "idle"
  BY DEF CallFails, Receiving, Granting
<1>2. Only(w) /\ wk'[w].pc = "idle" /\ faults' \in Nat \ {0}
  BY FailStep DEF CombinerIInv
<1>3. SequentialInv /\ stranded \in BOOLEAN
  BY DEF CombinerIInv, PoolIInv, TypeOK
<1>4. ListedIsReady' /\ InBowl'
  BY <1>1, <1>3 DEF SequentialInv, ListedIsReady, InBowl, Listed
<1>5. Repaired'
  BY <1>1, <1>3 DEF SequentialInv, Repaired
<1>6. KeyIsNew'
  BY <1>1, <1>3, Alone DEF KeyIsNew
<1> QED
  BY <1>1, <1>2, <1>3, <1>4, <1>5, <1>6, Alone, IdleAlone, Assemble

---------------------------------------------------------------------------
(* The inductive invariant of the combiner. *)

\* Nothing has happened yet.
LEMMA CombinerInit == Init => CombinerIInv
<1> SUFFICES ASSUME Init PROVE CombinerIInv
  OBVIOUS
<1>1. PoolIInv
  BY PoolInit
<1>2. /\ Listed = 0 /\ \A w \in Worker : wk[w].pc = "idle"
      /\ \A b \in Bowl : /\ bowl[b].owner = "none" /\ bowl[b].elements = {} /\ bowl[b].used = {}
  BY DEF Init, Listed, Idle, NoTree
<1>3. OneAtWork /\ ListedIsReady /\ KeyIsNew
  BY <1>2 DEF OneAtWork, ListedIsReady, KeyIsNew
<1>4. InBowl /\ Repaired
  BY <1>2 DEF Init, InBowl, Repaired
<1>5. ASSUME NEW w \in Worker PROVE AloneOK(w)
  BY <1>2 DEF AloneOK, Undressed
<1> QED
  BY <1>1, <1>3, <1>4, <1>5 DEF CombinerIInv, SequentialInv

\* Every step keeps it.
LEMMA CombinerNext == CombinerIInv /\ [Next]_vars => CombinerIInv'
<1> SUFFICES ASSUME CombinerIInv, [Next]_vars PROVE CombinerIInv'
  OBVIOUS
<1>1. PoolIInv'
  BY PoolNext DEF CombinerIInv
<1> SUFFICES ASSUME ~overlap' PROVE SequentialInv'
  BY <1>1 DEF CombinerIInv
<1>2. CASE PlayerMoves
  <2>1. ~overlap
    BY <1>2, PlayerStep DEF CombinerIInv, ghosts
  <2> QED
    BY <1>2, <2>1, PlayerAlone
<1>3. ASSUME NEW w \in Worker, NEW m \in mail, Take(w, m) PROVE SequentialInv'
  <2>1. ~overlap
    BY <1>3 DEF Take
  <2> QED
    BY <1>3, <2>1, TakeAlone
<1>4. ASSUME NEW w \in Worker, Handle(w), ~(\E m \in mail : Take(w, m)) PROVE SequentialInv'
  <2>1. CASE RejectElement(w) \/ FindBowl(w) \/ CreateBowl(w) \/ ChownBowl(w)
           \/ ReceiveRefused(w) \/ ElementRefused(w)
    <3>1. ~overlap
      BY <2>1 DEF RejectElement, FindBowl, CreateBowl, ChownBowl, ReceiveRefused, ElementRefused, ghosts
    <3> QED
      BY <2>1, <3>1, RejectAlone, FindAlone, CreateAlone, ChownBowlAlone, ReceiveRefusedAlone,
         ElementRefusedAlone
  <2>2. CASE ResetBowl(w) \/ NameBowl(w) \/ DressBowl(w) \/ SetPlayer(w) \/ PutElement(w) \/ DescribeBowl(w)
    <3>1. ~overlap
      BY <2>2 DEF ResetBowl, NameBowl, DressBowl, SetPlayer, PutElement, DescribeBowl, ghosts
    <3> QED
      BY <2>2, <3>1, ResetAlone, NameAlone, DressAlone, SetPlayerAlone, PutAlone, DescribeAlone
  <2>3. CASE ChownElement(w) \/ ForceAddBowl(w) \/ PickUpChecks(w) \/ ForfeitBowl(w) \/ HandInBowl(w)
    <3>1. ~overlap
      BY <2>3 DEF ChownElement, ForceAddBowl, PickUpChecks, ForfeitBowl, HandInBowl, ghosts
    <3> QED
      BY <2>3, <3>1, ChownElementAlone, AddAlone, ChecksAlone, RemoveAlone
  <2>4. CASE WipeBowl(w) \/ RenameBowl(w) \/ GrantElement(w) \/ PickUpRefused(w)
    <3>1. ~overlap
      BY <2>4 DEF WipeBowl, RenameBowl, GrantElement, PickUpRefused, ghosts
    <3> QED
      BY <2>4, <3>1, WipeAlone, RenameAlone, GrantAlone, PickUpNotRefused
  <2> QED
    BY <1>4, <2>1, <2>2, <2>3, <2>4 DEF Handle
<1>5. ASSUME NEW w \in Worker, CallFails(w) PROVE SequentialInv'
  <2>1. ~overlap
    BY <1>5 DEF CallFails
  <2> QED
    BY <1>5, <2>1, FailAlone
<1>6. CASE UNCHANGED vars
  <2>1. UNCHANGED <<slot, bowl, wk, taken, spent, refused, overlap, stranded, faults>>
    BY <1>6 DEF vars
  <2>2. SequentialInv
    BY <2>1 DEF CombinerIInv
  <2>3. ASSUME NEW w \in Worker PROVE AloneOK(w)'
    BY <2>1, <2>2 DEF SequentialInv, AloneOK, Undressed, Current, Listed
  <2>4. OneAtWork' /\ ListedIsReady' /\ InBowl' /\ Repaired'
    BY <2>1, <2>2 DEF SequentialInv, OneAtWork, ListedIsReady, InBowl, Repaired, Listed
  <2>5. KeyIsNew'
    BY <2>1, <2>2 DEF SequentialInv, KeyIsNew
  <2> QED
    BY <2>3, <2>4, <2>5 DEF SequentialInv
<1> QED
  BY <1>2, <1>3, <1>4, <1>5, <1>6 DEF Next, PlayerMoves

\* While no two handlers have run at the same time, the one that is at work knows the
\* state of its bowl at each statement.
THEOREM CombinerInductive == Spec => []CombinerIInv
<1> QED
  BY CombinerInit, CombinerNext, PTL DEF Spec

\* An accepted element is in the bowl that the inventory lists as long as no two handlers
\* ran at once, and it is the court's alone however they ran (handleReceiveElement).
THEOREM CombinerInvariant == Spec => []CombinerInv
<1>1. CombinerIInv /\ BagIInv => CombinerInv
  <2> SUFFICES ASSUME CombinerIInv, BagIInv PROVE CombinerInv
    OBVIOUS
  <2>1. TypeOK
    BY DEF CombinerIInv, PoolIInv
  <2>2. AcceptedIsInBowl
    BY DEF CombinerIInv, SequentialInv, InBowl, AcceptedIsInBowl
  <2>3. \A e \in taken : owner[e] = "court"
    BY DEF BagIInv, BagInv, BagContents
  <2>4. ASSUME NEW b \in Bowl, NEW e \in bowl[b].used
        PROVE  owner[e] = "court" \/ e = dropping \/ e \in TakenBack
    <3>1. e \in Valid /\ tip[e] # 0 /\ BagElements
      BY DEF BagIInv, BagInv, BagContents, PoolIInv, BowlOK
    <3>2. e \in Element /\ owner[e] \in {"player", "both", "court", "none"}
      BY <2>1, <3>1 DEF TypeOK, Valid
    <3> QED
      BY <3>1, <3>2 DEF BagElements
  <2> QED
    BY <2>1, <2>2, <2>3, <2>4 DEF CombinerInv, UsedIsSurrendered
<1> QED
  BY <1>1, CombinerInductive, BagInductive, PTL

\* Whatever state an earlier failure left the bowl in, the handler that finds it is not
\* refused: the reset in handleReceiveElement is enough, short of a failure between the
\* creation of the tree and its first block.  The chown at the end of it can only be
\* refused when the player's bag took the element back.
THEOREM FailureRepaired == Spec => []FailureIsRepaired
<1>1. CombinerIInv /\ BagIInv => FailureIsRepaired
  BY DEF CombinerIInv, SequentialInv, Repaired, BagIInv, BagInv, BagContents, FailureIsRepaired
<1> QED
  BY <1>1, CombinerInductive, BagInductive, PTL

===============================================================================
