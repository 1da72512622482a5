------------------------------ MODULE TipStore -------------------------------
(***************************************************************************)
(* IPLDTreeStore: where a process looks for the tip of a chaintree, and    *)
(* what it remembers of the blocks it has played.                          *)
(*                                                                         *)
(* A chaintree is a chain of tips, numbered: 0 is no tip at all            *)
(* (cid.Undef), 1 the genesis tree a process makes for itself, 2 the first *)
(* block the notary group accepts, and so on.  The store keeps a tip in    *)
(* its key/value store for the trees saved there (SaveTreeMetadata) and a  *)
(* tip in an LRU cache for every tree it has updated; the signers it asks  *)
(* otherwise may lag behind.  Handlers read, play and update in steps of   *)
(* their own, while InventoryActor and LocationActor write the tips that   *)
(* CurrentState messages tell them of into the same store.                 *)
(***************************************************************************)
EXTENDS Naturals, Sequences, FiniteSets

CONSTANTS
    Did,        \* chaintrees
    NoDid,      \* not a chaintree: what an idle handler works on
    Handler,    \* the goroutines and actors of one process that use the store
    Existing,   \* the trees the notary group has when the process starts
    Saved,      \* the trees made by CreateLocalChainTree, with keys of their own
    Watched,    \* the trees an InventoryActor or LocationActor subscribes to
    Cap,        \* size of the LRU (100 in the code)
    Ordered,    \* do CurrentStates of a tree arrive in the order of its blocks?
    Faulty,     \* may a reply, a tip request or a node be lost?
    MaxTip      \* bound on the tips of a tree: at least genesis and a block

ASSUME TipStoreAssumption ==
    /\ NoDid \notin Did
    /\ Existing \subseteq Did /\ Saved \subseteq Did \ Existing /\ Watched \subseteq Did
    /\ Cap \in Nat \ {0}
    /\ Ordered \in BOOLEAN /\ Faulty \in BOOLEAN
    /\ MaxTip \in Nat /\ MaxTip >= 2

VARIABLES
    tip,        \* [Did -> Nat]: the tip the notary group has agreed on
    known,      \* [Did -> Nat]: a tip every signer has processed
    kv,         \* [Did -> Nat]: keyValueApi, 0 when it has no tip
    cache,      \* [Did -> Nat]: tipCache, 0 when the tree is not in it
    recent,     \* the trees in tipCache, most recently used first
    notes,      \* CurrentStates not yet handled by the watching actor
    pc,         \* [Handler -> {"idle", "asked", "have", "played"}]
    did,        \* the tree a handler works on
    remote,     \* the tip a signer has answered
    view,       \* the tip of the tree the handler holds
    wrote       \* history: [Handler -> [Did -> Nat]], the last block it played

vars == <<tip, known, kv, cache, recent, notes, pc, did, remote, view, wrote>>
store == <<kv, cache, recent>>
thread == <<pc, did, remote, view>>

Init ==
    /\ tip = [d \in Did |-> IF d \in Existing THEN 2 ELSE 0]
    /\ known = [d \in Did |-> 0]
    /\ kv = [d \in Did |-> 0]
    /\ cache = [d \in Did |-> 0]
    /\ recent = <<>>
    /\ notes = {}
    /\ pc = [t \in Handler |-> "idle"]
    /\ did = [t \in Handler |-> NoDid]
    /\ remote = [t \in Handler |-> 0]
    /\ view = [t \in Handler |-> 0]
    /\ wrote = [t \in Handler |-> [d \in Did |-> 0]]

\* RootNode.Height: the genesis tree and the first block both have height 0.
Height(at) == IF at < 2 THEN 0 ELSE at - 2

\* Where in the list a cached tree is.
Position(d) == CHOOSE a \in 1..Len(recent) : recent[a] = d

\* Mutant: a tree that is used again is brought to the front and kept in its place.
UsedTwice(d) == <<d>> \o recent

\* lru.Cache: using a tree moves it to the front of the list, a new one is put there;
\* adding one past the capacity evicts the one at the back.
Used(d) ==
    IF cache[d] = 0 THEN <<d>> \o recent
    ELSE [k \in 1..Len(recent) |->
             IF k = 1 THEN d ELSE recent[IF k <= Position(d) THEN k - 1 ELSE k]]

CacheAdd(d, at) ==
    LET order == Used(d) IN
    IF Len(order) <= Cap
    THEN /\ recent' = order
         /\ cache' = [cache EXCEPT ![d] = at]
    ELSE /\ recent' = SubSeq(order, 1, Cap)
         /\ cache' = [cache EXCEPT ![d] = at, ![order[Len(order)]] = 0]

\* SaveTreeMetadata: into the cache and the key/value store.
SaveTreeMetadata(d, at) ==
    /\ CacheAdd(d, at)
    /\ kv' = [kv EXCEPT ![d] = at]

\* Mutant: the cache of a tree that is also in the key/value store is all that changes.
UpdateCacheOnly(d, at) ==
    /\ CacheAdd(d, at)
    /\ UNCHANGED kv

\* UpdateTreeMetadata: a saved tree is saved again, any other only cached.  The tip
\* that was there is not looked at.
UpdateTreeMetadata(d, at) ==
    IF kv[d] # 0 THEN SaveTreeMetadata(d, at) ELSE CacheAdd(d, at) /\ UNCHANGED kv

-----------------------------------------------------------------------------
(***************************************************************************)
(* GetTree.                                                                *)
(***************************************************************************)

\* getTip finds the tree in the key/value store, and asks nobody.
GetLocalTip(t, d) ==
    /\ pc[t] = "idle"
    /\ kv[d] # 0
    /\ pc' = [pc EXCEPT ![t] = "have"]
    /\ did' = [did EXCEPT ![t] = d]
    /\ view' = [view EXCEPT ![t] = kv[d]]
    /\ UNCHANGED <<tip, known, store, notes, remote, wrote>>

\* getRemoteTip: whichever signer answers may not have processed the last blocks.
GetRemoteTip(t, d) ==
    /\ pc[t] = "idle"
    /\ kv[d] = 0
    /\ \E at \in known[d]..tip[d] : at # 1 /\ remote' = [remote EXCEPT ![t] = at]
    /\ pc' = [pc EXCEPT ![t] = "asked"]
    /\ did' = [did EXCEPT ![t] = d]
    /\ UNCHANGED <<tip, known, store, notes, view, wrote>>


\* The tip getTip chooses of the cached tip c and the answer r.
Newer(c, r) ==
    IF c = 0 THEN r
    ELSE IF r = 0 \/ Height(c) > Height(r) THEN c ELSE r

PickTip(t) ==
    LET d == did[t] IN
    /\ pc[t] = "asked"
    /\ view' = [view EXCEPT ![t] = Newer(cache[d], remote[t])]
    /\ recent' = IF cache[d] = 0 THEN recent ELSE Used(d)
    /\ remote' = [remote EXCEPT ![t] = 0]
    /\ pc' = [pc EXCEPT ![t] = "have"]
    /\ UNCHANGED <<tip, known, kv, cache, notes, did, wrote>>

\* "error checking cached height" or "remote height": the answer is used as it is.
HeightUnknown(t) ==
    LET d == did[t] IN
    /\ Faulty
    /\ pc[t] = "asked"
    /\ cache[d] # 0 /\ remote[t] # 0 /\ cache[d] # remote[t]
    /\ view' = [view EXCEPT ![t] = remote[t]]
    /\ recent' = Used(d)
    /\ remote' = [remote EXCEPT ![t] = 0]
    /\ pc' = [pc EXCEPT ![t] = "have"]
    /\ UNCHANGED <<tip, known, kv, cache, notes, did, wrote>>

-----------------------------------------------------------------------------
(***************************************************************************)
(* What a handler does with the tree.                                      *)
(***************************************************************************)

\* CreateChainTree: a genesis tree for a key that has just been generated.
NewTree(t, d) ==
    /\ pc[t] = "idle"
    /\ d \in Saved /\ tip[d] = 0
    /\ \A u \in Handler : pc[u] # "idle" => did[u] # d
    /\ pc' = [pc EXCEPT ![t] = "have"]
    /\ did' = [did EXCEPT ![t] = d]
    /\ view' = [view EXCEPT ![t] = 1]
    /\ UNCHANGED <<tip, known, store, notes, remote, wrote>>

\* FindOrCreatePassphraseTree, CreateChainTreeWithKey: no tree was found, so a
\* genesis tree is made and put into the store.
CreateTree(t) ==
    /\ pc[t] = "have" /\ view[t] = 0
    /\ did[t] \notin Saved
    /\ UpdateTreeMetadata(did[t], 1)
    /\ view' = [view EXCEPT ![t] = 1]
    /\ UNCHANGED <<tip, known, notes, pc, did, remote, wrote>>

\* The notary group (external) accepts a block on its current tip only.
Accepts(d, at) == IF at = 1 THEN tip[d] = 0 ELSE at = tip[d]

Announce(d, at) == IF d \in Watched THEN notes \cup {[did |-> d, tip |-> at]} ELSE notes

\* The handler returns, and with it the tree it held.
Done(t) ==
    /\ pc' = [pc EXCEPT ![t] = "idle"]
    /\ did' = [did EXCEPT ![t] = NoDid]
    /\ view' = [view EXCEPT ![t] = 0]

\* PlayTransactions: the block is accepted, and the handle moves to the new tip.
Play(t) ==
    LET d == did[t] IN
    /\ pc[t] = "have" /\ view[t] # 0
    /\ Accepts(d, view[t]) /\ view[t] < MaxTip
    /\ tip' = [tip EXCEPT ![d] = view[t] + 1]
    /\ notes' = Announce(d, view[t] + 1)
    /\ view' = [view EXCEPT ![t] = @ + 1]
    /\ wrote' = [wrote EXCEPT ![t][d] = view[t] + 1]
    /\ pc' = [pc EXCEPT ![t] = "played"]
    /\ UNCHANGED <<known, store, did, remote>>

\* The block is accepted, but the reply is lost: an error to the handler.
PlayUnheard(t) ==
    LET d == did[t] IN
    /\ Faulty
    /\ pc[t] = "have" /\ view[t] # 0
    /\ Accepts(d, view[t]) /\ view[t] < MaxTip
    /\ tip' = [tip EXCEPT ![d] = view[t] + 1]
    /\ notes' = Announce(d, view[t] + 1)
    /\ Done(t)
    /\ UNCHANGED <<known, store, remote, wrote>>

\* The block is refused, or the handler is done with the tree.
Drop(t) ==
    /\ pc[t] = "have"
    /\ Done(t)
    /\ UNCHANGED <<tip, known, store, notes, remote, wrote>>

\* The metadata of the block that was played is recorded, a step later.
Update(t) ==
    /\ pc[t] = "played"
    /\ UpdateTreeMetadata(did[t], view[t])
    /\ pc' = [pc EXCEPT ![t] = "have"]
    /\ UNCHANGED <<tip, known, notes, did, remote, view, wrote>>

\* CreateLocalChainTree: a tree that has just been created is saved.
SaveCreated(t) ==
    LET d == did[t] IN
    /\ pc[t] = "have" /\ view[t] = 2 /\ wrote[t][d] = 2
    /\ d \in Saved /\ kv[d] = 0
    /\ SaveTreeMetadata(d, view[t])
    /\ UNCHANGED <<tip, known, notes, thread, wrote>>

\* Another process plays a block.
OtherPlays(d) ==
    /\ tip[d] \in 2..(MaxTip - 1)
    /\ tip' = [tip EXCEPT ![d] = @ + 1]
    /\ notes' = Announce(d, tip[d] + 1)
    /\ UNCHANGED <<known, store, thread, wrote>>

\* InventoryActor and LocationActor on a CurrentState: the tip it carries is put
\* into the store.
Refresh(n) ==
    /\ n \in notes
    /\ Ordered => \A m \in notes : m.did = n.did => m.tip >= n.tip
    /\ UpdateTreeMetadata(n.did, n.tip)
    /\ notes' = notes \ {n}
    /\ UNCHANGED <<tip, known, thread, wrote>>

\* All signers (external) have processed the blocks of d.
SignersCatchUp(d) ==
    /\ known[d] # tip[d]
    /\ known' = [known EXCEPT ![d] = tip[d]]
    /\ UNCHANGED <<tip, store, notes, thread, wrote>>

GetTree(t) == \E d \in Did : GetLocalTip(t, d) \/ GetRemoteTip(t, d)

HandlerStep(t) ==
    \/ GetTree(t) \/ PickTip(t) \/ HeightUnknown(t)
    \/ CreateTree(t) \/ \E d \in Did : NewTree(t, d)
    \/ Play(t) \/ PlayUnheard(t) \/ Drop(t) \/ Update(t) \/ SaveCreated(t)

Next ==
    \/ \E t \in Handler : HandlerStep(t)
    \/ \E n \in notes : Refresh(n)
    \/ \E d \in Did : OtherPlays(d) \/ SignersCatchUp(d)

Spec == Init /\ [][Next]_vars

\* A handler that is using a tree goes on until it drops it, and reads again; signers
\* process the blocks their group has agreed on.
FairSpec ==
    /\ Spec
    /\ \A t \in Handler : WF_vars(HandlerStep(t))
    /\ \A d \in Did : WF_vars(SignersCatchUp(d))

-----------------------------------------------------------------------------
Tip == 0..MaxTip

\* Types; the LRU holds each tree once, at most Cap of them, and exactly those the
\* cache has a tip for; nothing but a genesis tree is newer than the notary group's tip.
TypeOK ==
    /\ tip \in [Did -> Tip] /\ known \in [Did -> Tip]
    /\ kv \in [Did -> Tip] /\ cache \in [Did -> Tip]
    /\ recent \in Seq(Did) /\ Len(recent) <= Cap
    /\ \A a, b \in 1..Len(recent) : recent[a] = recent[b] => a = b
    /\ \A d \in Did : cache[d] # 0 <=> \E a \in 1..Len(recent) : recent[a] = d
    /\ notes \subseteq [did : Watched, tip : Tip]
    /\ pc \in [Handler -> {"idle", "asked", "have", "played"}]
    /\ did \in [Handler -> Did \cup {NoDid}]
    /\ remote \in [Handler -> Tip] /\ view \in [Handler -> Tip]
    /\ wrote \in [Handler -> [Did -> Tip]]
    /\ \A d \in Did : kv[d] <= tip[d] /\ (cache[d] > tip[d] => cache[d] = 1)

\* A process's only handler never loses sight of its own blocks: the tree GetTree
\* gives it is at least as new as the last block it played, however stale the signer.
ReadYourWrites ==
    \A t \in Handler : pc[t] = "have" => view[t] >= wrote[t][did[t]]

=============================================================================
