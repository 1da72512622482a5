--------------------------- MODULE TipStoreProofs ----------------------------
(***************************************************************************)
(* Proofs about TipStore: its type invariant, the LRU's list and map       *)
(* included, for any trees, handlers, capacity and faults; and             *)
(* ReadYourWrites for a process's only handler.                            *)
(***************************************************************************)
EXTENDS TipStore, FiniteSetTheorems, TLAPS

USE TipStoreAssumption

(***************************************************************************)
(* Nothing a process has read or written is newer than the notary group's  *)
(* tip, except a genesis tree it has made itself.                          *)
(***************************************************************************)
Past ==
    /\ \A d \in Did : known[d] <= tip[d]
    /\ \A n \in notes : n.tip <= tip[n.did] /\ n.tip # 0
    /\ \A t \in Handler : pc[t] # "idle" => did[t] \in Did
    /\ \A t \in Handler : pc[t] = "asked" => remote[t] <= tip[did[t]] /\ remote[t] # 1
    /\ \A t \in Handler : pc[t] = "have" => view[t] <= tip[did[t]] \/ view[t] = 1
    /\ \A t \in Handler : pc[t] = "played" => view[t] <= tip[did[t]] /\ view[t] # 0
    /\ \A t \in Handler : \A d \in Did : wrote[t][d] <= tip[d]

TipInv == TypeOK /\ Past

\* A process whose only handler is t, whose trees nobody watches and fit into the LRU.
Alone(t) ==
    /\ Handler = {t} /\ Watched = {} /\ Faulty = FALSE
    /\ IsFiniteSet(Did) /\ Cardinality(Did) <= Cap

\* What the store has of a tree its handler has written.
Remembers(t, d) ==
    IF kv[d] # 0 THEN kv[d] >= wrote[t][d]
    ELSE wrote[t][d] # 0 => cache[d] >= wrote[t][d]

\* Between the block and its recording the handler itself knows of it.
Own(t) ==
    /\ \A d \in Did : kv[d] # 0 => d \in Saved
    /\ \A d \in Did : wrote[t][d] # 1
    /\ pc[t] = "have" => view[t] >= wrote[t][did[t]]
    /\ pc[t] = "played" => view[t] = wrote[t][did[t]]
    /\ pc[t] = "asked" => kv[did[t]] = 0
    /\ \A d \in Did : ~(pc[t] = "played" /\ did[t] = d) => Remembers(t, d)

OwnInv(t) == TipInv /\ Own(t)

-----------------------------------------------------------------------------
(***************************************************************************)
(* The LRU.                                                                *)
(***************************************************************************)

\* A list without repetition of at most Cap trees, the ones the map has a tip for.
Lru ==
    /\ cache \in [Did -> Tip]
    /\ recent \in Seq(Did) /\ Len(recent) <= Cap
    /\ \A a, b \in 1..Len(recent) : recent[a] = recent[b] => a = b
    /\ \A d \in Did : cache[d] # 0 <=> \E a \in 1..Len(recent) : recent[a] = d

\* Using a tree puts it at the front of a list without repetition.
LEMMA UsedOK ==
    ASSUME Lru, NEW d \in Did
    PROVE  /\ Used(d) \in Seq(Did) /\ Len(Used(d)) \in Nat \ {0}
           /\ Len(Used(d)) = IF cache[d] = 0 THEN Len(recent) + 1 ELSE Len(recent)
           /\ Used(d)[1] = d
           /\ \A a, b \in 1..Len(Used(d)) : Used(d)[a] = Used(d)[b] => a = b
           /\ \A e \in Did : (\E a \in 1..Len(Used(d)) : Used(d)[a] = e) <=> e = d \/ cache[e] # 0
  <1>0. Len(recent) \in Nat /\ \A a \in 1..Len(recent) : recent[a] \in Did
    BY DEF Lru
  <1>1. CASE cache[d] = 0
    <2>1. Used(d) = <<d>> \o recent
      BY <1>1 DEF Used
    <2>2. /\ Used(d) \in Seq(Did) /\ Len(Used(d)) = Len(recent) + 1
          /\ Used(d)[1] = d /\ \A k \in 1..Len(recent) : Used(d)[k + 1] = recent[k]
      BY <1>0, <2>1 DEF Lru
    <2>3. \A k \in 1..Len(Used(d)) : k = 1 \/ (k - 1 \in 1..Len(recent) /\ Used(d)[k] = recent[k - 1])
      <3> SUFFICES ASSUME NEW k \in 1..Len(Used(d)), k # 1
                   PROVE  k - 1 \in 1..Len(recent) /\ Used(d)[k] = recent[k - 1]
        OBVIOUS
      <3>1. k - 1 \in 1..Len(recent) /\ (k - 1) + 1 = k
        BY <1>0, <2>2
      <3> QED
        BY <2>2, <3>1
    <2>4. \A k \in 1..Len(recent) : recent[k] # d /\ k + 1 \in 1..Len(Used(d))
      BY <1>0, <1>1, <2>2 DEF Lru
    <2>5. ASSUME NEW a \in 1..Len(Used(d)), NEW b \in 1..Len(Used(d)), Used(d)[a] = Used(d)[b]
          PROVE  a = b
      <3>1. CASE a = 1
        BY <2>2, <2>3, <2>4, <2>5, <3>1
      <3>2. CASE b = 1
        BY <2>2, <2>3, <2>4, <2>5, <3>2
      <3>3. CASE a # 1 /\ b # 1
        <4>1. /\ a - 1 \in 1..Len(recent) /\ b - 1 \in 1..Len(recent)
              /\ recent[a - 1] = recent[b - 1]
          BY <2>3, <2>5, <3>3
        <4>2. a - 1 = b - 1
          BY <4>1 DEF Lru
        <4> QED
          BY <1>0, <2>2, <4>2
      <3> QED
        BY <3>1, <3>2, <3>3
    <2>6. ASSUME NEW e \in Did
          PROVE  (\E a \in 1..Len(Used(d)) : Used(d)[a] = e) <=> e = d \/ cache[e] # 0
      <3>1. ASSUME NEW a \in 1..Len(Used(d)), Used(d)[a] = e PROVE e = d \/ cache[e] # 0
        BY <2>2, <2>3, <3>1 DEF Lru
      <3>2. ASSUME e = d PROVE \E a \in 1..Len(Used(d)) : Used(d)[a] = e
        BY <1>0, <2>2, <3>2
      <3>3. ASSUME cache[e] # 0 PROVE \E a \in 1..Len(Used(d)) : Used(d)[a] = e
        <4>1. PICK k \in 1..Len(recent) : recent[k] = e
          BY <3>3 DEF Lru
        <4> QED
          BY <2>2, <2>4, <4>1
      <3> QED
        BY <3>1, <3>2, <3>3
    <2> QED
      BY <1>0, <1>1, <2>2, <2>5, <2>6
  <1>2. CASE cache[d] # 0
    <2> DEFINE p == Position(d)
    <2>1. p \in 1..Len(recent) /\ recent[p] = d
      BY <1>2 DEF Lru, Position
    <2>2. Used(d) = [k \in 1..Len(recent) |->
                        IF k = 1 THEN d ELSE recent[IF k <= p THEN k - 1 ELSE k]]
      BY <1>2 DEF Used
    <2> HIDE DEF p
    <2>3. /\ Used(d) \in Seq(Did) /\ Len(Used(d)) = Len(recent)
          /\ Len(recent) \in Nat \ {0} /\ Used(d)[1] = d
      BY <1>0, <2>1, <2>2
    \* Where the entry at k was before.
    <2> DEFINE From(k) == IF k = 1 THEN p ELSE IF k <= p THEN k - 1 ELSE k
               To(m) == IF m = p THEN 1 ELSE IF m < p THEN m + 1 ELSE m
    <2>4. \A k \in 1..Len(recent) : From(k) \in 1..Len(recent) /\ Used(d)[k] = recent[From(k)]
      BY <1>0, <2>1, <2>2
    <2>5. \A m \in 1..Len(recent) : To(m) \in 1..Len(recent) /\ From(To(m)) = m
      BY <1>0, <2>1
    <2>6. \A a, b \in 1..Len(recent) : From(a) = From(b) => a = b
      BY <1>0, <2>1
    <2> HIDE DEF From, To
    <2>7. \A a, b \in 1..Len(Used(d)) : Used(d)[a] = Used(d)[b] => a = b
      BY <2>3, <2>4, <2>6 DEF Lru
    <2>8. \A e \in Did : (\E a \in 1..Len(Used(d)) : Used(d)[a] = e)
                            <=> \E m \in 1..Len(recent) : recent[m] = e
      BY <2>3, <2>4, <2>5
    <2> QED
      BY <1>2, <2>3, <2>7, <2>8 DEF Lru
  <1> QED
    BY <1>1, <1>2

\* A list without repetition is no longer than there are trees.
LEMMA NoRepetition ==
    ASSUME IsFiniteSet(Did), NEW list \in Seq(Did),
           \A a, b \in 1..Len(list) : list[a] = list[b] => a = b
    PROVE  Len(list) <= Cardinality(Did)
  <1>1. Len(list) \in Nat
    OBVIOUS
  <1>2. list \in Injection(1..Len(list), Did)
    BY DEF Injection, IsInjective
  <1>3. Cardinality(1..Len(list)) <= Cardinality(Did)
    BY <1>2, FS_Injection
  <1>4. Cardinality(1..Len(list)) = IF 1 > Len(list) THEN 0 ELSE Len(list) - 1 + 1
    BY <1>1, FS_Interval
  <1> QED
    BY <1>1, <1>3, <1>4, FS_CardinalityType

\* Adding a tree keeps the LRU consistent, gives the tree its tip and leaves the others
\* theirs, except for one that falls off the end; none does while all trees fit.
LEMMA CacheAddOK ==
    ASSUME Lru, NEW d \in Did, NEW at \in Tip, at # 0, CacheAdd(d, at)
    PROVE  /\ Lru'
           /\ cache'[d] = at
           /\ \A e \in Did \ {d} : cache'[e] = cache[e] \/ cache'[e] = 0
           /\ IsFiniteSet(Did) /\ Cardinality(Did) <= Cap =>
                 \A e \in Did \ {d} : cache'[e] = cache[e]
  <1> DEFINE order == Used(d)
  <1>1. /\ order \in Seq(Did) /\ Len(order) \in Nat \ {0} /\ order[1] = d
        /\ Len(order) = IF cache[d] = 0 THEN Len(recent) + 1 ELSE Len(recent)
        /\ \A a, b \in 1..Len(order) : order[a] = order[b] => a = b
        /\ \A e \in Did : (\E a \in 1..Len(order) : order[a] = e) <=> e = d \/ cache[e] # 0
    BY UsedOK
  <1>2. /\ Len(order) <= Cap => recent' = order /\ cache' = [cache EXCEPT ![d] = at]
        /\ Len(order) > Cap =>
              /\ recent' = SubSeq(order, 1, Cap)
              /\ cache' = [cache EXCEPT ![d] = at, ![order[Len(order)]] = 0]
    BY <1>1 DEF CacheAdd
  <1>3. cache \in [Did -> Tip] /\ Len(recent) <= Cap /\ Len(recent) \in Nat
    BY DEF Lru
  <1> HIDE DEF order
  <1>4. CASE Len(order) <= Cap
    <2>1. recent' = order /\ cache' = [cache EXCEPT ![d] = at]
      BY <1>2, <1>4
    <2>2. /\ cache' \in [Did -> Tip] /\ cache'[d] = at
          /\ \A e \in Did \ {d} : cache'[e] = cache[e]
      BY <1>3, <2>1
    <2>3. \A e \in Did : cache'[e] # 0 <=> \E a \in 1..Len(order) : order[a] = e
      BY <1>1, <2>2
    <2>4. Lru'
      <3>1. /\ recent' \in Seq(Did) /\ Len(recent') <= Cap
            /\ \A a, b \in 1..Len(recent') : recent'[a] = recent'[b] => a = b
        BY <1>1, <1>4, <2>1
      <3>2. \A e \in Did : cache'[e] # 0 <=> \E a \in 1..Len(recent') : recent'[a] = e
        BY <2>1, <2>3
      <3> QED
        BY <2>2, <3>1, <3>2 DEF Lru
    <2> QED
      BY <2>2, <2>4
  <1>5. CASE Len(order) > Cap
    <2> DEFINE z == order[Len(order)]
    <2>1. /\ Len(order) = Cap + 1 /\ Cap + 1 # 1 /\ Cap \in Nat /\ Cap + 1 \in 1..Len(order)
          /\ 1 \in 1..Len(order)
      BY <1>1, <1>3, <1>5
    <2>2. z \in Did /\ z # d
      BY <1>1, <2>1
    <2>3. recent' = SubSeq(order, 1, Cap) /\ cache' = [cache EXCEPT ![d] = at, ![z] = 0]
      BY <1>2, <1>5
    <2>4. /\ recent' \in Seq(Did) /\ Len(recent') = Cap
          /\ \A a \in 1..Cap : recent'[a] = order[a] /\ a \in 1..Len(order) /\ a # Len(order)
      BY <1>1, <2>1, <2>3
    <2>5. /\ cache' \in [Did -> Tip] /\ cache'[d] = at /\ cache'[z] = 0
          /\ \A e \in Did \ {d, z} : cache'[e] = cache[e]
      BY <1>3, <2>2, <2>3 DEF Tip
    <2>6. \A e \in Did : (\E a \in 1..Cap : recent'[a] = e)
                            <=> e # z /\ \E a \in 1..Len(order) : order[a] = e
      <3>1. \A a \in 1..Cap : order[a] # z
        BY <1>1, <2>1, <2>4
      <3>2. \A a \in 1..Len(order) : a \in 1..Cap \/ a = Len(order)
        BY <2>1
      <3> QED
        BY <2>4, <3>1, <3>2
    <2>7. \A e \in Did : cache'[e] # 0 <=> \E a \in 1..Cap : recent'[a] = e
      <3> SUFFICES ASSUME NEW e \in Did
                   PROVE  cache'[e] # 0 <=> (e # z /\ (e = d \/ cache[e] # 0))
        BY <1>1, <2>6
      <3> QED
        BY <2>2, <2>5
    <2>8. \A a, b \in 1..Cap : recent'[a] = recent'[b] => a = b
      BY <1>1, <2>4
    <2>9. Lru'
      BY <2>1, <2>4, <2>5, <2>7, <2>8 DEF Lru, Tip
    <2>10. ~(IsFiniteSet(Did) /\ Cardinality(Did) <= Cap)
      <3> SUFFICES ASSUME IsFiniteSet(Did), Cardinality(Did) <= Cap PROVE FALSE
        OBVIOUS
      <3>1. Len(order) <= Cardinality(Did)
        BY <1>1, NoRepetition
      <3>2. Cardinality(Did) \in Nat
        BY FS_CardinalityType
      <3> QED
        BY <2>1, <3>1, <3>2
    <2> QED
      BY <2>2, <2>5, <2>9, <2>10
  <1> QED
    BY <1>1, <1>3, <1>4, <1>5

\* What recording a tip does to the store: the tree's entries change, and others only
\* leave the LRU.
Recorded(d, at) ==
    /\ Lru'
    /\ kv' \in [Did -> Tip] /\ cache'[d] = at
    /\ \A e \in Did \ {d} : kv'[e] = kv[e] /\ (cache'[e] = cache[e] \/ cache'[e] = 0)
    /\ IsFiniteSet(Did) /\ Cardinality(Did) <= Cap => \A e \in Did \ {d} : cache'[e] = cache[e]

\* UpdateTreeMetadata writes to the key/value store what is saved there already.
LEMMA UpdateOK ==
    ASSUME Lru, kv \in [Did -> Tip], NEW d \in Did, NEW at \in Tip, at # 0,
           UpdateTreeMetadata(d, at)
    PROVE  Recorded(d, at) /\ kv'[d] = IF kv[d] # 0 THEN at ELSE 0
  <1>1. CacheAdd(d, at)
    BY DEF UpdateTreeMetadata, SaveTreeMetadata
  <1>2. kv' = [kv EXCEPT ![d] = IF kv[d] # 0 THEN at ELSE 0]
    BY DEF UpdateTreeMetadata, SaveTreeMetadata
  <1>3. kv' \in [Did -> Tip] /\ (\A e \in Did \ {d} : kv'[e] = kv[e]) /\ kv'[d] = IF kv[d] # 0 THEN at ELSE 0
    BY <1>2 DEF Tip
  <1> QED
    BY <1>1, <1>3, CacheAddOK DEF Recorded

\* SaveTreeMetadata writes to both.
LEMMA SaveOK ==
    ASSUME Lru, kv \in [Did -> Tip], NEW d \in Did, NEW at \in Tip, at # 0,
           SaveTreeMetadata(d, at)
    PROVE  Recorded(d, at) /\ kv'[d] = at
  <1>1. CacheAdd(d, at) /\ kv' = [kv EXCEPT ![d] = at]
    BY DEF SaveTreeMetadata
  <1>2. kv' \in [Did -> Tip] /\ (\A e \in Did \ {d} : kv'[e] = kv[e]) /\ kv'[d] = at
    BY <1>1
  <1> QED
    BY <1>1, <1>2, CacheAddOK DEF Recorded

\* Looking a tree up only moves it in the list.
LEMMA LookupOK ==
    ASSUME Lru, NEW d \in Did, UNCHANGED cache,
           recent' = IF cache[d] = 0 THEN recent ELSE Used(d)
    PROVE  Lru'
  <1>1. CASE cache[d] = 0
    BY <1>1 DEF Lru, Tip
  <1>2. CASE cache[d] # 0
    <2> DEFINE order == Used(d)
    <2>0. /\ order \in Seq(Did) /\ Len(order) = Len(recent)
          /\ \A a, b \in 1..Len(order) : order[a] = order[b] => a = b
          /\ \A e \in Did : (\E a \in 1..Len(order) : order[a] = e) <=> e = d \/ cache[e] # 0
      BY <1>2, UsedOK
    <2>1. recent' = order /\ cache' = cache
      BY <1>2
    <2> HIDE DEF order
    <2>2. /\ recent' \in Seq(Did) /\ Len(recent') = Len(recent)
          /\ \A a, b \in 1..Len(recent') : recent'[a] = recent'[b] => a = b
          /\ \A e \in Did : (\E a \in 1..Len(recent') : recent'[a] = e) <=> e = d \/ cache[e] # 0
      BY <2>0, <2>1
    <2>3. \A e \in Did : cache'[e] # 0 <=> \E a \in 1..Len(recent') : recent'[a] = e
      BY <1>2, <2>1, <2>2
    <2>4. cache' \in [Did -> Tip] /\ Len(recent') <= Cap
      BY <2>1, <2>2 DEF Lru, Tip
    <2> QED
      BY <2>2, <2>3, <2>4 DEF Lru, Tip
  <1> QED
    BY <1>1, <1>2

-----------------------------------------------------------------------------
(***************************************************************************)
(* Type correctness, with Past.                                            *)
(***************************************************************************)

\* The types of everything but the LRU.
Rest ==
    /\ tip \in [Did -> Tip] /\ known \in [Did -> Tip] /\ kv \in [Did -> Tip]
    /\ notes \subseteq [did : Watched, tip : Tip]
    /\ pc \in [Handler -> {"idle", "asked", "have", "played"}]
    /\ did \in [Handler -> Did \cup {NoDid}]
    /\ remote \in [Handler -> Tip] /\ view \in [Handler -> Tip]
    /\ wrote \in [Handler -> [Did -> Tip]]

\* The store is not ahead of the group, but for a genesis tree.
Behind == \A d \in Did : kv[d] <= tip[d] /\ (cache[d] > tip[d] => cache[d] = 1)

\* The type invariant by its parts.
LEMMA TypeParts == TypeOK <=> Lru /\ Rest /\ Behind
  BY DEF TypeOK, Lru, Rest, Behind

\* Initially.
LEMMA InitTipInv == Init => TipInv
  <1> SUFFICES ASSUME Init PROVE TipInv
    OBVIOUS
  <1>1. Lru
    BY DEF Init, Lru, Tip
  <1>2. Rest
    BY DEF Init, Rest, Tip
  <1>3. Behind
    BY DEF Init, Behind
  <1>4. Past
    BY DEF Init, Past
  <1> QED
    BY <1>1, <1>2, <1>3, <1>4, TypeParts DEF TipInv

\* A step that leaves the store and the group alone.
LEMMA QuietStore ==
    ASSUME Lru, Behind, UNCHANGED <<tip, store>>
    PROVE  Lru' /\ Behind'
  BY DEF Lru, Behind, store, Tip

\* A block is accepted and announced.
Blocks(d, at) ==
    /\ tip' = [tip EXCEPT ![d] = at]
    /\ notes' = Announce(d, at)
    /\ UNCHANGED <<known, store>>

\* A block moves a tree's tip on, and no note runs ahead of it.
LEMMA BlockOK ==
    ASSUME TipInv, NEW d \in Did, NEW at \in Tip, at > tip[d], Blocks(d, at)
    PROVE  /\ Lru' /\ Behind'
           /\ tip' \in [Did -> Tip] /\ notes' \subseteq [did : Watched, tip : Tip]
           /\ tip'[d] = at /\ \A e \in Did : tip[e] <= tip'[e]
           /\ \A e \in Did : known'[e] <= tip'[e]
           /\ \A n \in notes' : n.tip <= tip'[n.did] /\ n.tip # 0
  <1> USE DEF Blocks
  <1>1. Lru /\ Rest /\ Behind /\ Past
    BY TypeParts DEF TipInv
  <1>2. tip \in [Did -> Tip] /\ known \in [Did -> Tip] /\ kv \in [Did -> Tip] /\ cache \in [Did -> Tip]
    BY <1>1 DEF Rest, Lru
  <1>3. tip' \in [Did -> Tip] /\ tip'[d] = at /\ \A e \in Did : tip[e] <= tip'[e]
    BY <1>2 DEF Tip
  <1>4. Lru'
    BY <1>1 DEF Lru, store, Tip
  <1>5. Behind'
    BY <1>1, <1>2, <1>3 DEF Behind, store, Tip
  <1>6. \A e \in Did : known'[e] <= tip'[e]
    BY <1>1, <1>2, <1>3 DEF Past, Tip
  <1>7. notes' \subseteq [did : Watched, tip : Tip]
    BY <1>1 DEF Rest, Announce
  <1>8. \A n \in notes' : n.tip <= tip'[n.did] /\ n.tip # 0
    <2> SUFFICES ASSUME NEW n \in notes' PROVE n.tip <= tip'[n.did] /\ n.tip # 0
      OBVIOUS
    <2>1. CASE n \in notes
      <3>1. n.did \in Did /\ n.tip \in Tip /\ n.tip <= tip[n.did] /\ n.tip # 0
        BY <1>1, <2>1 DEF Rest, Past
      <3> QED
        BY <1>2, <1>3, <3>1 DEF Tip
    <2>2. CASE n = [did |-> d, tip |-> at]
      BY <1>2, <1>3, <2>2 DEF Tip
    <2> QED
      BY <2>1, <2>2 DEF Announce
  <1> QED
    BY <1>3, <1>4, <1>5, <1>6, <1>7, <1>8

\* The type invariant is kept when its parts are.
LEMMA TypePartsNext == Lru' /\ Rest' /\ Behind' => TypeOK'
  BY DEF TypeOK, Lru, Rest, Behind

\* A recorded tip that is not ahead of the group keeps the store behind it.
LEMMA RecordedBehind ==
    ASSUME Rest, Lru, Behind, NEW d \in Did, NEW at \in Tip, at <= tip[d] \/ at = 1,
           UNCHANGED tip, Recorded(d, at), kv'[d] <= tip[d]
    PROVE  Lru' /\ Behind' /\ kv' \in [Did -> Tip]
  <1>1. Lru' /\ kv' \in [Did -> Tip] /\ cache'[d] = at
        /\ \A e \in Did \ {d} : kv'[e] = kv[e] /\ (cache'[e] = cache[e] \/ cache'[e] = 0)
    BY DEF Recorded
  <1>2. tip \in [Did -> Tip]
    BY DEF Rest
  <1>3. ASSUME NEW e \in Did PROVE kv'[e] <= tip'[e] /\ (cache'[e] > tip'[e] => cache'[e] = 1)
    <2>1. CASE e = d
      BY <1>1, <1>2, <2>1 DEF Tip
    <2>2. CASE e # d
      BY <1>1, <1>2, <2>2 DEF Behind, Tip
    <2> QED
      BY <2>1, <2>2
  <1> QED
    BY <1>1, <1>3 DEF Behind

\* Every step.
LEMMA NextTipInv == ASSUME TipInv, [Next]_vars PROVE TipInv'
  <1>0. Lru /\ Rest /\ Behind /\ Past
    BY TypeParts DEF TipInv
  <1>00. /\ tip \in [Did -> Tip] /\ known \in [Did -> Tip] /\ kv \in [Did -> Tip]
         /\ cache \in [Did -> Tip]
    BY <1>0 DEF Rest, Lru
  <1> DEFINE Good == Lru' /\ Rest' /\ Behind' /\ Past'
  <1>1. ASSUME NEW t \in Handler, NEW d \in Did, GetLocalTip(t, d) PROVE Good
    <2>1. Lru' /\ Behind'
      BY <1>0, <1>1, QuietStore DEF GetLocalTip
    <2>2. Rest'
      BY <1>0, <1>1 DEF GetLocalTip, Rest, store
    <2>3. kv[d] <= tip[d]
      BY <1>0 DEF Behind
    <2>4. Past'
      BY <1>0, <1>1, <2>3 DEF GetLocalTip, Past, Rest, store
    <2> QED
      BY <2>1, <2>2, <2>4
  <1>2. ASSUME NEW t \in Handler, NEW d \in Did, GetRemoteTip(t, d) PROVE Good
    <2>1. Lru' /\ Behind'
      BY <1>0, <1>2, QuietStore DEF GetRemoteTip
    <2>2. PICK at \in known[d]..tip[d] : at # 1 /\ remote' = [remote EXCEPT ![t] = at]
      BY <1>2 DEF GetRemoteTip
    <2>3. at \in Tip /\ at <= tip[d]
      BY <1>00 DEF Tip
    <2>4. Rest'
      BY <1>0, <1>2, <2>2, <2>3 DEF GetRemoteTip, Rest, store
    <2>5. Past'
      BY <1>0, <1>2, <2>2, <2>3 DEF GetRemoteTip, Past, Rest, store
    <2> QED
      BY <2>1, <2>4, <2>5
  <1>3. ASSUME NEW t \in Handler, PickTip(t) PROVE Good
    <2> DEFINE d == did[t]
    <2>1. d \in Did /\ remote[t] \in Tip /\ remote[t] <= tip[d]
      BY <1>0, <1>3 DEF PickTip, Past, Rest
    <2>2. Lru'
      BY <1>0, <1>3, <2>1, LookupOK DEF PickTip
    <2>3. Behind'
      BY <1>0, <1>3 DEF PickTip, Behind
    <2>4. view'[t] \in Tip /\ (view'[t] <= tip[d] \/ view'[t] = 1)
      <3>1. view'[t] = Newer(cache[d], remote[t])
        BY <1>0, <1>3 DEF PickTip, Rest
      <3>2. cache[d] \in Tip /\ (cache[d] > tip[d] => cache[d] = 1)
        BY <1>0, <1>00, <2>1 DEF Behind
      <3> QED
        BY <1>00, <2>1, <3>1, <3>2 DEF Newer, Tip
    <2>5. Rest'
      BY <1>0, <1>3, <2>4 DEF PickTip, Rest, Tip
    <2>6. Past'
      BY <1>0, <1>3, <2>1, <2>4 DEF PickTip, Past, Rest
    <2> QED
      BY <2>2, <2>3, <2>5, <2>6
  <1>4. ASSUME NEW t \in Handler, HeightUnknown(t) PROVE Good
    <2> DEFINE d == did[t]
    <2>1. d \in Did /\ remote[t] \in Tip /\ remote[t] <= tip[d]
      BY <1>0, <1>4 DEF HeightUnknown, Past, Rest
    <2>2. Lru'
      BY <1>0, <1>4, <2>1, LookupOK DEF HeightUnknown
    <2>3. Behind'
      BY <1>0, <1>4 DEF HeightUnknown, Behind
    <2>5. Rest'
      BY <1>0, <1>4, <2>1 DEF HeightUnknown, Rest, Tip
    <2>6. Past'
      BY <1>0, <1>4, <2>1 DEF HeightUnknown, Past, Rest
    <2> QED
      BY <2>2, <2>3, <2>5, <2>6
  <1>5. ASSUME NEW t \in Handler, CreateTree(t) PROVE Good
    <2> DEFINE d == did[t]
    <2>1. d \in Did /\ 1 \in Tip /\ UpdateTreeMetadata(d, 1)
      BY <1>0, <1>5 DEF CreateTree, Past, Tip
    <2>2. Recorded(d, 1) /\ kv'[d] = IF kv[d] # 0 THEN 1 ELSE 0
      BY <1>0, <1>00, <2>1, UpdateOK
    <2>3. kv'[d] <= tip[d]
      BY <1>0, <1>00, <2>1, <2>2 DEF Behind, Tip
    <2>4. Lru' /\ Behind' /\ kv' \in [Did -> Tip]
      BY <1>0, <1>5, <2>1, <2>2, <2>3, RecordedBehind DEF CreateTree
    <2>5. Rest'
      BY <1>0, <1>5, <2>1, <2>4 DEF CreateTree, Rest
    <2>6. Past'
      BY <1>0, <1>5 DEF CreateTree, Past, Rest
    <2> QED
      BY <2>4, <2>5, <2>6
  <1>6. ASSUME NEW t \in Handler, NEW d \in Did, NewTree(t, d) PROVE Good
    <2>1. Lru' /\ Behind'
      BY <1>0, <1>6, QuietStore DEF NewTree
    <2>2. Rest'
      BY <1>0, <1>6 DEF NewTree, Rest, store, Tip
    <2>4. Past'
      BY <1>0, <1>6 DEF NewTree, Past, Rest, store
    <2> QED
      BY <2>1, <2>2, <2>4
  <1>7. ASSUME NEW t \in Handler, Play(t) PROVE Good
    <2> DEFINE d == did[t]
               at == view[t] + 1
    <2>1. d \in Did /\ view[t] \in Tip /\ Accepts(d, view[t]) /\ view[t] < MaxTip
      BY <1>0, <1>7 DEF Play, Past, Rest
    <2>2. at \in Tip /\ at > tip[d] /\ at # 0
      BY <1>00, <2>1 DEF Accepts, Tip
    <2>3. Blocks(d, at)
      BY <1>7 DEF Play, Blocks
    <2>4. /\ Lru' /\ Behind'
          /\ tip' \in [Did -> Tip] /\ notes' \subseteq [did : Watched, tip : Tip]
          /\ tip'[d] = at /\ \A e \in Did : tip[e] <= tip'[e]
          /\ \A e \in Did : known'[e] <= tip'[e]
          /\ \A n \in notes' : n.tip <= tip'[n.did] /\ n.tip # 0
      BY <2>1, <2>2, <2>3, BlockOK
    <2>5. /\ view' = [view EXCEPT ![t] = at] /\ wrote' = [wrote EXCEPT ![t][d] = at]
          /\ pc' = [pc EXCEPT ![t] = "played"] /\ UNCHANGED <<known, store, did, remote>>
      BY <1>7 DEF Play
    <2> HIDE DEF d, at
    <2>6. Rest'
      BY <1>0, <2>1, <2>2, <2>4, <2>5 DEF Rest, store
    <2>7. Past'
      BY <1>0, <1>00, <2>1, <2>2, <2>4, <2>5 DEF Rest, Past, d, Tip
    <2> QED
      BY <2>4, <2>6, <2>7
  <1>8. ASSUME NEW t \in Handler, PlayUnheard(t) PROVE Good
    <2> DEFINE d == did[t]
               at == view[t] + 1
    <2>1. d \in Did /\ view[t] \in Tip /\ Accepts(d, view[t]) /\ view[t] < MaxTip
      BY <1>0, <1>8 DEF PlayUnheard, Past, Rest
    <2>2. at \in Tip /\ at > tip[d] /\ at # 0
      BY <1>00, <2>1 DEF Accepts, Tip
    <2>3. Blocks(d, at)
      BY <1>8 DEF PlayUnheard, Blocks
    <2>4. /\ Lru' /\ Behind'
          /\ tip' \in [Did -> Tip] /\ notes' \subseteq [did : Watched, tip : Tip]
          /\ tip'[d] = at /\ \A e \in Did : tip[e] <= tip'[e]
          /\ \A e \in Did : known'[e] <= tip'[e]
          /\ \A n \in notes' : n.tip <= tip'[n.did] /\ n.tip # 0
      BY <2>1, <2>2, <2>3, BlockOK
    <2>5. Done(t) /\ UNCHANGED <<known, store, remote, wrote>>
      BY <1>8 DEF PlayUnheard
    <2> HIDE DEF d, at
    <2>6. Rest'
      BY <1>0, <2>4, <2>5 DEF Rest, store, Done, Tip
    <2>7. Past'
      BY <1>0, <1>00, <2>4, <2>5 DEF Rest, Past, Done, Tip
    <2> QED
      BY <2>4, <2>6, <2>7
  <1>9. ASSUME NEW t \in Handler, Drop(t) PROVE Good
    <2>1. Lru' /\ Behind'
      BY <1>0, <1>9, QuietStore DEF Drop
    <2>2. Rest'
      BY <1>0, <1>9 DEF Drop, Done, Rest, store, Tip
    <2>4. Past'
      BY <1>0, <1>9 DEF Drop, Done, Past, Rest, store
    <2> QED
      BY <2>1, <2>2, <2>4
  <1>10. ASSUME NEW t \in Handler, Update(t) PROVE Good
    <2> DEFINE d == did[t]
               at == view[t]
    <2>1. /\ d \in Did /\ at \in Tip /\ at <= tip[d] /\ at # 0
          /\ UpdateTreeMetadata(d, at)
      BY <1>0, <1>10 DEF Update, Past, Rest
    <2>2. Recorded(d, at) /\ kv'[d] = IF kv[d] # 0 THEN at ELSE 0
      BY <1>0, <1>00, <2>1, UpdateOK
    <2>3. kv'[d] <= tip[d]
      BY <1>0, <1>00, <2>1, <2>2 DEF Behind, Tip
    <2>4. Lru' /\ Behind' /\ kv' \in [Did -> Tip]
      BY <1>0, <1>10, <2>1, <2>2, <2>3, RecordedBehind DEF Update
    <2>5. Rest'
      BY <1>0, <1>10, <2>4 DEF Update, Rest
    <2>6. Past'
      BY <1>0, <1>10 DEF Update, Past, Rest
    <2> QED
      BY <2>4, <2>5, <2>6
  <1>11. ASSUME NEW t \in Handler, SaveCreated(t) PROVE Good
    <2> DEFINE d == did[t]
               at == view[t]
    <2>1. /\ d \in Did /\ at \in Tip /\ at <= tip[d] /\ at # 0
          /\ SaveTreeMetadata(d, at)
      BY <1>0, <1>11 DEF SaveCreated, Past, Rest
    <2>2. Recorded(d, at) /\ kv'[d] = at
      BY <1>0, <1>00, <2>1, SaveOK
    <2>4. Lru' /\ Behind' /\ kv' \in [Did -> Tip]
      BY <1>0, <1>11, <2>1, <2>2, RecordedBehind DEF SaveCreated
    <2>5. Rest'
      BY <1>0, <1>11, <2>4 DEF SaveCreated, Rest, thread
    <2>6. Past'
      BY <1>0, <1>11 DEF SaveCreated, Past, Rest, thread
    <2> QED
      BY <2>4, <2>5, <2>6
  <1>12. ASSUME NEW n \in notes, Refresh(n) PROVE Good
    <2> DEFINE d == n.did
               at == n.tip
    <2>1. /\ d \in Did /\ at \in Tip /\ at <= tip[d] /\ at # 0
          /\ UpdateTreeMetadata(d, at)
      BY <1>0, <1>12 DEF Refresh, Past, Rest
    <2>2. Recorded(d, at) /\ kv'[d] = IF kv[d] # 0 THEN at ELSE 0
      BY <1>0, <1>00, <2>1, UpdateOK
    <2>3. kv'[d] <= tip[d]
      BY <1>0, <1>00, <2>1, <2>2 DEF Behind, Tip
    <2>4. Lru' /\ Behind' /\ kv' \in [Did -> Tip]
      BY <1>0, <1>12, <2>1, <2>2, <2>3, RecordedBehind DEF Refresh
    <2>5. Rest'
      BY <1>0, <1>12, <2>4 DEF Refresh, Rest, thread
    <2>6. Past'
      BY <1>0, <1>12 DEF Refresh, Past, Rest, thread
    <2> QED
      BY <2>4, <2>5, <2>6
  <1>13. ASSUME NEW d \in Did, OtherPlays(d) PROVE Good
    <2> DEFINE at == tip[d] + 1
    <2>1. at \in Tip /\ at > tip[d] /\ Blocks(d, at) /\ UNCHANGED <<known, store, thread, wrote>>
      BY <1>00, <1>13 DEF OtherPlays, Blocks, Tip
    <2>4. /\ Lru' /\ Behind'
          /\ tip' \in [Did -> Tip] /\ notes' \subseteq [did : Watched, tip : Tip]
          /\ \A e \in Did : tip[e] <= tip'[e]
          /\ \A e \in Did : known'[e] <= tip'[e]
          /\ \A n \in notes' : n.tip <= tip'[n.did] /\ n.tip # 0
      BY <2>1, BlockOK
    <2> HIDE DEF at
    <2>6. Rest'
      BY <1>0, <2>1, <2>4 DEF Rest, store, thread
    <2>7. Past'
      BY <1>0, <1>00, <2>1, <2>4 DEF Rest, Past, thread, Tip
    <2> QED
      BY <2>4, <2>6, <2>7
  <1>14. ASSUME NEW d \in Did, SignersCatchUp(d) PROVE Good
    <2>1. Lru' /\ Behind'
      BY <1>0, <1>14, QuietStore DEF SignersCatchUp
    <2>2. Rest'
      BY <1>0, <1>00, <1>14 DEF SignersCatchUp, Rest, store, thread
    <2>4. Past'
      BY <1>0, <1>00, <1>14 DEF SignersCatchUp, Past, Rest, thread, Tip
    <2> QED
      BY <2>1, <2>2, <2>4
  <1>15. ASSUME UNCHANGED vars PROVE Good
    <2>1. Lru' /\ Behind'
      BY <1>0, <1>15, QuietStore DEF vars, store
    <2>2. Rest' /\ Past'
      BY <1>0, <1>15 DEF vars, Rest, Past
    <2> QED
      BY <2>1, <2>2
  <1> HIDE DEF Good
  <1>16. Good
    BY <1>1, <1>2, <1>3, <1>4, <1>5, <1>6, <1>7, <1>8, <1>9, <1>10, <1>11, <1>12, <1>13, <1>14,
       <1>15 DEF Next, HandlerStep, GetTree
  <1> QED
    BY <1>16, TypePartsNext DEF TipInv, Good

\* The store's invariant, for any handlers, trees, capacity and faults.
THEOREM TipInductive == Spec => []TipInv
  <1> QED
    BY InitTipInv, NextTipInv, PTL DEF Spec

\* Whatever its handlers, watchers and faults do, the store is consistent: its LRU
\* holds each tree once, within its capacity and exactly when there is a cached tip
\* for it, and nothing but a genesis tree of its own is newer than what the notary
\* group has agreed on.
THEOREM TipTypes == Spec => []TypeOK
  <1>1. TipInv => TypeOK
    BY DEF TipInv
  <1> QED
    BY <1>1, TipInductive, PTL

-----------------------------------------------------------------------------
(***************************************************************************)
(* A process's only handler.                                               *)
(***************************************************************************)

\* Every step of a process with one handler, whose trees all fit into the LRU.
LEMMA NextOwn ==
    ASSUME NEW t, Alone(t), TipInv, TipInv', Own(t), [Next]_vars
    PROVE  Own(t)'
  <1>0. Lru /\ Rest /\ Behind /\ Past
    BY TypeParts DEF TipInv
  <1>1. /\ tip \in [Did -> Tip] /\ kv \in [Did -> Tip] /\ cache \in [Did -> Tip]
        /\ notes \subseteq [did : Watched, tip : Tip]
        /\ pc \in [Handler -> {"idle", "asked", "have", "played"}]
        /\ did \in [Handler -> Did \cup {NoDid}]
        /\ remote \in [Handler -> Tip] /\ view \in [Handler -> Tip]
        /\ wrote \in [Handler -> [Did -> Tip]]
    BY <1>0 DEF Rest, Lru
  <1>2. /\ t \in Handler /\ \A u \in Handler : u = t
        /\ Faulty = FALSE /\ Watched = {}
        /\ IsFiniteSet(Did) /\ Cardinality(Did) <= Cap
    BY DEF Alone
  <1>3. /\ wrote[t] \in [Did -> Tip] /\ \A d \in Did : wrote[t][d] <= tip[d]
        /\ pc[t] # "idle" => did[t] \in Did
    BY <1>0, <1>1, <1>2 DEF Past
  <1>4. ASSUME NEW d \in Did, GetLocalTip(t, d) PROVE Own(t)'
    <2>1. kv[d] # 0 /\ kv[d] >= wrote[t][d]
      BY <1>4 DEF GetLocalTip, Own, Remembers
    <2> QED
      BY <1>1, <1>2, <1>4, <2>1 DEF GetLocalTip, Own, Remembers, store
  <1>5. ASSUME NEW d \in Did, GetRemoteTip(t, d) PROVE Own(t)'
    BY <1>1, <1>2, <1>5 DEF GetRemoteTip, Own, Remembers, store
  <1>6. ASSUME PickTip(t) PROVE Own(t)'
    <2> DEFINE d == did[t]
    <2>1. /\ d \in Did /\ kv[d] = 0 /\ remote[t] # 1
          /\ wrote[t][d] \in Tip /\ remote[t] \in Tip /\ cache[d] \in Tip
          /\ wrote[t][d] # 1 /\ (wrote[t][d] # 0 => cache[d] >= wrote[t][d])
      BY <1>0, <1>1, <1>2, <1>3, <1>6 DEF PickTip, Own, Remembers, Past
    <2>2. Newer(cache[d], remote[t]) >= wrote[t][d]
      BY <2>1 DEF Newer, Height, Tip
    <2> HIDE DEF d
    <2>3. /\ view' = [view EXCEPT ![t] = Newer(cache[d], remote[t])]
          /\ pc' = [pc EXCEPT ![t] = "have"] /\ UNCHANGED <<kv, cache, did, wrote>> /\ pc[t] = "asked"
      BY <1>6 DEF PickTip, d
    <2>4. did'[t] = d
      BY <2>3 DEF d
    <2> QED
      BY <1>1, <1>2, <2>2, <2>3, <2>4 DEF Own, Remembers
  <1>7. ASSUME CreateTree(t) PROVE Own(t)'
    <2> DEFINE d == did[t]
    <2>1. /\ d \in Did /\ 1 \in Tip /\ UpdateTreeMetadata(d, 1)
          /\ d \notin Saved /\ kv[d] = 0 /\ wrote[t][d] = 0
      BY <1>1, <1>2, <1>3, <1>7 DEF CreateTree, Own, Tip
    <2>2. Recorded(d, 1) /\ kv'[d] = 0
      BY <1>0, <1>1, <2>1, UpdateOK
    <2>3. /\ kv'[d] = 0 /\ cache'[d] = 1
          /\ \A e \in Did \ {d} : kv'[e] = kv[e] /\ cache'[e] = cache[e]
      BY <1>2, <2>2 DEF Recorded
    <2>4. UNCHANGED <<pc, did, wrote>> /\ view' = [view EXCEPT ![t] = 1] /\ pc[t] = "have"
      BY <1>7 DEF CreateTree
    <2>5. \A e \in Did : Remembers(t, e)'
      BY <1>1, <2>1, <2>3, <2>4 DEF Own, Remembers
    <2> QED
      BY <1>1, <1>2, <2>1, <2>3, <2>4, <2>5 DEF Own
  <1>8. ASSUME NEW d \in Did, NewTree(t, d) PROVE Own(t)'
    <2>1. tip[d] = 0 /\ wrote[t][d] = 0
      BY <1>1, <1>3, <1>8 DEF NewTree, Tip
    <2> QED
      BY <1>1, <1>2, <1>8, <2>1 DEF NewTree, Own, Remembers, store
  <1>9. ASSUME Play(t) PROVE Own(t)'
    <2> DEFINE d == did[t]
               at == view[t] + 1
    <2>1. d \in Did /\ at \in Tip /\ at # 1
      <3>1. d \in Did
        BY <1>3, <1>9 DEF Play
      <3>2. view[t] \in Tip /\ view[t] # 0 /\ view[t] < MaxTip
        BY <1>1, <1>2, <1>9 DEF Play
      <3> QED
        BY <3>1, <3>2 DEF Tip
    <2> HIDE DEF d, at
    <2>2. /\ view' = [view EXCEPT ![t] = at] /\ wrote' = [wrote EXCEPT ![t][d] = at]
          /\ pc' = [pc EXCEPT ![t] = "played"] /\ UNCHANGED <<store, did>> /\ pc[t] = "have"
      BY <1>9 DEF Play, d, at
    <2>3. /\ did'[t] = d /\ view'[t] = at /\ wrote'[t][d] = at /\ pc'[t] = "played"
          /\ \A e \in Did \ {d} : wrote'[t][e] = wrote[t][e]
      BY <1>1, <1>2, <1>3, <2>1, <2>2 DEF d
    <2> QED
      BY <1>1, <1>2, <2>1, <2>2, <2>3 DEF Own, Remembers, store
  <1>10. ASSUME Drop(t) PROVE Own(t)'
    BY <1>1, <1>2, <1>10 DEF Drop, Done, Own, Remembers, store
  <1>11. ASSUME Update(t) PROVE Own(t)'
    <2> DEFINE d == did[t]
               at == view[t]
    <2>1. /\ d \in Did /\ at \in Tip /\ at # 0 /\ UpdateTreeMetadata(d, at)
          /\ wrote[t][d] = at
      BY <1>0, <1>1, <1>2, <1>3, <1>11 DEF Update, Own, Past
    <2>2. Recorded(d, at) /\ kv'[d] = IF kv[d] # 0 THEN at ELSE 0
      BY <1>0, <1>1, <2>1, UpdateOK
    <2>3. /\ cache'[d] = at
          /\ \A e \in Did \ {d} : kv'[e] = kv[e] /\ cache'[e] = cache[e]
      BY <1>2, <2>2 DEF Recorded
    <2>4. UNCHANGED <<view, did, wrote>> /\ pc' = [pc EXCEPT ![t] = "have"] /\ pc[t] = "played"
      BY <1>11 DEF Update
    <2>5. \A e \in Did : Remembers(t, e)'
      BY <1>1, <2>1, <2>2, <2>3, <2>4 DEF Own, Remembers, Tip
    <2>6. \A e \in Did : kv'[e] # 0 => e \in Saved
      BY <2>1, <2>2, <2>3 DEF Own
    <2> QED
      BY <1>1, <1>2, <2>1, <2>4, <2>5, <2>6 DEF Own, Tip
  <1>12. ASSUME SaveCreated(t) PROVE Own(t)'
    <2> DEFINE d == did[t]
               at == view[t]
    <2>1. /\ d \in Did /\ at \in Tip /\ at = 2 /\ SaveTreeMetadata(d, at)
          /\ wrote[t][d] = at /\ d \in Saved
      BY <1>1, <1>2, <1>3, <1>12 DEF SaveCreated
    <2>2. Recorded(d, at) /\ kv'[d] = at
      BY <1>0, <1>1, <2>1, SaveOK
    <2>3. \A e \in Did \ {d} : kv'[e] = kv[e] /\ cache'[e] = cache[e]
      BY <1>2, <2>2 DEF Recorded
    <2>4. UNCHANGED <<pc, view, did, wrote>> /\ pc[t] = "have"
      BY <1>12 DEF SaveCreated, thread
    <2>5. \A e \in Did : Remembers(t, e)'
      BY <1>1, <2>1, <2>2, <2>3, <2>4 DEF Own, Remembers, Tip
    <2>6. \A e \in Did : kv'[e] # 0 => e \in Saved
      BY <2>1, <2>2, <2>3 DEF Own
    <2> QED
      BY <1>1, <1>2, <2>1, <2>4, <2>5, <2>6 DEF Own, Tip
  <1>13. ASSUME UNCHANGED <<store, thread, wrote>> PROVE Own(t)'
    BY <1>13 DEF Own, Remembers, store, thread
  <1>14. notes = {}
    BY <1>1, <1>2
  <1>15. \A u \in Handler : u = t /\ ~HeightUnknown(u) /\ ~PlayUnheard(u)
    BY <1>2 DEF HeightUnknown, PlayUnheard
  <1>16. CASE \E u \in Handler : HandlerStep(u)
    BY <1>4, <1>5, <1>6, <1>7, <1>8, <1>9, <1>10, <1>11, <1>12, <1>15, <1>16 DEF HandlerStep, GetTree
  <1>17. CASE \E d \in Did : OtherPlays(d) \/ SignersCatchUp(d)
    BY <1>13, <1>17 DEF OtherPlays, SignersCatchUp
  <1>18. CASE UNCHANGED vars
    BY <1>13, <1>18 DEF vars, store, thread
  <1> QED
    BY <1>14, <1>16, <1>17, <1>18 DEF Next

\* Initially nothing is written.
LEMMA InitOwn == ASSUME NEW t \in Handler PROVE Init => Own(t)
  BY DEF Init, Own, Remembers

\* The only handler's invariant.
THEOREM OwnInductive == ASSUME NEW t, Alone(t) PROVE Spec => []OwnInv(t)
  <1>0. t \in Handler
    BY DEF Alone
  <1>1. Init => OwnInv(t)
    BY <1>0, InitTipInv, InitOwn DEF OwnInv
  <1>2. OwnInv(t) /\ [Next]_vars => OwnInv(t)'
    BY NextTipInv, NextOwn DEF OwnInv
  <1> QED
    BY <1>1, <1>2, PTL DEF Spec

\* A process with one handler, whose trees fit into its LRU and are watched by no
\* actor, reads its own blocks: the tree GetTree gives it is at least as new as the
\* last block it played there, however stale the answer of the signers.
THEOREM OwnWritesRead == ASSUME NEW t, Alone(t) PROVE Spec => []ReadYourWrites
  <1>1. OwnInv(t) => ReadYourWrites
    BY DEF OwnInv, Own, ReadYourWrites, Alone
  <1> QED
    BY <1>1, OwnInductive, PTL

=============================================================================
