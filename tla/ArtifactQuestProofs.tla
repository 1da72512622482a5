------------------------- MODULE ArtifactQuestProofs --------------------------
(***************************************************************************)
(* What ArtifactQuest's run checks, for any numbers of altars, artifacts,  *)
(* made objects, acts, requests and faults.  The walks of Ownership are    *)
(* recursive functions; what they return follows by induction over the     *)
(* blocks, written with the least element of a set of numbers.  The        *)
(* inductive invariant has a part per actor: the histories and where       *)
(* objects are listed (Scenes, Trees), the respawn actor (Spawner, Single, *)
(* Accounted) and a request (Validator, Consumed, Genuine).  Two facts of  *)
(* a step are proved first: trees only grow (Grows), and what leaves an    *)
(* inventory is taken by the court or lost to a namesake (Moves).          *)
(***************************************************************************)
EXTENDS ArtifactQuest, FiniteSetTheorems, WellFoundedInduction, TLAPS

(***************************************************************************)
(* Induction over the blocks of a tree.                                    *)
(***************************************************************************)

\* A set of numbers that is not empty has a least one.
LEMMA LeastNat ==
    ASSUME NEW T \in SUBSET Nat, T # {}
    PROVE  \E x \in T : \A y \in T : x <= y
  <1> DEFINE R == {p \in Nat \X Nat : p[1] < p[2]}
  <1>1. IsWellFoundedOn(R, Nat)
    BY NatLessThanWellFounded DEF OpToRel
  <1>2. PICK x \in T : \A y \in T : <<y, x>> \notin R
    BY <1>1, WFMin
  <1>3. \A y \in T : ~(y < x)
    BY <1>2
  <1> HIDE DEF R
  <1>4. x \in Nat /\ \A y \in T : y \in Nat
    OBVIOUS
  <1> QED
    BY <1>3, <1>4

\* What holds of 0 and of the successor of what it holds of, holds of every number.
LEMMA Induction ==
    ASSUME NEW T \in SUBSET Nat, 0 \in T, \A n \in T : n + 1 \in T
    PROVE  T = Nat
  <1> SUFFICES ASSUME Nat \ T # {} PROVE FALSE
    OBVIOUS
  <1>1. PICK x \in Nat \ T : \A y \in Nat \ T : x <= y
    BY LeastNat
  <1>2. x # 0 /\ x - 1 \in Nat /\ ~(x <= x - 1) /\ (x - 1) + 1 = x
    BY <1>1
  <1>3. x - 1 \in T
    BY <1>1, <1>2
  <1> QED
    BY <1>1, <1>2, <1>3

\* Each value of f is computed by g from the one before it.
IsWalk(f, v, L, g) == f[0] = v /\ \A t \in 1..L : f[t] = g[t][f[t - 1]]

\* A walk that computes each value from the one before it exists.
LEMMA WalkExists ==
    ASSUME NEW V, NEW v \in V, NEW L \in Nat, NEW g \in [1..L -> [V -> V]]
    PROVE  \E f \in [0..L -> V] : IsWalk(f, v, L, g)
  <1> DEFINE Upto(n, f) == f[0] = v /\ \A t \in 1..n : f[t] = g[t][f[t - 1]]
             T == {n \in Nat : n <= L => \E f \in [0..n -> V] : Upto(n, f)}
  <1>1. 0 \in T
    <2>1. [t \in 0..0 |-> v] \in [0..0 -> V] /\ Upto(0, [t \in 0..0 |-> v])
      OBVIOUS
    <2> QED
      BY <2>1
  <1>2. ASSUME NEW n \in T PROVE n + 1 \in T
    <2> SUFFICES ASSUME n + 1 <= L PROVE \E f \in [0..n + 1 -> V] : Upto(n + 1, f)
      OBVIOUS
    <2>1. PICK f \in [0..n -> V] : Upto(n, f)
      OBVIOUS
    <2> DEFINE h == [t \in 0..n + 1 |-> IF t = n + 1 THEN g[n + 1][f[n]] ELSE f[t]]
    <2>2. n \in 0..n /\ n + 1 \in 1..L /\ f[n] \in V
      OBVIOUS
    <2>3. g[n + 1][f[n]] \in V
      BY <2>2
    <2>4. h \in [0..n + 1 -> V]
      BY <2>3
    <2>5. h[n + 1] = g[n + 1][f[n]] /\ \A t \in 0..n : h[t] = f[t]
      OBVIOUS
    <2> HIDE DEF h
    <2>6. h[0] = v
      BY <2>1, <2>2, <2>5
    <2>7. ASSUME NEW t \in 1..n + 1 PROVE h[t] = g[t][h[t - 1]]
      <3>1. CASE t = n + 1
        <4>1. t - 1 = n
          BY <3>1
        <4> QED
          BY <2>2, <2>5, <3>1, <4>1
      <3>2. CASE t # n + 1
        <4>1. t \in 1..n /\ t - 1 \in 0..n /\ t \in 0..n
          BY <3>2
        <4> QED
          BY <2>1, <2>5, <4>1
      <3> QED
        BY <3>1, <3>2
    <2> QED
      BY <2>4, <2>6, <2>7
  <1> HIDE DEF T
  <1>3. T = Nat
    BY <1>1, <1>2, Induction DEF T
  <1> QED
    BY <1>3 DEF T, IsWalk

(***************************************************************************)
(* The walks of game/trees.                                                *)
(***************************************************************************)

\* OwnershipChanges is the walk it is written as.
LEMMA ChangesWalk ==
    ASSUME NEW tree, Len(tree) \in Nat
    PROVE  \E w \in [0..Len(tree) -> Seq(Nat)] :
              /\ OwnershipChanges(tree) = w[Len(tree)]
              /\ w[0] = <<>>
              /\ \A t \in 1..Len(tree) :
                    w[t] = (IF tree[t].chown THEN <<t>> ELSE <<>>) \o w[t - 1]
  <1> DEFINE L == Len(tree)
             Walk(w) == w = [tip \in 0..L |->
                                IF tip = 0 THEN <<>>
                                ELSE (IF tree[tip].chown THEN <<tip>> ELSE <<>>) \o w[tip - 1]]
             g == [t \in 1..L |-> [s \in Seq(Nat) |->
                      (IF tree[t].chown THEN <<t>> ELSE <<>>) \o s]]
  <1>0. L \in Nat /\ L = Len(tree)
    OBVIOUS
  <1> HIDE DEF L
  <1>1. \E w : Walk(w)
    <2>1. g \in [1..L -> [Seq(Nat) -> Seq(Nat)]]
      <3>1. ASSUME NEW t \in 1..L, NEW s \in Seq(Nat)
            PROVE  (IF tree[t].chown THEN <<t>> ELSE <<>>) \o s \in Seq(Nat)
        <4>1. t \in Nat /\ <<t>> \in Seq(Nat) /\ <<>> \in Seq(Nat)
          BY <1>0
        <4>2. (IF tree[t].chown THEN <<t>> ELSE <<>>) \in Seq(Nat)
          BY <4>1, Zenon
        <4> QED
          BY <4>2
      <3> QED
        BY <3>1
    <2> HIDE DEF g
    <2>2. <<>> \in Seq(Nat)
      OBVIOUS
    <2>3. PICK f \in [0..L -> Seq(Nat)] : IsWalk(f, <<>>, L, g)
      BY <1>0, <2>1, <2>2, WalkExists
    <2>4. ASSUME NEW t \in 1..L
          PROVE  f[t] = (IF tree[t].chown THEN <<t>> ELSE <<>>) \o f[t - 1]
      <3>1. t - 1 \in 0..L
        BY <1>0
      <3>2. f[t - 1] \in Seq(Nat)
        BY <3>1
      <3> QED
        BY <2>3, <3>2 DEF g, IsWalk
    <2>5. f = [tip \in 0..L |-> f[tip]]
      OBVIOUS
    <2>6. \A tip \in 0..L : f[tip] = IF tip = 0 THEN <<>>
                                ELSE (IF tree[tip].chown THEN <<tip>> ELSE <<>>) \o f[tip - 1]
      <3> SUFFICES ASSUME NEW tip \in 0..L
                   PROVE  f[tip] = IF tip = 0 THEN <<>>
                                ELSE (IF tree[tip].chown THEN <<tip>> ELSE <<>>) \o f[tip - 1]
        OBVIOUS
      <3>1. CASE tip = 0
        BY <2>3, <3>1 DEF IsWalk
      <3>2. CASE tip # 0
        <4>1. tip \in 1..L
          BY <1>0, <3>2
        <4> QED
          BY <2>4, <3>2, <4>1
      <3> QED
        BY <3>1, <3>2
    <2>7. Walk(f)
      BY <2>5, <2>6
    <2> QED
      BY <2>7
  <1> DEFINE w == CHOOSE w : Walk(w)
  <1>2. Walk(w)
    BY <1>1
  <1>3. OwnershipChanges(tree) = w[L]
    BY <1>0 DEF OwnershipChanges
  <1> HIDE DEF w
  <1>4. w[0] = <<>> /\ \A t \in 1..L : w[t] = (IF tree[t].chown THEN <<t>> ELSE <<>>) \o w[t - 1]
    <2>1. \A tip \in 0..L : w[tip] = IF tip = 0 THEN <<>>
                                ELSE (IF tree[tip].chown THEN <<tip>> ELSE <<>>) \o w[tip - 1]
      BY <1>2
    <2>2. 0 \in 0..L /\ \A t \in 1..L : t \in 0..L /\ t # 0
      BY <1>0
    <2> QED
      BY <2>1, <2>2
  <1> DEFINE T == {n \in Nat : n <= L => w[n] \in Seq(Nat)}
  <1>5. 0 \in T
    <2>1. <<>> \in Seq(Nat)
      OBVIOUS
    <2> QED
      BY <1>4, <2>1
  <1>6. ASSUME NEW n \in T PROVE n + 1 \in T
    <2> SUFFICES ASSUME n + 1 <= L PROVE w[n + 1] \in Seq(Nat)
      OBVIOUS
    <2>1. n + 1 \in 1..L /\ (n + 1) - 1 = n /\ w[n] \in Seq(Nat)
      BY <1>0
    <2>2. (IF tree[n + 1].chown THEN <<n + 1>> ELSE <<>>) \in Seq(Nat)
      <3>1. <<n + 1>> \in Seq(Nat) /\ <<>> \in Seq(Nat)
        OBVIOUS
      <3> QED
        BY <3>1, Zenon
    <2>3. w[n + 1] = (IF tree[n + 1].chown THEN <<n + 1>> ELSE <<>>) \o w[n]
      BY <1>4, <2>1
    <2> QED
      BY <2>1, <2>2, <2>3
  <1> HIDE DEF T
  <1>7. T = Nat
    BY <1>5, <1>6, Induction DEF T
  <1>8. \A t \in 0..L : w[t] \in Seq(Nat)
    BY <1>7 DEF T
  <1>9. w \in [0..L -> Seq(Nat)]
    BY <1>2, <1>8
  <1> QED
    BY <1>0, <1>3, <1>4, <1>9

\* AtHeight finds the block at a height of the tree, and nothing above.
LEMMA AtHeightIs ==
    ASSUME NEW tree, Len(tree) \in Nat, NEW h \in Nat
    PROVE  AtHeight(tree, h) = IF h < Len(tree) THEN h + 1 ELSE 0
  <1> DEFINE L == Len(tree)
             Walk(w) == w = [tip \in 0..L |->
                                IF tip = 0 THEN 0
                                ELSE IF Height(tip) = h THEN tip
                                ELSE IF h > Height(tip) THEN 0
                                ELSE w[tip - 1]]
             g == [t \in 1..L |-> [s \in Nat |->
                      IF Height(t) = h THEN t ELSE IF h > Height(t) THEN 0 ELSE s]]
  <1>0. L \in Nat /\ L = Len(tree)
    OBVIOUS
  <1> HIDE DEF L
  <1>1. \E w : Walk(w)
    <2>1. g \in [1..L -> [Nat -> Nat]]
      BY <1>0
    <2> HIDE DEF g
    <2>2. PICK f \in [0..L -> Nat] : IsWalk(f, 0, L, g)
      BY <1>0, <2>1, WalkExists
    <2>3. ASSUME NEW tip \in 0..L
          PROVE  f[tip] = IF tip = 0 THEN 0
                          ELSE IF Height(tip) = h THEN tip
                          ELSE IF h > Height(tip) THEN 0
                          ELSE f[tip - 1]
      <3>1. CASE tip = 0
        BY <2>2, <3>1 DEF IsWalk
      <3>2. CASE tip # 0
        <4>1. tip \in 1..L /\ tip - 1 \in 0..L
          BY <1>0, <3>2
        <4>2. f[tip - 1] \in Nat
          BY <4>1
        <4>3. f[tip] = g[tip][f[tip - 1]]
          BY <2>2, <4>1 DEF IsWalk
        <4> QED
          BY <3>2, <4>1, <4>2, <4>3 DEF g
      <3> QED
        BY <3>1, <3>2
    <2>4. f = [tip \in 0..L |-> f[tip]]
      OBVIOUS
    <2>5. Walk(f)
      BY <2>3, <2>4
    <2> QED
      BY <2>5
  <1> DEFINE w == CHOOSE w : Walk(w)
  <1>2. Walk(w)
    BY <1>1
  <1>3. AtHeight(tree, h) = w[L]
    BY <1>0 DEF AtHeight
  <1> HIDE DEF w
  <1>4. \A tip \in 0..L : w[tip] = IF tip = 0 THEN 0
                                ELSE IF Height(tip) = h THEN tip
                                ELSE IF h > Height(tip) THEN 0
                                ELSE w[tip - 1]
    BY <1>2
  <1> HIDE DEF Walk
  <1> DEFINE T == {n \in Nat : n <= L => w[n] = IF h < n THEN h + 1 ELSE 0}
  <1>5. 0 \in T
    BY <1>0, <1>4
  <1>6. ASSUME NEW n \in T PROVE n + 1 \in T
    <2> SUFFICES ASSUME n + 1 <= L PROVE w[n + 1] = IF h < n + 1 THEN h + 1 ELSE 0
      OBVIOUS
    <2>1. n + 1 \in 0..L /\ n + 1 # 0 /\ (n + 1) - 1 = n /\ Height(n + 1) = n
      BY <1>0 DEF Height
    <2>2. w[n] = IF h < n THEN h + 1 ELSE 0
      BY <1>0
    <2>3. w[n + 1] = IF n = h THEN n + 1 ELSE IF h > n THEN 0 ELSE w[n]
      BY <1>4, <2>1
    <2> QED
      BY <2>2, <2>3
  <1> HIDE DEF T
  <1>7. T = Nat
    BY <1>5, <1>6, Induction DEF T
  <1> QED
    BY <1>0, <1>3, <1>7 DEF T

\* A block that does not set the owners keeps them.
OwnersKept(tree) ==
    \A t \in 2..Len(tree) : ~tree[t].chown => tree[t].owners = tree[t - 1].owners

\* What the walk has found in the first n blocks: the changes of owner, newest first,
\* and the owners a change set are those of every block up to the next one.
Found(tree, n, found) ==
    /\ found \in Seq(Nat)
    /\ \A k \in 1..Len(found) : found[k] \in 1..n /\ tree[found[k]].chown
    /\ \A t \in 1..n : tree[t].chown => \E k \in 1..Len(found) : found[k] = t
    /\ \A k \in 1..Len(found) : k + 1 <= Len(found) => found[k] > found[k + 1]
    /\ \A k \in 1..Len(found) :
          \A t \in found[k]..(IF k = 1 THEN n ELSE found[k - 1] - 1) :
             tree[t].owners = tree[found[k]].owners

\* A block that does not set the owners is not found.
LEMMA FoundNoChange ==
    ASSUME NEW tree, Len(tree) \in Nat, OwnersKept(tree), NEW n \in Nat, n + 1 <= Len(tree),
           NEW found, Found(tree, n, found), ~tree[n + 1].chown
    PROVE  Found(tree, n + 1, found)
  <1>1. /\ found \in Seq(Nat) /\ Len(found) \in Nat
        /\ \A k \in 1..Len(found) : found[k] \in 1..n /\ tree[found[k]].chown
    BY DEF Found
  <1>2. \A k \in 1..Len(found) : found[k] \in 1..n + 1
    BY <1>1
  <1>3. \A t \in 1..n + 1 : tree[t].chown => \E k \in 1..Len(found) : found[k] = t
    <2>1. \A t \in 1..n + 1 : t \in 1..n \/ t = n + 1
      OBVIOUS
    <2> QED
      BY <2>1 DEF Found
  <1>4. ASSUME NEW k \in 1..Len(found),
               NEW t \in found[k]..(IF k = 1 THEN n + 1 ELSE found[k - 1] - 1)
        PROVE  tree[t].owners = tree[found[k]].owners
    <2>1. CASE t \in found[k]..(IF k = 1 THEN n ELSE found[k - 1] - 1)
      BY <2>1 DEF Found
    <2>2. CASE k = 1 /\ t = n + 1
      <3>1. found[1] \in 1..n
        BY <1>1, <2>2
      <3>2. n \in found[1]..n /\ n + 1 \in 2..Len(tree) /\ (n + 1) - 1 = n
        BY <3>1
      <3>3. tree[n + 1].owners = tree[n].owners
        BY <3>2 DEF OwnersKept
      <3>4. tree[n].owners = tree[found[1]].owners
        BY <1>1, <2>2, <3>2 DEF Found
      <3> QED
        BY <2>2, <3>3, <3>4
    <2> QED
      BY <1>1, <2>1, <2>2
  <1> QED
    BY <1>1, <1>2, <1>3, <1>4 DEF Found

\* One that does is found first.
LEMMA FoundChange ==
    ASSUME NEW tree, NEW n \in Nat, NEW found, Found(tree, n, found), tree[n + 1].chown
    PROVE  Found(tree, n + 1, <<n + 1>> \o found)
  <1> DEFINE more == <<n + 1>> \o found
  <1>1. /\ found \in Seq(Nat) /\ Len(found) \in Nat
        /\ \A k \in 1..Len(found) : found[k] \in 1..n /\ tree[found[k]].chown
    BY DEF Found
  <1>2. /\ more \in Seq(Nat) /\ Len(more) = Len(found) + 1 /\ more[1] = n + 1
        /\ \A k \in 1..Len(found) : more[k + 1] = found[k]
    BY <1>1
  <1> HIDE DEF more
  <1>3. \A k \in 1..Len(more) : k = 1 \/ (k - 1 \in 1..Len(found) /\ more[k] = found[k - 1])
    <2> SUFFICES ASSUME NEW k \in 1..Len(more), k # 1
                 PROVE  k - 1 \in 1..Len(found) /\ more[k] = found[k - 1]
      OBVIOUS
    <2>1. k - 1 \in 1..Len(found) /\ (k - 1) + 1 = k
      BY <1>1, <1>2
    <2> QED
      BY <1>2, <2>1
  <1>4. ASSUME NEW k \in 1..Len(more) PROVE more[k] \in 1..n + 1 /\ tree[more[k]].chown
    <2>1. CASE k = 1
      BY <1>2, <2>1
    <2>2. CASE k # 1
      <3>1. more[k] \in 1..n /\ tree[more[k]].chown
        BY <1>1, <1>3, <2>2
      <3> QED
        BY <3>1
    <2> QED
      BY <2>1, <2>2
  <1>5. ASSUME NEW t \in 1..n + 1, tree[t].chown PROVE \E k \in 1..Len(more) : more[k] = t
    <2>1. CASE t = n + 1
      BY <1>1, <1>2, <2>1
    <2>2. CASE t # n + 1
      <3>1. t \in 1..n
        BY <2>2
      <3>2. PICK k \in 1..Len(found) : found[k] = t
        BY <1>5, <3>1 DEF Found
      <3>3. k + 1 \in 1..Len(more) /\ more[k + 1] = t
        BY <1>1, <1>2, <3>2
      <3> QED
        BY <3>3
    <2> QED
      BY <2>1, <2>2
  <1>6. ASSUME NEW k \in 1..Len(more), k + 1 <= Len(more) PROVE more[k] > more[k + 1]
    <2>1. k \in 1..Len(found) /\ more[k + 1] = found[k]
      BY <1>1, <1>2, <1>6
    <2>2. CASE k = 1
      BY <1>1, <1>2, <2>1, <2>2
    <2>3. CASE k # 1
      <3>1. k - 1 \in 1..Len(found) /\ more[k] = found[k - 1] /\ (k - 1) + 1 = k
        BY <1>1, <1>3, <2>3
      <3>2. found[k - 1] > found[k]
        BY <1>1, <2>1, <3>1 DEF Found
      <3> QED
        BY <2>1, <3>1, <3>2
    <2> QED
      BY <2>2, <2>3
  <1>7. ASSUME NEW k \in 1..Len(more),
               NEW t \in more[k]..(IF k = 1 THEN n + 1 ELSE more[k - 1] - 1)
        PROVE  tree[t].owners = tree[more[k]].owners
    <2>1. CASE k = 1
      <3>1. t = n + 1
        BY <1>2, <2>1
      <3> QED
        BY <1>2, <2>1, <3>1
    <2>2. CASE k # 1
      <3> DEFINE j == k - 1
      <3>1. j \in 1..Len(found) /\ more[k] = found[j]
        BY <1>3, <2>2
      <3>2. more[k - 1] - 1 = IF j = 1 THEN n ELSE found[j - 1] - 1
        <4>1. CASE j = 1
          BY <1>2, <4>1
        <4>2. CASE j # 1
          <5>1. k - 1 = j /\ j \in 1..Len(more)
            BY <1>1, <1>2, <3>1
          <5>2. more[j] = found[j - 1]
            BY <1>3, <4>2, <5>1
          <5> QED
            BY <4>2, <5>1, <5>2
        <4> QED
          BY <4>1, <4>2
      <3> HIDE DEF j
      <3>3. t \in found[j]..(IF j = 1 THEN n ELSE found[j - 1] - 1)
        BY <2>2, <3>1, <3>2
      <3> QED
        BY <3>1, <3>3 DEF Found
    <2> QED
      BY <2>1, <2>2
  <1> QED
    BY <1>2, <1>4, <1>5, <1>6, <1>7 DEF Found, more


\* OwnershipChanges finds the changes of owner of the whole tree.
LEMMA ChangesFound ==
    ASSUME NEW tree, Len(tree) \in Nat, OwnersKept(tree)
    PROVE  Found(tree, Len(tree), OwnershipChanges(tree))
  <1> DEFINE L == Len(tree)
  <1>1. PICK w \in [0..L -> Seq(Nat)] :
              /\ OwnershipChanges(tree) = w[L]
              /\ w[0] = <<>>
              /\ \A t \in 1..L : w[t] = (IF tree[t].chown THEN <<t>> ELSE <<>>) \o w[t - 1]
    BY ChangesWalk
  <1> DEFINE T == {n \in Nat : n <= L => Found(tree, n, w[n])}
  <1>2. 0 \in T
    BY <1>1 DEF Found
  <1>3. ASSUME NEW n \in T PROVE n + 1 \in T
    <2> SUFFICES ASSUME n + 1 <= L PROVE Found(tree, n + 1, w[n + 1])
      OBVIOUS
    <2>1. /\ n \in Nat /\ n + 1 \in 1..L /\ (n + 1) - 1 = n /\ n \in 0..L
          /\ Found(tree, n, w[n])
      OBVIOUS
    <2>2. w[n + 1] = (IF tree[n + 1].chown THEN <<n + 1>> ELSE <<>>) \o w[n]
      BY <1>1, <2>1
    <2>3. CASE tree[n + 1].chown
      <3>1. w[n + 1] = <<n + 1>> \o w[n]
        BY <2>2, <2>3
      <3> QED
        BY <2>1, <2>3, <3>1, FoundChange
    <2>4. CASE ~tree[n + 1].chown
      <3>1. w[n] \in Seq(Nat)
        BY <2>1
      <3>2. w[n + 1] = <<>> \o w[n]
        BY <2>2, <2>4
      <3>3. w[n + 1] = w[n]
        BY <3>1, <3>2
      <3> QED
        BY <2>1, <2>4, <3>3, FoundNoChange
    <2> QED
      BY <2>3, <2>4
  <1> HIDE DEF T
  <1>4. T = Nat
    BY <1>2, <1>3, Induction DEF T
  <1> QED
    BY <1>1, <1>4 DEF T

\* The oldest change is the first block, if that sets the owners.
LEMMA FirstChange ==
    ASSUME NEW tree, Len(tree) \in Nat \ {0}, OwnersKept(tree), tree[1].chown
    PROVE  LET changes == OwnershipChanges(tree)
           IN /\ Len(changes) \in Nat \ {0}
              /\ changes[Len(changes)] = 1
              /\ \A k \in 1..Len(changes) - 1 : changes[k] # 1
  <1> DEFINE changes == OwnershipChanges(tree)
             m == Len(changes)
  <1>1. Found(tree, Len(tree), changes)
    BY ChangesFound
  <1> HIDE DEF changes
  <1>2. /\ changes \in Seq(Nat) /\ m \in Nat
        /\ \A k \in 1..m : changes[k] \in 1..Len(tree)
        /\ \A k \in 1..m : k + 1 <= m => changes[k] > changes[k + 1]
    BY <1>1 DEF Found
  <1>3. PICK k \in 1..m : changes[k] = 1
    BY <1>1 DEF Found
  <1>4. ASSUME NEW j \in 1..m, changes[j] = 1 PROVE j = m
    <2> SUFFICES ASSUME j # m PROVE FALSE
      OBVIOUS
    <2>1. j + 1 \in 1..m /\ j + 1 <= m
      BY <1>2
    <2>2. changes[j] > changes[j + 1] /\ changes[j + 1] \in 1..Len(tree)
      BY <1>2, <2>1
    <2> QED
      BY <1>4, <2>2
  <1>5. k = m
    BY <1>3, <1>4
  <1>6. \A j \in 1..m - 1 : j \in 1..m /\ j # m
    BY <1>2
  <1> QED
    BY <1>2, <1>3, <1>4, <1>5, <1>6 DEF changes

\* The second oldest is the third block, if that sets the owners and the second does not.
LEMMA SecondChange ==
    ASSUME NEW tree, Len(tree) \in Nat, Len(tree) >= 3, OwnersKept(tree),
           tree[1].chown, ~tree[2].chown, tree[3].chown
    PROVE  LET changes == OwnershipChanges(tree)
           IN changes[Len(changes) - 1] = 3
  <1> DEFINE changes == OwnershipChanges(tree)
             m == Len(changes)
  <1>1. Found(tree, Len(tree), changes)
    BY ChangesFound
  <1>0. changes[m] = 1 /\ m \in Nat \ {0} /\ \A k \in 1..m - 1 : changes[k] # 1
    BY FirstChange
  <1> HIDE DEF changes
  <1>2. /\ changes \in Seq(Nat)
        /\ \A k \in 1..m : changes[k] \in 1..Len(tree) /\ tree[changes[k]].chown
        /\ \A k \in 1..m : k + 1 <= m => changes[k] > changes[k + 1]
    BY <1>1 DEF Found
  <1>3. PICK k \in 1..m : changes[k] = 3
    BY <1>1 DEF Found
  <1>4. k # m /\ k + 1 \in 1..m /\ k + 1 <= m
    BY <1>0, <1>3
  <1>5. changes[k + 1] < 3 /\ changes[k + 1] \in 1..Len(tree) /\ tree[changes[k + 1]].chown
    BY <1>2, <1>3, <1>4
  <1>6. changes[k + 1] = 1
    <2>1. changes[k + 1] # 2
      BY <1>5
    <2> QED
      BY <1>5, <2>1
  <1>7. k + 1 = m
    BY <1>0, <1>4, <1>6
  <1>8. k = m - 1
    BY <1>0, <1>7
  <1> QED
    BY <1>3, <1>8 DEF changes


\* What HistoryIsExact says of one tree.
ExactHistory(c) ==
    LET changes == OwnershipChanges(c)
    IN /\ {changes[k] : k \in DOMAIN changes} = {t \in DOMAIN c : c[t].chown}
       /\ \A k \in 1..Len(changes) - 1 : changes[k] > changes[k + 1]
       /\ \A k \in DOMAIN changes :
             \A h \in Height(changes[k])..(IF k = 1 THEN Len(c) - 1
                                           ELSE Height(changes[k - 1]) - 1) :
                VerifyOwnershipAt(c, h, c[changes[k]].owners)
       /\ AtHeight(c, Len(c)) = 0

\* The two walks agree with the history of a tree whose blocks keep its owners.
LEMMA HistoryExact ==
    ASSUME NEW S, NEW c \in Seq(S), OwnersKept(c)
    PROVE  ExactHistory(c)
  <1> DEFINE changes == OwnershipChanges(c)
             m == Len(changes)
             n == Len(c)
  <1>0. n \in Nat /\ DOMAIN c = 1..n
    OBVIOUS
  <1>1. Found(c, n, changes)
    BY <1>0, ChangesFound
  <1> HIDE DEF changes
  <1>2. /\ changes \in Seq(Nat) /\ m \in Nat /\ DOMAIN changes = 1..m
        /\ \A k \in 1..m : changes[k] \in 1..n /\ c[changes[k]].chown
        /\ \A t \in 1..n : c[t].chown => \E k \in 1..m : changes[k] = t
        /\ \A k \in 1..m : k + 1 <= m => changes[k] > changes[k + 1]
        /\ \A k \in 1..m :
              \A t \in changes[k]..(IF k = 1 THEN n ELSE changes[k - 1] - 1) :
                 c[t].owners = c[changes[k]].owners
    BY <1>1 DEF Found
  <1> HIDE DEF n, m
  <1>3. {changes[k] : k \in DOMAIN changes} = {t \in DOMAIN c : c[t].chown}
    <2>1. ASSUME NEW k \in DOMAIN changes PROVE changes[k] \in {t \in DOMAIN c : c[t].chown}
      BY <1>0, <1>2, <2>1
    <2>2. ASSUME NEW t \in {t \in DOMAIN c : c[t].chown}
          PROVE  t \in {changes[k] : k \in DOMAIN changes}
      <3>1. t \in 1..n /\ c[t].chown
        BY <1>0, <2>2
      <3>2. PICK k \in 1..m : changes[k] = t
        BY <1>2, <3>1
      <3> QED
        BY <1>2, <3>2
    <2> QED
      BY <2>1, <2>2
  <1>4. \A k \in 1..m - 1 : changes[k] > changes[k + 1]
    <2>1. \A k \in 1..m - 1 : k \in 1..m /\ k + 1 <= m
      BY <1>2
    <2> QED
      BY <1>2, <2>1
  <1>5. ASSUME NEW k \in DOMAIN changes,
               NEW h \in Height(changes[k])..(IF k = 1 THEN n - 1
                                              ELSE Height(changes[k - 1]) - 1)
        PROVE  VerifyOwnershipAt(c, h, c[changes[k]].owners)
    <2>1. k \in 1..m /\ changes[k] \in 1..n
      BY <1>2
    <2>2. k # 1 => changes[k - 1] \in 1..n
      <3>1. k # 1 => k - 1 \in 1..m
        BY <1>2, <2>1
      <3> QED
        BY <1>2, <3>1
    <2>3. h + 1 \in changes[k]..(IF k = 1 THEN n ELSE changes[k - 1] - 1)
      BY <1>0, <2>1, <2>2 DEF Height
    <2>4. c[h + 1].owners = c[changes[k]].owners
      BY <1>2, <2>1, <2>3
    <2>5. h \in Nat /\ h < n
      BY <1>0, <2>1, <2>2, <2>3
    <2>6. AtHeight(c, h) = h + 1
      BY <1>0, <2>5, AtHeightIs DEF n
    <2>7. h + 1 # 0
      BY <2>5
    <2> QED
      BY <2>4, <2>6, <2>7 DEF VerifyOwnershipAt, VerifyOwnership
  <1>6. AtHeight(c, n) = 0
    BY <1>0, AtHeightIs DEF n
  <1> QED
    BY <1>3, <1>4, <1>5, <1>6 DEF ExactHistory, changes, m, n


-----------------------------------------------------------------------------
(***************************************************************************)
(* The histories of objects.                                               *)
(***************************************************************************)

\* Two blocks are one after the other.
LEMMA OneByOne ==
    ASSUME NEW S, NEW c \in Seq(S), NEW a \in S, NEW b \in S
    PROVE  c \o <<a, b>> = (c \o <<a>>) \o <<b>>
  <1> DEFINE n == Len(c)
             x == c \o <<a, b>>
             y == c \o <<a>>
             z == y \o <<b>>
  <1>1. n \in Nat
    OBVIOUS
  <1>2. x \in Seq(S) /\ Len(x) = n + 2 /\ x[n + 1] = a /\ x[n + 2] = b /\ \A k \in 1..n : x[k] = c[k]
    BY <1>1
  <1>3. y \in Seq(S) /\ Len(y) = n + 1 /\ y[n + 1] = a /\ \A k \in 1..n : y[k] = c[k]
    BY <1>1
  <1> HIDE DEF x, y
  <1>4. z \in Seq(S) /\ Len(z) = n + 2 /\ z[n + 2] = b /\ \A k \in 1..n + 1 : z[k] = y[k]
    BY <1>1, <1>3
  <1> HIDE DEF z, n
  <1>5. ASSUME NEW k \in 1..n + 2 PROVE x[k] = z[k]
    <2>1. k \in 1..n \/ k = n + 1 \/ k = n + 2
      BY <1>1
    <2>2. n + 1 \in 1..n + 1 /\ \A j \in 1..n : j \in 1..n + 1
      BY <1>1
    <2> QED
      BY <1>2, <1>3, <1>4, <2>1, <2>2
  <1>6. x = [k \in 1..n + 2 |-> x[k]] /\ z = [k \in 1..n + 2 |-> z[k]]
    BY <1>2, <1>4
  <1> QED
    BY <1>5, <1>6 DEF x, y, z

\* Appending a block.
LEMMA AppendIs ==
    ASSUME NEW S, NEW c \in Seq(S), NEW b \in S
    PROVE  Append(c, b) = c \o <<b>>
  OBVIOUS

USE QuestAssumption

\* The court makes artifacts and the player everything else.
Maker(o) == IF o \in Artifact THEN {"court"} ELSE {"player"}

\* What every tree of an object looks like: it is made empty, by its maker; its owners
\* change only by a block that says so; and an artifact that was collected has its
\* forger from before the player became an owner.
History(o, c) ==
    /\ c \in Seq(Block)
    /\ OwnersKept(c)
    /\ c # <<>> => c[1].chown /\ c[1].data.empty /\ c[1].owners = Maker(o)
    /\ scene = "arcadia" /\ o \in Artifact =>
          /\ Len(c) >= 3
          /\ ~c[2].chown /\ c[3].chown /\ c[3].data.forged = Forger[o]

Histories ==
    /\ DOMAIN chain = Object /\ chain = [o \in Object |-> chain[o]]
    /\ \A o \in Object : History(o, chain[o])

\* The last block of a tree.
LEMMA NowIs ==
    ASSUME NEW o \in Object, History(o, chain[o]), chain[o] # <<>>
    PROVE  /\ Now(o) \in Block
           /\ Now(o).data \in [mark : Mark, forged : Altar \cup {0}, empty : BOOLEAN]
           /\ Now(o).owners \in SUBSET {"court", "player"}
  <1>1. chain[o] \in Seq(Block)
    BY DEF History
  <1>2. Len(chain[o]) \in 1..Len(chain[o])
    BY <1>1
  <1>3. Now(o) \in Block
    BY <1>1, <1>2 DEF Now
  <1> QED
    BY <1>3 DEF Block

\* A block with the owners before it, or that sets them, goes on with the history.
LEMMA HistoryGoesOn ==
    ASSUME NEW o, NEW c, History(o, c), c # <<>>, NEW b \in Block,
           b.chown \/ b.owners = c[Len(c)].owners
    PROVE  /\ History(o, c \o <<b>>)
           /\ Len(c \o <<b>>) = Len(c) + 1 /\ Len(c) \in Nat \ {0}
           /\ (c \o <<b>>)[Len(c) + 1] = b
  <1> DEFINE d == c \o <<b>>
             n == Len(c)
  <1>1. c \in Seq(Block) /\ n \in Nat \ {0}
    BY DEF History
  <1>2. /\ d \in Seq(Block) /\ Len(d) = n + 1 /\ d[n + 1] = b
        /\ \A t \in 1..n : d[t] = c[t]
    BY <1>1
  <1> HIDE DEF d, n
  <1>3. OwnersKept(d)
    <2> SUFFICES ASSUME NEW t \in 2..n + 1, ~d[t].chown
                 PROVE  d[t].owners = d[t - 1].owners
      BY <1>2 DEF OwnersKept
    <2>1. CASE t = n + 1
      <3>1. t - 1 = n /\ n \in 1..n
        BY <1>1, <2>1
      <3> QED
        BY <1>2, <2>1, <3>1 DEF n
    <2>2. CASE t # n + 1
      <3>1. t \in 2..n /\ t \in 1..n /\ t - 1 \in 1..n
        BY <1>1, <2>2
      <3>2. ~c[t].chown => c[t].owners = c[t - 1].owners
        BY <3>1 DEF History, OwnersKept, n
      <3> QED
        BY <1>2, <3>1, <3>2
    <2> QED
      BY <2>1, <2>2
  <1>4. d # <<>> /\ d[1] = c[1] /\ (n >= 3 => d[2] = c[2] /\ d[3] = c[3])
    BY <1>1, <1>2
  <1>5. c[1].chown /\ c[1].data.empty /\ c[1].owners = Maker(o)
    BY DEF History
  <1>6. scene = "arcadia" /\ o \in Artifact =>
           n >= 3 /\ ~c[2].chown /\ c[3].chown /\ c[3].data.forged = Forger[o]
    BY DEF History, n
  <1>7. n >= 3 => Len(d) >= 3
    BY <1>1, <1>2
  <1>8. History(o, d)
    BY <1>2, <1>3, <1>4, <1>5, <1>6, <1>7 DEF History
  <1> QED
    BY <1>1, <1>2, <1>8 DEF d, n

\* What publishing does to the trees: one of them gets longer.
Published(o, b) ==
    /\ Histories'
    /\ \A x \in Object \ {o} : chain'[x] = chain[x]
    /\ Len(chain'[o]) > Len(chain[o]) /\ Len(chain[o]) \in Nat \ {0}
    /\ Len(chain'[o]) \in Nat
    /\ Now(o)' = b

\* One block.
LEMMA PublishOne ==
    ASSUME Histories, scene' = scene, NEW o \in Object, chain[o] # <<>>, NEW b \in Block,
           b.chown \/ b.owners = Now(o).owners, Publish(o, <<b>>)
    PROVE  Published(o, b)
  <1>1. chain' = [chain EXCEPT ![o] = @ \o <<b>>]
    BY DEF Publish
  <1>2. /\ DOMAIN chain' = Object /\ chain' = [x \in Object |-> chain'[x]]
        /\ chain'[o] = chain[o] \o <<b>>
        /\ \A x \in Object \ {o} : chain'[x] = chain[x]
    BY <1>1 DEF Histories
  <1>3. History(o, chain[o])
    BY DEF Histories
  <1>4. /\ History(o, chain[o] \o <<b>>)
        /\ Len(chain[o] \o <<b>>) = Len(chain[o]) + 1 /\ Len(chain[o]) \in Nat \ {0}
        /\ (chain[o] \o <<b>>)[Len(chain[o]) + 1] = b
    BY <1>3, HistoryGoesOn DEF Now
  <1>5. ASSUME NEW x \in Object PROVE History(x, chain'[x])
    <2>1. CASE x = o
      BY <1>2, <1>4, <2>1
    <2>2. CASE x # o
      BY <1>2, <2>2 DEF Histories
    <2> QED
      BY <2>1, <2>2
  <1>6. Histories'
    BY <1>2, <1>5 DEF Histories, History
  <1>7. Now(o)' = b /\ Len(chain'[o]) = Len(chain[o]) + 1
    BY <1>2, <1>4 DEF Now
  <1> QED
    BY <1>2, <1>4, <1>6, <1>7 DEF Published

\* Two blocks that set the owners.
LEMMA PublishTwo ==
    ASSUME Histories, scene' = scene, NEW o \in Object, chain[o] # <<>>,
           NEW a \in Block, a.chown, NEW b \in Block, b.chown, Publish(o, <<a, b>>)
    PROVE  Published(o, b)
  <1> DEFINE c == chain[o]
             d == c \o <<a>>
  <1>1. chain' = [chain EXCEPT ![o] = @ \o <<a, b>>]
    BY DEF Publish
  <1>2. /\ DOMAIN chain' = Object /\ chain' = [x \in Object |-> chain'[x]]
        /\ chain'[o] = c \o <<a, b>>
        /\ \A x \in Object \ {o} : chain'[x] = chain[x]
    BY <1>1 DEF Histories
  <1>3. History(o, c) /\ c \in Seq(Block)
    BY DEF Histories, History
  <1>4. History(o, d) /\ Len(d) = Len(c) + 1 /\ Len(c) \in Nat \ {0}
    BY <1>3, HistoryGoesOn
  <1> HIDE DEF c
  <1>5. c \o <<a, b>> = d \o <<b>>
    <2>1. c \in Seq(Block)
      BY <1>3
    <2>2. \A z \in Seq(Block) : z \o <<a, b>> = (z \o <<a>>) \o <<b>>
      BY OneByOne
    <2> QED
      BY <2>1, <2>2
  <1> HIDE DEF d
  <1>6. d # <<>>
    BY <1>4
  <1>7. History(o, d \o <<b>>) /\ Len(d \o <<b>>) = Len(d) + 1 /\ (d \o <<b>>)[Len(d) + 1] = b
    BY <1>4, <1>6, HistoryGoesOn
  <1>8. ASSUME NEW x \in Object PROVE History(x, chain'[x])
    <2>1. CASE x = o
      BY <1>2, <1>5, <1>7, <2>1
    <2>2. CASE x # o
      BY <1>2, <2>2 DEF Histories
    <2> QED
      BY <2>1, <2>2
  <1>9. Histories'
    BY <1>2, <1>8 DEF Histories, History
  <1>10. Now(o)' = b /\ Len(chain'[o]) = Len(c) + 2
    BY <1>2, <1>4, <1>5, <1>7 DEF Now
  <1> QED
    BY <1>2, <1>4, <1>9, <1>10 DEF Published, c


-----------------------------------------------------------------------------
(***************************************************************************)
(* Where objects are.                                                      *)
(***************************************************************************)

\* The respawn actor: artifacts are recorded in the order they are made in, and the one
\* it is at is the next.
Spawner ==
    /\ sp = [pc |-> sp.pc, art |-> sp.art, tip |-> sp.tip, sub |-> sp.sub]
    /\ sp.pc \in {"started", "found", "create", "load", "place", "record", "idle"}
    /\ sp.art \in Artifact \cup {0} /\ sp.sub \in {"none", "pending", "on"}
    /\ sp.pc = "found" => sp.art \in Artifact
    /\ sp.pc \in {"load", "place", "record"} => sp.art \in Artifact /\ sp.art = Len(last) + 1
    /\ last \in Seq(Artifact) /\ \A k \in 1..Len(last) : last[k] = k
    /\ restarts \in Nat
    /\ lapse \in BOOLEAN /\ prize \in BOOLEAN

\* The respawn actor and the altars are not in one scene, and an object is in the bag
\* or on one altar.
Scenes ==
    /\ scene \in {"spawn", "arcadia", "spring"}
    /\ at \subseteq Artifact /\ transit \subseteq Artifact /\ bag \subseteq Object
    /\ seen \subseteq Altar /\ altar \in [Altar -> SUBSET Object]
    /\ Spawns => seen = {} /\ \A i \in Altar : altar[i] = {}
    /\ ~Spawns => at = {} /\ transit = {} /\ sp = Stopped
    /\ \A i \in Altar : altar[i] \cap bag = {}
    /\ \A i, j \in Altar : i # j => altar[i] \cap altar[j] = {}

\* An inventory has room for one object of a name: of several objects none is lost but to
\* another one of its name.
LEMMA UpdateOK ==
    ASSUME NEW objects \in SUBSET Object, NEW new \in updateObjects(objects)
    PROVE  /\ new \subseteq objects
           /\ \A x \in objects : x \in new \/ \E y \in new : y # x /\ NameOf[y] = NameOf[x]
  <1> DEFINE Namesakes(x) == {k \in new : NameOf[k] = NameOf[x]}
  <1>1. new \subseteq objects /\ \A x \in objects : Cardinality(Namesakes(x)) = 1
    BY DEF updateObjects
  <1>2. IsFiniteSet(Object)
    <2>1. IsFiniteSet(Artifact)
      BY FS_Interval DEF Artifact
    <2> QED
      BY <2>1, FS_Union DEF Object
  <1>3. ASSUME NEW x \in objects PROVE \E y \in new : NameOf[y] = NameOf[x]
    <2>1. Namesakes(x) \subseteq Object
      BY <1>1
    <2>2. IsFiniteSet(Namesakes(x))
      BY <1>2, <2>1, FS_Subset
    <2>3. Cardinality(Namesakes(x)) = 1
      BY <1>1
    <2>4. Namesakes(x) # {}
      BY <2>2, <2>3, FS_EmptySet
    <2> QED
      BY <2>4
  <1> QED
    BY <1>1, <1>3

\* So with the objects in an inventory and a new one.
LEMMA AddOK ==
    ASSUME NEW o \in Object, NEW inv \in SUBSET Object, NEW new \in Add(o, inv)
    PROVE  /\ new \subseteq inv \cup {o}
           /\ \A x \in inv \cup {o} :
                 x \in new \/ \E y \in new : y # x /\ NameOf[y] = NameOf[x]
  <1>1. CASE o \in inv
    BY <1>1 DEF Add
  <1>2. CASE o \notin inv
    <2>1. inv \cup {o} \in SUBSET Object /\ new \in updateObjects(inv \cup {o})
      BY <1>2 DEF Add
    <2> QED
      BY <2>1, UpdateOK
  <1> QED
    BY <1>1, <1>2

\* A step that moves nothing.
LEMMA NothingMoves ==
    ASSUME Scenes, UNCHANGED <<scene, places>>, Spawns \/ UNCHANGED sp
    PROVE  Scenes'
  BY DEF Scenes, Spawns, places, Stopped

\* A respawn actor that is under way is in its scene.
LEMMA SpawnerWorks ==
    ASSUME Scenes, sp.pc # "started" \/ sp.sub # "none"
    PROVE  Spawns
  BY DEF Scenes, Stopped

\* Every step of the respawn actor.
LEMMA NextSpawner == ASSUME Spawner, [Next]_vars PROVE Spawner'
  <1>0. /\ Len(last) \in Nat /\ \A k \in 1..Len(last) : last[k] \in Artifact
        /\ \A k \in Artifact : k \in Nat
    BY DEF Spawner, Artifact
  <1>1. CASE Started
    <2>1. last # <<>> => last[Len(last)] \in Artifact
      BY <1>0 DEF Spawner
    <2> QED
      BY <1>1, <2>1 DEF Started, Spawner, court
  <1>2. CASE Attach
    BY <1>2 DEF Attach, Spawner, court
  <1>3. CASE CreateArtifact
    <2>1. Len(last) + 1 \in Artifact
      BY <1>0, <1>3 DEF CreateArtifact, Artifact
    <2> QED
      BY <1>3, <2>1 DEF CreateArtifact, Spawner, court
  <1>4. CASE LoadArtifact
    BY <1>4 DEF LoadArtifact, Spawner, court
  <1>5. CASE Subscribed
    BY <1>5 DEF Subscribed, Spawner, court
  <1>6. CASE addArtifactToRandomLocation
    BY <1>6 DEF addArtifactToRandomLocation, Spawner, court
  <1>7. CASE RecordLast
    <2>1. sp.art \in Artifact /\ sp.art = Len(last) + 1 /\ last' = Append(last, sp.art)
      BY <1>7 DEF RecordLast, Spawner
    <2>2. last \in Seq(Artifact)
      BY DEF Spawner
    <2>3. last' \in Seq(Artifact) /\ \A k \in 1..Len(last') : last'[k] = k
      BY <2>1, <2>2 DEF Spawner
    <2> QED
      BY <1>7, <2>3 DEF RecordLast, Spawner, court
  <1>8. CASE CurrentState
    BY <1>8 DEF CurrentState, Spawner, court
  <1>9. CASE LoseMessage
    BY <1>9 DEF LoseMessage, Spawner, court
  <1>10. CASE Panic
    <2>1. /\ sp' = [pc |-> "started", art |-> 0, tip |-> 0, sub |-> "none"]
          /\ lapse' = FALSE /\ restarts' = restarts + 1 /\ UNCHANGED <<last, prize>>
      BY <1>10 DEF Panic, Stopped, court
    <2>2. restarts' \in Nat /\ last' \in Seq(Artifact) /\ prize' \in BOOLEAN
          /\ \A k \in 1..Len(last') : last'[k] = k
      BY <2>1 DEF Spawner
    <2> QED
      BY <2>1, <2>2 DEF Spawner
  <1>11. CASE UNCHANGED <<sp, last, restarts>> /\ lapse' \in BOOLEAN /\ prize' \in BOOLEAN
    BY <1>11 DEF Spawner
  <1>12. CASE \E a \in Artifact : StartPickUp(a) \/ FinishPickUp(a) \/ RollBack(a)
    <2>1. UNCHANGED <<sp, last, restarts, prize>> /\ lapse' \in BOOLEAN
      BY <1>12 DEF StartPickUp, FinishPickUp, RollBack, Publish, court, Spawner
    <2> QED
      BY <1>11, <2>1 DEF Spawner
  <1>13. CASE \E o \in Object, i \in Altar :
                 Drop(o, i) \/ TakeBack(o, i) \/ Inscribe(o, i) \/ Reforge(o, i)
    <2>1. UNCHANGED <<sp, last, restarts, prize>> /\ lapse' \in BOOLEAN
      <3> DEFINE SpawnerKept == UNCHANGED <<sp, last, restarts, prize>> /\ lapse' \in BOOLEAN
      <3>0. lapse \in BOOLEAN
        BY DEF Spawner
      <3>1. ASSUME NEW o \in Object, NEW i \in Altar, Drop(o, i) PROVE SpawnerKept
        BY <3>0, <3>1 DEF Drop, Publish
      <3>2. ASSUME NEW o \in Object, NEW i \in Altar, TakeBack(o, i) PROVE SpawnerKept
        BY <3>0, <3>2 DEF TakeBack, Publish
      <3>3. ASSUME NEW o \in Object, NEW i \in Altar, Inscribe(o, i) PROVE SpawnerKept
        BY <3>0, <3>3 DEF Inscribe, Publish, court
      <3>4. ASSUME NEW o \in Object, NEW i \in Altar, Reforge(o, i) PROVE SpawnerKept
        BY <3>0, <3>4 DEF Reforge, Publish, court
      <3> QED
        BY <1>13, <3>1, <3>2, <3>3, <3>4
    <2> QED
      BY <1>11, <2>1 DEF Spawner
  <1>14. CASE DropPrize \/ RequestPrize \/ CrashCourt \/ \E i \in Altar : Visit(i)
    BY <1>11, <1>14 DEF DropPrize, RequestPrize, CrashCourt, Visit, spawner, court, Spawner
  <1>15. CASE Validate
    <2> DEFINE SpawnerKept == UNCHANGED <<sp, last, restarts>> /\ lapse' \in BOOLEAN /\ prize' \in BOOLEAN
    <2>0. lapse \in BOOLEAN /\ prize \in BOOLEAN
      BY DEF Spawner
    <2>1. ASSUME NEW i \in Altar, ReadAltar(i) \/ ReadPedestal(i) PROVE SpawnerKept
      BY <2>0, <2>1 DEF ReadAltar, ReadPedestal, ReadInventory, Fetch, spawner
    <2>2. ASSUME NEW i \in Altar, JudgePedestal(i) PROVE SpawnerKept
      BY <2>0, <2>2 DEF JudgePedestal, spawner
    <2>3. ASSUME NEW i \in Altar, CleanAltar(i) \/ CleanPedestal(i) PROVE SpawnerKept
      BY <2>0, <2>3 DEF CleanAltar, CleanPedestal, Fetch, spawner
    <2>4. ASSUME NEW i \in Altar, EmptyAltar(i) \/ EmptyPedestal(i) PROVE SpawnerKept
      BY <2>0, <2>4 DEF EmptyAltar, EmptyPedestal, Fetch, spawner
    <2>5. ASSUME JudgeAltar \/ Award PROVE SpawnerKept
      BY <2>0, <2>5 DEF JudgeAltar, Award, spawner
    <2>6. ASSUME Remove \/ NextInventory PROVE SpawnerKept
      BY <2>0, <2>6 DEF Remove, NextInventory, spawner
    <2>7. SpawnerKept
      BY <1>15, <2>1, <2>2, <2>3, <2>4, <2>5, <2>6 DEF Validate
    <2> QED
      BY <1>11, <2>7
  <1>16. CASE UNCHANGED vars
    BY <1>11, <1>16 DEF vars, Spawner
  <1>17. CASE UpdateRefused
    <2>1. /\ sp' = [pc |-> "started", art |-> 0, tip |-> 0, sub |-> "none"]
          /\ lapse' = FALSE /\ UNCHANGED <<last, prize, restarts>>
      BY <1>17 DEF UpdateRefused, Stopped, court
    <2> QED
      BY <2>1 DEF Spawner
  <1>18. CASE RemoveFails \/ \E i \in Altar : FetchFails(i)
    <2>1. UNCHANGED <<sp, last, restarts, lapse, prize>>
      BY <1>18 DEF RemoveFails, FetchFails, spawner
    <2> QED
      BY <1>11, <2>1 DEF Spawner
  <1> QED
    BY <1>1, <1>2, <1>3, <1>4, <1>5, <1>6, <1>7, <1>8, <1>9, <1>10, <1>12, <1>13, <1>14, <1>15, <1>16,
       <1>17, <1>18 DEF Next, Respawn, Player

\* What the court's removal of an object does to the places, also when it fails.
LEMMA RemovesSome ==
    ASSUME Scenes, Remove \/ RemoveFails
    PROVE  /\ UNCHANGED <<scene, chain, spawner, at, transit, bag, seen>>
           /\ altar' \in [Altar -> SUBSET Object] /\ taken \subseteq taken'
           /\ \A i \in Altar : altar'[i] \subseteq altar[i]
           /\ \A i \in Altar : \A x \in altar[i] : x \in altar'[i] \/ x \in taken'
           /\ \A i \in Altar : i # req.hand => altar'[i] = altar[i]
  <1>1. UNCHANGED <<scene, chain, spawner, at, transit, bag, seen>>
    BY DEF Remove, RemoveFails
  <1>2. PICK o : \/ altar' = [altar EXCEPT ![req.hand] = @ \ {o}] /\ taken' = taken \cup {o}
                 \/ altar' = altar /\ taken' = taken
    <2>1. CASE Remove
      BY <2>1 DEF Remove
    <2>2. CASE RemoveFails
      BY <2>2 DEF RemoveFails
    <2> QED
      BY <2>1, <2>2
  <1> QED
    BY <1>1, <1>2 DEF Scenes

\* Every step of the places.
LEMMA NextScenes == ASSUME Spawner, Scenes, [Next]_vars PROVE Scenes'
  <1>1. CASE Respawn
    <2>1. Spawns
      BY <1>1, SpawnerWorks DEF Respawn, Started, Attach, CreateArtifact, UpdateRefused, LoadArtifact, Subscribed,
         addArtifactToRandomLocation, RecordLast, CurrentState
    <2>2. CASE addArtifactToRandomLocation
      <3>1. at' \in Add(sp.art, at) /\ sp.art \in Artifact /\ at \in SUBSET Object
        BY <2>2 DEF addArtifactToRandomLocation, Spawner, Scenes, Object
      <3>2. at' \subseteq at \cup {sp.art}
        BY <3>1, AddOK DEF Object
      <3> QED
        BY <2>1, <2>2, <3>1, <3>2 DEF addArtifactToRandomLocation, Scenes, Spawns
    <2>3. CASE Respawn /\ ~addArtifactToRandomLocation
      BY <2>1, <2>3, NothingMoves DEF Respawn, Started, Attach, CreateArtifact, UpdateRefused, LoadArtifact,
         Subscribed, RecordLast, CurrentState
    <2> QED
      BY <1>1, <2>2, <2>3
  <1>2. ASSUME NEW a \in Artifact, StartPickUp(a) PROVE Scenes'
    <2>1. Spawns
      BY <1>2 DEF StartPickUp, Scenes
    <2> QED
      BY <1>2, <2>1 DEF StartPickUp, Scenes, Spawns
  <1>3. ASSUME NEW a \in Artifact, FinishPickUp(a) PROVE Scenes'
    <2>1. Spawns
      BY <1>3 DEF FinishPickUp, Scenes
    <2>2. bag' \subseteq bag \cup {a}
      BY <1>3, AddOK DEF FinishPickUp, Scenes, Object
    <2> QED
      BY <1>3, <2>1, <2>2 DEF FinishPickUp, Scenes, Spawns, Object
  <1>4. ASSUME NEW a \in Artifact, RollBack(a) PROVE Scenes'
    <2>1. Spawns
      BY <1>4 DEF RollBack, Scenes
    <2>2. at' \subseteq at \cup {a}
      <3>1. at \in SUBSET Object /\ a \in Object /\ at' \in Add(a, at)
        BY <1>4 DEF RollBack, Scenes, Object
      <3> QED
        BY <3>1, AddOK
    <2> QED
      BY <1>4, <2>1, <2>2 DEF RollBack, Scenes, Spawns
  <1>5. ASSUME NEW i \in Altar, Visit(i) PROVE Scenes'
    BY <1>5 DEF Visit, Scenes, Spawns, spawner
  <1>6. ASSUME NEW o \in Object, NEW i \in Altar, Drop(o, i) PROVE Scenes'
    <2>1. ~Spawns /\ bag' = bag \ {o} /\ o \in bag /\ UNCHANGED <<scene, at, transit, seen, sp>>
      BY <1>6 DEF Drop, Scenes
    <2>2. PICK inv \in Add(o, altar[i]) : altar' = [altar EXCEPT ![i] = inv]
      BY <1>6 DEF Drop
    <2>3. inv \subseteq altar[i] \cup {o}
      BY <2>2, AddOK DEF Scenes
    <2>4. /\ altar' \in [Altar -> SUBSET Object] /\ altar'[i] = inv
          /\ \A j \in Altar \ {i} : altar'[j] = altar[j]
      BY <2>2, <2>3 DEF Scenes
    <2> QED
      BY <2>1, <2>3, <2>4 DEF Scenes, Spawns
  <1>7. ASSUME NEW o \in Object, NEW i \in Altar, TakeBack(o, i) PROVE Scenes'
    <2>1. /\ ~Spawns /\ o \in altar[i] /\ UNCHANGED <<scene, at, transit, seen, sp>>
          /\ altar' = [altar EXCEPT ![i] = @ \ {o}]
      BY <1>7 DEF TakeBack, Scenes
    <2>2. bag' \subseteq bag \cup {o}
      BY <1>7, AddOK DEF TakeBack, Scenes
    <2>3. /\ altar' \in [Altar -> SUBSET Object] /\ altar'[i] = altar[i] \ {o}
          /\ \A j \in Altar \ {i} : altar'[j] = altar[j]
      BY <2>1 DEF Scenes
    <2> QED
      BY <2>1, <2>2, <2>3 DEF Scenes, Spawns
  <1>8. CASE Remove \/ RemoveFails
    <2>1. /\ altar' \in [Altar -> SUBSET Object] /\ \A i \in Altar : altar'[i] \subseteq altar[i]
          /\ UNCHANGED <<scene, spawner, at, transit, bag, seen>>
      BY <1>8, RemovesSome
    <2> QED
      BY <2>1 DEF Scenes, Spawns, spawner
  <1>9. CASE Panic
    BY <1>9, NothingMoves DEF Panic
  <1>10. CASE \/ LoseMessage \/ RequestPrize \/ CrashCourt \/ DropPrize
              \/ \E i \in Altar : FetchFails(i)
    BY <1>10, NothingMoves DEF LoseMessage, RequestPrize, CrashCourt, DropPrize, FetchFails, spawner
  <1>11. CASE \E o \in Object, i \in Altar : Inscribe(o, i) \/ Reforge(o, i)
    BY <1>11, NothingMoves DEF Inscribe, Reforge
  <1>12. CASE Validate /\ ~Remove
    BY <1>12, NothingMoves DEF Validate, ReadAltar, ReadPedestal, ReadInventory, JudgePedestal,
       CleanAltar, CleanPedestal, EmptyAltar, EmptyPedestal, Fetch, JudgeAltar, Award, NextInventory, spawner
  <1>13. CASE UNCHANGED vars
    BY <1>13, NothingMoves DEF vars, places
  <1> QED
    BY <1>1, <1>2, <1>3, <1>4, <1>5, <1>6, <1>7, <1>8, <1>9, <1>10, <1>11, <1>12, <1>13 DEF Next, Player

-----------------------------------------------------------------------------
(***************************************************************************)
(* The trees of the objects that are listed.                               *)
(***************************************************************************)

\* A listed object has a tree with data, the court may sign for what is on an altar,
\* and the respawn actor's artifact has a tree.
Trees ==
    /\ Histories
    /\ \A o \in Held : Len(chain[o]) > 1
    /\ \A i \in Altar : \A o \in altar[i] : "court" \in Now(o).owners
    /\ sp.pc \in {"load", "place", "record"} => chain[sp.art] # <<>>
    /\ sp.pc \in {"place", "record"} => Len(chain[sp.art]) > 1
    /\ OneUnrecorded

\* Trees only grow: a tree is new when the respawn actor makes it, and has data since the
\* respawn actor loaded the template.
Grows ==
    \A o \in Object :
        /\ chain[o] # <<>> => chain'[o] # <<>>
        /\ Len(chain[o]) > 1 => Len(chain'[o]) > 1
        /\ chain'[o] # <<>> => chain[o] # <<>> \/ (o = Len(last) + 1 /\ sp'.pc = "load")
        /\ Len(chain'[o]) > 1 =>
              Len(chain[o]) > 1 \/ (o = sp.art /\ sp'.art = sp.art /\ sp'.pc = "place")

\* The block after a step that leaves a tree alone.
LEMMA NowKept ==
    ASSUME NEW o, chain'[o] = chain[o]
    PROVE  Now(o)' = Now(o)
  BY DEF Now

\* A step of the player or the court at the altars that adds nothing to a tree.
LEMMA TreesKept ==
    ASSUME Trees, UNCHANGED <<scene, chain, sp, last>>,
           Held' \subseteq Held, \A i \in Altar : altar'[i] \subseteq altar[i]
    PROVE  Trees' /\ Grows
  <1>1. Histories'
    BY DEF Trees, Histories, History
  <1>2. OneUnrecorded'
    BY DEF Trees, OneUnrecorded
  <1> QED
    BY <1>1, <1>2 DEF Trees, Grows, Now

\* A step that adds a block to the tree of a listed object.
LEMMA TreesPublished ==
    ASSUME Spawner, Scenes, Trees, UNCHANGED <<scene, sp, last>>, NEW o \in Held, NEW b, Published(o, b),
           Held' \subseteq Held,
           \A i \in Altar : \A x \in altar'[i] :
              IF x = o THEN "court" \in b.owners ELSE x \in altar[i]
    PROVE  Trees' /\ Grows
  <1>1. o \in Object /\ Held \subseteq Object /\ \A a \in Artifact : a \in Object
    BY DEF Scenes, Held, Object
  <1>2. /\ Histories' /\ Now(o)' = b
        /\ \A x \in Object \ {o} : chain'[x] = chain[x]
        /\ Len(chain'[o]) > Len(chain[o]) /\ Len(chain[o]) \in Nat \ {0} /\ Len(chain'[o]) \in Nat
    BY DEF Published
  <1>3. ASSUME NEW x \in Held' PROVE Len(chain'[x]) > 1
    BY <1>1, <1>2 DEF Trees
  <1>4. ASSUME NEW i \in Altar, NEW x \in altar'[i] PROVE "court" \in Now(x)'.owners
    <2>1. CASE x = o
      BY <1>2, <2>1
    <2>2. CASE x # o
      <3>1. x \in altar[i] /\ x \in Object
        BY <2>2 DEF Scenes
      <3>2. Now(x)' = Now(x)
        BY <1>2, <2>2, <3>1, NowKept
      <3> QED
        BY <3>1, <3>2 DEF Trees
    <2> QED
      BY <2>1, <2>2
  <1>5. chain[o] # <<>> /\ chain'[o] # <<>>
    <2>1. Len(<<>>) = 0
      OBVIOUS
    <2> QED
      BY <1>2, <2>1
  <1>6. OneUnrecorded'
    BY <1>1, <1>2, <1>5 DEF Trees, OneUnrecorded
  <1>7. ASSUME sp.pc \in {"load", "place", "record"}
        PROVE  chain'[sp.art] # <<>> /\ (sp.pc # "load" => Len(chain'[sp.art]) > 1)
    <2>1. sp.art \in Object /\ chain[sp.art] # <<>> /\ (sp.pc # "load" => Len(chain[sp.art]) > 1)
      BY <1>1, <1>7 DEF Trees, Spawner
    <2>2. CASE sp.art = o
      BY <1>2, <1>5, <2>1, <2>2
    <2>3. CASE sp.art # o
      BY <1>2, <2>1, <2>3
    <2> QED
      BY <2>2, <2>3
  <1>8. Grows
    BY <1>1, <1>2, <1>5 DEF Grows, Trees
  <1> QED
    BY <1>2, <1>3, <1>4, <1>6, <1>7, <1>8 DEF Trees

\* An artifact's first block.
LEMMA CreateTrees ==
    ASSUME Spawner, Scenes, Trees, CreateArtifact
    PROVE  Trees' /\ Grows
  <1> DEFINE a == Len(last) + 1
             c == <<Chown({"court"}, Empty)>>
  <1>1. Spawns /\ UNCHANGED <<scene, last, places>> /\ sp'.pc = "load" /\ sp'.art = a
    BY SpawnerWorks DEF CreateArtifact, Spawner
  <1>2. a \in Artifact /\ a \in Object /\ Len(last) \in Nat
    BY DEF CreateArtifact, Artifact, Object, Spawner
  <1>3. chain' = IF chain[a] = <<>> THEN [chain EXCEPT ![a] = c] ELSE chain
    BY DEF CreateArtifact
  <1>4. Held' = Held /\ Held \subseteq Object /\ \A i \in Altar : altar'[i] = {}
    BY <1>1 DEF Held, places, Scenes, Object
  <1> HIDE DEF a
  <1>5. CASE chain[a] # <<>>
    <2>1. chain' = chain
      BY <1>3, <1>5
    <2>2. Histories' /\ OneUnrecorded'
      BY <1>1, <2>1 DEF Trees, Histories, History, OneUnrecorded
    <2> QED
      BY <1>1, <1>4, <1>5, <2>1, <2>2 DEF Trees, Grows
  <1>6. CASE chain[a] = <<>>
    <2>1. chain' = [chain EXCEPT ![a] = c]
      BY <1>3, <1>6
    <2>2. /\ DOMAIN chain' = Object /\ chain' = [x \in Object |-> chain'[x]]
          /\ chain'[a] = c /\ \A x \in Object \ {a} : chain'[x] = chain[x]
      BY <1>2, <2>1 DEF Trees, Histories
    <2>3. Chown({"court"}, Empty) \in Block
      BY DEF Chown, Empty, Block, Mark
    <2>4. Len(c) = 1 /\ c \in Seq(Block) /\ c # <<>> /\ c[1] = Chown({"court"}, Empty)
      BY <2>3
    <2> HIDE DEF c
    <2>5. History(a, c)
      <3>1. OwnersKept(c)
        BY <2>4 DEF OwnersKept
      <3>2. c[1].chown /\ c[1].data.empty /\ c[1].owners = Maker(a)
        BY <1>2, <2>4 DEF Chown, Empty, Maker
      <3>3. scene # "arcadia"
        BY <1>1 DEF Spawns
      <3> QED
        BY <2>4, <3>1, <3>2, <3>3 DEF History
    <2>6. ASSUME NEW x \in Object PROVE History(x, chain'[x])
      BY <2>2, <2>5 DEF Trees, Histories
    <2>7. Histories'
      BY <1>1, <2>2, <2>6 DEF Histories, History
    <2>8. a \notin Held
      <3>1. Len(<<>>) = 0
        OBVIOUS
      <3> QED
        BY <1>6, <3>1 DEF Trees
    <2>9. \A o \in Held' : Len(chain'[o]) > 1
      BY <1>4, <2>2, <2>8 DEF Trees
    <2>10. OneUnrecorded'
      BY <1>1, <2>2 DEF Trees, OneUnrecorded, a, Object
    <2>11. Grows
      <3>1. Len(<<>>) = 0
        OBVIOUS
      <3>2. ASSUME NEW x \in Object
            PROVE  /\ chain[x] # <<>> => chain'[x] # <<>>
                   /\ Len(chain[x]) > 1 => Len(chain'[x]) > 1
                   /\ chain'[x] # <<>> => chain[x] # <<>> \/ (x = Len(last) + 1 /\ sp'.pc = "load")
                   /\ Len(chain'[x]) > 1 => Len(chain[x]) > 1
        <4>1. CASE x = a
          <5>1. ~(Len(chain[a]) > 1)
            BY <1>6, <3>1
          <5>2. chain'[a] # <<>>
            BY <2>2, <2>4
          <5>3. ~(Len(chain'[a]) > 1)
            BY <2>2, <2>4
          <5>4. a = Len(last) + 1
            BY DEF a
          <5> QED
            BY <1>1, <1>6, <4>1, <5>1, <5>2, <5>3, <5>4
        <4>2. CASE x # a
          BY <2>2, <4>2
        <4> QED
          BY <4>1, <4>2
      <3> QED
        BY <3>2 DEF Grows
    <2> QED
      BY <1>1, <1>4, <2>2, <2>4, <2>7, <2>9, <2>10, <2>11 DEF Trees
  <1> QED
    BY <1>5, <1>6

\* The data of an artifact.
LEMMA LoadTrees ==
    ASSUME Spawner, Scenes, Trees, LoadArtifact
    PROVE  Trees' /\ Grows
  <1> DEFINE a == sp.art
             b == Write({"court"}, Data(FirstMark[a], Forger[a]))
             new == IF Len(chain[a]) > 1 THEN chain[a] ELSE Append(chain[a], b)
  <1>1. Spawns /\ UNCHANGED <<scene, last, places>> /\ sp'.pc = "place" /\ sp'.art = a
    BY SpawnerWorks DEF LoadArtifact, Spawner
  <1>2. a \in Artifact /\ a \in Object /\ chain[a] # <<>>
    BY DEF LoadArtifact, Object, Spawner, Trees
  <1>3. chain' = [chain EXCEPT ![a] = new]
    BY DEF LoadArtifact
  <1>4. Held' = Held /\ Held \subseteq Object /\ \A i \in Altar : altar'[i] = {}
    BY <1>1 DEF Held, places, Scenes, Object
  <1>5. /\ DOMAIN chain' = Object /\ chain' = [x \in Object |-> chain'[x]]
        /\ chain'[a] = new /\ \A x \in Object \ {a} : chain'[x] = chain[x]
    BY <1>2, <1>3 DEF Trees, Histories
  <1> HIDE DEF a
  <1>6. History(a, chain[a]) /\ chain[a] \in Seq(Block) /\ Len(chain[a]) \in Nat \ {0}
    BY <1>2 DEF Trees, Histories, History
  <1>7. b \in Block
    <2>1. FirstMark[a] \in 0..N + 1 /\ Forger[a] \in 0..N
      BY <1>2 DEF Artifact
    <2>2. FirstMark[a] \in Mark /\ Forger[a] \in Altar \cup {0}
      BY <2>1 DEF Mark, Altar
    <2> QED
      BY <2>2 DEF Write, Data, Block
  <1>8. History(a, new) /\ Len(new) > 1
    <2>1. CASE Len(chain[a]) > 1
      BY <1>6, <2>1
    <2>2. CASE ~(Len(chain[a]) > 1)
      <3> DEFINE n == Len(chain[a])
      <3>0. n \in Nat \ {0} /\ ~(n > 1)
        BY <1>6, <2>2
      <3> HIDE DEF n
      <3>00. n = 1
        BY <3>0
      <3>1. Len(chain[a]) = 1
        BY <3>00 DEF n
      <3>2. b.owners = chain[a][1].owners
        BY <1>2, <1>6 DEF History, Write, Maker
      <3>3. Append(chain[a], b) = chain[a] \o <<b>>
        BY <1>6, <1>7, AppendIs
      <3> HIDE DEF b
      <3>4. History(a, chain[a] \o <<b>>) /\ Len(chain[a] \o <<b>>) = 2
        BY <1>2, <1>6, <1>7, <3>1, <3>2, HistoryGoesOn
      <3> QED
        BY <2>2, <3>3, <3>4
    <2> QED
      BY <2>1, <2>2
  <1> HIDE DEF new
  <1>9. Histories'
    <2>1. ASSUME NEW x \in Object PROVE History(x, chain'[x])
      BY <1>5, <1>8 DEF Trees, Histories
    <2> QED
      BY <1>1, <1>5, <2>1 DEF Histories, History
  <1>10. \A o \in Held' : Len(chain'[o]) > 1
    BY <1>4, <1>5, <1>8 DEF Trees
  <1>11. OneUnrecorded'
    BY <1>1, <1>2, <1>5 DEF Trees, OneUnrecorded, Object
  <1>12. chain'[a] # <<>>
    <2>1. Len(<<>>) = 0
      OBVIOUS
    <2> QED
      BY <1>5, <1>8, <2>1
  <1>13. Grows
    <2>1. \A x \in Object \ {a} : chain'[x] = chain[x]
      BY <1>5
    <2> QED
      BY <1>1, <1>2, <1>8, <1>5, <1>12, <2>1 DEF Grows, a
  <1> QED
    BY <1>1, <1>4, <1>5, <1>8, <1>9, <1>10, <1>11, <1>12, <1>13 DEF Trees

\* A step of the respawn actor alone that has nothing to place.
LEMMA TreesSpawner ==
    ASSUME Trees, UNCHANGED <<scene, chain, last, at, transit, bag, altar>>,
           sp'.pc \notin {"load", "place", "record"} \/ (sp'.pc = sp.pc /\ sp'.art = sp.art)
    PROVE  Trees' /\ Grows
  <1>1. Histories'
    BY DEF Trees, Histories, History
  <1>2. OneUnrecorded'
    BY DEF Trees, OneUnrecorded
  <1> QED
    BY <1>1, <1>2 DEF Trees, Grows, Now, Held

\* A listed object's newest block, and the blocks made from its data.
LEMMA HeldNow ==
    ASSUME Scenes, Trees, NEW o \in Held
    PROVE  /\ o \in Object /\ chain[o] # <<>> /\ History(o, chain[o])
           /\ Now(o) \in Block
           /\ \A owners \in SUBSET {"court", "player"} :
                 Chown(owners, Now(o).data) \in Block /\ Chown(owners, Now(o).data).chown
           /\ Now(o).owners \in SUBSET {"court", "player"}
           /\ Now(o).data \in [mark : Mark, forged : Altar \cup {0}, empty : BOOLEAN]
  <1>1. o \in Object
    BY DEF Scenes, Held, Object
  <1>2. chain[o] # <<>>
    <2>1. Len(<<>>) = 0
      OBVIOUS
    <2> QED
      BY <2>1 DEF Trees
  <1>3. History(o, chain[o])
    BY <1>1 DEF Trees, Histories
  <1>4. /\ Now(o) \in Block
        /\ Now(o).data \in [mark : Mark, forged : Altar \cup {0}, empty : BOOLEAN]
        /\ Now(o).owners \in SUBSET {"court", "player"}
    BY <1>1, <1>2, <1>3, NowIs
  <1>5. ASSUME NEW owners \in SUBSET {"court", "player"}
        PROVE  Chown(owners, Now(o).data) \in Block /\ Chown(owners, Now(o).data).chown
    BY <1>4 DEF Chown, Block
  <1> QED
    BY <1>1, <1>2, <1>3, <1>4, <1>5

\* Every step.
LEMMA NextTrees == ASSUME Spawner, Scenes, Scenes', Trees, [Next]_vars PROVE Trees' /\ Grows
  <1>0. /\ Len(last) \in Nat /\ last \in Seq(Artifact)
        /\ Held \subseteq Object
        /\ {"court", "player"} \in SUBSET {"court", "player"}
        /\ {"player"} \in SUBSET {"court", "player"} /\ {"court"} \in SUBSET {"court", "player"}
    BY DEF Spawner, Scenes, Held, Object
  <1>1. CASE Started \/ Attach \/ Subscribed \/ CurrentState \/ UpdateRefused
    <2>1. /\ UNCHANGED <<scene, chain, last, at, transit, bag, altar>>
          /\ sp'.pc \notin {"load", "place", "record"} \/ (sp'.pc = sp.pc /\ sp'.art = sp.art)
      <3>1. CASE UpdateRefused
        BY <3>1 DEF UpdateRefused, Stopped, places
      <3>2. CASE Started \/ Attach \/ Subscribed \/ CurrentState
        BY <3>2 DEF Started, Attach, Subscribed, CurrentState, Stopped, places, Spawner
      <3> QED
        BY <1>1, <3>1, <3>2
    <2> QED
      BY <2>1, TreesSpawner
  <1>2. CASE CreateArtifact
    BY <1>2, CreateTrees
  <1>3. CASE LoadArtifact
    BY <1>3, LoadTrees
  <1>4. CASE addArtifactToRandomLocation
    <2>1. /\ sp.art \in Artifact /\ sp.pc = "place" /\ sp'.pc = "record" /\ sp'.art = sp.art
          /\ UNCHANGED <<scene, chain, last, transit, bag, altar>>
          /\ at' \in Add(sp.art, at)
      BY <1>4 DEF addArtifactToRandomLocation, Spawner
    <2>2. at' \subseteq at \cup {sp.art}
      BY <2>1, AddOK DEF Scenes, Object
    <2>3. Histories' /\ OneUnrecorded'
      <3>1. Histories'
        BY <2>1 DEF Trees, Histories, History
      <3>2. OneUnrecorded'
        BY <2>1 DEF Trees, OneUnrecorded
      <3> QED
        BY <3>1, <3>2
    <2>4. \A o \in Held' : Len(chain'[o]) > 1
      BY <2>1, <2>2 DEF Trees, Held
    <2> QED
      BY <2>1, <2>3, <2>4 DEF Trees, Grows, Now
  <1>5. CASE RecordLast
    <2>1. /\ sp.art = Len(last) + 1 /\ last' = Append(last, sp.art) /\ sp.art \in Artifact
          /\ sp'.pc = "idle" /\ UNCHANGED <<scene, chain, at, transit, bag, altar>>
      BY <1>5 DEF RecordLast, Spawner, places
    <2>2. /\ DOMAIN last = 1..Len(last) /\ DOMAIN last' = 1..Len(last) + 1
          /\ Len(last') = Len(last) + 1 /\ last'[Len(last) + 1] = sp.art
          /\ \A k \in 1..Len(last) : last'[k] = last[k]
      BY <1>0, <2>1
    <2>3. OneUnrecorded'
      <3> SUFFICES ASSUME NEW a \in Artifact, chain[a] # <<>>
                   PROVE  \E k \in DOMAIN last' : last'[k] = a
        BY <2>1 DEF OneUnrecorded
      <3>1. (\E k \in DOMAIN last : last[k] = a) \/ a = Len(last) + 1
        BY DEF Trees, OneUnrecorded
      <3>2. CASE a = Len(last) + 1
        BY <1>0, <2>1, <2>2, <3>2
      <3>3. ASSUME NEW k \in DOMAIN last, last[k] = a PROVE \E j \in DOMAIN last' : last'[j] = a
        <4>1. k \in 1..Len(last) + 1 /\ last'[k] = a
          BY <1>0, <2>2, <3>3
        <4> QED
          BY <2>2, <4>1
      <3> QED
        BY <3>1, <3>2, <3>3
    <2>4. Histories'
      BY <2>1 DEF Trees, Histories, History
    <2> QED
      BY <2>1, <2>3, <2>4 DEF Trees, Grows, Now, Held
  <1>6. CASE Panic
    BY <1>6, TreesSpawner DEF Panic, places, Stopped
  <1>7. ASSUME NEW a \in Artifact, StartPickUp(a) PROVE Trees' /\ Grows
    <2> DEFINE b == Chown({"court", "player"}, Now(a).data)
    <2>1. a \in Held
      BY <1>7 DEF StartPickUp, Held
    <2>2. b \in Block /\ b.chown /\ chain[a] # <<>> /\ a \in Object
      BY <1>0, <2>1, HeldNow
    <2> HIDE DEF b
    <2>3. Published(a, b)
      BY <1>7, <2>2, PublishOne DEF StartPickUp, Trees, b
    <2>4. UNCHANGED <<scene, sp, last, altar>> /\ Held' \subseteq Held /\ Spawns
      BY <1>7 DEF StartPickUp, Held, Scenes
    <2> QED
      BY <2>1, <2>3, <2>4, TreesPublished DEF Scenes
  <1>8. ASSUME NEW a \in Artifact, FinishPickUp(a) PROVE Trees' /\ Grows
    <2> DEFINE b == Chown({"player"}, Now(a).data)
    <2>1. a \in Held
      BY <1>8 DEF FinishPickUp, Held
    <2>2. b \in Block /\ b.chown /\ chain[a] # <<>> /\ a \in Object
      BY <1>0, <2>1, HeldNow
    <2> HIDE DEF b
    <2>3. Published(a, b)
      BY <1>8, <2>2, PublishOne DEF FinishPickUp, Trees, b
    <2>4. bag' \subseteq bag \cup {a}
      BY <1>8, <2>2, AddOK DEF FinishPickUp, Scenes
    <2>5. UNCHANGED <<scene, sp, last, altar>> /\ Held' \subseteq Held /\ Spawns
      BY <1>8, <2>4 DEF FinishPickUp, Held, Scenes
    <2> QED
      BY <2>1, <2>3, <2>5, TreesPublished DEF Scenes
  <1>9. ASSUME NEW a \in Artifact, RollBack(a) PROVE Trees' /\ Grows
    <2> DEFINE b == Chown({"court"}, Now(a).data)
    <2>1. a \in Held
      BY <1>9 DEF RollBack, Held
    <2>2. b \in Block /\ b.chown /\ chain[a] # <<>> /\ a \in Object
      BY <1>0, <2>1, HeldNow
    <2> HIDE DEF b
    <2>3. Published(a, b)
      BY <1>9, <2>2, PublishOne DEF RollBack, Trees, b
    <2>4. at' \subseteq at \cup {a}
      <3>1. at' \in Add(a, at)
        BY <1>9 DEF RollBack
      <3>2. at \in SUBSET Object
        BY DEF Scenes, Object
      <3> QED
        BY <2>2, <3>1, <3>2, AddOK
    <2>5. UNCHANGED <<scene, sp, last, altar>> /\ Held' \subseteq Held /\ Spawns
      BY <1>9, <2>4 DEF RollBack, Held, Scenes
    <2> QED
      BY <2>1, <2>3, <2>5, TreesPublished DEF Scenes
  <1>10. ASSUME NEW o \in Object, NEW i \in Altar, Drop(o, i) PROVE Trees' /\ Grows
    <2> DEFINE b == Chown({"player", "court"}, Now(o).data)
    <2>1. o \in Held
      BY <1>10 DEF Drop, Held
    <2>2. {"player", "court"} = {"court", "player"}
      OBVIOUS
    <2>3. b \in Block /\ b.chown /\ chain[o] # <<>> /\ "court" \in b.owners
      BY <1>0, <2>1, <2>2, HeldNow DEF Chown
    <2> HIDE DEF b
    <2>4. Published(o, b)
      BY <1>10, <2>3, PublishTwo DEF Drop, Trees, b
    <2>5. PICK inv \in Add(o, altar[i]) : altar' = [altar EXCEPT ![i] = inv]
      BY <1>10 DEF Drop
    <2>6. inv \subseteq altar[i] \cup {o}
      BY <2>5, AddOK DEF Scenes
    <2>7. \A j \in Altar : altar'[j] = IF j = i THEN inv ELSE altar[j]
      BY <2>5 DEF Scenes
    <2>8. UNCHANGED <<scene, sp, last, at, transit>> /\ bag' = bag \ {o}
      BY <1>10 DEF Drop
    <2>9. Held' \subseteq Held
      BY <2>1, <2>6, <2>7, <2>8 DEF Held
    <2>10. \A j \in Altar : \A x \in altar'[j] : IF x = o THEN "court" \in b.owners ELSE x \in altar[j]
      BY <2>3, <2>6, <2>7
    <2> QED
      BY <2>1, <2>4, <2>8, <2>9, <2>10, TreesPublished
  <1>11. ASSUME NEW o \in Object, NEW i \in Altar, TakeBack(o, i) PROVE Trees' /\ Grows
    <2> DEFINE b == Chown({"player"}, Now(o).data)
               a == Chown({"player", "court"}, Now(o).data)
    <2>1. o \in Held
      BY <1>11 DEF TakeBack, Held
    <2>2. {"player", "court"} = {"court", "player"}
      OBVIOUS
    <2>3. b \in Block /\ b.chown /\ a \in Block /\ a.chown /\ chain[o] # <<>>
      BY <1>0, <2>1, <2>2, HeldNow
    <2> HIDE DEF a, b
    <2>4. Published(o, b)
      BY <1>11, <2>3, PublishTwo DEF TakeBack, Trees, a, b
    <2>5. bag' \subseteq bag \cup {o}
      BY <1>11, AddOK DEF TakeBack, Scenes
    <2>7. o \in altar[i] /\ \A j \in Altar : altar'[j] = IF j = i THEN altar[i] \ {o} ELSE altar[j]
      BY <1>11 DEF TakeBack, Scenes
    <2>8. UNCHANGED <<scene, sp, last, at, transit>>
      BY <1>11 DEF TakeBack
    <2>9. Held' \subseteq Held
      BY <2>1, <2>5, <2>7, <2>8 DEF Held
    <2>10. \A j \in Altar : \A x \in altar'[j] : x # o /\ x \in altar[j]
      BY <2>7 DEF Scenes
    <2> QED
      BY <2>1, <2>4, <2>8, <2>9, <2>10, TreesPublished
  <1>12. ASSUME NEW o \in Object, NEW i \in Altar, Inscribe(o, i) PROVE Trees' /\ Grows
    <2> DEFINE b == Write(Now(o).owners, Inscribed(o, i))
    <2>1. o \in Held
      BY <1>12 DEF Inscribe, Held
    <2>2. Now(o).data.forged \in Altar \cup {0} /\ i \in Mark /\ N + 1 \in Mark
      BY <2>1, HeldNow DEF Altar, Mark
    <2>3. b \in Block /\ b.owners = Now(o).owners /\ chain[o] # <<>>
      BY <2>1, <2>2, HeldNow DEF Write, Inscribed, Data, Block
    <2> HIDE DEF b
    <2>4. Published(o, b)
      BY <1>12, <2>3, PublishOne DEF Inscribe, Trees, b
    <2>5. UNCHANGED <<scene, sp, last, at, transit, bag, altar>>
      BY <1>12 DEF Inscribe, places
    <2>6. Held' \subseteq Held
      BY <2>5 DEF Held
    <2>7. \A j \in Altar : \A x \in altar'[j] : IF x = o THEN "court" \in b.owners ELSE x \in altar[j]
      BY <2>3, <2>5 DEF Trees
    <2> QED
      BY <2>1, <2>4, <2>5, <2>6, <2>7, TreesPublished
  <1>13. ASSUME NEW o \in Object, NEW i \in Altar, Reforge(o, i) PROVE Trees' /\ Grows
    <2> DEFINE b == Write(Now(o).owners, Data(Now(o).data.mark, i))
    <2>1. o \in Held
      BY <1>13 DEF Reforge, Held
    <2>3. b \in Block /\ b.owners = Now(o).owners /\ chain[o] # <<>>
      BY <2>1, HeldNow DEF Write, Data, Block
    <2> HIDE DEF b
    <2>4. Published(o, b)
      BY <1>13, <2>3, PublishOne DEF Reforge, Trees, b
    <2>5. UNCHANGED <<scene, sp, last, at, transit, bag, altar>>
      BY <1>13 DEF Reforge, places
    <2>6. Held' \subseteq Held
      BY <2>5 DEF Held
    <2>7. \A j \in Altar : \A x \in altar'[j] : IF x = o THEN "court" \in b.owners ELSE x \in altar[j]
      BY <2>3, <2>5 DEF Trees
    <2> QED
      BY <2>1, <2>4, <2>5, <2>6, <2>7, TreesPublished
  <1>14. CASE Remove \/ RemoveFails
    <2>1. UNCHANGED <<scene, chain, sp, last, at, transit, bag>>
      BY <1>14, RemovesSome DEF spawner
    <2>2. \A i \in Altar : altar'[i] \subseteq altar[i]
      BY <1>14, RemovesSome
    <2>3. Held' \subseteq Held
      BY <2>1, <2>2 DEF Held
    <2> QED
      BY <2>1, <2>2, <2>3, TreesKept
  <1>15. CASE UNCHANGED <<scene, chain, sp, last, at, transit, bag, altar>>
    BY <1>15, TreesKept DEF Held
  <1>16. CASE \/ LoseMessage \/ RequestPrize \/ CrashCourt \/ DropPrize
              \/ \E i \in Altar : Visit(i) \/ FetchFails(i)
    BY <1>15, <1>16 DEF LoseMessage, RequestPrize, CrashCourt, DropPrize, Visit, FetchFails, places, spawner
  <1>17. CASE Validate /\ ~Remove
    BY <1>15, <1>17 DEF Validate, ReadAltar, ReadPedestal, ReadInventory, JudgePedestal,
       CleanAltar, CleanPedestal, EmptyAltar, EmptyPedestal, Fetch, JudgeAltar, Award, NextInventory,
       spawner, places
  <1>18. CASE UNCHANGED vars
    BY <1>15, <1>18 DEF vars
  <1> QED
    BY <1>1, <1>2, <1>3, <1>4, <1>5, <1>6, <1>7, <1>8, <1>9, <1>10, <1>11, <1>12, <1>13, <1>14,
       <1>16, <1>17, <1>18 DEF Next, Respawn, Player

-----------------------------------------------------------------------------
(***************************************************************************)
(* What was spawned.                                                       *)
(***************************************************************************)

\* Another object of its name has been made.
HasNamesake(o) == \E other \in Object \ {o} : NameOf[other] = NameOf[o] /\ chain[other] # <<>>

\* What a step does to the objects that are listed: they stay, or are taken by the court,
\* or are lost to a namesake; only what the respawn actor places is listed anew.
Moves ==
    /\ \A o \in Held \cup taken : o \in Held' \cup taken' \/ HasNamesake(o)
    /\ \A o \in Held' : o \in Held \/ (o = sp.art /\ sp.pc = "place" /\ sp'.pc = "record")
    /\ sp.pc = "place" /\ sp'.pc = "record" => sp.art \in Held' \/ HasNamesake(sp.art)

\* An object is added to an inventory.
LEMMA AddKeeps ==
    ASSUME Scenes, Trees, NEW o \in Object, chain[o] # <<>>, NEW inv, inv \subseteq Held,
           NEW new \in Add(o, inv)
    PROVE  /\ new \subseteq inv \cup {o}
           /\ \A x \in inv \cup {o} : x \in new \/ HasNamesake(x)
  <1>1. inv \in SUBSET Object
    BY DEF Scenes, Held, Object
  <1>2. /\ new \subseteq inv \cup {o}
        /\ \A x \in inv \cup {o} :
              x \in new \/ \E y \in new : y # x /\ NameOf[y] = NameOf[x]
    BY <1>1, AddOK
  <1>3. ASSUME NEW y \in inv \cup {o} PROVE y \in Object /\ chain[y] # <<>>
    BY HeldNow
  <1> QED
    BY <1>2, <1>3 DEF HasNamesake

\* A step that takes nothing away and lists nothing.
LEMMA MovesNothing ==
    ASSUME UNCHANGED <<at, transit, bag, altar, taken>>,
           sp.pc # "place" \/ sp'.pc # "record"
    PROVE  Moves
  BY DEF Moves, Held

\* Every step.
LEMMA NextMoves == ASSUME Spawner, Scenes, Trees, [Next]_vars PROVE Moves
  <1>0. \A a \in Artifact : a \in Object
    BY DEF Object
  <1>1. CASE addArtifactToRandomLocation
    <2>1. /\ sp.art \in Artifact /\ sp.pc = "place" /\ sp'.pc = "record"
          /\ UNCHANGED <<transit, bag, altar, taken>> /\ at' \in Add(sp.art, at)
          /\ at \subseteq Held /\ chain[sp.art] # <<>>
      BY <1>1 DEF addArtifactToRandomLocation, Spawner, Held, Trees
    <2>2. /\ at' \subseteq at \cup {sp.art}
          /\ \A x \in at \cup {sp.art} : x \in at' \/ HasNamesake(x)
      BY <1>0, <2>1, AddKeeps
    <2> QED
      BY <2>1, <2>2 DEF Moves, Held
  <1>2. ASSUME NEW a \in Artifact, StartPickUp(a) PROVE Moves
    BY <1>2 DEF StartPickUp, Moves, Held
  <1>3. ASSUME NEW a \in Artifact, FinishPickUp(a) PROVE Moves
    <2>1. /\ a \in Held /\ bag \subseteq Held /\ bag' \in Add(a, bag) /\ transit' = transit \ {a}
          /\ UNCHANGED <<at, altar, taken, sp>>
      BY <1>3 DEF FinishPickUp, Held
    <2>2. bag' \subseteq bag \cup {a} /\ \A x \in bag \cup {a} : x \in bag' \/ HasNamesake(x)
      BY <1>0, <2>1, AddKeeps, HeldNow
    <2> QED
      BY <2>1, <2>2 DEF Moves, Held
  <1>4. ASSUME NEW a \in Artifact, RollBack(a) PROVE Moves
    <2>1. /\ a \in Held /\ at \subseteq Held /\ at' \in Add(a, at) /\ transit' = transit \ {a}
          /\ UNCHANGED <<bag, altar, taken, sp>>
      BY <1>4 DEF RollBack, Held
    <2>2. at' \subseteq at \cup {a} /\ \A x \in at \cup {a} : x \in at' \/ HasNamesake(x)
      BY <1>0, <2>1, AddKeeps, HeldNow
    <2> QED
      BY <2>1, <2>2 DEF Moves, Held
  <1>5. ASSUME NEW o \in Object, NEW i \in Altar, Drop(o, i) PROVE Moves
    <2>1. PICK inv \in Add(o, altar[i]) : altar' = [altar EXCEPT ![i] = inv]
      BY <1>5 DEF Drop
    <2>2. o \in Held /\ altar[i] \subseteq Held /\ bag' = bag \ {o} /\ UNCHANGED <<at, transit, taken, sp>>
      BY <1>5 DEF Drop, Held
    <2>3. inv \subseteq altar[i] \cup {o} /\ \A x \in altar[i] \cup {o} : x \in inv \/ HasNamesake(x)
      BY <2>1, <2>2, AddKeeps, HeldNow
    <2>4. \A j \in Altar : altar'[j] = IF j = i THEN inv ELSE altar[j]
      BY <2>1 DEF Scenes
    <2>5. ASSUME NEW x \in Held PROVE x \in Held' \/ HasNamesake(x)
      BY <2>2, <2>3, <2>4 DEF Held
    <2>6. Held' \subseteq Held
      BY <2>2, <2>3, <2>4 DEF Held
    <2> QED
      BY <2>2, <2>5, <2>6 DEF Moves
  <1>6. ASSUME NEW o \in Object, NEW i \in Altar, TakeBack(o, i) PROVE Moves
    <2>1. /\ altar' = [altar EXCEPT ![i] = @ \ {o}] /\ bag' \in Add(o, bag) /\ o \in altar[i]
          /\ o \in Held /\ bag \subseteq Held /\ UNCHANGED <<at, transit, taken, sp>>
      BY <1>6 DEF TakeBack, Held
    <2>2. bag' \subseteq bag \cup {o} /\ \A x \in bag \cup {o} : x \in bag' \/ HasNamesake(x)
      BY <2>1, AddKeeps, HeldNow
    <2>3. \A j \in Altar : altar'[j] = IF j = i THEN altar[i] \ {o} ELSE altar[j]
      BY <2>1 DEF Scenes
    <2>4. ASSUME NEW x \in Held PROVE x \in Held' \/ HasNamesake(x)
      BY <2>1, <2>2, <2>3 DEF Held
    <2>5. Held' \subseteq Held
      BY <2>1, <2>2, <2>3 DEF Held
    <2> QED
      BY <2>1, <2>4, <2>5 DEF Moves
  <1>7. CASE Remove \/ RemoveFails
    <2>1. /\ UNCHANGED <<at, transit, bag, spawner>> /\ taken \subseteq taken'
          /\ \A j \in Altar : altar'[j] \subseteq altar[j]
          /\ \A j \in Altar : \A x \in altar[j] : x \in altar'[j] \/ x \in taken'
      BY <1>7, RemovesSome
    <2>2. ASSUME NEW x \in Held \cup taken PROVE x \in Held' \cup taken'
      BY <2>1 DEF Held
    <2>3. Held' \subseteq Held
      BY <2>1 DEF Held
    <2> QED
      BY <2>1, <2>2, <2>3 DEF Moves, spawner
  <1>8. CASE Respawn /\ ~addArtifactToRandomLocation
    <2>1. UNCHANGED places /\ (sp.pc # "place" \/ sp'.pc # "record")
      BY <1>8 DEF Respawn, Started, Attach, CreateArtifact, UpdateRefused, LoadArtifact, Subscribed, RecordLast,
         CurrentState, Spawner, places
    <2> QED
      BY <2>1, MovesNothing DEF places
  <1>9. CASE \E o \in Object, i \in Altar : Inscribe(o, i) \/ Reforge(o, i)
    <2>1. UNCHANGED <<places, sp>>
      BY <1>9 DEF Inscribe, Reforge
    <2> QED
      BY <2>1, MovesNothing DEF places
  <1>10. CASE \/ LoseMessage \/ Panic \/ RequestPrize \/ CrashCourt \/ DropPrize
              \/ \E i \in Altar : Visit(i) \/ FetchFails(i)
    <2>1. CASE LoseMessage \/ RequestPrize \/ CrashCourt \/ DropPrize
      BY <2>1, MovesNothing DEF LoseMessage, RequestPrize, CrashCourt, DropPrize, places, spawner
    <2>3. CASE Panic
      <3>1. UNCHANGED places /\ sp' = Stopped
        BY <2>3 DEF Panic
      <3>2. Stopped.pc # "record"
        BY DEF Stopped
      <3> QED
        BY <3>1, <3>2, MovesNothing DEF places
    <2>2. CASE \E i \in Altar : Visit(i) \/ FetchFails(i)
      BY <2>2, MovesNothing DEF Visit, FetchFails, places, spawner
    <2> QED
      BY <1>10, <2>1, <2>2, <2>3
  <1>11. CASE Validate /\ ~Remove
    <2>1. UNCHANGED <<places, spawner>>
      BY <1>11 DEF Validate, ReadAltar, ReadPedestal, ReadInventory, JudgePedestal,
       CleanAltar, CleanPedestal, EmptyAltar, EmptyPedestal, Fetch, JudgeAltar, Award, NextInventory
    <2> QED
      BY <2>1, MovesNothing DEF places, spawner
  <1>12. CASE UNCHANGED vars
    BY <1>12, MovesNothing DEF vars
  <1> QED
    BY <1>1, <1>2, <1>3, <1>4, <1>5, <1>6, <1>7, <1>8, <1>9, <1>10, <1>11, <1>12 DEF Next, Player

\* What a step does to the respawn actor's place in its program.
LEMMA SpawnerGoesOn ==
    ASSUME Spawner, [Next]_vars
    PROVE  /\ sp'.pc = "record" =>
                 sp'.art = sp.art /\ last' = last /\ sp.pc \in {"place", "record"}
           /\ sp.pc \in {"load", "place"} /\ sp.pc # sp'.pc =>
                 \/ sp'.art = sp.art /\ last' = last /\ sp'.pc \in {"place", "record"}
                 \/ restarts' > 0 /\ sp'.pc = "started" /\ last' = last
           /\ sp'.pc \in {"load", "place"} /\ sp.pc # sp'.pc =>
                 sp.pc \in {"create", "load"} /\ last' = last
           /\ sp.pc = sp'.pc => UNCHANGED <<last, restarts>> /\ (sp.pc = "idle" \/ sp'.art = sp.art)
           /\ last' = last \/ (sp.pc = "record" /\ sp'.pc = "idle" /\ last' = Append(last, sp.art))
           /\ sp.pc = "record" /\ sp'.pc # "record" =>
                 restarts' > 0 \/ (sp'.pc = "idle" /\ last' = Append(last, sp.art))
           /\ restarts' \in Nat /\ restarts \in Nat /\ restarts' >= restarts
  <1>0. restarts \in Nat
    BY DEF Spawner
  <1>1. CASE Respawn
    <2>1. restarts' = restarts
      BY <1>1 DEF Respawn, Started, Attach, CreateArtifact, UpdateRefused, LoadArtifact, Subscribed,
         addArtifactToRandomLocation, RecordLast, CurrentState
    <2>2. CASE Started \/ Attach \/ CreateArtifact \/ UpdateRefused
      <3>1. /\ sp.pc \in {"started", "found", "create"} /\ sp'.pc # sp.pc /\ last' = last
            /\ sp'.pc \in {"started", "found", "create", "idle", "load"} /\ (sp'.pc = "load" => sp.pc = "create")
        <4>1. sp = [pc |-> sp.pc, art |-> sp.art, tip |-> sp.tip, sub |-> sp.sub]
          BY DEF Spawner
        <4>2. CASE Started
          BY <4>1, <4>2 DEF Started
        <4>3. CASE Attach
          BY <4>1, <4>3 DEF Attach
        <4>4. CASE CreateArtifact
          BY <4>1, <4>4 DEF CreateArtifact
        <4>5. CASE UpdateRefused
          BY <4>5 DEF UpdateRefused, Stopped
        <4> QED
          BY <2>2, <4>2, <4>3, <4>4, <4>5
      <3> QED
        BY <1>0, <2>1, <3>1
    <2>3. CASE LoadArtifact
      <3>1. sp'.pc = "place" /\ sp'.art = sp.art /\ sp.pc = "load" /\ last' = last
        BY <2>3 DEF LoadArtifact, Spawner
      <3> QED
        BY <1>0, <2>1, <3>1
    <2>4. CASE addArtifactToRandomLocation \/ RecordLast
      BY <1>0, <2>1, <2>4 DEF addArtifactToRandomLocation, RecordLast, Spawner
    <2>5. CASE Subscribed
      <3>1. sp'.pc = sp.pc /\ sp'.art = sp.art /\ last' = last
        BY <2>5 DEF Subscribed, Spawner
      <3> QED
        BY <1>0, <2>1, <3>1
    <2>6. CASE CurrentState
      BY <1>0, <2>1, <2>6 DEF CurrentState, Spawner
    <2> QED
      BY <1>1, <2>2, <2>3, <2>4, <2>5, <2>6 DEF Respawn
  <1>2. CASE Panic
    BY <1>2 DEF Panic, Stopped, Spawner
  <1>3. CASE UNCHANGED <<sp, last, restarts>>
    BY <1>3 DEF Spawner
  <1>4. CASE Player
    <2>1. UNCHANGED <<sp, last, restarts>>
      BY <1>4 DEF Player, StartPickUp, FinishPickUp, RollBack, Visit, Drop, TakeBack, Inscribe, Reforge,
         DropPrize, spawner
    <2> QED
      BY <1>3, <2>1
  <1>5. CASE Validate
    <2>1. UNCHANGED <<sp, last, restarts>>
      BY <1>5 DEF Validate, ReadAltar, ReadPedestal, ReadInventory, JudgePedestal, CleanAltar,
       CleanPedestal, EmptyAltar, EmptyPedestal, Fetch, JudgeAltar, Award, Remove, NextInventory, spawner
    <2> QED
      BY <1>3, <2>1
  <1>6. CASE \/ RequestPrize \/ CrashCourt \/ LoseMessage \/ RemoveFails
             \/ (\E i \in Altar : FetchFails(i)) \/ UNCHANGED vars
    <2>1. UNCHANGED <<sp, last, restarts>>
      BY <1>6 DEF RequestPrize, CrashCourt, LoseMessage, RemoveFails, FetchFails, vars, spawner
    <2> QED
      BY <1>3, <2>1
  <1> QED
    BY <1>1, <1>2, <1>4, <1>5, <1>6 DEF Next

\* Listed, taken by the court, or there is another object of its name.
Safe(o) == o \in Held \cup taken \/ HasNamesake(o)

\* An object with data is safe, unless the respawn actor is about to place it or was
\* interrupted before it had.  When it has placed it, it is safe before it is recorded.
Accounted ==
    \A o \in Object : Len(chain[o]) > 1 =>
        \/ Safe(o)
        \/ o = sp.art /\ sp.pc \in {"load", "place"}
        \/ restarts > 0 /\ o = Len(last) + 1 /\ sp.pc # "record"

\* Every step.
LEMMA NextAccounted ==
    ASSUME Spawner, Scenes, Accounted, Moves, Grows, [Next]_vars
    PROVE  Accounted'
  <1>1. ASSUME NEW o \in Object, HasNamesake(o) PROVE HasNamesake(o)'
    BY <1>1 DEF HasNamesake, Grows
  <1>2. ASSUME NEW o \in Object, Safe(o) PROVE Safe(o)'
    BY <1>1, <1>2 DEF Safe, Moves
  <1> SUFFICES ASSUME NEW o \in Object, Len(chain'[o]) > 1
               PROVE  \/ Safe(o)'
                      \/ o = sp'.art /\ sp'.pc \in {"load", "place"}
                      \/ restarts' > 0 /\ o = Len(last') + 1 /\ sp'.pc # "record"
    BY DEF Accounted
  <1>3. CASE o = sp.art /\ sp'.art = sp.art /\ sp'.pc = "place"
    BY <1>3
  <1>4. CASE Safe(o)
    BY <1>2, <1>4
  <1>5. CASE o = sp.art /\ sp.pc \in {"load", "place"}
    <2>1. o = Len(last) + 1
      BY <1>5 DEF Spawner
    <2>2. CASE sp'.pc = "record"
      <3>1. sp.pc = "place"
        BY <1>5, <2>2, SpawnerGoesOn
      <3>2. o \in Held' \/ HasNamesake(o)
        BY <1>5, <2>2, <3>1 DEF Moves
      <3> QED
        BY <1>1, <3>2 DEF Safe
    <2>3. CASE sp'.pc # "record"
      BY <1>5, <2>1, <2>3, SpawnerGoesOn
    <2> QED
      BY <2>2, <2>3
  <1>6. CASE restarts > 0 /\ o = Len(last) + 1 /\ sp.pc # "record"
    <2>1. restarts' > 0 /\ last' = last
      BY <1>6, SpawnerGoesOn
    <2>2. CASE sp'.pc = "record"
      <3>1. sp.pc = "place" /\ sp.art = o
        BY <1>6, <2>2, SpawnerGoesOn DEF Spawner
      <3>2. o \in Held' \/ HasNamesake(o)
        BY <2>2, <3>1 DEF Moves
      <3> QED
        BY <1>1, <3>2 DEF Safe
    <2>3. CASE sp'.pc # "record"
      BY <1>6, <2>1, <2>3
    <2> QED
      BY <2>2, <2>3
  <1> QED
    BY <1>3, <1>4, <1>5, <1>6 DEF Grows, Accounted

\* Without a restart the artifact the respawn actor is about to place is nowhere, one
\* that is not recorded is the one it is at, and an artifact is in one place.
Single == restarts = 0 =>
    /\ at \cap transit = {} /\ at \cap bag = {} /\ transit \cap bag = {}
    /\ sp.pc \in {"load", "place"} => sp.art \notin Held
    /\ \A a \in Artifact : chain[a] # <<>> =>
          a <= Len(last) \/ (a = Len(last) + 1 /\ sp.pc \in {"load", "place", "record"})

\* Every step.
LEMMA NextSingle ==
    ASSUME Spawner, Spawner', Scenes, Scenes', Trees, Single, Moves, Grows, [Next]_vars
    PROVE  Single'
  <1> SUFFICES ASSUME restarts' = 0
               PROVE  /\ at' \cap transit' = {} /\ at' \cap bag' = {} /\ transit' \cap bag' = {}
                      /\ sp'.pc \in {"load", "place"} => sp'.art \notin Held'
                      /\ \A a \in Artifact : chain'[a] # <<>> =>
                            a <= Len(last') \/ (a = Len(last') + 1 /\ sp'.pc \in {"load", "place", "record"})
    BY DEF Single
  <1>0. restarts = 0 /\ Len(last) \in Nat /\ last \in Seq(Artifact)
    BY SpawnerGoesOn DEF Spawner
  <1>1. /\ at \cap transit = {} /\ at \cap bag = {} /\ transit \cap bag = {}
        /\ sp.pc \in {"load", "place"} => sp.art \notin Held
        /\ \A a \in Artifact : chain[a] # <<>> =>
              a <= Len(last) \/ (a = Len(last) + 1 /\ sp.pc \in {"load", "place", "record"})
    BY <1>0 DEF Single
  <1>2. at' \cap transit' = {} /\ at' \cap bag' = {} /\ transit' \cap bag' = {}
    <2>1. CASE UNCHANGED <<at, transit, bag>>
      BY <1>1, <2>1
    <2>2. CASE addArtifactToRandomLocation
      <3>1. /\ sp.art \in Object /\ at \in SUBSET Object /\ at' \in Add(sp.art, at)
            /\ UNCHANGED <<transit, bag>> /\ sp.pc = "place"
        BY <2>2 DEF addArtifactToRandomLocation, Spawner, Scenes, Object
      <3>2. at' \subseteq at \cup {sp.art}
        BY <3>1, AddOK
      <3> QED
        BY <1>1, <3>1, <3>2 DEF Held
    <2>3. ASSUME NEW a \in Artifact, StartPickUp(a)
          PROVE  at' \cap transit' = {} /\ at' \cap bag' = {} /\ transit' \cap bag' = {}
      BY <1>1, <2>3 DEF StartPickUp
    <2>4. ASSUME NEW a \in Artifact, FinishPickUp(a)
          PROVE  at' \cap transit' = {} /\ at' \cap bag' = {} /\ transit' \cap bag' = {}
      <3>1. bag' \subseteq bag \cup {a} /\ a \in transit /\ transit' = transit \ {a} /\ at' = at
        BY <2>4, AddOK DEF FinishPickUp, Scenes, Object
      <3> QED
        BY <1>1, <3>1
    <2>5. ASSUME NEW a \in Artifact, RollBack(a)
          PROVE  at' \cap transit' = {} /\ at' \cap bag' = {} /\ transit' \cap bag' = {}
      <3>1. a \in Object /\ at \in SUBSET Object /\ at' \in Add(a, at)
        BY <2>5 DEF RollBack, Scenes, Object
      <3>2. at' \subseteq at \cup {a} /\ a \in transit /\ transit' = transit \ {a} /\ bag' = bag
        BY <2>5, <3>1, AddOK DEF RollBack
      <3> QED
        BY <1>1, <3>2
    <2>6. CASE ~Spawns'
      BY <2>6 DEF Scenes
    <2>7. CASE Respawn /\ ~addArtifactToRandomLocation
      BY <2>1, <2>7 DEF Respawn, Started, Attach, CreateArtifact, UpdateRefused, LoadArtifact, Subscribed, RecordLast,
         CurrentState, places
    <2>8. ASSUME NEW o \in Object, NEW i \in Altar, Drop(o, i) \/ TakeBack(o, i)
          PROVE  ~Spawns'
      BY <2>8 DEF Drop, TakeBack, Scenes, Spawns
    <2>9. CASE \/ \E o \in Object, i \in Altar : Inscribe(o, i) \/ Reforge(o, i)
               \/ \E i \in Altar : Visit(i)
               \/ DropPrize \/ RequestPrize \/ LoseMessage \/ Panic \/ CrashCourt
      BY <2>1, <2>9 DEF Inscribe, Reforge, Visit, DropPrize, RequestPrize, LoseMessage, Panic,
         CrashCourt, places
    <2>10. CASE Validate
      <3>1. UNCHANGED <<at, transit, bag>>
        BY <2>10 DEF Validate, ReadAltar, ReadPedestal, ReadInventory, JudgePedestal, CleanAltar,
           CleanPedestal, EmptyAltar, EmptyPedestal, Fetch, JudgeAltar, Award, Remove, NextInventory,
           places
      <3> QED
        BY <2>1, <3>1
    <2>11. CASE UNCHANGED vars
      BY <2>1, <2>11 DEF vars
    <2>12. CASE RemoveFails \/ \E i \in Altar : FetchFails(i)
      BY <2>1, <2>12 DEF RemoveFails, FetchFails, places
    <2> QED
      BY <2>2, <2>3, <2>4, <2>5, <2>6, <2>7, <2>8, <2>9, <2>10, <2>11, <2>12 DEF Next, Player
  <1>3. ASSUME sp'.pc \in {"load", "place"} PROVE sp'.art \notin Held'
    <2>1. CASE sp.pc \in {"load", "place"}
      <3>1. sp'.art = sp.art
        BY <1>3, <2>1, SpawnerGoesOn
      <3> QED
        BY <1>1, <1>3, <2>1, <3>1 DEF Moves
    <2>2. CASE sp.pc \notin {"load", "place"}
      <3>1. sp.pc = "create" /\ last' = last
        BY <1>3, <2>2, SpawnerGoesOn
      <3>2. sp'.art \in Artifact /\ sp'.art = Len(last) + 1
        BY <1>3, <3>1 DEF Spawner
      <3>3. chain[sp'.art] = <<>>
        BY <1>0, <1>1, <3>1, <3>2
      <3>4. sp'.art \notin Held
        BY <3>3, HeldNow
      <3> QED
        BY <3>1, <3>4 DEF Moves
    <2> QED
      BY <2>1, <2>2
  <1>4. ASSUME NEW a \in Artifact, chain'[a] # <<>>
        PROVE  a <= Len(last') \/ (a = Len(last') + 1 /\ sp'.pc \in {"load", "place", "record"})
    <2>0. a \in Object /\ a \in Nat
      BY DEF Object, Artifact
    <2>1. CASE last' # last
      <3>1. sp.pc = "record" /\ sp'.pc = "idle" /\ last' = Append(last, sp.art) /\ sp.art \in Artifact
        BY <2>1, SpawnerGoesOn DEF Spawner
      <3>2. Len(last') = Len(last) + 1
        BY <1>0, <3>1
      <3>3. chain[a] # <<>>
        BY <1>4, <2>0, <3>1 DEF Grows
      <3> QED
        BY <1>0, <1>1, <2>0, <3>2, <3>3
    <2>2. CASE last' = last
      <3>1. CASE chain[a] # <<>>
        <4>1. CASE a <= Len(last)
          BY <2>2, <4>1
        <4>2. CASE a = Len(last) + 1 /\ sp.pc \in {"load", "place", "record"}
          <5>1. sp'.pc \in {"load", "place", "record"}
            <6>1. CASE sp.pc = "record"
              <7>1. last # Append(last, sp.art)
                <8>1. sp.art \in Artifact
                  BY <6>1 DEF Spawner
                <8>2. Len(Append(last, sp.art)) = Len(last) + 1
                  BY <1>0, <8>1
                <8> QED
                  BY <1>0, <8>2
              <7> QED
                BY <2>2, <6>1, <7>1, SpawnerGoesOn
            <6>2. CASE sp.pc \in {"load", "place"}
              BY <6>2, SpawnerGoesOn
            <6> QED
              BY <4>2, <6>1, <6>2
          <5> QED
            BY <2>2, <4>2, <5>1
        <4> QED
          BY <1>1, <3>1, <4>1, <4>2
      <3>2. CASE chain[a] = <<>>
        BY <1>4, <2>0, <2>2, <3>2 DEF Grows
      <3> QED
        BY <3>1, <3>2
    <2> QED
      BY <2>1, <2>2
  <1> QED
    BY <1>2, <1>3, <1>4

-----------------------------------------------------------------------------
(***************************************************************************)
(* Requests.                                                               *)
(***************************************************************************)

\* The validator.
Validator ==
    /\ req = [pc |-> req.pc, read |-> req.read, todo |-> req.todo, seen |-> req.seen,
              valid |-> req.valid, judged |-> req.judged, hand |-> req.hand, left |-> req.left,
              fresh |-> req.fresh, disturbed |-> req.disturbed, result |-> req.result]
    /\ req.pc \in {"idle", "read", "judge", "award", "clean", "delete"}
    /\ req.read \in [Altar -> SUBSET Object]
    /\ req.todo \subseteq Altar /\ req.seen \subseteq Altar /\ req.valid \subseteq Altar
    /\ req.disturbed \subseteq Altar
    /\ req.judged = [i \in Altar |-> req.judged[i]]
    /\ req.hand \in Altar \cup {0} /\ req.left \subseteq Object
    /\ req.fresh \in BOOLEAN
    /\ req.result \in {"none", "error", "invalid", "won", "lost", "crashed"}
    /\ Spawns => req = Quiet
    /\ req.hand # 0 => req.pc \in {"clean", "delete"} /\ req.hand \in req.todo
    /\ req.pc # "idle" => req.seen \subseteq seen
    /\ req.pc = "read" => Altar \ req.todo \subseteq seen
    /\ req.pc \in {"judge", "award", "clean", "delete"} => Altar \subseteq seen

\* What was accepted at an altar is what the altar wants; arcadia's altars are judged
\* in turn; and what was read has a tree.
Genuine ==
    /\ \A i \in req.valid :
          /\ req.judged[i].data.mark = i
          /\ scene = "arcadia" => req.judged[i].art \in Artifact /\ Forger[req.judged[i].art] = i
    /\ scene = "arcadia" /\ req.pc \in {"read", "judge"} =>
          \E n \in Nat : n < N /\ req.valid = 1..n
    /\ \A i \in Altar : \A o \in req.read[i] : chain[o] # <<>>

\* A step that leaves the request alone.
LEMMA RequestKept ==
    ASSUME Validator, UNCHANGED <<scene, req>>, seen \subseteq seen', seen' \subseteq Altar
    PROVE  Validator'
  BY DEF Validator, Spawns, Quiet

\* A move of the player at an altar.
LEMMA TouchOK ==
    ASSUME Validator, UNCHANGED <<scene, seen>>, ~Spawns, NEW i \in Altar, Touch(i)
    PROVE  Validator'
  <1>1. req' = [pc |-> req.pc, read |-> req.read, todo |-> req.todo, seen |-> req.seen,
                valid |-> req.valid, judged |-> req.judged, hand |-> req.hand, left |-> req.left,
                fresh |-> req'.fresh, disturbed |-> req'.disturbed, result |-> req.result]
    BY DEF Touch, Validator
  <1>2. req'.fresh \in BOOLEAN /\ req'.disturbed \subseteq Altar
    BY DEF Touch, Validator
  <1> QED
    BY <1>1, <1>2 DEF Validator, Spawns

\* What reading an altar does.
LEMMA ReadOK ==
    ASSUME Validator, Scenes, NEW i \in Altar, ReadInventory(i)
    PROVE  /\ ~Spawns /\ req.pc = "read" /\ UNCHANGED <<scene, chain, spawner, places, prize>>
           /\ \/ req' = [req EXCEPT !.pc = "idle", !.result = "error"]
              \/ /\ i \in req.seen /\ i \in req.todo
                 /\ req' = [req EXCEPT !.read = [req.read EXCEPT ![i] = altar[i]],
                                       !.todo = req.todo \ {i},
                                       !.pc = IF req.todo = {i} THEN "judge" ELSE "read"]
           /\ Validator'
  <1>1. ~Spawns /\ req.pc = "read" /\ UNCHANGED <<scene, chain, spawner, places, prize>>
    BY DEF ReadInventory, Validator, Quiet
  <1>2. UNCHANGED <<seen, altar>>
    BY <1>1 DEF places
  <1>3. CASE i \notin req.seen
    <2>1. req' = [req EXCEPT !.pc = "idle", !.result = "error"]
      BY <1>3 DEF ReadInventory
    <2>2. req' = [pc |-> "idle", read |-> req.read, todo |-> req.todo, seen |-> req.seen,
                valid |-> req.valid, judged |-> req.judged, hand |-> req.hand, left |-> req.left,
                fresh |-> req.fresh, disturbed |-> req.disturbed, result |-> "error"]
      BY <2>1 DEF Validator
    <2>3. req.hand = 0
      BY <1>1 DEF Validator
    <2>4. Validator'
      BY <1>1, <1>2, <2>2, <2>3 DEF Validator, Spawns
    <2> QED
      BY <1>1, <2>1, <2>4
  <1>4. CASE i \in req.seen
    <2> DEFINE pc == IF req.todo = {i} THEN "judge" ELSE "read"
               read == [req.read EXCEPT ![i] = altar[i]]
    <2>1. req' = [req EXCEPT !.read = read, !.todo = req.todo \ {i}, !.pc = pc] /\ i \in req.todo
      BY <1>4 DEF ReadInventory
    <2>2. read \in [Altar -> SUBSET Object] /\ pc \in {"judge", "read"}
          /\ (pc = "judge" <=> req.todo = {i})
      BY DEF Validator, Scenes
    <2> HIDE DEF read, pc
    <2>3. req' = [pc |-> pc, read |-> read, todo |-> req.todo \ {i}, seen |-> req.seen,
                valid |-> req.valid, judged |-> req.judged, hand |-> req.hand, left |-> req.left,
                fresh |-> req.fresh, disturbed |-> req.disturbed, result |-> req.result]
      BY <2>1 DEF Validator
    <2>4. req.hand = 0 /\ i \in seen /\ Altar \ (req.todo \ {i}) \subseteq seen /\ req.seen \subseteq seen
      BY <1>1, <1>4 DEF Validator
    <2>5. pc = "judge" => Altar \subseteq seen
      BY <2>2, <2>4
    <2>6. Validator'
      <3>1. /\ req'.pc = pc /\ req'.read = read /\ req'.todo = req.todo \ {i} /\ req'.seen = req.seen
            /\ req'.valid = req.valid /\ req'.judged = req.judged /\ req'.hand = 0 /\ req'.left = req.left
            /\ req'.fresh = req.fresh /\ req'.disturbed = req.disturbed /\ req'.result = req.result
        BY <2>3, <2>4
      <3>2. ~Spawns'
        BY <1>1 DEF Spawns
      <3> QED
        BY <1>2, <2>2, <2>3, <2>4, <2>5, <3>1, <3>2 DEF Validator
    <2> QED
      BY <1>1, <1>4, <2>1, <2>6 DEF read, pc
  <1> QED
    BY <1>3, <1>4

\* What a verdict on one altar does to the request: the altar is accepted or not, and
\* when all are judged the prize is awarded or the altars emptied.
Verdict ==
    /\ ~Spawns /\ req.pc = "judge" /\ UNCHANGED <<scene, chain, spawner, places, prize>>
    /\ req' = [req EXCEPT !.pc = req'.pc, !.todo = req'.todo, !.valid = req'.valid,
                          !.judged = req'.judged, !.result = req'.result]
    /\ req'.todo \subseteq Altar /\ req'.valid \subseteq Altar
    /\ req'.judged = [i \in Altar |-> req'.judged[i]]
    /\ \/ req'.pc \in {"judge", "award"} /\ req'.result = req.result
       \/ req'.pc = "delete" /\ req'.todo = Altar /\ req'.result = req.result
       \/ req'.pc = "idle" /\ req'.result = "invalid" /\ req'.valid = req.valid
             /\ req'.judged = req.judged

\* A verdict keeps the types.
LEMMA VerdictOK ==
    ASSUME Validator, Verdict
    PROVE  Validator'
  <1>1. UNCHANGED <<scene, seen>> /\ ~Spawns' /\ req.hand = 0 /\ Altar \subseteq seen
    BY DEF Verdict, places, Validator, Spawns
  <1>2. req' = [pc |-> req'.pc, read |-> req.read, todo |-> req'.todo, seen |-> req.seen,
                valid |-> req'.valid, judged |-> req'.judged, hand |-> req.hand, left |-> req.left,
                fresh |-> req.fresh, disturbed |-> req.disturbed, result |-> req'.result]
    BY DEF Verdict, Validator
  <1>3. /\ req'.read = req.read /\ req'.seen = req.seen /\ req'.hand = 0 /\ req'.left = req.left
        /\ req'.fresh = req.fresh /\ req'.disturbed = req.disturbed
    BY <1>1, <1>2
  <1>4. /\ req'.pc \in {"judge", "award", "delete", "idle"}
        /\ req'.result \in {"none", "error", "invalid", "won", "lost", "crashed"}
        /\ req'.todo \subseteq Altar /\ req'.valid \subseteq Altar
        /\ req'.judged = [i \in Altar |-> req'.judged[i]]
    BY DEF Verdict, Validator
  <1>5. /\ req.read \in [Altar -> SUBSET Object] /\ req.seen \subseteq Altar
        /\ req.disturbed \subseteq Altar /\ req.left \subseteq Object /\ req.fresh \in BOOLEAN
        /\ req.seen \subseteq seen
    BY <1>1 DEF Validator
  <1> QED
    BY <1>1, <1>2, <1>3, <1>4, <1>5 DEF Validator

\* What a verdict on an altar of arcadia is.
LEMMA JudgeAltarIs ==
    ASSUME Validator, Scenes, JudgeAltar,
           \E n \in Nat : n < N /\ req.valid = 1..n
    PROVE  /\ Verdict /\ scene = "arcadia"
           /\ \/ req'.valid = req.valid /\ req'.judged = req.judged /\ req'.pc = "delete"
              \/ \E n \in Nat : \E a :
                    /\ n < N /\ req.valid = 1..n /\ req'.valid = 1..n + 1
                    /\ req'.pc = (IF n + 1 = N THEN "award" ELSE "judge")
                    /\ req.read[n + 1] = {a} /\ ValidArtifact(a, n + 1)
                    /\ req'.judged = [req.judged EXCEPT ![n + 1] = [art |-> a, data |-> Now(a).data]]
  <1>1. PICK n \in Nat : n < N /\ req.valid = 1..n
    OBVIOUS
  <1>2. Cardinality(req.valid) = n
    <2>1. Cardinality(1..n) = IF 1 > n THEN 0 ELSE n - 1 + 1
      BY FS_Interval
    <2> QED
      BY <1>1, <2>1
  <1> DEFINE i == n + 1
             a == CHOOSE o \in req.read[i] : TRUE
             good == Cardinality(req.read[i]) = 1 /\ ValidArtifact(a, i)
             v == [art |-> a, data |-> Now(a).data]
             pc == IF i = N THEN "award" ELSE "judge"
             bad == [req EXCEPT !.pc = "delete", !.todo = Altar]
             judged == [req.judged EXCEPT ![i] = v]
  <1>3. /\ scene = "arcadia" /\ req.pc = "judge" /\ UNCHANGED <<scene, chain, spawner, places, prize>>
        /\ req' = IF good THEN [req EXCEPT !.valid = req.valid \cup {i}, !.judged = judged, !.pc = pc]
                  ELSE bad
    BY <1>2 DEF JudgeAltar
  <1>4. i \in Altar /\ 1..n + 1 = 1..n \cup {i} /\ 1..n + 1 \subseteq Altar
    BY <1>1 DEF Altar
  <1>5. req = [pc |-> req.pc, read |-> req.read, todo |-> req.todo, seen |-> req.seen,
              valid |-> req.valid, judged |-> req.judged, hand |-> req.hand, left |-> req.left,
              fresh |-> req.fresh, disturbed |-> req.disturbed, result |-> req.result]
        /\ req.todo \subseteq Altar /\ req.valid \subseteq Altar
        /\ req.judged = [j \in Altar |-> req.judged[j]]
        /\ req.read \in [Altar -> SUBSET Object]
    BY DEF Validator
  <1>6. judged = [j \in Altar |-> judged[j]]
    BY <1>4, <1>5
  <1>7. CASE good
    <2>1. \E x : req.read[i] = {x}
      <3>1. req.read[i] \subseteq Object
        BY <1>4, <1>5
      <3>2. IsFiniteSet(req.read[i])
        <4>1. IsFiniteSet(Artifact)
          BY FS_Interval DEF Artifact
        <4>2. IsFiniteSet(Object)
          BY <4>1, FS_Union DEF Object
        <4> QED
          BY <3>1, <4>2, FS_Subset
      <3> QED
        BY <1>7, <3>2, FS_Singleton
    <2>2. req.read[i] = {a}
      BY <2>1
    <2>3. ValidArtifact(a, i)
      BY <1>7
    <2>4. req' = [req EXCEPT !.valid = req.valid \cup {i}, !.judged = judged, !.pc = pc]
      BY <1>3, <1>7
    <2>5. pc \in {"award", "judge"} /\ pc = IF n + 1 = N THEN "award" ELSE "judge"
      OBVIOUS
    <2> HIDE DEF judged, pc, good, bad
    <2>6. req'.valid = 1..n + 1 /\ req'.judged = judged /\ req'.pc = pc
          /\ req'.todo = req.todo /\ req'.result = req.result
      BY <1>1, <1>4, <1>5, <2>4
    <2>7. Verdict
      <3>1. req' = [req EXCEPT !.pc = req'.pc, !.todo = req'.todo, !.valid = req'.valid,
                          !.judged = req'.judged, !.result = req'.result]
        BY <1>5, <2>4, <2>6
      <3> QED
        BY <1>3, <1>4, <1>5, <1>6, <2>5, <2>6, <3>1 DEF Verdict, Spawns
    <2>8. req'.judged = [req.judged EXCEPT ![n + 1] = [art |-> a, data |-> Now(a).data]]
      BY <2>6 DEF judged
    <2>9. req.read[n + 1] = {a} /\ ValidArtifact(a, n + 1)
      BY <2>2, <2>3
    <2>10. req'.pc = IF n + 1 = N THEN "award" ELSE "judge"
      BY <2>5, <2>6
    <2> HIDE DEF a
    <2>11. \E x : /\ n < N /\ req.valid = 1..n /\ req'.valid = 1..n + 1
                    /\ req'.pc = (IF n + 1 = N THEN "award" ELSE "judge")
                    /\ req.read[n + 1] = {x} /\ ValidArtifact(x, n + 1)
                    /\ req'.judged = [req.judged EXCEPT ![n + 1] = [art |-> x, data |-> Now(x).data]]
      BY <1>1, <2>6, <2>8, <2>9, <2>10
    <2> QED
      BY <1>3, <2>7, <2>11
  <1>8. CASE ~good
    <2>1. req' = bad
      BY <1>3, <1>8
    <2>2. /\ req'.valid = req.valid /\ req'.judged = req.judged /\ req'.pc = "delete"
          /\ req'.todo = Altar /\ req'.result = req.result
      BY <1>5, <2>1
    <2>3. req' = [req EXCEPT !.pc = req'.pc, !.todo = req'.todo, !.valid = req'.valid,
                          !.judged = req'.judged, !.result = req'.result]
      BY <1>5, <2>1, <2>2
    <2>4. Verdict
      BY <1>3, <1>5, <2>2, <2>3 DEF Verdict, Spawns
    <2> QED
      BY <1>3, <2>2, <2>4
  <1> QED
    BY <1>7, <1>8

\* What a verdict on a pedestal is.
LEMMA JudgePedestalIs ==
    ASSUME Validator, NEW i \in Altar, JudgePedestal(i)
    PROVE  /\ Verdict /\ scene = "spring"
           /\ \/ req'.valid = req.valid /\ req'.judged = req.judged
              \/ \E o : /\ req'.valid = req.valid \cup {i} /\ Now(o).data.mark = i
                        /\ req'.judged = [req.judged EXCEPT ![i] = [art |-> o, data |-> Now(o).data]]
  <1> DEFINE all == req.valid \cup req.todo \cup {i} = Altar
             after(r) == IF ~all THEN r
                         ELSE IF r.todo = {} THEN [r EXCEPT !.pc = "award"]
                         ELSE [r EXCEPT !.pc = "delete", !.todo = Altar]
             accept(o) == [req EXCEPT !.valid = req.valid \cup {i},
                             !.judged = [req.judged EXCEPT ![i] = [art |-> o, data |-> Now(o).data]]]
             reject == [req EXCEPT !.todo = req.todo \cup {i}]
  <1>1. /\ scene = "spring" /\ req.pc = "judge" /\ UNCHANGED <<scene, chain, spawner, places, prize>>
    BY DEF JudgePedestal
  <1>2. req = [pc |-> req.pc, read |-> req.read, todo |-> req.todo, seen |-> req.seen,
              valid |-> req.valid, judged |-> req.judged, hand |-> req.hand, left |-> req.left,
              fresh |-> req.fresh, disturbed |-> req.disturbed, result |-> req.result]
        /\ req.todo \subseteq Altar /\ req.valid \subseteq Altar
        /\ req.judged = [j \in Altar |-> req.judged[j]]
    BY DEF Validator
  <1>0. req = [pc |-> req.pc, read |-> req.read, todo |-> req.todo, seen |-> req.seen,
              valid |-> req.valid, judged |-> req.judged, hand |-> req.hand, left |-> req.left,
              fresh |-> req.fresh, disturbed |-> req.disturbed, result |-> req.result]
    BY <1>1, <1>2
  <1>7. \/ \E o : Now(o).data.mark = i /\ req' = after(accept(o))
        \/ req' = [req EXCEPT !.pc = "idle", !.todo = {}, !.result = "invalid"]
        \/ req' = after(reject)
    <2>1. CASE \E o \in {o \in req.read[i] : Now(o).data.mark = i} : req' = after(accept(o))
      BY <2>1
    <2>2. CASE req' = [req EXCEPT !.pc = "idle", !.todo = {}, !.result = "invalid"]
      BY <2>2
    <2>3. CASE req' = after(reject)
      BY <2>3
    <2> DEFINE written(o) == [req EXCEPT !.valid = @ \cup {i},
                                   !.judged[i] = [art |-> o, data |-> Now(o).data]]
    <2>4. ASSUME NEW o, NEW x, x = written(o), NEW y, y = accept(o) PROVE x = y
      BY <1>0, <2>4
    <2>5. \A o : written(o) = accept(o)
      <3> HIDE DEF written, accept
      <3> QED
        BY <2>4
    <2>6. \/ \E o \in {o \in req.read[i] : Now(o).data.mark = i} : req' = after(written(o))
          \/ req' = [req EXCEPT !.pc = "idle", !.todo = {}, !.result = "invalid"]
          \/ req' = after(reject)
      BY Zenon DEF JudgePedestal
    <2> HIDE DEF after, accept, reject, written
    <2> QED
      BY <2>1, <2>2, <2>3, <2>5, <2>6
  <1> HIDE DEF all
  <1>3. ASSUME NEW valid, NEW judged, NEW todo,
               valid \subseteq Altar, todo \subseteq Altar, judged = [j \in Altar |-> judged[j]],
               NEW r1, r1 = [req EXCEPT !.valid = valid, !.judged = judged, !.todo = todo],
               req' = after(r1)
        PROVE  Verdict /\ req'.valid = valid /\ req'.judged = judged
    <2> DEFINE r(pc, t) == [pc |-> pc, read |-> req.read, todo |-> t, seen |-> req.seen,
              valid |-> valid, judged |-> judged, hand |-> req.hand, left |-> req.left,
              fresh |-> req.fresh, disturbed |-> req.disturbed, result |-> req.result]
    <2> HIDE DEF after
    <2>0. r1 = [req EXCEPT !.valid = valid, !.judged = judged, !.todo = todo]
      BY <1>3
    <2>1. r1 = r("judge", todo)
      <3>1. r1 = r(req.pc, todo)
        BY <1>0, <2>0
      <3> QED
        BY <1>1, <3>1
    <2>2. req' = r("judge", todo) \/ req' = r("award", todo) \/ req' = r("delete", Altar)
      <3>1. CASE req' = r1
        BY <2>1, <3>1
      <3>2. CASE req' = [r1 EXCEPT !.pc = "award"]
        BY <2>1, <3>2
      <3>3. CASE req' = [r1 EXCEPT !.pc = "delete", !.todo = Altar]
        BY <2>1, <3>3
      <3> HIDE DEF r
      <3>4. req' = after(r1)
        BY <1>3
      <3> QED
        BY <3>1, <3>2, <3>3, <3>4 DEF after
    <2>3. ASSUME NEW pc, NEW t, req' = r(pc, t)
          PROVE  /\ req' = [req EXCEPT !.pc = req'.pc, !.todo = req'.todo, !.valid = req'.valid,
                          !.judged = req'.judged, !.result = req'.result]
                 /\ req'.pc = pc /\ req'.todo = t /\ req'.valid = valid /\ req'.judged = judged
                 /\ req'.result = req.result
      <3>1. /\ req'.pc = pc /\ req'.todo = t /\ req'.valid = valid /\ req'.judged = judged
            /\ req'.result = req.result
        BY <2>3
      <3>2. ASSUME NEW x, x = [req EXCEPT !.pc = pc, !.todo = t, !.valid = valid, !.judged = judged,
                        !.result = req.result]
            PROVE  x = r(pc, t)
        BY <1>0, <3>2
      <3> HIDE DEF r
      <3> QED
        BY <2>3, <3>1, <3>2
    <2> HIDE DEF r
    <2>4. /\ req' = [req EXCEPT !.pc = req'.pc, !.todo = req'.todo, !.valid = req'.valid,
                          !.judged = req'.judged, !.result = req'.result]
          /\ req'.valid = valid /\ req'.judged = judged /\ req'.result = req.result
          /\ req'.todo \subseteq Altar
          /\ req'.pc \in {"judge", "award"} \/ (req'.pc = "delete" /\ req'.todo = Altar)
      <3>1. todo \subseteq Altar
        BY <1>3
      <3> QED
        BY <2>2, <2>3, <3>1
    <2> QED
      BY <1>1, <1>3, <2>4 DEF Verdict, Spawns
  <1>4. CASE req' = after(reject)
    <2>1. reject = [req EXCEPT !.valid = req.valid, !.judged = req.judged, !.todo = req.todo \cup {i}]
      <3>1. ASSUME NEW x, x = reject,
                   NEW y, y = [req EXCEPT !.valid = req.valid, !.judged = req.judged,
                                          !.todo = req.todo \cup {i}]
            PROVE  x = y
        BY <1>0, <3>1
      <3> QED
        BY <3>1
    <2>2. req.todo \cup {i} \subseteq Altar
      BY <1>2
    <2> HIDE DEF after, reject
    <2>4. req.valid \subseteq Altar /\ req.judged = [j \in Altar |-> req.judged[j]]
      BY <1>2
    <2> QED
      BY <1>1, <1>3, <1>4, <2>1, <2>2, <2>4
  <1>5. ASSUME NEW o, Now(o).data.mark = i, req' = after(accept(o))
        PROVE  /\ Verdict /\ req'.valid = req.valid \cup {i}
               /\ req'.judged = [req.judged EXCEPT ![i] = [art |-> o, data |-> Now(o).data]]
    <2> DEFINE judged == [req.judged EXCEPT ![i] = [art |-> o, data |-> Now(o).data]]
    <2>1. judged = [j \in Altar |-> judged[j]]
      BY <1>2
    <2>2. accept(o) = [req EXCEPT !.valid = req.valid \cup {i}, !.judged = judged, !.todo = req.todo]
      <3>1. ASSUME NEW x, x = accept(o),
                   NEW y, y = [req EXCEPT !.valid = req.valid \cup {i}, !.judged = judged,
                                          !.todo = req.todo]
            PROVE  x = y
        BY <1>0, <3>1
      <3> QED
        BY <3>1
    <2>3. req.valid \cup {i} \subseteq Altar /\ req.todo \subseteq Altar
      BY <1>2
    <2> HIDE DEF after, accept, judged
    <2>4. \A x : x = [req EXCEPT !.valid = req.valid \cup {i}, !.judged = judged, !.todo = req.todo]
                      /\ req' = after(x)
                   => /\ Verdict /\ req'.valid = req.valid \cup {i} /\ req'.judged = judged
      <3> DEFINE valid == req.valid \cup {i}
                 todo == req.todo
      <3>1. valid \subseteq Altar /\ todo \subseteq Altar
        BY <2>3
      <3> HIDE DEF valid, todo
      <3>2. \A x : x = [req EXCEPT !.valid = valid, !.judged = judged, !.todo = todo] /\ req' = after(x)
                   => /\ Verdict /\ req'.valid = valid /\ req'.judged = judged
        BY <1>3, <2>1, <3>1
      <3> QED
        BY <3>2 DEF valid, todo
    <2>5. req' = after(accept(o))
      BY <1>5
    <2>6. /\ Verdict /\ req'.valid = req.valid \cup {i} /\ req'.judged = judged
      BY <2>2, <2>4, <2>5
    <2> QED
      BY <2>6 DEF judged
  <1>6. CASE req' = [req EXCEPT !.pc = "idle", !.todo = {}, !.result = "invalid"]
    <2>1. /\ req'.pc = "idle" /\ req'.todo = {} /\ req'.valid = req.valid /\ req'.judged = req.judged
          /\ req'.result = "invalid"
      BY <1>2, <1>6
    <2>2. req' = [req EXCEPT !.pc = req'.pc, !.todo = req'.todo, !.valid = req'.valid,
                          !.judged = req'.judged, !.result = req'.result]
      BY <1>2, <1>6, <2>1
    <2>3. Verdict
      BY <1>1, <1>2, <2>1, <2>2 DEF Verdict, Spawns
    <2> QED
      BY <1>1, <2>1, <2>3
  <1> HIDE DEF after, accept, reject
  <1> QED
    BY <1>1, <1>4, <1>5, <1>6, <1>7

\* A step keeps what was read and judged.
JudgedKept ==
    req'.read = req.read /\ req'.valid = req.valid /\ req'.judged = req.judged

\* The prize is the player's, and the altars are to be cleaned.
LEMMA AwardOK ==
    ASSUME Validator, Scenes, Award
    PROVE  /\ ~Spawns /\ UNCHANGED <<scene, chain, spawner, places>> /\ Validator' /\ JudgedKept
           /\ req.pc = "award" /\ req'.pc = "clean" /\ req'.todo = seen /\ req'.disturbed = req.disturbed
           /\ req'.hand = 0 /\ Altar \subseteq seen
  <1>1. ~Spawns /\ UNCHANGED <<scene, chain, spawner, places, seen>> /\ req.pc = "award"
    BY DEF Award, Validator, Quiet, places
  <1>2. req.hand = 0 /\ Altar \subseteq seen /\ seen \subseteq Altar
    BY <1>1 DEF Validator, Scenes
  <1>3. req' = [pc |-> "clean", read |-> req.read, todo |-> seen, seen |-> req.seen,
                valid |-> req.valid, judged |-> req.judged, hand |-> req.hand, left |-> req.left,
                fresh |-> req.fresh, disturbed |-> req.disturbed, result |-> "won"]
    BY DEF Award, Validator
  <1>4. /\ req'.pc = "clean" /\ req'.read = req.read /\ req'.todo = seen /\ req'.seen = req.seen
        /\ req'.valid = req.valid /\ req'.judged = req.judged /\ req'.hand = 0 /\ req'.left = req.left
        /\ req'.fresh = req.fresh /\ req'.disturbed = req.disturbed /\ req'.result = "won"
    BY <1>2, <1>3
  <1>5. Validator'
    BY <1>1, <1>2, <1>3, <1>4 DEF Validator, Spawns
  <1> QED
    BY <1>1, <1>2, <1>4, <1>5 DEF JudgedKept

\* The court fetches the player's inventory at an altar.
LEMMA FetchOK ==
    ASSUME Validator, Scenes, NEW i \in Altar,
           CleanAltar(i) \/ CleanPedestal(i) \/ EmptyAltar(i) \/ EmptyPedestal(i)
    PROVE  /\ ~Spawns /\ UNCHANGED <<scene, chain, spawner, places>> /\ Validator' /\ JudgedKept
           /\ req.pc \in {"clean", "delete"} /\ req.hand = 0 /\ i \in req.todo
           /\ req'.pc = req.pc /\ req'.todo = req.todo /\ req'.disturbed = req.disturbed
           /\ req'.hand = i /\ req'.fresh = TRUE
           /\ req'.left = altar[i] \/ req'.left = req.read[i] \cap altar[i]
  <1>1. /\ ~Spawns /\ UNCHANGED <<scene, chain, spawner, places, seen>>
        /\ req.pc \in {"clean", "delete"} /\ req.hand = 0 /\ i \in req.todo
    BY DEF CleanAltar, CleanPedestal, EmptyAltar, EmptyPedestal, Fetch, places, Spawns
  <1>2. \/ req' = [req EXCEPT !.hand = i, !.fresh = TRUE, !.left = altar[i]]
        \/ req' = [req EXCEPT !.hand = i, !.fresh = TRUE, !.left = req.read[i] \cap altar[i]]
    BY DEF CleanAltar, CleanPedestal, EmptyAltar, EmptyPedestal, Fetch
  <1>3. \A left : req' = [req EXCEPT !.hand = i, !.fresh = TRUE, !.left = left] =>
             req' = [pc |-> req.pc, read |-> req.read, todo |-> req.todo, seen |-> req.seen,
                valid |-> req.valid, judged |-> req.judged, hand |-> i, left |-> left,
                fresh |-> TRUE, disturbed |-> req.disturbed, result |-> req.result]
    BY DEF Validator
  <1>4. PICK left : /\ left = altar[i] \/ left = req.read[i] \cap altar[i]
                    /\ req' = [pc |-> req.pc, read |-> req.read, todo |-> req.todo, seen |-> req.seen,
                         valid |-> req.valid, judged |-> req.judged, hand |-> i, left |-> left,
                         fresh |-> TRUE, disturbed |-> req.disturbed, result |-> req.result]
    BY <1>2, <1>3
  <1>5. /\ req'.pc = req.pc /\ req'.read = req.read /\ req'.todo = req.todo /\ req'.seen = req.seen
        /\ req'.valid = req.valid /\ req'.judged = req.judged /\ req'.hand = i /\ req'.left = left
        /\ req'.fresh = TRUE /\ req'.disturbed = req.disturbed /\ req'.result = req.result
    BY <1>4
  <1>6. left \subseteq Object
    BY <1>4 DEF Scenes
  <1>7. req' = [pc |-> req'.pc, read |-> req'.read, todo |-> req'.todo, seen |-> req'.seen,
                valid |-> req'.valid, judged |-> req'.judged, hand |-> req'.hand, left |-> req'.left,
                fresh |-> req'.fresh, disturbed |-> req'.disturbed, result |-> req'.result]
    BY <1>4, <1>5
  <1>8. Validator'
    BY <1>1, <1>5, <1>6, <1>7 DEF Validator, Spawns
  <1> QED
    BY <1>1, <1>4, <1>5, <1>8 DEF JudgedKept

\* The court removes an object, unless its handle on the inventory is stale.
LEMMA RemoveOK ==
    ASSUME Validator, Scenes, Remove
    PROVE  /\ ~Spawns /\ UNCHANGED <<scene, chain, spawner, at, transit, bag, seen>>
           /\ Validator' /\ JudgedKept
           /\ req.hand \in Altar /\ req.pc \in {"clean", "delete"}
           /\ req'.pc = req.pc /\ req'.todo = req.todo /\ req'.disturbed = req.disturbed
           /\ req'.hand = req.hand /\ req'.fresh = req.fresh
           /\ \E o \in req.left :
                 /\ req'.left = req.left \ {o}
                 /\ IF req.fresh THEN altar' = [altar EXCEPT ![req.hand] = @ \ {o}]
                    ELSE altar' = altar
  <1>1. /\ ~Spawns /\ UNCHANGED <<scene, chain, spawner, at, transit, bag, seen>>
        /\ req.hand \in Altar /\ req.pc \in {"clean", "delete"}
    BY DEF Remove, Validator, Quiet
  <1>2. PICK o \in req.left :
           /\ req' = [req EXCEPT !.left = req.left \ {o}]
           /\ IF req.fresh THEN altar' = [altar EXCEPT ![req.hand] = @ \ {o}] ELSE altar' = altar
    BY DEF Remove
  <1>3. req' = [pc |-> req.pc, read |-> req.read, todo |-> req.todo, seen |-> req.seen,
                valid |-> req.valid, judged |-> req.judged, hand |-> req.hand, left |-> req.left \ {o},
                fresh |-> req.fresh, disturbed |-> req.disturbed, result |-> req.result]
    BY <1>2 DEF Validator
  <1>4. /\ req'.pc = req.pc /\ req'.read = req.read /\ req'.todo = req.todo /\ req'.seen = req.seen
        /\ req'.valid = req.valid /\ req'.judged = req.judged /\ req'.hand = req.hand
        /\ req'.left = req.left \ {o}
        /\ req'.fresh = req.fresh /\ req'.disturbed = req.disturbed /\ req'.result = req.result
    BY <1>3
  <1>5. Validator'
    BY <1>1, <1>3, <1>4 DEF Validator, Spawns
  <1> QED
    BY <1>1, <1>2, <1>4, <1>5 DEF JudgedKept

\* An object is not removed, or the answer is lost: the altar is disturbed.
LEMMA RemoveFailsOK ==
    ASSUME Validator, Scenes, RemoveFails
    PROVE  /\ ~Spawns /\ UNCHANGED <<scene, chain, spawner, at, transit, bag, seen>>
           /\ Validator' /\ JudgedKept
           /\ req.hand \in Altar /\ req.pc \in {"clean", "delete"}
           /\ req'.pc = req.pc /\ req'.todo = req.todo /\ req'.hand = req.hand
           /\ req'.disturbed = req.disturbed \cup {req.hand}
  <1>1. /\ ~Spawns /\ UNCHANGED <<scene, chain, spawner, at, transit, bag, seen>>
        /\ req.hand \in Altar /\ req.pc \in {"clean", "delete"}
    BY DEF RemoveFails, Validator, Quiet
  <1>2. PICK o \in req.left, played \in BOOLEAN :
           req' = [req EXCEPT !.left = @ \ {o}, !.fresh = @ /\ ~played,
                              !.disturbed = @ \cup {req.hand}]
    BY DEF RemoveFails
  <1>3. req' = [pc |-> req.pc, read |-> req.read, todo |-> req.todo, seen |-> req.seen,
                valid |-> req.valid, judged |-> req.judged, hand |-> req.hand, left |-> req.left \ {o},
                fresh |-> (req.fresh /\ ~played), disturbed |-> req.disturbed \cup {req.hand},
                result |-> req.result]
    BY <1>2 DEF Validator
  <1>4. /\ req'.pc = req.pc /\ req'.read = req.read /\ req'.todo = req.todo /\ req'.seen = req.seen
        /\ req'.valid = req.valid /\ req'.judged = req.judged /\ req'.hand = req.hand
        /\ req'.left = req.left \ {o} /\ req'.fresh \in BOOLEAN
        /\ req'.disturbed = req.disturbed \cup {req.hand} /\ req'.result = req.result
    BY <1>3 DEF Validator
  <1>5. req' = [pc |-> req'.pc, read |-> req'.read, todo |-> req'.todo, seen |-> req'.seen,
                valid |-> req'.valid, judged |-> req'.judged, hand |-> req'.hand, left |-> req'.left,
                fresh |-> req'.fresh, disturbed |-> req'.disturbed, result |-> req'.result]
    BY <1>3
  <1>6. Validator'
    BY <1>1, <1>4, <1>5 DEF Validator, Spawns
  <1> QED
    BY <1>1, <1>4, <1>6 DEF JudgedKept

\* An inventory cannot be fetched: the altar is disturbed.
LEMMA FetchFailsOK ==
    ASSUME Validator, Scenes, NEW i \in Altar, FetchFails(i)
    PROVE  /\ ~Spawns /\ UNCHANGED <<scene, chain, spawner, places>> /\ Validator' /\ JudgedKept
           /\ req.pc \in {"clean", "delete"} /\ req.hand = 0
           /\ req'.pc = req.pc /\ req'.todo = req.todo /\ req'.hand = i
           /\ req'.disturbed = req.disturbed \cup {i}
  <1>1. /\ ~Spawns /\ UNCHANGED <<scene, chain, spawner, places, seen>>
        /\ req.pc \in {"clean", "delete"} /\ req.hand = 0 /\ i \in req.todo
    BY DEF FetchFails, places, Validator, Quiet
  <1>2. req' = [req EXCEPT !.hand = i, !.left = {}, !.fresh = FALSE,
                           !.disturbed = req.disturbed \cup {i}]
    BY DEF FetchFails
  <1>3. req' = [pc |-> req.pc, read |-> req.read, todo |-> req.todo, seen |-> req.seen,
                valid |-> req.valid, judged |-> req.judged, hand |-> i, left |-> {},
                fresh |-> FALSE, disturbed |-> req.disturbed \cup {i}, result |-> req.result]
    BY <1>2 DEF Validator
  <1>4. /\ req'.pc = req.pc /\ req'.read = req.read /\ req'.todo = req.todo /\ req'.seen = req.seen
        /\ req'.valid = req.valid /\ req'.judged = req.judged /\ req'.hand = i
        /\ req'.left = {} /\ req'.fresh = FALSE
        /\ req'.disturbed = req.disturbed \cup {i} /\ req'.result = req.result
    BY <1>3
  <1>5. req' = [pc |-> req'.pc, read |-> req'.read, todo |-> req'.todo, seen |-> req'.seen,
                valid |-> req'.valid, judged |-> req'.judged, hand |-> req'.hand, left |-> req'.left,
                fresh |-> req'.fresh, disturbed |-> req'.disturbed, result |-> req'.result]
    BY <1>3
  <1>6. Validator'
    BY <1>1, <1>4, <1>5 DEF Validator, Spawns
  <1> QED
    BY <1>1, <1>4, <1>6 DEF JudgedKept

\* The court is done with an altar.
LEMMA NextInventoryOK ==
    ASSUME Validator, Scenes, NextInventory
    PROVE  /\ ~Spawns /\ UNCHANGED <<scene, chain, spawner, places>> /\ Validator' /\ JudgedKept
           /\ req.hand \in Altar /\ req.pc \in {"clean", "delete"} /\ req.left = {}
           /\ req'.todo = req.todo \ {req.hand} /\ req'.disturbed = req.disturbed /\ req'.hand = 0
           /\ IF req'.todo = {} THEN req'.pc = "idle" ELSE req'.pc = req.pc
  <1> DEFINE rest == req.todo \ {req.hand}
             pc == IF rest = {} THEN "idle" ELSE req.pc
             result == IF req.pc = "clean" THEN req.result ELSE "lost"
  <1>1. /\ ~Spawns /\ UNCHANGED <<scene, chain, spawner, places, seen>>
        /\ req.hand \in Altar /\ req.pc \in {"clean", "delete"} /\ req.left = {}
    BY DEF NextInventory, Validator, Quiet, places
  <1>2. req' = [req EXCEPT !.hand = 0, !.todo = rest, !.pc = pc, !.result = result]
    BY DEF NextInventory
  <1>3. /\ rest \subseteq Altar /\ pc \in {"idle", req.pc} /\ (rest = {} => pc = "idle")
        /\ rest # {} => pc = req.pc
        /\ result \in {"none", "error", "invalid", "won", "lost", "crashed"}
    BY DEF Validator
  <1> HIDE DEF rest, pc, result
  <1>4. req' = [pc |-> pc, read |-> req.read, todo |-> rest, seen |-> req.seen,
                valid |-> req.valid, judged |-> req.judged, hand |-> 0, left |-> req.left,
                fresh |-> req.fresh, disturbed |-> req.disturbed, result |-> result]
    BY <1>2 DEF Validator
  <1>5. /\ req'.pc = pc /\ req'.read = req.read /\ req'.todo = rest /\ req'.seen = req.seen
        /\ req'.valid = req.valid /\ req'.judged = req.judged /\ req'.hand = 0
        /\ req'.left = req.left
        /\ req'.fresh = req.fresh /\ req'.disturbed = req.disturbed /\ req'.result = result
    BY <1>4
  <1>6. req' = [pc |-> req'.pc, read |-> req'.read, todo |-> req'.todo, seen |-> req'.seen,
                valid |-> req'.valid, judged |-> req'.judged, hand |-> req'.hand, left |-> req'.left,
                fresh |-> req'.fresh, disturbed |-> req'.disturbed, result |-> req'.result]
    BY <1>4, <1>5
  <1>7. Validator'
    BY <1>1, <1>3, <1>5, <1>6 DEF Validator, Spawns
  <1> QED
    BY <1>1, <1>3, <1>5, <1>7 DEF JudgedKept, rest

\* Nothing is asked of the validator, or something new.
LEMMA QuietOK ==
    ASSUME Scenes, ~Spawns, UNCHANGED <<scene, seen>>,
           \/ req' = [Quiet EXCEPT !.pc = "read", !.todo = Altar, !.seen = seen]
           \/ req' = [Quiet EXCEPT !.result = "crashed"]
    PROVE  /\ Validator'
           /\ \/ req'.pc = "read" /\ req'.todo = Altar
              \/ req'.pc = "idle" /\ req'.result = "crashed"
           /\ req'.valid = {} /\ \A i \in Altar : req'.read[i] = {}
  <1> DEFINE none == [i \in Altar |-> {}]
             blanks == [i \in Altar |-> Blank]
             r(pc, todo, visited, result) ==
                [pc |-> pc, read |-> none, todo |-> todo, seen |-> visited, valid |-> {},
                 judged |-> blanks, hand |-> 0, left |-> {}, fresh |-> FALSE, disturbed |-> {},
                 result |-> result]
  <1>1. \/ req' = r("read", Altar, seen, "none")
        \/ req' = r("idle", {}, {}, "crashed")
    BY DEF Quiet
  <1>2. none \in [Altar -> SUBSET Object] /\ (\A i \in Altar : none[i] = {})
        /\ blanks = [i \in Altar |-> blanks[i]]
    OBVIOUS
  <1>3. seen \subseteq Altar /\ ~Spawns' /\ seen' = seen
    BY DEF Scenes, Spawns
  <1> HIDE DEF none, blanks
  <1>4. CASE req' = r("read", Altar, seen, "none")
    BY <1>2, <1>3, <1>4 DEF Validator
  <1>5. CASE req' = r("idle", {}, {}, "crashed")
    BY <1>2, <1>3, <1>5 DEF Validator
  <1> QED
    BY <1>1, <1>4, <1>5

\* Every step.
LEMMA NextValidator == ASSUME Spawner, Scenes, Scenes', Validator, Genuine, [Next]_vars PROVE Validator'
  <1>0. seen \subseteq Altar /\ seen' \subseteq Altar
    BY DEF Scenes
  <1>1. ASSUME NEW o \in Object, NEW i \in Altar, Drop(o, i) \/ TakeBack(o, i) PROVE Validator'
    <2>1. ~Spawns /\ Touch(i) /\ UNCHANGED <<scene, seen>>
      BY <1>1 DEF Drop, TakeBack, Scenes
    <2> QED
      BY <2>1, TouchOK
  <1>2. CASE RequestPrize \/ CrashCourt
    <2>1. ~Spawns /\ UNCHANGED <<scene, seen>>
      BY <1>2 DEF RequestPrize, CrashCourt, places, Validator, Quiet
    <2> QED
      BY <1>2, <2>1, QuietOK DEF RequestPrize, CrashCourt
  <1>3. ASSUME NEW i \in Altar, ReadAltar(i) \/ ReadPedestal(i) PROVE Validator'
    BY <1>3, ReadOK DEF ReadAltar, ReadPedestal
  <1>4. ASSUME NEW i \in Altar, JudgePedestal(i) PROVE Validator'
    BY <1>4, JudgePedestalIs, VerdictOK
  <1>5. CASE JudgeAltar
    <2>1. \E n \in Nat : n < N /\ req.valid = 1..n
      BY <1>5 DEF JudgeAltar, Genuine
    <2> QED
      BY <1>5, <2>1, JudgeAltarIs, VerdictOK
  <1>6. ASSUME NEW i \in Altar, CleanAltar(i) \/ CleanPedestal(i) \/ EmptyAltar(i) \/ EmptyPedestal(i)
        PROVE  Validator'
    BY <1>6, FetchOK
  <1>7. CASE Award \/ Remove \/ NextInventory
    BY <1>7, AwardOK, RemoveOK, NextInventoryOK
  <1>8. CASE UNCHANGED <<scene, req>> /\ seen \subseteq seen'
    BY <1>0, <1>8, RequestKept
  <1>9. CASE Respawn \/ LoseMessage \/ Panic \/ UNCHANGED vars
    BY <1>8, <1>9 DEF Respawn, Started, Attach, CreateArtifact, UpdateRefused, LoadArtifact, Subscribed,
       addArtifactToRandomLocation, RecordLast, CurrentState, LoseMessage, Panic, vars, places, court
  <1>10. CASE \/ \E a \in Artifact : StartPickUp(a) \/ FinishPickUp(a) \/ RollBack(a)
              \/ \E o \in Object, i \in Altar : Inscribe(o, i) \/ Reforge(o, i)
              \/ \E i \in Altar : Visit(i)
              \/ DropPrize
    BY <1>8, <1>10 DEF StartPickUp, FinishPickUp, RollBack, Inscribe, Reforge, Visit, DropPrize,
       places, court
  <1>11. CASE RemoveFails \/ \E i \in Altar : FetchFails(i)
    BY <1>11, RemoveFailsOK, FetchFailsOK
  <1> QED
    BY <1>1, <1>2, <1>3, <1>4, <1>5, <1>6, <1>7, <1>9, <1>10, <1>11 DEF Next, Player, Validate

\* What was read on an altar that was not disturbed since is still there, until it
\* is removed; then it is nowhere.
ReadStands(i) == altar[i] = req.read[i]
ReadGone(i) == \A o \in req.read[i] : o \notin Held
Removing(i) ==
    /\ req.fresh /\ req.left = altar[i] /\ req.left \subseteq req.read[i]
    /\ \A o \in req.read[i] \ req.left : o \notin Held

Consumed ==
    \A i \in Altar \ req.disturbed :
        /\ req.pc = "read" /\ i \notin req.todo => ReadStands(i)
        /\ req.pc \in {"judge", "award"} => ReadStands(i)
        /\ req.pc \in {"clean", "delete"} =>
              /\ i \in req.todo /\ i # req.hand => ReadStands(i)
              /\ i = req.hand => Removing(i)
              /\ i \notin req.todo => ReadGone(i)
        /\ req.pc = "idle" /\ req.result \in {"won", "lost"} => ReadGone(i)

\* No step changes the scene.
LEMMA SceneKept == ASSUME [Next]_vars PROVE scene' = scene
  BY DEF Next, vars, Respawn, Started, Attach, CreateArtifact, UpdateRefused, LoadArtifact, Subscribed,
     addArtifactToRandomLocation, RecordLast, CurrentState, LoseMessage, Panic, RequestPrize, CrashCourt,
     Player, StartPickUp, FinishPickUp, RollBack, Visit, Drop, TakeBack, Inscribe, Reforge, DropPrize,
     Validate, ReadAltar, ReadPedestal, ReadInventory, JudgePedestal, CleanAltar, CleanPedestal,
     EmptyAltar, EmptyPedestal, Fetch, JudgeAltar, Award, Remove, RemoveFails, FetchFails, NextInventory

\* What was read and is not listed stays so.
LEMMA GoneStaysGone ==
    ASSUME Held' \subseteq Held, NEW i, req'.read = req.read, ReadGone(i)
    PROVE  ReadGone(i)'
  BY DEF ReadGone

\* A step that moves nothing at the altars and leaves the request alone.
LEMMA ConsumedKept ==
    ASSUME Consumed, Held' \subseteq Held, UNCHANGED <<req, altar>>
    PROVE  Consumed'
  <1> SUFFICES ASSUME NEW i \in Altar \ req.disturbed
      PROVE
        /\ req.pc = "read" /\ i \notin req.todo => ReadStands(i)'
        /\ req.pc \in {"judge", "award"} => ReadStands(i)'
        /\ req.pc \in {"clean", "delete"} =>
              /\ i \in req.todo /\ i # req.hand => ReadStands(i)'
              /\ i = req.hand => Removing(i)'
              /\ i \notin req.todo => ReadGone(i)'
        /\ req.pc = "idle" /\ req.result \in {"won", "lost"} => ReadGone(i)'
    BY DEF Consumed
  <1>1. ReadStands(i) => ReadStands(i)'
    BY DEF ReadStands
  <1>2. ReadGone(i) => ReadGone(i)'
    BY GoneStaysGone
  <1>3. Removing(i) => Removing(i)'
    BY DEF Removing
  <1> QED
    BY <1>1, <1>2, <1>3 DEF Consumed

\* A move of the player at an altar.
LEMMA TouchConsumed ==
    ASSUME Consumed, Validator, Held' \subseteq Held, NEW j \in Altar, Touch(j),
           \A i \in Altar \ {j} : altar'[i] = altar[i]
    PROVE  Consumed'
  <1>1. /\ req'.pc = req.pc /\ req'.read = req.read /\ req'.todo = req.todo /\ req'.hand = req.hand
        /\ req'.left = req.left /\ req'.result = req.result
        /\ req'.fresh = (req.fresh /\ req.hand # j)
        /\ req'.disturbed = (IF req.pc = "idle" THEN req.disturbed ELSE req.disturbed \cup {j})
    BY DEF Touch, Validator
  <1> SUFFICES ASSUME NEW i \in Altar \ req'.disturbed
      PROVE
        /\ req.pc = "read" /\ i \notin req.todo => ReadStands(i)'
        /\ req.pc \in {"judge", "award"} => ReadStands(i)'
        /\ req.pc \in {"clean", "delete"} =>
              /\ i \in req.todo /\ i # req.hand => ReadStands(i)'
              /\ i = req.hand => Removing(i)'
              /\ i \notin req.todo => ReadGone(i)'
        /\ req.pc = "idle" /\ req.result \in {"won", "lost"} => ReadGone(i)'
    BY <1>1 DEF Consumed
  <1>2. i \in Altar \ req.disturbed /\ (req.pc # "idle" => i # j)
    BY <1>1
  <1>3. req.pc # "idle" /\ ReadStands(i) => ReadStands(i)'
    BY <1>1, <1>2 DEF ReadStands
  <1>4. ReadGone(i) => ReadGone(i)'
    BY <1>1, GoneStaysGone
  <1>5. req.pc # "idle" /\ i = req.hand /\ Removing(i) => Removing(i)'
    BY <1>1, <1>2 DEF Removing
  <1> QED
    BY <1>2, <1>3, <1>4, <1>5 DEF Consumed

\* Every step.
LEMMA NextConsumed ==
    ASSUME Spawner, Scenes, Scenes', Validator, Validator', Genuine, Consumed, Moves, [Next]_vars
    PROVE  Consumed'
  <1>1. CASE Spawns
    <2>1. req' = Quiet
      BY <1>1, SceneKept DEF Validator, Spawns
    <2>2. req'.pc = "idle" /\ req'.result = "none"
      BY <2>1 DEF Quiet
    <2> QED
      BY <2>2 DEF Consumed
  <1> SUFFICES ASSUME ~Spawns PROVE Consumed'
    BY <1>1
  <1>2. Held' \subseteq Held
    BY DEF Moves, Scenes, Stopped
  <1>3. ASSUME NEW o \in Object, NEW i \in Altar, Drop(o, i) \/ TakeBack(o, i) PROVE Consumed'
    <2>1. Touch(i) /\ \A j \in Altar \ {i} : altar'[j] = altar[j]
      BY <1>3 DEF Drop, TakeBack, Scenes
    <2> QED
      BY <1>2, <2>1, TouchConsumed
  <1>4. CASE RequestPrize \/ CrashCourt
    <2>1. UNCHANGED <<scene, seen>>
      BY <1>4 DEF RequestPrize, CrashCourt, places
    <2>2. \/ req'.pc = "read" /\ req'.todo = Altar
          \/ req'.pc = "idle" /\ req'.result = "crashed"
      BY <1>4, <2>1, QuietOK DEF RequestPrize, CrashCourt
    <2> QED
      BY <2>2 DEF Consumed
  <1>5. ASSUME NEW i \in Altar, ReadAltar(i) \/ ReadPedestal(i) PROVE Consumed'
    <2>1. req.pc = "read" /\ UNCHANGED altar
      BY <1>5, ReadOK DEF ReadAltar, ReadPedestal, places
    <2>2. CASE req' = [req EXCEPT !.pc = "idle", !.result = "error"]
      <3>1. req'.pc = "idle" /\ req'.result = "error"
        BY <2>2 DEF Validator
      <3> QED
        BY <3>1 DEF Consumed
    <2>3. CASE req' = [req EXCEPT !.read = [req.read EXCEPT ![i] = altar[i]],
                                       !.todo = req.todo \ {i},
                                       !.pc = IF req.todo = {i} THEN "judge" ELSE "read"]
      <3>1. /\ req'.read = [req.read EXCEPT ![i] = altar[i]] /\ req'.todo = req.todo \ {i}
            /\ req'.pc = (IF req.todo = {i} THEN "judge" ELSE "read")
            /\ req'.disturbed = req.disturbed
            /\ req.read \in [Altar -> SUBSET Object]
        BY <2>3 DEF Validator
      <3>2. ASSUME NEW j \in Altar \ req.disturbed, j \notin req'.todo
            PROVE  ReadStands(j)'
        <4>1. CASE j = i
          BY <2>1, <3>1, <4>1 DEF ReadStands
        <4>2. CASE j # i
          <5>1. ReadStands(j)
            BY <2>1, <3>1, <3>2, <4>2 DEF Consumed
          <5> QED
            BY <2>1, <3>1, <4>2, <5>1 DEF ReadStands
        <4> QED
          BY <4>1, <4>2
      <3>3. req'.pc = "read" \/ (req'.pc = "judge" /\ req'.todo = {})
        BY <3>1
      <3> QED
        BY <3>1, <3>2, <3>3 DEF Consumed
    <2> QED
      BY <1>5, <2>2, <2>3, ReadOK DEF ReadAltar, ReadPedestal
  <1>6. CASE Verdict
    <2>1. /\ req.pc = "judge" /\ UNCHANGED altar /\ req'.read = req.read /\ req'.disturbed = req.disturbed
          /\ req'.hand = 0 /\ 0 \notin Altar
      <3>1. UNCHANGED altar /\ req.pc = "judge"
        BY <1>6 DEF Verdict, places
      <3>2. req' = [req EXCEPT !.pc = req'.pc, !.todo = req'.todo, !.valid = req'.valid,
                          !.judged = req'.judged, !.result = req'.result]
        BY <1>6 DEF Verdict
      <3>3. req'.read = req.read /\ req'.disturbed = req.disturbed /\ req'.hand = req.hand
        BY <3>2 DEF Validator
      <3> QED
        BY <3>1, <3>3 DEF Validator, Altar
    <2>2. ASSUME NEW i \in Altar \ req.disturbed PROVE ReadStands(i)'
      BY <2>1 DEF Consumed, ReadStands
    <2>3. \/ req'.pc \in {"judge", "award"}
          \/ req'.pc = "delete" /\ req'.todo = Altar
          \/ req'.pc = "idle" /\ req'.result = "invalid"
      BY <1>6 DEF Verdict
    <2> QED
      BY <2>1, <2>2, <2>3 DEF Consumed
  <1>7. ASSUME NEW i \in Altar, JudgePedestal(i) PROVE Consumed'
    BY <1>6, <1>7, JudgePedestalIs
  <1>8. CASE JudgeAltar
    <2>1. \E n \in Nat : n < N /\ req.valid = 1..n
      BY <1>8 DEF JudgeAltar, Genuine
    <2> QED
      BY <1>6, <1>8, <2>1, JudgeAltarIs
  <1>9. CASE Award
    <2>1. /\ req.pc = "award" /\ req'.pc = "clean" /\ Altar \subseteq req'.todo /\ UNCHANGED altar
          /\ req'.read = req.read /\ req'.disturbed = req.disturbed /\ req'.hand = 0 /\ 0 \notin Altar
      BY <1>9, AwardOK DEF JudgedKept, places, Altar
    <2>2. ASSUME NEW i \in Altar \ req.disturbed PROVE ReadStands(i)'
      BY <2>1 DEF Consumed, ReadStands
    <2> QED
      BY <2>1, <2>2 DEF Consumed
  <1>10. ASSUME NEW i \in Altar, CleanAltar(i) \/ CleanPedestal(i) \/ EmptyAltar(i) \/ EmptyPedestal(i)
         PROVE  Consumed'
    <2>1. /\ req.pc \in {"clean", "delete"} /\ req.hand = 0 /\ i \in req.todo /\ UNCHANGED altar
          /\ req'.pc = req.pc /\ req'.todo = req.todo /\ req'.disturbed = req.disturbed
          /\ req'.hand = i /\ req'.fresh = TRUE /\ req'.read = req.read
          /\ req'.left = altar[i] \/ req'.left = req.read[i] \cap altar[i]
      BY <1>10, FetchOK DEF JudgedKept, places
    <2>2. ASSUME NEW j \in Altar \ req.disturbed, j \in req.todo PROVE ReadStands(j) /\ ReadStands(j)'
      <3>1. j # req.hand
        BY <2>1 DEF Altar
      <3> QED
        BY <2>1, <2>2, <3>1 DEF Consumed, ReadStands
    <2>3. ASSUME i \notin req.disturbed PROVE Removing(i)'
      BY <2>1, <2>2, <2>3 DEF Removing, ReadStands
    <2>4. ASSUME NEW j \in Altar \ req.disturbed, j \notin req.todo PROVE ReadGone(j)'
      BY <1>2, <2>1, <2>4, GoneStaysGone DEF Consumed
    <2> QED
      BY <2>1, <2>2, <2>3, <2>4 DEF Consumed
  <1>11. CASE Remove
    <2> DEFINE h == req.hand
    <2>1. /\ h \in Altar /\ req.pc \in {"clean", "delete"}
          /\ UNCHANGED <<at, transit, bag>>
          /\ req'.pc = req.pc /\ req'.todo = req.todo /\ req'.disturbed = req.disturbed
          /\ req'.hand = h /\ req'.fresh = req.fresh /\ req'.read = req.read
      BY <1>11, RemoveOK DEF JudgedKept
    <2>2. PICK o \in req.left :
                 /\ req'.left = req.left \ {o}
                 /\ IF req.fresh THEN altar' = [altar EXCEPT ![h] = @ \ {o}]
                    ELSE altar' = altar
      BY <1>11, RemoveOK
    <2>3. \A j \in Altar : j # h => altar'[j] = altar[j]
      BY <2>2 DEF Scenes
    <2>4. ASSUME NEW j \in Altar \ req.disturbed, j \in req.todo, j # h PROVE ReadStands(j)'
      BY <2>1, <2>3, <2>4 DEF Consumed, ReadStands
    <2>5. ASSUME h \notin req.disturbed PROVE Removing(h)'
      <3>1. Removing(h)
        BY <2>1, <2>5 DEF Consumed
      <3>2. altar'[h] = altar[h] \ {o} /\ o \in altar[h]
        BY <2>1, <2>2, <3>1 DEF Removing, Scenes
      <3>3. o \notin bag /\ at = {} /\ transit = {} /\ \A j \in Altar : j # h => o \notin altar[j]
        BY <2>1, <3>2 DEF Scenes
      <3>4. o \notin Held'
        BY <2>1, <2>3, <3>2, <3>3 DEF Held
      <3>5. \A x \in req.read[h] \ req'.left : x \notin Held'
        BY <1>2, <2>2, <3>1, <3>4 DEF Removing
      <3> QED
        BY <2>1, <2>2, <3>1, <3>2, <3>5 DEF Removing
    <2>6. ASSUME NEW j \in Altar \ req.disturbed, j \notin req.todo PROVE ReadGone(j)'
      BY <1>2, <2>1, <2>6, GoneStaysGone DEF Consumed
    <2> QED
      BY <2>1, <2>4, <2>5, <2>6 DEF Consumed
  <1>12. CASE NextInventory
    <2> DEFINE h == req.hand
    <2>1. /\ h \in Altar /\ req.pc \in {"clean", "delete"} /\ req.left = {} /\ UNCHANGED altar
          /\ req'.todo = req.todo \ {h} /\ req'.disturbed = req.disturbed /\ req'.hand = 0
          /\ (IF req'.todo = {} THEN req'.pc = "idle" ELSE req'.pc = req.pc)
          /\ req'.read = req.read
      BY <1>12, NextInventoryOK DEF JudgedKept, places
    <2>2. ASSUME NEW j \in Altar \ req.disturbed, j \notin req'.todo PROVE ReadGone(j)'
      <3>1. CASE j = h
        <4>1. Removing(h)
          BY <2>1, <3>1 DEF Consumed
        <4>2. ReadGone(h)
          BY <2>1, <4>1 DEF Removing, ReadGone
        <4> QED
          BY <1>2, <2>1, <3>1, <4>2, GoneStaysGone
      <3>2. CASE j # h
        <4>1. ReadGone(j)
          BY <2>1, <2>2, <3>2 DEF Consumed
        <4> QED
          BY <1>2, <2>1, <4>1, GoneStaysGone
      <3> QED
        BY <3>1, <3>2
    <2>3. ASSUME NEW j \in Altar \ req.disturbed, j \in req'.todo PROVE ReadStands(j)'
      <3>1. ReadStands(j)
        BY <2>1, <2>3 DEF Consumed
      <3> QED
        BY <2>1, <3>1 DEF ReadStands
    <2>4. 0 \notin Altar
      BY DEF Altar
    <2> QED
      BY <2>1, <2>2, <2>3, <2>4 DEF Consumed
  <1>13. CASE UNCHANGED <<req, altar>>
    BY <1>2, <1>13, ConsumedKept
  <1>14. CASE Respawn \/ LoseMessage \/ Panic \/ UNCHANGED vars
    BY <1>13, <1>14 DEF Respawn, Started, Attach, CreateArtifact, UpdateRefused, LoadArtifact, Subscribed,
       addArtifactToRandomLocation, RecordLast, CurrentState, LoseMessage, Panic, vars, places, court
  <1>15. CASE \/ \E a \in Artifact : StartPickUp(a) \/ FinishPickUp(a) \/ RollBack(a)
              \/ \E o \in Object, i \in Altar : Inscribe(o, i) \/ Reforge(o, i)
              \/ \E i \in Altar : Visit(i)
              \/ DropPrize
    BY <1>13, <1>15 DEF StartPickUp, FinishPickUp, RollBack, Inscribe, Reforge, Visit, DropPrize,
       places, court
  <1>16. ASSUME NEW h \in Altar, req.pc \in {"clean", "delete"}, req.hand \in {0, h},
                req'.pc = req.pc, req'.todo = req.todo, req'.hand = h, req'.read = req.read,
                req'.disturbed = req.disturbed \cup {h}, \A j \in Altar : j # h => altar'[j] = altar[j]
         PROVE  Consumed'
    <2>1. ASSUME NEW j \in Altar \ req'.disturbed PROVE j # h /\ j # req.hand /\ j \notin req.disturbed
      BY <1>16 DEF Altar
    <2>2. ASSUME NEW j \in Altar \ req'.disturbed, j \in req.todo PROVE ReadStands(j)'
      BY <1>16, <2>1, <2>2 DEF Consumed, ReadStands
    <2>3. ASSUME NEW j \in Altar \ req'.disturbed, j \notin req.todo PROVE ReadGone(j)'
      BY <1>2, <1>16, <2>1, <2>3, GoneStaysGone DEF Consumed
    <2> QED
      BY <1>16, <2>1, <2>2, <2>3 DEF Consumed
  <1>17. CASE RemoveFails
    <2>1. \A j \in Altar : j # req.hand => altar'[j] = altar[j]
      BY <1>17, RemovesSome
    <2> QED
      BY <1>16, <1>17, <2>1, RemoveFailsOK DEF JudgedKept
  <1>18. ASSUME NEW i \in Altar, FetchFails(i) PROVE Consumed'
    BY <1>16, <1>18, FetchFailsOK DEF JudgedKept, places
  <1> QED
    BY <1>3, <1>4, <1>5, <1>7, <1>8, <1>9, <1>10, <1>11, <1>12, <1>14, <1>15, <1>17, <1>18
       DEF Next, Player, Validate

\* A step that keeps what was read and judged.
LEMMA GenuineKept ==
    ASSUME Validator, Genuine, Grows, scene' = scene, JudgedKept,
           req'.pc \in {"read", "judge"} => req.pc \in {"read", "judge"}
    PROVE  Genuine'
  <1>1. \A i \in Altar : \A o \in req.read[i] : o \in Object /\ chain[o] # <<>>
    BY DEF Validator, Genuine
  <1>2. \A i \in Altar : \A o \in req.read[i] : chain'[o] # <<>>
    BY <1>1 DEF Grows
  <1> QED
    BY <1>2 DEF Genuine, JudgedKept

\* An artifact that arcadia accepts was made by the court, with the altar's forger: the
\* walk over its history ends at the court's first block, and the change of owner after
\* it is the one that made the player an owner.
LEMMA ValidIsGenuine ==
    ASSUME Histories, scene = "arcadia", NEW a \in Object, chain[a] # <<>>,
           NEW i \in Altar, ValidArtifact(a, i)
    PROVE  a \in Artifact /\ Forger[a] = i /\ Now(a).data.mark = i
  <1> DEFINE changes == OwnershipChanges(chain[a])
  <1>1. History(a, chain[a]) /\ chain[a] \in Seq(Block)
    BY DEF Histories, History
  <1>2. /\ Len(chain[a]) \in Nat \ {0} /\ OwnersKept(chain[a]) /\ chain[a][1].chown
        /\ chain[a][1].owners = Maker(a)
    BY <1>1 DEF History
  <1>3. changes[Len(changes)] = 1
    BY <1>2, FirstChange
  <1> HIDE DEF changes
  <1>4. chain[a][changes[Len(changes)]].owners = {"court"}
    BY DEF ValidArtifact, changes
  <1>5. a \in Artifact
    BY <1>2, <1>3, <1>4 DEF Maker
  <1>6. /\ Len(chain[a]) >= 3 /\ ~chain[a][2].chown /\ chain[a][3].chown
        /\ chain[a][3].data.forged = Forger[a]
    BY <1>1, <1>5 DEF History
  <1>7. changes[Len(changes) - 1] = 3
    BY <1>2, <1>6, SecondChange DEF changes
  <1>8. /\ Now(a).data.mark = i /\ Now(a).data.forged = i
        /\ chain[a][changes[Len(changes) - 1]].data.forged = Now(a).data.forged
    BY DEF ValidArtifact, changes
  <1> QED
    BY <1>5, <1>6, <1>7, <1>8

\* Every step.
LEMMA NextGenuine ==
    ASSUME Spawner, Scenes, Trees, Validator, Genuine, Grows, [Next]_vars
    PROVE  Genuine'
  <1>0. scene' = scene
    BY SceneKept
  <1>1. ASSUME NEW o \in Object, NEW i \in Altar, Drop(o, i) \/ TakeBack(o, i) PROVE Genuine'
    <2>1. JudgedKept /\ req'.pc = req.pc
      BY <1>1 DEF Drop, TakeBack, Touch, JudgedKept, Validator
    <2> QED
      BY <1>0, <2>1, GenuineKept
  <1>2. CASE RequestPrize \/ CrashCourt
    <2>1. ~Spawns /\ UNCHANGED <<scene, seen>>
      BY <1>2 DEF RequestPrize, CrashCourt, places, Validator, Quiet
    <2>2. req'.valid = {} /\ \A i \in Altar : req'.read[i] = {}
      BY <1>2, <2>1, QuietOK DEF RequestPrize, CrashCourt
    <2>3. \E n \in Nat : n < N /\ {} = 1..n
      <3>1. 0 \in Nat /\ 0 < N /\ {} = 1..0
        OBVIOUS
      <3> QED
        BY <3>1
    <2> QED
      BY <2>2, <2>3 DEF Genuine
  <1>3. ASSUME NEW i \in Altar, ReadAltar(i) \/ ReadPedestal(i) PROVE Genuine'
    <2>1. req.pc = "read"
      BY <1>3, ReadOK DEF ReadAltar, ReadPedestal
    <2>2. CASE req' = [req EXCEPT !.pc = "idle", !.result = "error"]
      <3>1. JudgedKept /\ req'.pc = "idle"
        BY <2>2 DEF JudgedKept, Validator
      <3> QED
        BY <1>0, <2>1, <3>1, GenuineKept
    <2>3. CASE req' = [req EXCEPT !.read = [req.read EXCEPT ![i] = altar[i]],
                                       !.todo = req.todo \ {i},
                                       !.pc = IF req.todo = {i} THEN "judge" ELSE "read"]
      <3>1. /\ req'.read = [req.read EXCEPT ![i] = altar[i]] /\ req'.valid = req.valid
            /\ req'.judged = req.judged /\ req.read \in [Altar -> SUBSET Object]
        BY <2>3 DEF Validator
      <3>2. ASSUME NEW j \in Altar, NEW o \in req'.read[j] PROVE chain'[o] # <<>>
        <4>1. o \in Object /\ chain[o] # <<>>
          <5>1. CASE j = i
            <6>1. o \in altar[i]
              BY <3>1, <5>1
            <6>2. o \in Held
              BY <6>1 DEF Held
            <6> QED
              BY <6>2, HeldNow
          <5>2. CASE j # i
            BY <3>1, <5>2 DEF Genuine
          <5> QED
            BY <5>1, <5>2
        <4> QED
          BY <4>1 DEF Grows
      <3> QED
        BY <1>0, <2>1, <3>1, <3>2 DEF Genuine
    <2> QED
      BY <1>3, <2>2, <2>3, ReadOK DEF ReadAltar, ReadPedestal
  <1>4. ASSUME Verdict PROVE req'.read = req.read /\ \A i \in Altar : \A o \in req'.read[i] : chain'[o] # <<>>
    <2>1. req' = [req EXCEPT !.pc = req'.pc, !.todo = req'.todo, !.valid = req'.valid,
                          !.judged = req'.judged, !.result = req'.result]
          /\ chain' = chain
      BY <1>4 DEF Verdict
    <2>2. req'.read = req.read
      BY <2>1 DEF Validator
    <2> QED
      BY <2>1, <2>2 DEF Genuine
  <1>5. ASSUME NEW i \in Altar, JudgePedestal(i) PROVE Genuine'
    <2>1. Verdict /\ scene = "spring"
      BY <1>5, JudgePedestalIs
    <2>2. CASE req'.valid = req.valid /\ req'.judged = req.judged
      BY <1>0, <1>4, <2>1, <2>2 DEF Genuine
    <2>3. ASSUME NEW o, req'.valid = req.valid \cup {i}, Now(o).data.mark = i,
                 req'.judged = [req.judged EXCEPT ![i] = [art |-> o, data |-> Now(o).data]]
          PROVE  Genuine'
      <3>1. req.judged = [j \in Altar |-> req.judged[j]] /\ req.valid \subseteq Altar
        BY DEF Validator
      <3>2. \A j \in req'.valid : req'.judged[j].data.mark = j
        <4>1. req'.judged[i] = [art |-> o, data |-> Now(o).data]
          BY <2>3, <3>1
        <4>2. \A j \in req.valid : j # i => req'.judged[j] = req.judged[j]
          BY <2>3, <3>1
        <4> QED
          BY <2>3, <4>1, <4>2 DEF Genuine
      <3> QED
        BY <1>0, <1>4, <2>1, <3>2 DEF Genuine
    <2> QED
      BY <1>5, <2>2, <2>3, JudgePedestalIs
  <1>6. CASE JudgeAltar
    <2>0. \E n \in Nat : n < N /\ req.valid = 1..n
      BY <1>6 DEF JudgeAltar, Genuine
    <2>1. Verdict /\ scene = "arcadia"
      BY <1>6, <2>0, JudgeAltarIs
    <2>2. CASE req'.valid = req.valid /\ req'.judged = req.judged /\ req'.pc = "delete"
      BY <1>0, <1>4, <2>1, <2>2 DEF Genuine
    <2>3. ASSUME NEW n \in Nat, NEW a, n < N, req.valid = 1..n, req'.valid = 1..n + 1,
                 req'.pc = (IF n + 1 = N THEN "award" ELSE "judge"),
                 req.read[n + 1] = {a}, ValidArtifact(a, n + 1),
                 req'.judged = [req.judged EXCEPT ![n + 1] = [art |-> a, data |-> Now(a).data]]
          PROVE  Genuine'
      <3> DEFINE i == n + 1
      <3>1. i \in Altar /\ req.judged = [j \in Altar |-> req.judged[j]] /\ req.valid \subseteq Altar
            /\ req'.valid = req.valid \cup {i} /\ (req'.pc # "award" => n + 1 < N)
        <4>1. i \in Altar /\ 1..n + 1 = 1..n \cup {i} /\ (n + 1 # N => n + 1 < N)
          BY <2>3 DEF Altar
        <4>2. req.judged = [j \in Altar |-> req.judged[j]] /\ req.valid \subseteq Altar
          BY DEF Validator
        <4> QED
          BY <2>3, <4>1, <4>2
      <3>2. a \in Object /\ chain[a] # <<>>
        <4>1. a \in req.read[i] /\ req.read[i] \subseteq Object
          BY <2>3, <3>1 DEF Validator
        <4> QED
          BY <3>1, <4>1 DEF Genuine
      <3>3. a \in Artifact /\ Forger[a] = i /\ Now(a).data.mark = i
        BY <2>1, <2>3, <3>1, <3>2, ValidIsGenuine DEF Trees
      <3>4. req'.judged[i] = [art |-> a, data |-> Now(a).data]
        BY <2>3, <3>1
      <3>5. \A j \in req.valid : j # i => req'.judged[j] = req.judged[j]
        BY <2>3, <3>1
      <3> HIDE DEF i
      <3>6. ASSUME NEW j \in req'.valid
            PROVE  /\ req'.judged[j].data.mark = j
                   /\ req'.judged[j].art \in Artifact
                   /\ Forger[req'.judged[j].art] = j
        <4>1. CASE j = i
          <5>1. req'.judged[j].data = Now(a).data /\ req'.judged[j].art = a
            BY <3>4, <4>1
          <5> QED
            BY <3>3, <4>1, <5>1
        <4>2. CASE j # i
          <5>1. j \in req.valid /\ req'.judged[j] = req.judged[j]
            BY <3>1, <3>5, <4>2
          <5> QED
            BY <2>1, <5>1 DEF Genuine
        <4> QED
          BY <4>1, <4>2
      <3>7. req'.pc # "award" => \E k \in Nat : k < N /\ req'.valid = 1..k
        BY <2>3, <3>1
      <3> QED
        BY <1>4, <2>1, <3>6, <3>7 DEF Genuine
    <2> QED
      BY <1>6, <2>0, <2>2, <2>3, JudgeAltarIs
  <1>7. CASE Award
    BY <1>0, <1>7, AwardOK, GenuineKept
  <1>8. ASSUME NEW i \in Altar, CleanAltar(i) \/ CleanPedestal(i) \/ EmptyAltar(i) \/ EmptyPedestal(i)
        PROVE  Genuine'
    BY <1>0, <1>8, FetchOK, GenuineKept
  <1>9. CASE Remove \/ NextInventory
    BY <1>0, <1>9, RemoveOK, NextInventoryOK, GenuineKept
  <1>10. CASE UNCHANGED req
    BY <1>0, <1>10, GenuineKept DEF JudgedKept
  <1>11. CASE Respawn \/ LoseMessage \/ Panic \/ UNCHANGED vars
    BY <1>10, <1>11 DEF Respawn, Started, Attach, CreateArtifact, UpdateRefused, LoadArtifact, Subscribed,
       addArtifactToRandomLocation, RecordLast, CurrentState, LoseMessage, Panic, vars, places, court
  <1>12. CASE \/ \E a \in Artifact : StartPickUp(a) \/ FinishPickUp(a) \/ RollBack(a)
              \/ \E o \in Object, i \in Altar : Inscribe(o, i) \/ Reforge(o, i)
              \/ \E i \in Altar : Visit(i)
              \/ DropPrize
    BY <1>10, <1>12 DEF StartPickUp, FinishPickUp, RollBack, Inscribe, Reforge, Visit, DropPrize,
       places, court
  <1>13. CASE RemoveFails \/ \E i \in Altar : FetchFails(i)
    BY <1>0, <1>13, RemoveFailsOK, FetchFailsOK, GenuineKept
  <1> QED
    BY <1>1, <1>2, <1>3, <1>5, <1>6, <1>7, <1>8, <1>9, <1>11, <1>12, <1>13 DEF Next, Player, Validate

-----------------------------------------------------------------------------
(***************************************************************************)
(* The theorems.                                                           *)
(***************************************************************************)

\* The respawn actor's process has a tree in memory that is not the court's, or not.
Memory == genesis \in BOOLEAN

\* Every step.
LEMMA NextMemory == ASSUME Memory, [Next]_vars PROVE Memory'
  <1>1. genesis' = genesis \/ Panic
    BY DEF Next, vars, spawner, Respawn, Started, Attach, CreateArtifact, UpdateRefused, LoadArtifact,
       Subscribed, addArtifactToRandomLocation, RecordLast, CurrentState, LoseMessage, RequestPrize,
       CrashCourt, Player, StartPickUp, FinishPickUp, RollBack, Visit, Drop, TakeBack, Inscribe, Reforge,
       DropPrize, Validate, ReadAltar, ReadPedestal, ReadInventory, JudgePedestal, CleanAltar,
       CleanPedestal, EmptyAltar, EmptyPedestal, Fetch, JudgeAltar, Award, Remove, RemoveFails,
       FetchFails, NextInventory
  <1>2. Panic => genesis' \in {genesis, TRUE, FALSE}
    BY DEF Panic
  <1> QED
    BY <1>1, <1>2 DEF Memory

\* The inductive invariant.
QuestIInv ==
    Spawner /\ Memory /\ Scenes /\ Trees /\ Single /\ Accounted /\ Validator /\ Consumed /\ Genuine

\* What the player made.
LEMMA CreatedOK ==
    ASSUME NEW o \in Made
    PROVE  History(o, Created) /\ Len(Created) = 2
  <1> DEFINE d == Data(IF scene = "spring" THEN 0 ELSE 1, 1)
             a == Chown({"player"}, Empty)
             b == Write({"player"}, d)
  <1>1. d \in [mark : Mark, forged : Altar \cup {0}, empty : BOOLEAN]
    BY DEF Data, Mark, Altar
  <1> HIDE DEF d
  <1>2. /\ a \in Block /\ a.chown /\ a.data.empty /\ a.owners = {"player"}
        /\ b \in Block /\ ~b.chown /\ b.owners = {"player"}
    BY <1>1 DEF Chown, Write, Empty, Block, Mark
  <1>3. Maker(o) = {"player"} /\ o \notin Artifact
    BY DEF Maker, Artifact
  <1>4. Created = <<a, b>>
    BY DEF Created, d
  <1> HIDE DEF a, b
  <1>5. /\ Created \in Seq(Block) /\ Len(Created) = 2 /\ Created[1] = a /\ Created[2] = b
    BY <1>2, <1>4
  <1>6. OwnersKept(Created)
    <2> SUFFICES ASSUME NEW t \in 2..2 PROVE Created[t].owners = Created[t - 1].owners
      BY <1>5 DEF OwnersKept
    <2>1. t = 2 /\ t - 1 = 1
      OBVIOUS
    <2> QED
      BY <1>2, <1>5, <2>1
  <1> QED
    BY <1>2, <1>3, <1>5, <1>6 DEF History

\* What the player has collected.
LEMMA CollectedOK ==
    ASSUME NEW o \in Artifact
    PROVE  History(o, Collected(o)) /\ Len(Collected(o)) = 4
  <1> DEFINE d == Data(FirstMark[o], Forger[o])
             a == Chown({"court"}, Empty)
             b == Write({"court"}, d)
             c == Chown({"court", "player"}, d)
             e == Chown({"player"}, d)
  <1>1. d \in [mark : Mark, forged : Altar \cup {0}, empty : BOOLEAN] /\ d.forged = Forger[o]
    <2>1. FirstMark[o] \in 0..N + 1 /\ Forger[o] \in 0..N
      BY DEF Artifact
    <2>2. FirstMark[o] \in Mark /\ Forger[o] \in Altar \cup {0}
      BY <2>1 DEF Mark, Altar
    <2> QED
      BY <2>2 DEF Data
  <1> HIDE DEF d
  <1>2. /\ a \in Block /\ a.chown /\ a.data.empty /\ a.owners = {"court"}
        /\ b \in Block /\ ~b.chown /\ b.owners = {"court"}
        /\ c \in Block /\ c.chown /\ c.data.forged = Forger[o]
        /\ e \in Block /\ e.chown
    BY <1>1 DEF Chown, Write, Empty, Block, Mark
  <1>3. Maker(o) = {"court"}
    BY DEF Maker
  <1>4. Collected(o) = <<a, b, c, e>>
    BY DEF Collected, d
  <1> HIDE DEF a, b, c, e
  <1>5. /\ Collected(o) \in Seq(Block) /\ Len(Collected(o)) = 4
        /\ Collected(o)[1] = a /\ Collected(o)[2] = b /\ Collected(o)[3] = c /\ Collected(o)[4] = e
    BY <1>2, <1>4
  <1>6. OwnersKept(Collected(o))
    <2> SUFFICES ASSUME NEW t \in 2..4, ~Collected(o)[t].chown
                 PROVE  Collected(o)[t].owners = Collected(o)[t - 1].owners
      BY <1>5 DEF OwnersKept
    <2>1. t # 3 /\ t # 4
      BY <1>2, <1>5
    <2>2. t = 2 /\ t - 1 = 1
      BY <2>1
    <2> QED
      BY <1>2, <1>5, <2>2
  <1> QED
    BY <1>2, <1>3, <1>5, <1>6 DEF History

\* The initial states.
LEMMA InitInv == ASSUME Init PROVE QuestIInv
  <1>0. FirstMade \in Made /\ Artifact \cap Made = {} /\ Object = Artifact \cup Made
    BY DEF FirstMade, Object, Artifact
  <1>1. /\ scene \in {"spawn", "arcadia", "spring"}
        /\ at = {} /\ transit = {} /\ seen = {} /\ altar = [i \in Altar |-> {}] /\ taken = {}
        /\ sp = Stopped /\ lapse = FALSE /\ genesis = FALSE /\ req = Quiet /\ prize = FALSE /\ restarts = 0
        /\ last = IF scene = "arcadia" THEN [k \in Artifact |-> k] ELSE <<>>
    BY DEF Init
  <1>2. /\ scene = "spawn" => bag = {FirstMade}
        /\ scene = "arcadia" => bag \in updateObjects({FirstMade} \cup Artifact)
        /\ scene = "spring" => bag = Made
    BY DEF Init
  <1>3. /\ DOMAIN chain = Object /\ chain = [o \in Object |-> chain[o]]
        /\ \A o \in Artifact : chain[o] = IF scene = "arcadia" THEN Collected(o) ELSE <<>>
        /\ \A o \in Made : chain[o] = IF o = FirstMade \/ scene = "spring" THEN Created ELSE <<>>
    <2> DEFINE tree(o) == CASE o \in Artifact -> IF scene = "arcadia" THEN Collected(o) ELSE <<>>
                            [] o \in Made /\ (o = FirstMade \/ scene = "spring") -> Created
                            [] OTHER -> <<>>
    <2>1. chain = [o \in Object |-> tree(o)]
      BY DEF Init
    <2>2. ASSUME NEW o \in Artifact
          PROVE  tree(o) = IF scene = "arcadia" THEN Collected(o) ELSE <<>>
      <3>1. o \notin Made
        BY <1>0
      <3> QED
        BY <3>1
    <2>3. ASSUME NEW o \in Made
          PROVE  tree(o) = IF o = FirstMade \/ scene = "spring" THEN Created ELSE <<>>
      <3>1. o \notin Artifact
        BY <1>0
      <3> QED
        BY <3>1
    <2> HIDE DEF tree
    <2> QED
      BY <1>0, <2>1, <2>2, <2>3
  <1>4. Spawner
    <2>1. last \in Seq(Artifact) /\ \A k \in 1..Len(last) : last[k] = k
      <3>1. CASE scene = "arcadia"
        <4>1. last = [k \in 1..MaxSpawns |-> k] /\ MaxSpawns \in Nat
          BY <1>1, <3>1 DEF Artifact
        <4>2. last \in Seq(1..MaxSpawns) /\ Len(last) = MaxSpawns
          BY <4>1
        <4> QED
          BY <4>1, <4>2 DEF Artifact
      <3>2. CASE last = <<>>
        BY <3>2
      <3> QED
        BY <1>1, <3>1, <3>2
    <2> QED
      BY <1>1, <2>1 DEF Spawner, Stopped
  <1>5. bag \subseteq Object /\ \A o \in bag : o = FirstMade \/ (o \in Artifact /\ scene = "arcadia")
                                                  \/ (o \in Made /\ scene = "spring")
    <2>1. scene = "arcadia" => bag \subseteq {FirstMade} \cup Artifact
      BY <1>2 DEF updateObjects
    <2> QED
      BY <1>0, <1>1, <1>2, <2>1
  <1>6. Scenes
    BY <1>1, <1>5 DEF Scenes, Spawns
  <1>7. Histories
    <2> SUFFICES ASSUME NEW o \in Object PROVE History(o, chain[o])
      BY <1>3 DEF Histories
    <2>1. CASE o \in Artifact /\ scene = "arcadia"
      BY <1>3, <2>1, CollectedOK
    <2>2. CASE o \in Made /\ (o = FirstMade \/ scene = "spring")
      BY <1>3, <2>2, CreatedOK
    <2>3. CASE chain[o] = <<>> /\ ~(o \in Artifact /\ scene = "arcadia")
      <3>1. <<>> \in Seq(Block) /\ OwnersKept(<<>>)
        BY DEF OwnersKept
      <3> QED
        BY <2>3, <3>1 DEF History
    <2> QED
      BY <1>0, <1>3, <2>1, <2>2, <2>3
  <1>8. Held = bag
    BY <1>1 DEF Held
  <1>9. \A o \in bag : Len(chain[o]) > 1
    <2>1. \A o \in Made : Len(Created) = 2
      BY CreatedOK
    <2>2. \A o \in Artifact : Len(Collected(o)) = 4
      BY CollectedOK
    <2> SUFFICES ASSUME NEW o \in bag PROVE Len(chain[o]) > 1
      OBVIOUS
    <2>3. CASE o \in Artifact /\ scene = "arcadia"
      <3>1. chain[o] = Collected(o)
        BY <1>3, <2>3
      <3>2. Len(Collected(o)) = 4
        BY <2>2, <2>3
      <3> QED
        BY <3>1, <3>2
    <2>4. CASE o = FirstMade \/ (o \in Made /\ scene = "spring")
      <3>1. chain[o] = Created /\ o \in Made
        BY <1>0, <1>3, <2>4
      <3>2. Len(Created) = 2
        BY <2>1, <3>1
      <3> QED
        BY <3>1, <3>2
    <2> QED
      BY <1>5, <2>3, <2>4
  <1>10. \A a \in Artifact : chain[a] # <<>> =>
            scene = "arcadia" /\ DOMAIN last = Artifact /\ last[a] = a /\ a <= Len(last)
    BY <1>1, <1>3 DEF Artifact
  <1>11. Trees
    BY <1>1, <1>7, <1>8, <1>9, <1>10 DEF Trees, OneUnrecorded, Stopped
  <1>12. Single
    BY <1>1, <1>10 DEF Single, Stopped
  <1>13. Accounted
    <2> SUFFICES ASSUME NEW o \in Object, Len(chain[o]) > 1 PROVE Safe(o)
      BY DEF Accounted
    <2>1. Len(<<>>) = 0
      OBVIOUS
    <2>2. o = FirstMade \/ (o \in Artifact /\ scene = "arcadia") \/ (o \in Made /\ scene = "spring")
      BY <1>0, <1>3, <2>1
    <2>3. CASE scene = "arcadia"
      <3>1. o \in {FirstMade} \cup Artifact /\ {FirstMade} \cup Artifact \in SUBSET Object
        BY <1>0, <2>2, <2>3
      <3>2. o \in bag \/ \E y \in bag : y # o /\ NameOf[y] = NameOf[o]
        BY <1>2, <2>3, <3>1, UpdateOK
      <3>3. \A y \in bag : y \in Object /\ chain[y] # <<>>
        BY <1>5, <1>9, <2>1
      <3> QED
        BY <1>8, <3>2, <3>3 DEF Safe, HasNamesake
    <2>4. CASE scene # "arcadia"
      <3>1. o \in bag
        <4>1. CASE scene = "spawn"
          BY <1>2, <2>2, <4>1
        <4>2. CASE scene = "spring"
          BY <1>0, <1>2, <2>2, <4>2
        <4> QED
          BY <1>1, <2>4, <4>1, <4>2
      <3> QED
        BY <1>8, <3>1 DEF Safe
    <2> QED
      BY <2>3, <2>4
  <1>14. Validator
    <2> DEFINE none == [i \in Altar |-> {}]
               blanks == [i \in Altar |-> Blank]
    <2>1. req = [pc |-> "idle", read |-> none, todo |-> {}, seen |-> {}, valid |-> {},
                 judged |-> blanks, hand |-> 0, left |-> {}, fresh |-> FALSE, disturbed |-> {},
                 result |-> "none"]
      BY <1>1 DEF Quiet
    <2>2. none \in [Altar -> SUBSET Object] /\ blanks = [i \in Altar |-> blanks[i]]
      OBVIOUS
    <2> HIDE DEF none, blanks
    <2> QED
      BY <1>1, <2>1, <2>2 DEF Validator
  <1>15. req.pc = "idle" /\ req.result = "none" /\ req.valid = {} /\ \A i \in Altar : req.read[i] = {}
    BY <1>1 DEF Quiet
  <1>16. Consumed
    BY <1>15 DEF Consumed
  <1>17. Genuine
    BY <1>15 DEF Genuine
  <1> QED
    BY <1>1, <1>4, <1>6, <1>11, <1>12, <1>13, <1>14, <1>16, <1>17 DEF QuestIInv, Memory

\* Every step.
LEMMA NextInv == ASSUME QuestIInv, [Next]_vars PROVE QuestIInv'
  <1>1. Spawner /\ Memory /\ Scenes /\ Trees /\ Single /\ Accounted /\ Validator /\ Consumed /\ Genuine
    BY DEF QuestIInv
  <1>2. Spawner' /\ Memory' /\ Scenes'
    BY <1>1, NextSpawner, NextMemory, NextScenes
  <1>3. Trees' /\ Grows
    BY <1>1, <1>2, NextTrees
  <1>4. Moves
    BY <1>1, NextMoves
  <1>5. Single' /\ Accounted'
    BY <1>1, <1>2, <1>3, <1>4, NextSingle, NextAccounted
  <1>6. Validator' /\ Genuine'
    BY <1>1, <1>2, <1>3, NextValidator, NextGenuine
  <1>7. Consumed'
    BY <1>1, <1>2, <1>4, <1>6, NextConsumed
  <1> QED
    BY <1>2, <1>3, <1>5, <1>6, <1>7 DEF QuestIInv

\* The inductive invariant holds in every state.
THEOREM QuestInductive == Spec => []QuestIInv
  <1>1. Init => QuestIInv
    BY InitInv
  <1>2. QuestIInv /\ [Next]_vars => QuestIInv'
    BY NextInv
  <1> QED
    BY <1>1, <1>2, PTL DEF Spec

\* Every state is well typed, an artifact is in one place unless the court was restarted,
\* and at most the artifact the respawn actor is at is not recorded.
THEOREM QuestInvariant == Spec => []QuestInv
  <1>1. QuestIInv => QuestInv
    <2> SUFFICES ASSUME QuestIInv PROVE QuestInv
      OBVIOUS
    <2>1. Spawner /\ Memory /\ Scenes /\ Trees /\ Single /\ Validator
      BY DEF QuestIInv
    <2>2. \A o \in Object : History(o, chain[o])
      BY <2>1 DEF Trees, Histories
    <2>3. \A o \in Object : \A k \in DOMAIN chain[o] : chain[o][k] \in Block
      <3> SUFFICES ASSUME NEW o \in Object, NEW k \in DOMAIN chain[o] PROVE chain[o][k] \in Block
        OBVIOUS
      <3>1. chain[o] \in Seq(Block)
        BY <2>2 DEF History
      <3> QED
        BY <3>1
    <2>4. \A o \in Object : chain[o] # <<>> => chain[o][1].chown /\ chain[o][1].data.empty
      BY <2>2 DEF History
    <2>5. \A o \in at \cup transit \cup bag : Len(chain[o]) > 1
      BY <2>1 DEF Trees, Held
    <2>6. \A k \in DOMAIN last : last[k] \in Artifact
      <3>1. last \in Seq(Artifact)
        BY <2>1 DEF Spawner
      <3> QED
        BY <3>1
    <2>7. TypeOK
      BY <2>1, <2>3, <2>4, <2>5, <2>6 DEF TypeOK, Trees, Spawner, Memory, Validator
    <2>8. NotListedTwice
      BY <2>1 DEF NotListedTwice, Single, Scenes
    <2> QED
      BY <2>1, <2>7, <2>8 DEF QuestInv, Trees
  <1> QED
    BY <1>1, QuestInductive, PTL

\* The two walks over an object's blocks find what is there.
THEOREM HistoriesExact == Spec => []HistoryIsExact
  <1>1. QuestIInv => HistoryIsExact
    <2> SUFFICES ASSUME QuestIInv, NEW o \in Object PROVE ExactHistory(chain[o])
      BY DEF HistoryIsExact, ExactHistory
    <2>1. chain[o] \in Seq(Block) /\ OwnersKept(chain[o])
      BY DEF QuestIInv, Trees, Histories, History
    <2> QED
      BY <2>1, HistoryExact
  <1> QED
    BY <1>1, QuestInductive, PTL

\* What arcadia accepted was made by the court with the forger the altar wants and bore
\* its mark; what spring accepted bore the pedestal's.
THEOREM AcceptedGenuine == Spec => []AcceptedIsGenuine
  <1>1. QuestIInv => AcceptedIsGenuine
    BY DEF QuestIInv, Genuine, AcceptedIsGenuine
  <1> QED
    BY <1>1, QuestInductive, PTL

\* A decided request leaves nothing it has read on an altar, unless the player moved
\* something there or a call of the court for that altar failed.
THEOREM RequestsConsume == Spec => []RequestConsumes
  <1>1. QuestIInv => RequestConsumes
    BY DEF QuestIInv, Consumed, ReadGone, RequestConsumes, Held
  <1> QED
    BY <1>1, QuestInductive, PTL

\* An object is lost only to another one of its name, or while the court restarts.
THEOREM LostToNamesake == Spec => []LostOnlyToNamesake
  <1>1. QuestIInv => LostOnlyToNamesake
    BY DEF QuestIInv, Accounted, Safe, HasNamesake, LostOnlyToNamesake
  <1> QED
    BY <1>1, QuestInductive, PTL
=============================================================================
