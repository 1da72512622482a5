----------------------------- MODULE Ownership -----------------------------
(***************************************************************************)
(* The history of a chaintree as game/trees reads it.  A tree is the       *)
(* sequence of its blocks; a block is a record whose field chown says      *)
(* whether one of its transactions sets the owners, and whose field owners *)
(* is the set of authentications after it.  Tip n is the tree after its    *)
(* n-th block, 0 is cid.Undef.  Both walks follow previousTip back from    *)
(* the newest block, one block at a time.                                  *)
(***************************************************************************)
EXTENDS Naturals, Sequences

Height(tip) == tip - 1

\* The walk that stops at the block without a previous tip before it has looked
\* at the block's transactions.
ChangesAfterFirst(tree) ==
    LET walk[tip \in 0..Len(tree)] ==
            IF tip <= 1 THEN <<>>
            ELSE (IF tree[tip].chown THEN <<tip>> ELSE <<>>) \o walk[tip - 1]
    IN walk[Len(tree)]

\* The tips of the blocks that set the owners, from newest to oldest.
OwnershipChanges(tree) ==
    LET walk[tip \in 0..Len(tree)] ==
            IF tip = 0 THEN <<>>
            ELSE (IF tree[tip].chown THEN <<tip>> ELSE <<>>) \o walk[tip - 1]
    IN walk[Len(tree)]

\* The tip at a height, 0 for the errors "out of range" and "not found".
AtHeight(tree, height) ==
    LET walk[tip \in 0..Len(tree)] ==
            IF tip = 0 THEN 0
            ELSE IF Height(tip) = height THEN tip
            ELSE IF height > Height(tip) THEN 0
            ELSE walk[tip - 1]
    IN walk[Len(tree)]

VerifyOwnership(tree, tip, auths) == auths \subseteq tree[tip].owners

VerifyOwnershipAt(tree, height, auths) ==
    LET tip == AtHeight(tree, height)
    IN tip # 0 /\ VerifyOwnership(tree, tip, auths)
=============================================================================
