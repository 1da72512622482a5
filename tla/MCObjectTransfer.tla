-------------------------- MODULE MCObjectTransfer ---------------------------
(***************************************************************************)
(* Instances of ObjectTransfer: the bags of two players and one location   *)
(* kept by a service.  Every inventory has one actor; in the crowded       *)
(* instances the first player has a second session open.                   *)
(***************************************************************************)
EXTENDS ObjectTransfer

CONSTANTS bag1, bag2, land, k1, k2, ks, w1, w1b, w2, ws

MCInv == {bag1, bag2, land}
MCPlayer == {bag1, bag2}
MCKey == {k1, k2, ks}
MCAuths == [i \in MCInv |-> CASE i = bag1 -> {k1} [] i = bag2 -> {k2} [] OTHER -> {ks}]

MCServes == [w \in Worker |->
    CASE w \in {w1, w1b} -> {bag1} [] w = w2 -> {bag2} [] OTHER -> {land}]
MCKeyOf == [w \in Worker |->
    CASE w \in {w1, w1b} -> k1 [] w = w2 -> k2 [] OTHER -> ks]
=============================================================================
