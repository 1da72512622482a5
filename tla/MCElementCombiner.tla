-------------------------- MODULE MCElementCombiner -------------------------
(* A small configuration of the autumn court.  e100 and e200 make e300, e100
   alone is blocked and e200 alone makes nothing; "forged" is an object named
   like a configured element.  The player's bag may take back one drop of e200
   and one of the forged element. *)
EXTENDS ElementCombiner, TLC

CONSTANTS e100, e200, forged

MCKind == e100 :> "100" @@ e200 :> "200" @@ forged :> "100"

MCConfigured == {"100", "200", "300"}

MCCombine ==
    [S \in SUBSET MCConfigured |->
        IF S = {"100", "200"} THEN "300"
        ELSE IF S = {"100"} THEN "blocked"
        ELSE "nothing"]

MCMaxLapses == [e \in Element |-> IF e = e100 THEN 0 ELSE 1]
=============================================================================
