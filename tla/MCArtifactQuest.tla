-------------------------- MODULE MCArtifactQuest --------------------------
(* Two artifacts, one for each altar, the second with the wrong mark; what the
   player made is named like the first. *)
EXTENDS ArtifactQuest, TLC

CONSTANTS m1, m2

MCForger == <<1, 2>>
MCFirstMark == <<1, 1>>
MCNameOf == 1 :> "one" @@ 2 :> "two" @@ m1 :> "one" @@ m2 :> "other"
=============================================================================
