------------------------------- MODULE Custody -------------------------------
(***************************************************************************)
(* What the object-transfer protocol promises about the ownership of an    *)
(* object, whoever transfers it and whatever messages, replies, processes  *)
(* or timers are lost on the way.                                          *)
(*                                                                         *)
(* owners[o] is the set of keys Tupelo accepts as owners of object o.      *)
(* holder[o] is the inventory that took o for itself last, or NoInv while  *)
(* o has been offered to another inventory or given back by a rollback.    *)
(* The detailed protocol, ObjectTransfer, implements this specification.   *)
(***************************************************************************)
CONSTANTS Inv, Obj, Key, Auths, NoInv

VARIABLES owners, holder

custodyVars == <<owners, holder>>

MayAct(o, i) == Auths[i] \cap owners[o] # {}

Init ==
    \E home \in [Obj -> Inv] :
        /\ owners = [o \in Obj |-> Auths[home[o]]]
        /\ holder = home

(***************************************************************************)
(* An owner that acts for inventory i shares o with the owners of j.       *)
(***************************************************************************)
Offer(o, i, j) ==
    /\ MayAct(o, i)
    /\ owners' = [owners EXCEPT ![o] = Auths[i] \cup Auths[j]]
    /\ holder' = [holder EXCEPT ![o] = NoInv]

(***************************************************************************)
(* An owner that acts for inventory i takes o for i alone.                 *)
(***************************************************************************)
Claim(o, i) ==
    /\ MayAct(o, i)
    /\ owners' = [owners EXCEPT ![o] = Auths[i]]
    /\ holder' = [holder EXCEPT ![o] = i]

(***************************************************************************)
(* A transfer from i that was never confirmed is undone: the owners of i   *)
(* own o alone again, but o is not yet back in the inventory.              *)
(***************************************************************************)
TakeBack(o, i) ==
    /\ MayAct(o, i)
    /\ owners' = [owners EXCEPT ![o] = Auths[i]]
    /\ holder' = [holder EXCEPT ![o] = NoInv]

Next ==
    \E o \in Obj, i \in Inv :
        \/ \E j \in Inv : Offer(o, i, j)
        \/ Claim(o, i)
        \/ TakeBack(o, i)

Spec == Init /\ [][Next]_custodyVars
=============================================================================
