-------------------------- MODULE InkInvitesProofs --------------------------
(***************************************************************************)
(* CodeIsFunded, GameHasInk and NoInkStranded for any number of invites,   *)
(* players, codes entered, deposits, timeouts and failing calls.           *)
(*                                                                         *)
(* None of them is inductive.  What they rest on is that an invite is in   *)
(* one place at a time: it is asked for once (RequestsOnce), the service   *)
(* waits for the answer or somebody has given up on it (PendingIsAsked),   *)
(* its ink is on its way exactly when the service is about to receive it   *)
(* (ReceivesGrant); and once its code is out, only the submission that     *)
(* became its owner moves its ink (TakerHasInk, OneTaker).                 *)
(***************************************************************************)
EXTENDS InkInvites, SequenceTheorems, TLAPS

Queued == {inkBox[k] : k \in DOMAIN inkBox}

\* The request for ink of invite i is in the mailbox or being handled.
Pending(i) == i \in Queued \/ (inkActor.pc # "idle" /\ inkActor.i = i)

\* The InkActor never sends more than the faucet holds: a balance it has seen can
\* only have changed if the tip has.
FaucetCovers ==
    /\ inkActor.pc # "idle" => inkActor.i \in Invite /\ inkActor.blocks <= faucet.blocks
    /\ inkActor.pc = "send" /\ inkActor.blocks = faucet.blocks => faucet.ink >= Grant

RequestsOnce ==
    /\ \A j, k \in DOMAIN inkBox : inkBox[j] = inkBox[k] => j = k
    /\ inkActor.pc # "idle" => inkActor.i \notin Queued

PendingIsAsked ==
    \A i \in Invite : Pending(i) =>
        /\ invite[i].owner = "key" /\ invite[i].ink = 0 /\ flight[i] = 0
        /\ i \notin codes
        /\ i \in late \/ (service.pc = "ask" /\ service.i = i)

UnaskedIsNew ==
    \A i \in Invite : invite[i].owner = "none" =>
        /\ invite[i].ink = 0 /\ flight[i] = 0
        /\ i \notin codes /\ i \notin late
        /\ service.pc # "idle" => service.i # i

ReceivesGrant ==
    /\ service.pc # "idle" => service.i \in Invite
    /\ service.pc = "ask" => service.i \notin late
    /\ service.pc = "receive" =>
          /\ invite[service.i].owner = "key" /\ invite[service.i].ink = 0
          /\ flight[service.i] = Grant
          /\ service.i \notin codes /\ ~Pending(service.i)

ServingInv ==
    FaucetCovers /\ RequestsOnce /\ PendingIsAsked /\ UnaskedIsNew /\ ReceivesGrant /\ CodeIsFunded

\* A submission that has become the owner of its invite.
Taken(s) == s.pc \in {"send", "receive", "delete", "answered"} \/ s.named

\* What a submission s of p holds at each statement.
Holds(p, s) ==
    /\ s.i \in codes
    /\ Taken(s) => invite[s.i].owner = p
    /\ s.pc \in {"create", "chown"} => s.payload = 0 /\ s.ink = 0
    /\ s.pc = "send" => s.payload = 0 /\ s.ink = 0 /\ invite[s.i].ink = Grant
    /\ s.pc = "receive" => s.payload = Grant /\ s.ink = 0
    /\ s.pc \in {"delete", "answered"} => s.payload = 0 /\ s.ink = Grant
    /\ s.named => s.pc = "done" /\ s.payload = 0 /\ s.ink = Grant

TakerHasInk == \A p \in Player : \A n \in DOMAIN sub[p] : Holds(p, sub[p][n])

OneTaker ==
    \A p \in Player : \A m, n \in DOMAIN sub[p] :
        Taken(sub[p][m]) /\ Taken(sub[p][n]) /\ sub[p][m].i = sub[p][n].i => m = n

GameIsNamed ==
    \A p \in Player :
        /\ game[p] = "game" => \E n \in DOMAIN sub[p] : sub[p][n].named
        /\ game[p] = "waiting" => sub[p] # <<>>

RedeemInv == TakerHasInk /\ OneTaker /\ GameIsNamed

\* Without timeouts and failing calls there is one live submission per game, the one
\* the game waits for, and ink in flight is about to be received.
CalmFlight ==
    timeouts = 0 /\ faults = 0 =>
        /\ late = {}
        /\ \A i \in Invite : flight[i] > 0 => service.pc = "receive" /\ service.i = i

CalmInvites ==
    timeouts = 0 /\ faults = 0 =>
        \A i \in Invite : invite[i].ink > 0 /\ invite[i].owner \in Player =>
            \E n \in DOMAIN sub[invite[i].owner] :
                At(invite[i].owner, n, "send") /\ sub[invite[i].owner][n].i = i

CalmGames ==
    timeouts = 0 /\ faults = 0 =>
        \A p \in Player : \A n \in DOMAIN sub[p] :
            /\ sub[p][n].pc # "done" => Awaited(p, n)
            /\ sub[p][n].pc = "done" =>
                  sub[p][n].payload = 0 /\ (sub[p][n].ink > 0 => sub[p][n].named)

Calm == CalmFlight /\ CalmInvites /\ CalmGames

InkIInv == TypeOK /\ ServingInv /\ RedeemInv /\ Calm

-----------------------------------------------------------------------------
USE InkAssumption

\* A submission has the fields TypeOK gives it.
LEMMA SubmissionTyped ==
    ASSUME TypeOK, NEW p \in Player, NEW n \in DOMAIN sub[p]
    PROVE  /\ sub[p][n] \in Submission
           /\ sub[p][n].i \in Invite /\ sub[p][n].payload \in Nat /\ sub[p][n].ink \in Nat
  <1>0. sub \in [Player -> Seq(Submission)]
    BY DEF TypeOK
  <1>1. sub[p] \in Seq(Submission) /\ n \in 1..Len(sub[p])
    BY <1>0
  <1>2. sub[p][n] \in Submission
    BY <1>1, ElementOfSeq
  <1> QED
    BY <1>2 DEF Submission

\* One submission n of player p becomes s; all others stay as they are.
LEMMA OneSubmission ==
    ASSUME TypeOK, NEW p \in Player, NEW n \in DOMAIN sub[p], NEW s \in Submission,
           sub' = [sub EXCEPT ![p][n] = s]
    PROVE  /\ sub' \in [Player -> Seq(Submission)]
           /\ sub'[p][n] = s
           /\ \A q \in Player : DOMAIN sub'[q] = DOMAIN sub[q] /\ Len(sub'[q]) = Len(sub[q])
           /\ \A q \in Player : \A m \in DOMAIN sub[q] :
                 q # p \/ m # n => sub'[q][m] = sub[q][m]
  <1>0. sub \in [Player -> Seq(Submission)]
    BY DEF TypeOK
  <1>1. sub[p] \in Seq(Submission) /\ n \in 1..Len(sub[p])
    BY <1>0
  <1>2. /\ [sub[p] EXCEPT ![n] = s] \in Seq(Submission)
        /\ Len([sub[p] EXCEPT ![n] = s]) = Len(sub[p])
        /\ DOMAIN [sub[p] EXCEPT ![n] = s] = DOMAIN sub[p]
    BY <1>1, ExceptSeq
  <1>3. sub'[p] = [sub[p] EXCEPT ![n] = s] /\ \A q \in Player \ {p} : sub'[q] = sub[q]
    BY DEF TypeOK
  <1>4. sub' \in [Player -> Seq(Submission)]
    BY <1>2 DEF TypeOK
  <1> QED
    BY <1>1, <1>2, <1>3, <1>4

\* What is in the mailbox after a request is added, and after one is taken.
LEMMA QueuedAppend ==
    ASSUME inkBox \in Seq(Invite), NEW i \in Invite, inkBox' = Append(inkBox, i)
    PROVE  /\ Queued' = Queued \cup {i}
           /\ RequestsOnce /\ i \notin Queued /\ UNCHANGED inkActor
              /\ (inkActor.pc # "idle" => inkActor.i # i) => RequestsOnce'
  <1>1. /\ Len(inkBox') = Len(inkBox) + 1 /\ Len(inkBox) \in Nat
        /\ DOMAIN inkBox' = 1..Len(inkBox) + 1 /\ DOMAIN inkBox = 1..Len(inkBox)
        /\ inkBox'[Len(inkBox) + 1] = i
        /\ \A k \in DOMAIN inkBox : inkBox'[k] = inkBox[k]
    OBVIOUS
  <1>2. Queued' = Queued \cup {i}
    BY <1>1 DEF Queued
  <1>3. ASSUME RequestsOnce, i \notin Queued
        PROVE  \A j, k \in DOMAIN inkBox' : inkBox'[j] = inkBox'[k] => j = k
    <2>1. \A k \in DOMAIN inkBox : inkBox[k] # i
      BY <1>3 DEF Queued
    <2> QED
      BY <1>1, <1>3, <2>1 DEF RequestsOnce
  <1> QED
    BY <1>2, <1>3 DEF RequestsOnce

\* Taking the first request leaves the others, each once.
LEMMA QueuedTail ==
    ASSUME inkBox \in Seq(Invite), inkBox # <<>>, inkBox' = Tail(inkBox), RequestsOnce
    PROVE  /\ Head(inkBox) \in Invite /\ Head(inkBox) \notin Queued'
           /\ Queued = Queued' \cup {Head(inkBox)}
           /\ inkBox' \in Seq(Invite)
           /\ \A j, k \in DOMAIN inkBox' : inkBox'[j] = inkBox'[k] => j = k
  <1>1. /\ Len(inkBox) \in Nat \ {0} /\ Head(inkBox) = inkBox[1]
        /\ inkBox' \in Seq(Invite) /\ Head(inkBox) \in Invite
        /\ DOMAIN inkBox' = 1..Len(inkBox) - 1 /\ DOMAIN inkBox = 1..Len(inkBox)
        /\ \A k \in 1..Len(inkBox) - 1 : inkBox'[k] = inkBox[k + 1]
    OBVIOUS
  <1>2. Head(inkBox) \notin Queued'
    BY <1>1 DEF Queued, RequestsOnce
  <1>3. Queued = Queued' \cup {Head(inkBox)}
    <2>1. ASSUME NEW x \in Queued PROVE x \in Queued' \cup {Head(inkBox)}
      <3>1. PICK k \in 1..Len(inkBox) : x = inkBox[k]
        BY <1>1 DEF Queued
      <3>2. k # 1 => x = inkBox'[k - 1] /\ k - 1 \in DOMAIN inkBox'
        BY <1>1, <3>1
      <3> QED
        BY <1>1, <3>1, <3>2 DEF Queued
    <2>2. ASSUME NEW x \in Queued' PROVE x \in Queued
      BY <1>1, <2>2 DEF Queued
    <2> QED
      BY <1>1, <2>1, <2>2 DEF Queued
  <1>4. \A j, k \in DOMAIN inkBox' : inkBox'[j] = inkBox'[k] => j = k
    BY <1>1 DEF RequestsOnce
  <1> QED
    BY <1>1, <1>2, <1>3, <1>4

-----------------------------------------------------------------------------
(***************************************************************************)
(* What leaves ServingInv and RedeemInv alone.                             *)
(***************************************************************************)

\* Redeeming an invite changes only its owner and its ink, and its owner for good.
LEMMA ServingFrame ==
    ASSUME TypeOK, ServingInv, UNCHANGED <<faucet, flight, serving>>,
           \A i \in Invite : i \notin codes => invite'[i] = invite[i],
           \A i \in codes : /\ invite'[i].owner # "none"
                            /\ invite'[i].owner = "key" => invite'[i] = invite[i]
    PROVE  ServingInv'
  <1> USE DEF serving, ServingInv
  <1>1. FaucetCovers' /\ RequestsOnce'
    BY DEF FaucetCovers, RequestsOnce, Queued
  <1>2. \A i : Pending(i)' = Pending(i)
    BY DEF Pending, Queued
  <1>3. PendingIsAsked'
    BY <1>2 DEF PendingIsAsked
  <1>4. UnaskedIsNew'
    BY DEF UnaskedIsNew
  <1>5. ReceivesGrant'
    BY <1>2 DEF ReceivesGrant
  <1>6. CodeIsFunded'
    BY DEF CodeIsFunded
  <1> QED
    BY <1>1, <1>3, <1>4, <1>5, <1>6

\* The service never touches an invite whose code is out.
LEMMA RedeemFrame ==
    ASSUME TypeOK, RedeemInv, UNCHANGED players, codes \subseteq codes',
           \A i \in codes : invite'[i] = invite[i]
    PROVE  RedeemInv'
  <1> USE DEF players, RedeemInv
  <1>1. TakerHasInk'
    <2> SUFFICES ASSUME NEW p \in Player, NEW n \in DOMAIN sub[p]
                 PROVE  Holds(p, sub[p][n])'
      BY DEF TakerHasInk
    <2>1. Holds(p, sub[p][n])
      BY DEF TakerHasInk
    <2>2. invite'[sub[p][n].i] = invite[sub[p][n].i]
      BY <2>1 DEF Holds
    <2> QED
      BY <2>1, <2>2 DEF Holds, Taken
  <1>2. OneTaker' /\ GameIsNamed'
    BY DEF OneTaker, GameIsNamed, Taken
  <1> QED
    BY <1>1, <1>2

\* The service hands no player an invite.
LEMMA CalmFrame ==
    ASSUME TypeOK, Calm, UNCHANGED <<players, bounds>>,
           \A i \in Invite : invite'[i] = invite[i] \/ invite'[i].owner = "key"
    PROVE  CalmInvites' /\ CalmGames'
  <1> USE DEF Calm, players, bounds
  <1>1. CalmInvites'
    BY DEF CalmInvites, At
  <1>2. CalmGames'
    BY DEF CalmGames, Awaited
  <1> QED
    BY <1>1, <1>2

-----------------------------------------------------------------------------
(***************************************************************************)
(* The service and the faucet.                                             *)
(***************************************************************************)

\* A new invite is pending and the service asks for it.
LEMMA RequestInviteInv ==
    ASSUME InkIInv, NEW i \in Invite, RequestInvite(i)
    PROVE  InkIInv'
  <1> USE DEF InkIInv, RequestInvite, ServingInv
  <1>0. /\ inkBox \in Seq(Invite) /\ i \notin codes /\ i \notin late /\ ~Pending(i)
        /\ invite[i].ink = 0 /\ flight[i] = 0
    BY DEF TypeOK, UnaskedIsNew, PendingIsAsked
  <1>1. /\ invite' \in [Invite -> [owner : {"none", "key"} \cup Player, ink : Nat]]
        /\ invite'[i] = [owner |-> "key", ink |-> 0]
        /\ \A j \in Invite \ {i} : invite'[j] = invite[j]
    BY <1>0 DEF TypeOK
  <1>2. TypeOK'
    BY <1>0, <1>1 DEF TypeOK, players, depositing, bounds
  <1>3. RequestsOnce' /\ Queued' = Queued \cup {i}
    BY <1>0, QueuedAppend DEF Pending
  <1>4. FaucetCovers'
    BY DEF FaucetCovers
  <1>5. \A j : Pending(j)' <=> (Pending(j) \/ j = i)
    BY <1>3 DEF Pending
  <1>6. PendingIsAsked' /\ UnaskedIsNew' /\ ReceivesGrant' /\ CodeIsFunded'
    BY <1>0, <1>1, <1>5 DEF PendingIsAsked, UnaskedIsNew, ReceivesGrant, CodeIsFunded
  <1>7. RedeemInv'
    BY <1>0, <1>1, RedeemFrame DEF TypeOK
  <1>8. Calm'
    <2>1. CalmInvites' /\ CalmGames'
      BY <1>1, CalmFrame
    <2>2. CalmFlight'
      BY <1>0, <1>1 DEF Calm, CalmFlight, bounds
    <2> QED
      BY <2>1, <2>2 DEF Calm
  <1> QED
    BY <1>2, <1>3, <1>4, <1>6, <1>7, <1>8

\* The code is given out only once the grant is on the invite.
LEMMA ReceiveOnInviteInv ==
    ASSUME InkIInv, ReceiveOnInvite
    PROVE  InkIInv'
  <1> USE DEF InkIInv, ReceiveOnInvite, ServingInv
  <1> DEFINE i == service.i
  <1>0. /\ i \in Invite /\ i \notin codes /\ ~Pending(i)
        /\ invite[i].owner = "key" /\ invite[i].ink = 0 /\ flight[i] = Grant
    BY DEF ReceivesGrant
  <1>1. /\ invite' \in [Invite -> [owner : {"none", "key"} \cup Player, ink : Nat]]
        /\ invite'[i].owner = "key" /\ invite'[i].ink = Grant
        /\ \A j \in Invite \ {i} : invite'[j] = invite[j] /\ flight'[j] = flight[j]
        /\ flight' \in [Invite -> Nat] /\ flight'[i] = 0
    <2> DEFINE T == [owner : {"none", "key"} \cup Player, ink : Nat]
    <2>1. invite \in [Invite -> T] /\ flight \in [Invite -> Nat]
      BY DEF TypeOK
    <2>2. /\ invite' = [invite EXCEPT ![i].ink = @ + flight[i]]
          /\ flight' = [flight EXCEPT ![i] = 0]
      BY DEF ReceiveOnInvite
    <2> HIDE DEF InkIInv, ReceiveOnInvite, ServingInv, i
    <2>3. /\ flight' \in [Invite -> Nat] /\ flight'[i] = 0
          /\ \A j \in Invite \ {i} : flight'[j] = flight[j]
      BY <1>0, <2>1, <2>2
    <2>4. Grant \in Nat /\ 0 + Grant = Grant /\ invite[i] \in T
      BY <1>0, <2>1, InkAssumption
    <2>5. /\ invite'[i].owner = "key" /\ invite'[i].ink = Grant /\ invite'[i] \in T
          /\ \A j \in Invite \ {i} : invite'[j] = invite[j]
      BY <1>0, <2>1, <2>2, <2>4
    <2>6. invite' \in [Invite -> T]
      BY <2>1, <2>2, <2>5
    <2> QED
      BY <2>3, <2>5, <2>6
  <1>2. TypeOK'
    BY <1>0, <1>1 DEF TypeOK, players, depositing, bounds, Idle
  <1>3. RequestsOnce' /\ FaucetCovers'
    BY DEF FaucetCovers, RequestsOnce, Queued
  <1>5. \A j : Pending(j)' = Pending(j)
    BY DEF Pending, Queued
  <1>6. PendingIsAsked' /\ UnaskedIsNew' /\ ReceivesGrant' /\ CodeIsFunded'
    BY <1>0, <1>1, <1>5 DEF PendingIsAsked, UnaskedIsNew, ReceivesGrant, CodeIsFunded, Idle
  <1>7. RedeemInv'
    BY <1>0, <1>1, RedeemFrame DEF TypeOK
  <1>8. Calm'
    <2>1. CalmInvites' /\ CalmGames'
      BY <1>1, CalmFrame
    <2>2. CalmFlight'
      BY <1>0, <1>1 DEF Calm, CalmFlight, bounds
    <2> QED
      BY <2>1, <2>2 DEF Calm
  <1> QED
    BY <1>2, <1>3, <1>6, <1>7, <1>8

\* After a timeout the answer is expected by nobody.
LEMMA InkTimeoutInv ==
    ASSUME InkIInv, InkTimeout
    PROVE  InkIInv'
  <1> USE DEF InkIInv, InkTimeout, ServingInv, ledger, players
  <1>1. TypeOK'
    BY DEF TypeOK, ReceivesGrant, depositing, Idle
  <1>2. RequestsOnce' /\ FaucetCovers'
    BY DEF FaucetCovers, RequestsOnce, Queued
  <1>3. \A j : Pending(j)' = Pending(j)
    BY DEF Pending, Queued
  <1>4. PendingIsAsked' /\ UnaskedIsNew' /\ ReceivesGrant' /\ CodeIsFunded'
    BY <1>3 DEF PendingIsAsked, UnaskedIsNew, ReceivesGrant, CodeIsFunded, Idle
  <1>5. RedeemInv'
    BY RedeemFrame
  <1>6. timeouts' # 0
    BY DEF TypeOK
  <1>7. Calm'
    BY <1>6 DEF Calm, CalmFlight, CalmInvites, CalmGames
  <1> QED
    BY <1>1, <1>2, <1>4, <1>5, <1>7

\* The first request moves from the mailbox to the InkActor.
LEMMA TakeInkRequestInv ==
    ASSUME InkIInv, TakeInkRequest
    PROVE  InkIInv'
  <1> USE DEF InkIInv, TakeInkRequest, ServingInv, ledger, players, bounds
  <1>0. /\ Head(inkBox) \in Invite /\ Head(inkBox) \notin Queued'
        /\ Queued = Queued' \cup {Head(inkBox)} /\ inkBox' \in Seq(Invite)
        /\ \A j, k \in DOMAIN inkBox' : inkBox'[j] = inkBox'[k] => j = k
    BY QueuedTail DEF TypeOK
  <1>1. TypeOK'
    BY <1>0 DEF TypeOK, depositing
  <1>2. RequestsOnce' /\ FaucetCovers'
    BY <1>0 DEF FaucetCovers, RequestsOnce, TypeOK
  <1>3. \A j : Pending(j)' = Pending(j)
    BY <1>0 DEF Pending
  <1>4. PendingIsAsked' /\ UnaskedIsNew' /\ ReceivesGrant' /\ CodeIsFunded'
    BY <1>3 DEF PendingIsAsked, UnaskedIsNew, ReceivesGrant, CodeIsFunded
  <1>5. RedeemInv'
    BY RedeemFrame
  <1>6. Calm'
    BY DEF Calm, CalmFlight, CalmInvites, CalmGames, At, Awaited
  <1> QED
    BY <1>1, <1>2, <1>4, <1>5, <1>6

\* The InkActor answers: whoever it has handled is no longer pending.
LEMMA SendInkInv ==
    ASSUME InkIInv, SendInk
    PROVE  InkIInv'
  <1> USE DEF InkIInv, SendInk, ServingInv, Answer
  <1> DEFINE i == inkActor.i
  <1>0. /\ i \in Invite /\ Pending(i) /\ i \notin Queued /\ faucet.ink >= Grant
        /\ i \notin codes /\ invite[i].owner = "key" /\ invite[i].ink = 0 /\ flight[i] = 0
        /\ i \notin late => service.pc = "ask" /\ service.i = i
    BY DEF FaucetCovers, PendingIsAsked, RequestsOnce, Pending
  <1>1. /\ flight' \in [Invite -> Nat] /\ flight'[i] = Grant
        /\ \A j \in Invite \ {i} : flight'[j] = flight[j]
        /\ faucet' \in [ink : Nat, blocks : Nat]
    <2>1. /\ faucet \in [ink : Nat, blocks : Nat] /\ flight \in [Invite -> Nat]
          /\ faucet' = [ink |-> faucet.ink - Grant, blocks |-> faucet.blocks + 1]
          /\ flight' = [flight EXCEPT ![i] = @ + Grant]
      BY DEF TypeOK
    <2> HIDE DEF InkIInv, SendInk, ServingInv, Answer, i
    <2>2. faucet.ink - Grant \in Nat /\ faucet.blocks + 1 \in Nat
      BY <1>0, <2>1, InkAssumption
    <2>3. faucet' \in [ink : Nat, blocks : Nat]
      BY <2>1, <2>2
    <2> QED
      BY <1>0, <2>1, <2>3, InkAssumption
  <1>2. /\ late' \subseteq late /\ service'.i = service.i
        /\ service'.pc = IF i \in late THEN service.pc ELSE "receive"
        /\ service' \in [pc : {"idle", "ask", "receive"}, i : Invite \cup {Nil}]
        /\ late \subseteq late' \cup {i}
    <2>1. /\ service \in [pc : {"idle", "ask", "receive"}, i : Invite \cup {Nil}]
          /\ IF i \in late THEN late' = late \ {i} /\ service' = service
                          ELSE service' = [service EXCEPT !.pc = "receive"] /\ late' = late
      BY DEF TypeOK
    <2> HIDE DEF InkIInv, SendInk, ServingInv, Answer, i
    <2> QED
      BY <2>1
  <1>3. TypeOK'
    BY <1>1, <1>2 DEF TypeOK, players, depositing, bounds
  <1>4. RequestsOnce' /\ FaucetCovers' /\ Queued' = Queued
    BY DEF FaucetCovers, RequestsOnce, Queued
  <1>5. \A j : Pending(j)' <=> Pending(j) /\ j # i
    BY <1>0, <1>4 DEF Pending
  <1>6. PendingIsAsked'
    <2> SUFFICES ASSUME NEW j \in Invite, Pending(j)'
                 PROVE  /\ invite[j].owner = "key" /\ invite[j].ink = 0 /\ flight'[j] = 0
                        /\ j \notin codes
                        /\ j \in late' \/ (service'.pc = "ask" /\ service'.i = j)
      BY DEF PendingIsAsked
    <2> QED
      BY <1>0, <1>1, <1>2, <1>5 DEF PendingIsAsked
  <1>7. UnaskedIsNew'
    BY <1>0, <1>1, <1>2 DEF UnaskedIsNew
  <1>8. ReceivesGrant'
    <2>1. CASE i \in late
      BY <2>1, <1>0, <1>1, <1>2, <1>5 DEF ReceivesGrant
    <2>2. CASE i \notin late
      BY <2>2, <1>0, <1>1, <1>2, <1>5 DEF ReceivesGrant
    <2> QED
      BY <2>1, <2>2
  <1>9. CodeIsFunded' /\ RedeemInv'
    BY RedeemFrame DEF CodeIsFunded
  <1>10. CalmFlight'
    BY <1>0, <1>1, <1>2 DEF Calm, CalmFlight, bounds
  <1>11. CalmInvites' /\ CalmGames'
    BY CalmFrame
  <1> QED
    BY <1>3, <1>4, <1>6, <1>7, <1>8, <1>9, <1>10, <1>11 DEF Calm

\* A refusal moves no ink.
LEMMA RefuseInkInv ==
    ASSUME InkIInv, RefuseInk
    PROVE  InkIInv'
  <1> USE DEF InkIInv, RefuseInk, ServingInv, Answer, ledger
  <1> DEFINE i == inkActor.i
  <1>0. /\ i \in Invite /\ Pending(i) /\ i \notin Queued
        /\ i \notin late => service.pc = "ask" /\ service.i = i
    BY DEF FaucetCovers, PendingIsAsked, RequestsOnce, Pending
  <1>2. /\ late' \subseteq late /\ service'.i = service.i
        /\ service'.pc = IF i \in late THEN service.pc ELSE "idle"
        /\ service' \in [pc : {"idle", "ask", "receive"}, i : Invite \cup {Nil}]
        /\ late \subseteq late' \cup {i}
    <2>1. /\ service \in [pc : {"idle", "ask", "receive"}, i : Invite \cup {Nil}]
          /\ IF i \in late THEN late' = late \ {i} /\ service' = service
                          ELSE service' = [service EXCEPT !.pc = "idle"] /\ late' = late
      BY DEF TypeOK
    <2> HIDE DEF InkIInv, RefuseInk, ServingInv, Answer, i
    <2> QED
      BY <2>1
  <1>3. TypeOK'
    BY <1>2 DEF TypeOK, players, depositing, bounds
  <1>4. RequestsOnce' /\ FaucetCovers' /\ Queued' = Queued
    BY DEF FaucetCovers, RequestsOnce, Queued
  <1>5. \A j : Pending(j)' <=> Pending(j) /\ j # i
    BY <1>0, <1>4 DEF Pending
  <1>6. PendingIsAsked'
    BY <1>0, <1>2, <1>5 DEF PendingIsAsked
  <1>7. UnaskedIsNew' /\ ReceivesGrant'
    BY <1>0, <1>2, <1>5 DEF UnaskedIsNew, ReceivesGrant
  <1>9. CodeIsFunded' /\ RedeemInv'
    BY RedeemFrame DEF CodeIsFunded
  <1>10. CalmFlight'
    BY <1>0, <1>2 DEF Calm, CalmFlight, bounds
  <1>11. CalmInvites' /\ CalmGames'
    BY CalmFrame
  <1> QED
    BY <1>3, <1>4, <1>6, <1>7, <1>9, <1>10, <1>11 DEF Calm

\* A deposit moves the tip on, so the balance the InkActor has seen is refused.
LEMMA DepositorInv ==
    ASSUME InkIInv, DepositInk \/ \E n \in Deposit : FetchFaucet(n)
    PROVE  InkIInv'
  <1> USE DEF InkIInv, ServingInv, FetchFaucet, DepositInk
  <1>1. TypeOK'
    <2>1. faucet' \in [ink : Nat, blocks : Nat]
      BY DEF TypeOK, ledger
    <2>2. deposits' \subseteq Deposit /\ depositor' \in [pc : {"idle", "receive"}, n : Nat, blocks : Nat]
      <3>1. CASE DepositInk
        BY <3>1 DEF TypeOK, NoDeposit
      <3>2. ASSUME NEW n \in Deposit, FetchFaucet(n)
            PROVE  deposits' \subseteq Deposit /\ depositor' \in [pc : {"idle", "receive"}, n : Nat, blocks : Nat]
        BY <3>2 DEF TypeOK
      <3> QED
        BY <3>1, <3>2
    <2> QED
      BY <2>1, <2>2 DEF TypeOK, ledger, serving, players, bounds
  <1>2. UNCHANGED <<invite, flight, serving, players, bounds>>
    BY DEF ledger
  <1>3. faucet' = faucet \/ (faucet'.blocks = faucet.blocks + 1 /\ faucet'.blocks \in Nat)
    BY DEF TypeOK, ledger
  <1>4. FaucetCovers'
    BY <1>2, <1>3 DEF FaucetCovers, TypeOK, serving
  <1>5. RequestsOnce' /\ (\A j : Pending(j)' = Pending(j))
    BY <1>2 DEF RequestsOnce, Pending, Queued, serving
  <1>6. PendingIsAsked' /\ UnaskedIsNew' /\ ReceivesGrant' /\ CodeIsFunded'
    BY <1>2, <1>5 DEF PendingIsAsked, UnaskedIsNew, ReceivesGrant, CodeIsFunded, serving
  <1>7. RedeemInv'
    BY <1>2, RedeemFrame DEF serving
  <1>8. CalmFlight' /\ CalmInvites' /\ CalmGames'
    BY <1>2, CalmFrame DEF Calm, CalmFlight, serving, bounds
  <1> QED
    BY <1>1, <1>4, <1>5, <1>6, <1>7, <1>8 DEF Calm

-----------------------------------------------------------------------------
(***************************************************************************)
(* A game and its submissions.                                             *)
(***************************************************************************)

\* Submission n of p becomes s: what it holds is right, and if it moves the ink of
\* its invite, no other submission has taken the invite.
LEMMA TakerStep ==
    ASSUME InkIInv, NEW p \in Player, NEW n \in DOMAIN sub[p], NEW s \in Submission,
           sub' = [sub EXCEPT ![p][n] = s], UNCHANGED codes,
           s.i = sub[p][n].i, Holds(p, s)',
           \A j \in Invite \ {s.i} : invite'[j] = invite[j],
           invite'[s.i] = invite[s.i] \/ invite[s.i].owner = "key" \/ Taken(sub[p][n]),
           Taken(s) => Taken(sub[p][n]) \/ invite[s.i].owner = "key"
    PROVE  TakerHasInk' /\ OneTaker'
  <1> USE DEF InkIInv, RedeemInv
  <1>1. /\ sub'[p][n] = s
        /\ \A q \in Player : DOMAIN sub'[q] = DOMAIN sub[q]
        /\ \A q \in Player : \A m \in DOMAIN sub[q] : q # p \/ m # n => sub'[q][m] = sub[q][m]
    BY OneSubmission
  <1>2. \A q \in Player : \A m \in DOMAIN sub[q] :
            Taken(sub[q][m]) => invite[sub[q][m].i].owner = q
    BY DEF TakerHasInk, Holds
  <1>3. s.i \in Invite /\ \A q \in Player : \A m \in DOMAIN sub[q] : sub[q][m].i \in Invite
    BY SubmissionTyped
  <1>4. ASSUME NEW q \in Player, NEW m \in DOMAIN sub[q], q # p \/ m # n, Taken(sub[q][m])
        PROVE  invite'[sub[q][m].i] = invite[sub[q][m].i]
    <2>1. CASE sub[q][m].i = s.i
      <3>1. invite[s.i].owner = q /\ q # "key"
        BY <1>2, <1>4, <2>1
      <3>2. Taken(sub[p][n]) => q = p
        BY <1>2, <3>1
      <3>3. ~Taken(sub[p][n])
        BY <1>4, <2>1, <3>2 DEF OneTaker
      <3> QED
        BY <2>1, <3>1, <3>3
    <2>2. CASE sub[q][m].i # s.i
      BY <1>3, <2>2
    <2> QED
      BY <2>1, <2>2
  <1>5. ASSUME NEW q \in Player, NEW m \in DOMAIN sub[q], q # p \/ m # n
        PROVE  Holds(q, sub[q][m])'
    <2>1. sub'[q][m] = sub[q][m] /\ Holds(q, sub[q][m]) /\ codes' = codes
      BY <1>1, <1>5 DEF TakerHasInk
    <2>2. Taken(sub[q][m]) => invite'[sub[q][m].i] = invite[sub[q][m].i]
      BY <1>4, <1>5
    <2> HIDE DEF InkIInv, RedeemInv
    <2> QED
      BY <2>1, <2>2 DEF Holds, Taken
  <1>6. TakerHasInk'
    <2> SUFFICES ASSUME NEW q \in Player, NEW m \in DOMAIN sub'[q] PROVE Holds(q, sub[q][m])'
      BY DEF TakerHasInk
    <2>1. CASE q = p /\ m = n
      BY <1>1, <2>1
    <2>2. CASE ~(q = p /\ m = n)
      BY <1>1, <1>5, <2>2
    <2> QED
      BY <2>1, <2>2
  <1>7. OneTaker'
    <2> SUFFICES ASSUME NEW q \in Player, NEW k \in DOMAIN sub[q], NEW m \in DOMAIN sub[q], k # m,
                        Taken(sub'[q][k]), Taken(sub'[q][m]), sub'[q][k].i = sub'[q][m].i
                 PROVE  FALSE
      BY <1>1 DEF OneTaker, Taken
    <2>1. CASE q = p /\ k = n
      BY <1>1, <1>2, <2>1 DEF OneTaker
    <2>2. CASE q = p /\ m = n
      BY <1>1, <1>2, <2>2 DEF OneTaker
    <2>3. CASE q # p \/ (k # n /\ m # n)
      BY <1>1, <2>3 DEF OneTaker
    <2> QED
      BY <2>1, <2>2, <2>3
  <1> QED
    BY <1>6, <1>7

\* The ink of taken invites stays with whoever is about to send it.
LEMMA CalmInvitesStep ==
    ASSUME TypeOK, CalmInvites, UNCHANGED bounds,
           NEW p \in Player, NEW n \in DOMAIN sub[p], NEW s \in Submission,
           sub' = [sub EXCEPT ![p][n] = s], s.i = sub[p][n].i,
           \A j \in Invite \ {s.i} : invite'[j] = invite[j],
           invite'[s.i].ink > 0 /\ invite'[s.i].owner \in Player =>
               \/ invite'[s.i].owner = p /\ s.pc = "send"
               \/ invite'[s.i] = invite[s.i] /\ sub[p][n].pc # "send"
    PROVE  CalmInvites'
  <1>1. /\ sub'[p][n] = s
        /\ \A q \in Player : DOMAIN sub'[q] = DOMAIN sub[q]
        /\ \A q \in Player : \A m \in DOMAIN sub[q] : q # p \/ m # n => sub'[q][m] = sub[q][m]
    BY OneSubmission
  <1>2. SUFFICES ASSUME timeouts = 0, faults = 0,
                        NEW j \in Invite, invite'[j].ink > 0, invite'[j].owner \in Player
                 PROVE  \E m \in DOMAIN sub'[invite'[j].owner] :
                            sub'[invite'[j].owner][m].pc = "send" /\ sub'[invite'[j].owner][m].i = j
    BY DEF CalmInvites, At, bounds
  <1>3. CASE j = s.i /\ invite'[j].owner = p /\ s.pc = "send"
    BY <1>1, <1>3 DEF At
  <1>4. CASE invite'[j] = invite[j] /\ (j = s.i => sub[p][n].pc # "send")
    <2> DEFINE q == invite[j].owner
    <2>1. PICK m \in DOMAIN sub[q] : sub[q][m].pc = "send" /\ sub[q][m].i = j
      BY <1>2, <1>4 DEF CalmInvites, At
    <2>2. q # p \/ m # n
      BY <1>4, <2>1
    <2> QED
      BY <1>1, <1>2, <1>4, <2>1, <2>2 DEF At
  <1> QED
    BY <1>2, <1>3, <1>4

\* A new submission has nothing yet.
LEMMA SubmitInviteInv ==
    ASSUME InkIInv, NEW p \in Player, NEW i \in Invite, SubmitInvite(p, i)
    PROVE  InkIInv'
  <1> USE DEF InkIInv, SubmitInvite
  <1> DEFINE N == Len(sub[p])
  <1>1. /\ NewSub(i) \in Submission /\ sub[p] \in Seq(Submission)
        /\ UNCHANGED <<faucet, invite, flight, serving, bounds, codes>>
    BY DEF NewSub, Submission, TypeOK, ledger, serving
  <1>2. /\ sub' \in [Player -> Seq(Submission)]
        /\ N \in Nat /\ DOMAIN sub[p] = 1..N /\ DOMAIN sub'[p] = 1..N + 1 /\ Len(sub'[p]) = N + 1
        /\ sub'[p][N + 1] = NewSub(i)
        /\ \A m \in 1..N : sub'[p][m] = sub[p][m]
        /\ \A q \in Player \ {p} : sub'[q] = sub[q]
    <2>1. sub'[p] = Append(sub[p], NewSub(i)) /\ \A q \in Player \ {p} : sub'[q] = sub[q]
      BY DEF TypeOK
    <2>2. /\ Append(sub[p], NewSub(i)) \in Seq(Submission)
          /\ Len(Append(sub[p], NewSub(i))) = N + 1
          /\ \A m \in 1..N : Append(sub[p], NewSub(i))[m] = sub[p][m]
          /\ Append(sub[p], NewSub(i))[N + 1] = NewSub(i)
          /\ N \in Nat /\ DOMAIN sub[p] = 1..N /\ DOMAIN Append(sub[p], NewSub(i)) = 1..N + 1
      BY <1>1
    <2> QED
      BY <2>1, <2>2 DEF TypeOK
  <1>3. game' \in [Player -> {"invitation", "waiting", "game"}]
    BY DEF TypeOK
  <1>4. TypeOK'
    BY <1>1, <1>2, <1>3 DEF TypeOK, serving, depositing, bounds
  <1>5. ServingInv'
    BY <1>1, ServingFrame DEF ServingInv, UnaskedIsNew, TypeOK
  <1>6. TakerHasInk'
    <2>1. Holds(p, NewSub(i))
      BY DEF Holds, NewSub, Taken
    <2>2. \A q \in Player : \A m \in DOMAIN sub'[q] : Holds(q, sub'[q][m])
      BY <1>2, <2>1 DEF RedeemInv, TakerHasInk
    <2>3. invite' = invite /\ codes' = codes
      BY <1>1
    <2> SUFFICES ASSUME NEW q \in Player, NEW m \in DOMAIN sub'[q] PROVE Holds(q, sub[q][m])'
      BY DEF TakerHasInk
    <2>4. Holds(q, sub'[q][m])
      BY <2>2
    <2> QED
      BY <2>3, <2>4 DEF Holds, Taken
  <1>7. OneTaker'
    <2>1. ~Taken(NewSub(i))
      BY DEF NewSub, Taken
    <2>2. OneTaker
      BY DEF RedeemInv
    <2> SUFFICES ASSUME NEW q \in Player, NEW m \in DOMAIN sub'[q], NEW k \in DOMAIN sub'[q],
                        Taken(sub'[q][m]), Taken(sub'[q][k]), sub'[q][m].i = sub'[q][k].i
                 PROVE  m = k
      BY DEF OneTaker, Taken
    <2>3. CASE q = p
      <3>1. m \in 1..N /\ k \in 1..N
        BY <1>2, <2>1, <2>3
      <3> QED
        BY <1>2, <2>2, <2>3, <3>1 DEF OneTaker
    <2>4. CASE q # p
      BY <1>2, <2>2, <2>4 DEF OneTaker
    <2> QED
      BY <2>3, <2>4
  <1>8. GameIsNamed'
    <2>1. sub'[p] # <<>>
      BY <1>2
    <2>2. game'[p] = "waiting" /\ \A q \in Player \ {p} : game'[q] = game[q]
      BY DEF TypeOK
    <2> QED
      BY <1>2, <2>1, <2>2 DEF RedeemInv, GameIsNamed
  <1>9. CalmFlight'
    BY <1>1 DEF Calm, CalmFlight, bounds, serving
  <1>10. CalmInvites'
    <2> SUFFICES ASSUME timeouts = 0, faults = 0,
                        NEW j \in Invite, invite[j].ink > 0, invite[j].owner \in Player
                 PROVE  \E m \in DOMAIN sub'[invite[j].owner] :
                            sub'[invite[j].owner][m].pc = "send" /\ sub'[invite[j].owner][m].i = j
      BY <1>1 DEF CalmInvites, At, bounds
    <2>1. PICK m \in DOMAIN sub[invite[j].owner] :
             sub[invite[j].owner][m].pc = "send" /\ sub[invite[j].owner][m].i = j
      BY DEF Calm, CalmInvites, At
    <2> QED
      BY <1>1, <1>2, <2>1 DEF At
  <1>11. CalmGames'
    <2> SUFFICES ASSUME timeouts = 0, faults = 0, NEW q \in Player, NEW m \in DOMAIN sub'[q]
                 PROVE  /\ sub'[q][m].pc # "done" => Awaited(q, m)'
                        /\ sub'[q][m].pc = "done" =>
                              sub'[q][m].payload = 0 /\ (sub'[q][m].ink > 0 => sub'[q][m].named)
      BY <1>1 DEF CalmGames, bounds
    <2>1. CASE q = p /\ m = N + 1
      <3>1. game'[p] = "waiting"
        BY DEF TypeOK
      <3> QED
        BY <1>2, <2>1, <3>1 DEF Awaited, NewSub
    <2>2. CASE q = p /\ m # N + 1
      <3>1. m \in DOMAIN sub[p] /\ sub'[p][m] = sub[p][m]
        BY <1>2, <2>2
      <3>2. sub[p][m].pc = "done"
        BY <3>1 DEF Calm, CalmGames, Awaited
      <3> QED
        BY <2>2, <3>1, <3>2 DEF Calm, CalmGames
    <2>3. CASE q # p
      <3>1. game'[q] = game[q] /\ sub'[q] = sub[q]
        BY <1>2, <2>3 DEF TypeOK
      <3>2. /\ sub[q][m].pc # "done" => Awaited(q, m)
            /\ sub[q][m].pc = "done" =>
                  sub[q][m].payload = 0 /\ (sub[q][m].ink > 0 => sub[q][m].named)
        BY <1>1, <3>1 DEF Calm, CalmGames, bounds
      <3> QED
        BY <3>1, <3>2 DEF Awaited
    <2> QED
      BY <2>1, <2>2, <2>3
  <1> QED
    BY <1>4, <1>5, <1>6, <1>7, <1>8, <1>9, <1>10, <1>11 DEF RedeemInv, Calm

\* A live submission n of p becomes s.  Every step of redeeming an invite has this
\* shape; a failing call has it with one fault more.
SubmissionMoves(p, n, s) ==
    /\ sub[p][n].pc # "done" /\ s.i = sub[p][n].i
    /\ sub' = [sub EXCEPT ![p][n] = s]
    /\ UNCHANGED <<faucet, flight, serving, depositing, timeouts>>
    /\ invite' \in [Invite -> [owner : {"none", "key"} \cup Player, ink : Nat]]
    /\ \A j \in Invite \ {s.i} : invite'[j] = invite[j]
    /\ invite'[s.i] = invite[s.i] \/ (invite'[s.i].owner = p /\ Taken(s))
    /\ Taken(s) => Taken(sub[p][n]) \/ invite[s.i].owner = "key"
    /\ Holds(p, s)'
    /\ game' \in [Player -> {"invitation", "waiting", "game"}]
    /\ \A q \in Player \ {p} : game'[q] = game[q]
    /\ game'[p] = "game" => s.named \/ game[p] = "game"
    /\ faults' \in 0..MaxFaults /\ (faults' = faults \/ faults' # 0)
    /\ timeouts = 0 /\ faults' = 0 =>
          /\ s.pc # "done" => game'[p] = game[p]
          /\ s.pc = "done" => s.payload = 0 /\ (s.ink > 0 => s.named)
          /\ \/ s.pc = "send" \/ invite'[s.i].ink = 0
             \/ invite'[s.i] = invite[s.i] /\ sub[p][n].pc # "send"

\* Such a step keeps the invariant.
LEMMA SubmissionStep ==
    ASSUME InkIInv, NEW p \in Player, NEW n \in DOMAIN sub[p], NEW s \in Submission,
           SubmissionMoves(p, n, s)
    PROVE  InkIInv'
  <1> USE DEF InkIInv, SubmissionMoves
  <1>1. /\ sub' \in [Player -> Seq(Submission)]
        /\ sub'[p][n] = s
        /\ \A q \in Player : DOMAIN sub'[q] = DOMAIN sub[q] /\ Len(sub'[q]) = Len(sub[q])
        /\ \A q \in Player : \A m \in DOMAIN sub[q] : q # p \/ m # n => sub'[q][m] = sub[q][m]
    BY OneSubmission
  <1>2. TypeOK'
    BY <1>1 DEF TypeOK, serving, depositing
  <1>3. Holds(p, sub[p][n]) /\ s.i \in Invite /\ s.i \in codes
    <2>1. Holds(p, sub[p][n])
      BY DEF RedeemInv, TakerHasInk
    <2>2. s.i = sub[p][n].i /\ sub[p][n].i \in Invite
      BY SubmissionTyped
    <2> QED
      BY <2>1, <2>2 DEF Holds
  <1>4. \/ invite'[s.i] = invite[s.i]
        \/ invite[s.i].owner = "key" \/ Taken(sub[p][n])
    OBVIOUS
  <1>5. TakerHasInk' /\ OneTaker'
    BY <1>4, TakerStep DEF serving
  <1>6. ServingInv'
    <2>1. \A j \in Invite : j \notin codes => invite'[j] = invite[j]
      BY <1>3
    <2>2. \A j \in codes : /\ invite'[j].owner # "none"
                           /\ invite'[j].owner = "key" => invite'[j] = invite[j]
      <3>1. \A j \in codes : j \in Invite /\ invite[j].owner # "none"
        BY DEF ServingInv, UnaskedIsNew, TypeOK
      <3>2. p # "none" /\ p # "key"
        BY InkAssumption
      <3> QED
        BY <3>1, <3>2
    <2> QED
      BY <2>1, <2>2, ServingFrame
  <1>7. GameIsNamed'
    <2>1. ~sub[p][n].named
      BY <1>3 DEF Holds
    <2>2. ASSUME NEW q \in Player, game'[q] = "game"
          PROVE  \E m \in DOMAIN sub'[q] : sub'[q][m].named
      <3>1. CASE q = p /\ s.named
        BY <1>1, <3>1
      <3>2. CASE game[q] = "game"
        <4>1. PICK m \in DOMAIN sub[q] : sub[q][m].named
          BY <3>2 DEF RedeemInv, GameIsNamed
        <4> QED
          BY <1>1, <2>1, <4>1
      <3> QED
        BY <2>2, <3>1, <3>2
    <2>3. ASSUME NEW q \in Player, game'[q] = "waiting"
          PROVE  sub'[q] # <<>>
      <3>1. CASE q = p
        BY <1>1, <3>1
      <3>2. CASE q # p
        <4>1. sub[q] # <<>> /\ sub[q] \in Seq(Submission) /\ sub'[q] \in Seq(Submission)
          BY <1>1, <2>3, <3>2 DEF RedeemInv, GameIsNamed, TypeOK
        <4> QED
          BY <1>1, <4>1
      <3> QED
        BY <3>1, <3>2
    <2> QED
      BY <2>2, <2>3 DEF GameIsNamed
  <1>8. CalmFlight'
    BY DEF Calm, CalmFlight, serving
  <1>9. CalmInvites'
    <2>1. CASE timeouts = 0 /\ faults' = 0
      <3>1. UNCHANGED bounds
        BY <2>1 DEF bounds
      <3>2. invite'[s.i].ink > 0 /\ invite'[s.i].owner \in Player =>
               \/ invite'[s.i].owner = p /\ s.pc = "send"
               \/ invite'[s.i] = invite[s.i] /\ sub[p][n].pc # "send"
        <4>1. s.pc = "send" => invite'[s.i].owner = p
          BY DEF Holds, Taken
        <4>2. ~(invite'[s.i].ink = 0 /\ invite'[s.i].ink > 0)
          OBVIOUS
        <4> QED
          BY <2>1, <4>1, <4>2
      <3> QED
        BY <3>1, <3>2, CalmInvitesStep DEF Calm
    <2> QED
      BY <2>1 DEF CalmInvites
  <1>10. CalmGames'
    <2> SUFFICES ASSUME timeouts = 0, faults' = 0, NEW q \in Player, NEW m \in DOMAIN sub[q]
                 PROVE  /\ sub'[q][m].pc # "done" => Awaited(q, m)'
                        /\ sub'[q][m].pc = "done" =>
                              sub'[q][m].payload = 0 /\ (sub'[q][m].ink > 0 => sub'[q][m].named)
      BY <1>1 DEF CalmGames
    <2>0. faults = 0
      OBVIOUS
    <2>1. Awaited(p, n)
      BY <2>0 DEF Calm, CalmGames
    <2>2. CASE q = p /\ m = n
      BY <1>1, <2>1, <2>2 DEF Awaited
    <2>3. CASE q = p /\ m # n
      BY <1>1, <2>0, <2>1, <2>3 DEF Calm, CalmGames, Awaited
    <2>4. CASE q # p
      <3>1. sub'[q][m] = sub[q][m] /\ game'[q] = game[q] /\ Len(sub'[q]) = Len(sub[q])
        BY <1>1, <2>4
      <3> QED
        BY <2>0, <3>1 DEF Calm, CalmGames, Awaited
    <2> QED
      BY <2>2, <2>3, <2>4
  <1> QED
    BY <1>2, <1>5, <1>6, <1>7, <1>8, <1>9, <1>10 DEF RedeemInv, Calm

\* Steps that only move the submission on.
LEMMA QuietRedeemInv ==
    ASSUME InkIInv, NEW p \in Player, NEW n \in 1..MaxTries,
           CreatePlayer(p, n) \/ ReceiveInk(p, n) \/ RespondPlayer(p, n)
    PROVE  InkIInv'
  <1> USE DEF InkIInv, At, Then
  <1> DEFINE t == sub[p][n]
  <1>1. n \in DOMAIN sub[p] /\ t.pc \in {"create", "receive", "delete"}
    BY DEF CreatePlayer, ReceiveInk, RespondPlayer
  <1>2. /\ t \in Submission /\ t.i \in Invite /\ t.payload \in Nat /\ t.ink \in Nat
        /\ Holds(p, t)
    BY <1>1, SubmissionTyped DEF RedeemInv, TakerHasInk
  <1>3. /\ UNCHANGED <<faucet, invite, flight, serving, game, depositing, timeouts, faults>>
        /\ UNCHANGED codes
    BY DEF CreatePlayer, ReceiveInk, RespondPlayer, ledger, bounds, serving
  <1>4. ASSUME NEW s \in Submission, s.i = t.i, sub' = [sub EXCEPT ![p][n] = s], Holds(p, s),
               Taken(s) => Taken(t),
               s.pc = "done" => timeouts # 0 \/ faults # 0, s.pc # "send"
        PROVE  InkIInv'
    <2>1. Holds(p, s)'
      BY <1>3, <1>4 DEF Holds, Taken
    <2>2. /\ invite' = invite /\ invite \in [Invite -> [owner : {"none", "key"} \cup Player, ink : Nat]]
          /\ game' = game /\ game \in [Player -> {"invitation", "waiting", "game"}]
          /\ faults' = faults /\ faults \in 0..MaxFaults
      BY <1>3 DEF TypeOK
    <2>3. t.pc # "done" /\ t.pc # "send" /\ (s.pc = "done" => timeouts # 0 \/ faults # 0)
      BY <1>1, <1>4
    <2> HIDE DEF InkIInv, At, Then
    <2>4. SubmissionMoves(p, n, s)
      BY <1>3, <1>4, <2>1, <2>2, <2>3 DEF SubmissionMoves
    <2> QED
      BY <1>1, <1>4, <2>4, SubmissionStep
  <1>5. CASE CreatePlayer(p, n)
    <2> DEFINE s == [t EXCEPT !.pc = "chown"]
    <2>1. /\ s \in Submission /\ s.i = t.i /\ s.pc = "chown" /\ ~Taken(s) /\ Holds(p, s)
          /\ sub' = [sub EXCEPT ![p][n] = s]
      BY <1>2, <1>5 DEF CreatePlayer, Submission, Holds, Taken
    <2> QED
      BY <1>4, <2>1
  <1>6. CASE ReceiveInk(p, n)
    <2> DEFINE s == [t EXCEPT !.pc = "delete", !.payload = 0, !.ink = @ + t.payload]
    <2>1. sub' = [sub EXCEPT ![p][n] = s]
      BY <1>6 DEF ReceiveInk
    <2>2. t.ink + t.payload = Grant /\ Taken(t) /\ ~t.named
      BY <1>2, <1>6 DEF ReceiveInk, Holds, Taken
    <2>3. /\ s \in Submission /\ s.i = t.i /\ s.pc = "delete" /\ s.payload = 0
          /\ s.ink = Grant /\ ~s.named
      BY <1>2, <2>2 DEF Submission
    <2>4. Holds(p, s)
      BY <1>2, <2>2, <2>3 DEF Holds, Taken
    <2> QED
      BY <1>4, <2>1, <2>2, <2>3, <2>4
  <1>7. CASE RespondPlayer(p, n)
    <2> DEFINE s == [t EXCEPT !.pc = IF Awaited(p, n) THEN "answered" ELSE "done"]
    <2>1. /\ s \in Submission /\ s.i = t.i /\ s.pc \in {"answered", "done"} /\ Taken(t) /\ Holds(p, s)
          /\ sub' = [sub EXCEPT ![p][n] = s]
      BY <1>2, <1>7 DEF RespondPlayer, Submission, Holds, Taken
    <2>2. s.pc = "done" => timeouts # 0 \/ faults # 0
      BY <1>1, <1>2 DEF Calm, CalmGames, Submission
    <2> QED
      BY <1>4, <2>1, <2>2
  <1> QED
    BY <1>5, <1>6, <1>7

\* The block that makes p the owner of an invite,
LEMMA OwnerBlock ==
    ASSUME TypeOK, NEW j \in Invite, NEW p \in Player, invite' = [invite EXCEPT ![j].owner = p]
    PROVE  /\ invite'[j].owner = p /\ invite'[j].ink = invite[j].ink
           /\ \A k \in Invite \ {j} : invite'[k] = invite[k]
           /\ invite' \in [Invite -> [owner : {"none", "key"} \cup Player, ink : Nat]]
  <1> DEFINE T == [owner : {"none", "key"} \cup Player, ink : Nat]
  <1>1. invite \in [Invite -> T] /\ invite[j] \in T
    BY DEF TypeOK
  <1> QED
    BY <1>1

\* and the one that sends its ink away.
LEMMA EmptyingBlock ==
    ASSUME TypeOK, NEW j \in Invite, invite' = [invite EXCEPT ![j].ink = 0]
    PROVE  /\ invite'[j].owner = invite[j].owner /\ invite'[j].ink = 0
           /\ \A k \in Invite \ {j} : invite'[k] = invite[k]
           /\ invite' \in [Invite -> [owner : {"none", "key"} \cup Player, ink : Nat]]
  <1> DEFINE T == [owner : {"none", "key"} \cup Player, ink : Nat]
  <1>1. invite \in [Invite -> T] /\ invite[j] \in T
    BY DEF TypeOK
  <1> QED
    BY <1>1

\* Only an invite whose key still owns it is taken over.
LEMMA TakeInviteInv ==
    ASSUME InkIInv, NEW p \in Player, NEW n \in 1..MaxTries, TakeInvite(p, n)
    PROVE  InkIInv'
  <1> USE DEF TakeInvite, At, Then
  <1>1. TypeOK /\ n \in DOMAIN sub[p] /\ sub[p][n].pc = "chown"
    BY DEF InkIInv
  <1>2. PICK t \in Submission : t = sub[p][n]
    BY <1>1, SubmissionTyped
  <1>3. /\ t.i \in Invite /\ t.i \in codes /\ ~t.named /\ t.payload = 0 /\ t.ink = 0
    BY <1>1, <1>2, SubmissionTyped DEF InkIInv, RedeemInv, TakerHasInk, Holds
  <1>4. PICK s \in Submission : s = [t EXCEPT !.pc = "send"]
    BY DEF Submission
  <1>5. /\ s.i = t.i /\ s.pc = "send" /\ ~s.named /\ s.payload = 0 /\ s.ink = 0
        /\ sub' = [sub EXCEPT ![p][n] = s]
    BY <1>2, <1>3, <1>4 DEF Submission
  <1>6. UNCHANGED <<faucet, flight, serving, codes, game, depositing, timeouts, faults>>
    BY DEF serving, bounds
  <1>7. /\ invite[t.i].owner = "key" /\ invite[t.i].ink = Grant
        /\ invite' = [invite EXCEPT ![t.i].owner = p]
    BY <1>2, <1>3 DEF InkIInv, ServingInv, CodeIsFunded
  <1>8. /\ invite'[t.i].owner = p /\ invite'[t.i].ink = Grant
        /\ \A j \in Invite \ {t.i} : invite'[j] = invite[j]
        /\ invite' \in [Invite -> [owner : {"none", "key"} \cup Player, ink : Nat]]
    <2> HIDE DEF TakeInvite, SendToPlayer, At, Then
    <2>1. t.i \in Invite
      BY <1>3
    <2>2. /\ invite'[t.i].owner = p /\ invite'[t.i].ink = invite[t.i].ink
          /\ \A j \in Invite \ {t.i} : invite'[j] = invite[j]
          /\ invite' \in [Invite -> [owner : {"none", "key"} \cup Player, ink : Nat]]
      BY <1>1, <1>7, <2>1, OwnerBlock
    <2> QED
      BY <1>7, <2>2
  <1>9. Holds(p, s)' /\ Taken(s)
    BY <1>3, <1>5, <1>6, <1>8 DEF Holds, Taken
  <1> QED
    <2> HIDE DEF TakeInvite, At, Then
    <2>1. /\ game' = game /\ game \in [Player -> {"invitation", "waiting", "game"}]
          /\ faults' = faults /\ faults \in 0..MaxFaults
      BY <1>1, <1>6 DEF TypeOK
    <2>2. /\ n \in DOMAIN sub[p] /\ sub[p][n].pc # "done" /\ s.i = sub[p][n].i
          /\ invite[s.i].owner = "key" /\ \A j \in Invite \ {s.i} : invite'[j] = invite[j]
      BY <1>1, <1>2, <1>5, <1>7, <1>8
    <2>3. SubmissionMoves(p, n, s)
      BY <1>5, <1>6, <1>8, <1>9, <2>1, <2>2 DEF SubmissionMoves
    <2> QED
      BY <2>2, <2>3, SubmissionStep

\* The owner of the invite takes all its ink.
LEMMA SendToPlayerInv ==
    ASSUME InkIInv, NEW p \in Player, NEW n \in 1..MaxTries, SendToPlayer(p, n)
    PROVE  InkIInv'
  <1> USE DEF SendToPlayer, At
  <1>1. TypeOK /\ n \in DOMAIN sub[p] /\ sub[p][n].pc = "send"
    BY DEF InkIInv
  <1>2. PICK t \in Submission : t = sub[p][n]
    BY <1>1, SubmissionTyped
  <1>3. /\ t.i \in Invite /\ t.i \in codes /\ ~t.named /\ t.payload = 0 /\ t.ink = 0
        /\ invite[t.i].ink = Grant /\ invite[t.i].owner = p /\ Taken(t)
    BY <1>1, <1>2, SubmissionTyped DEF InkIInv, RedeemInv, TakerHasInk, Holds, Taken
  <1>4. PICK s \in Submission : s = [t EXCEPT !.pc = "receive", !.payload = invite[t.i].ink]
    BY <1>3 DEF Submission
  <1>5. /\ s.i = t.i /\ s.pc = "receive" /\ ~s.named /\ s.payload = Grant /\ s.ink = 0
        /\ sub' = [sub EXCEPT ![p][n] = s]
    BY <1>2, <1>3, <1>4 DEF Submission
  <1>6. UNCHANGED <<faucet, flight, serving, codes, game, depositing, timeouts, faults>>
    BY DEF serving, bounds
  <1>7. invite' = [invite EXCEPT ![t.i].ink = 0]
    BY <1>2
  <1>8. /\ invite'[t.i].owner = p /\ invite'[t.i].ink = 0
        /\ \A j \in Invite \ {t.i} : invite'[j] = invite[j]
        /\ invite' \in [Invite -> [owner : {"none", "key"} \cup Player, ink : Nat]]
    <2> HIDE DEF TakeInvite, SendToPlayer, At, Then
    <2>1. t.i \in Invite /\ invite[t.i].owner = p
      BY <1>3
    <2> QED
      BY <1>1, <1>7, <2>1, EmptyingBlock
  <1>9. Holds(p, s)' /\ Taken(s)
    BY <1>3, <1>5, <1>6, <1>8 DEF Holds, Taken
  <1> QED
    <2> HIDE DEF SendToPlayer, At
    <2>1. /\ game' = game /\ game \in [Player -> {"invitation", "waiting", "game"}]
          /\ faults' = faults /\ faults \in 0..MaxFaults
      BY <1>1, <1>6 DEF TypeOK
    <2>2. /\ n \in DOMAIN sub[p] /\ sub[p][n].pc # "done" /\ s.i = sub[p][n].i
          /\ Taken(sub[p][n]) /\ \A j \in Invite \ {s.i} : invite'[j] = invite[j]
      BY <1>1, <1>2, <1>3, <1>5, <1>8
    <2>3. SubmissionMoves(p, n, s)
      BY <1>5, <1>6, <1>8, <1>9, <2>1, <2>2 DEF SubmissionMoves
    <2> QED
      BY <2>2, <2>3, SubmissionStep

\* The tree that gets the player data holds the grant.
LEMMA EnterGameInv ==
    ASSUME InkIInv, NEW p \in Player, NEW n \in 1..MaxTries, EnterGame(p, n)
    PROVE  InkIInv'
  <1> USE DEF EnterGame, At
  <1>1. TypeOK /\ n \in DOMAIN sub[p] /\ sub[p][n].pc = "answered"
    BY DEF InkIInv
  <1>2. PICK t \in Submission : t = sub[p][n]
    BY <1>1, SubmissionTyped
  <1>3. /\ t.i \in Invite /\ t.i \in codes /\ t.payload = 0 /\ t.ink = Grant
        /\ invite[t.i].owner = p /\ Taken(t)
    BY <1>1, <1>2, SubmissionTyped DEF InkIInv, RedeemInv, TakerHasInk, Holds, Taken
  <1>4. PICK s \in Submission : s = [t EXCEPT !.pc = "done", !.named = TRUE]
    BY DEF Submission
  <1>5. /\ s.i = t.i /\ s.pc = "done" /\ s.named /\ s.payload = 0 /\ s.ink = Grant
        /\ sub' = [sub EXCEPT ![p][n] = s]
    BY <1>2, <1>3, <1>4 DEF Submission
  <1>6. UNCHANGED <<faucet, invite, flight, serving, codes, depositing, timeouts, faults>>
    BY DEF serving, bounds, ledger
  <1>7. /\ game' \in [Player -> {"invitation", "waiting", "game"}]
        /\ \A q \in Player \ {p} : game'[q] = game[q]
    BY <1>1 DEF TypeOK
  <1>8. Holds(p, s)'
    BY <1>3, <1>5, <1>6 DEF Holds, Taken
  <1> QED
    <2> HIDE DEF EnterGame, At
    <2>1. /\ invite' = invite /\ faults' = faults /\ faults \in 0..MaxFaults
          /\ invite \in [Invite -> [owner : {"none", "key"} \cup Player, ink : Nat]]
      BY <1>1, <1>6 DEF TypeOK
    <2>2. /\ n \in DOMAIN sub[p] /\ sub[p][n].pc = "answered" /\ s.i = sub[p][n].i
          /\ Taken(sub[p][n])
      BY <1>1, <1>2, <1>3, <1>5
    <2>3. SubmissionMoves(p, n, s)
      BY <1>5, <1>6, <1>7, <1>8, <2>1, <2>2 DEF SubmissionMoves
    <2> QED
      BY <2>2, <2>3, SubmissionStep

\* The race for an invite is lost, or a call fails while the invite is redeemed.
LEMMA FailInv ==
    ASSUME InkIInv, NEW p \in Player, NEW n \in DOMAIN sub[p], sub[p][n].pc # "done", Fail(p, n),
           UNCHANGED <<ledger, serving, codes, depositing, timeouts>>,
           faults' \in 0..MaxFaults,
           (sub[p][n].pc = "chown" /\ faults' = faults) \/ faults' # 0
    PROVE  InkIInv'
  <1>1. TypeOK
    BY DEF InkIInv
  <1>2. PICK t \in Submission : t = sub[p][n]
    BY <1>1, SubmissionTyped
  <1>3. /\ t.i \in Invite /\ t.i \in codes /\ ~t.named
        /\ t.pc = "chown" => t.payload = 0 /\ t.ink = 0
    BY <1>1, <1>2, SubmissionTyped DEF InkIInv, RedeemInv, TakerHasInk, Holds
  <1>4. PICK s \in Submission : s = [t EXCEPT !.pc = "done"]
    BY DEF Submission
  <1>5. /\ s.i = t.i /\ s.pc = "done" /\ ~s.named
        /\ s.payload = t.payload /\ s.ink = t.ink
        /\ sub' = [sub EXCEPT ![p][n] = s]
    BY <1>2, <1>3, <1>4 DEF Submission, Fail, Then
  <1>6. UNCHANGED <<faucet, invite, flight>>
    BY DEF ledger
  <1>7. /\ game' \in [Player -> {"invitation", "waiting", "game"}]
        /\ \A q \in Player \ {p} : game'[q] = game[q]
        /\ game'[p] = "game" => game[p] = "game"
    BY <1>1 DEF TypeOK, Fail
  <1>8. Holds(p, s)' /\ ~Taken(s)
    BY <1>3, <1>5 DEF Holds, Taken
  <1>9. timeouts = 0 /\ faults' = 0 => s.payload = 0 /\ s.ink = 0 /\ t.pc # "send"
    BY <1>2, <1>3, <1>5
  <1>10. faults' = faults \/ faults' # 0
    OBVIOUS
  <1>11. /\ invite' \in [Invite -> [owner : {"none", "key"} \cup Player, ink : Nat]]
         /\ \A j \in Invite \ {s.i} : invite'[j] = invite[j]
    BY <1>1, <1>6 DEF TypeOK
  <1>12. ~(s.ink > 0) \/ s.ink # 0
    OBVIOUS
  <1>13. SubmissionMoves(p, n, s)
    BY <1>2, <1>5, <1>6, <1>7, <1>8, <1>9, <1>10, <1>11, <1>12 DEF SubmissionMoves
  <1> QED
    BY <1>13, SubmissionStep

\* The game gives up, its submission does not.
LEMMA InviteTimeoutInv ==
    ASSUME InkIInv, NEW p \in Player, InviteTimeout(p)
    PROVE  InkIInv'
  <1> USE DEF InkIInv, InviteTimeout
  <1>1. TypeOK'
    BY DEF TypeOK, ledger, serving, depositing
  <1>2. ServingInv'
    BY ServingFrame DEF ledger, ServingInv, UnaskedIsNew, TypeOK
  <1>3. UNCHANGED <<sub, invite, codes>>
    BY DEF ledger, serving
  <1>4. TakerHasInk' /\ OneTaker'
    BY <1>3 DEF RedeemInv, TakerHasInk, OneTaker, Holds, Taken
  <1>5. GameIsNamed'
    BY <1>3 DEF RedeemInv, GameIsNamed, TypeOK
  <1>6. timeouts' # 0
    BY DEF TypeOK
  <1>7. Calm'
    BY <1>6 DEF Calm, CalmFlight, CalmInvites, CalmGames
  <1> QED
    BY <1>1, <1>2, <1>4, <1>5, <1>7 DEF RedeemInv

\* A failing call strands ink at most.
LEMMA CallFailsInv ==
    ASSUME InkIInv, CallFails
    PROVE  InkIInv'
  <1> USE DEF InkIInv
  <1>1. faults' \in 0..MaxFaults /\ faults' # 0
    BY DEF CallFails, TypeOK
  <1>2. CASE service.pc = "receive" /\ service' = Idle /\ UNCHANGED players
    <2> USE DEF CallFails, ServingInv
    <2>1. TypeOK'
      BY <1>1, <1>2 DEF TypeOK, ledger, players, depositing, Idle
    <2>2. UNCHANGED <<faucet, invite, flight, codes, inkBox, inkActor, late>>
      BY DEF ledger
    <2>3. FaucetCovers' /\ RequestsOnce' /\ \A j : Pending(j)' = Pending(j)
      BY <2>2 DEF FaucetCovers, RequestsOnce, Pending, Queued
    <2>4. PendingIsAsked' /\ UnaskedIsNew' /\ ReceivesGrant' /\ CodeIsFunded'
      BY <1>2, <2>2, <2>3 DEF PendingIsAsked, UnaskedIsNew, ReceivesGrant, CodeIsFunded, Idle
    <2>5. RedeemInv'
      BY <1>2, <2>2, RedeemFrame
    <2>6. Calm'
      BY <1>1 DEF Calm, CalmFlight, CalmInvites, CalmGames
    <2> QED
      BY <2>1, <2>3, <2>4, <2>5, <2>6
  <1>3. CASE /\ \E p \in Player : \E n \in DOMAIN sub[p] : sub[p][n].pc # "done" /\ Fail(p, n)
             /\ UNCHANGED service
    <2>0. PICK p \in Player : \E n \in DOMAIN sub[p] : sub[p][n].pc # "done" /\ Fail(p, n)
      BY <1>3
    <2>1. PICK n \in DOMAIN sub[p] : sub[p][n].pc # "done" /\ Fail(p, n)
      BY <2>0
    <2>2. UNCHANGED <<ledger, serving, codes, depositing, timeouts>>
      BY <1>3 DEF CallFails, serving
    <2> QED
      BY <1>1, <2>1, <2>2, FailInv
  <1> QED
    BY <1>2, <1>3 DEF CallFails

-----------------------------------------------------------------------------
\* The invariant holds initially,
LEMMA InitInkIInv == Init => InkIInv
  <1> SUFFICES ASSUME Init PROVE InkIInv
    OBVIOUS
  <1> USE DEF Init, Idle, NoDeposit
  <1>1. TypeOK
    BY DEF TypeOK
  <1>2. ServingInv
    BY DEF ServingInv, FaucetCovers, RequestsOnce, PendingIsAsked, UnaskedIsNew, ReceivesGrant,
           CodeIsFunded, Pending, Queued
  <1>3. RedeemInv /\ Calm
    BY DEF RedeemInv, TakerHasInk, OneTaker, GameIsNamed, Calm, CalmFlight, CalmInvites, CalmGames
  <1> QED
    BY <1>1, <1>2, <1>3 DEF InkIInv

\* and every step keeps it.
LEMMA NextInkIInv == InkIInv /\ [Next]_vars => InkIInv'
  <1> SUFFICES ASSUME InkIInv, [Next]_vars PROVE InkIInv'
    OBVIOUS
  <1>1. ASSUME NEW i \in Invite, RequestInvite(i) PROVE InkIInv'
    BY <1>1, RequestInviteInv
  <1>2. CASE ReceiveOnInvite
    BY <1>2, ReceiveOnInviteInv
  <1>3. CASE InkTimeout
    BY <1>3, InkTimeoutInv
  <1>4. CASE TakeInkRequest
    BY <1>4, TakeInkRequestInv
  <1>5. CASE SendInk
    BY <1>5, SendInkInv
  <1>6. CASE RefuseInk
    BY <1>6, RefuseInkInv
  <1>7. CASE DepositInk \/ \E n \in Deposit : FetchFaucet(n)
    BY <1>7, DepositorInv
  <1>8. ASSUME NEW p \in Player, NEW n \in 1..MaxTries, Redeem(p, n) PROVE InkIInv'
    <2>1. CASE CreatePlayer(p, n) \/ ReceiveInk(p, n) \/ RespondPlayer(p, n)
      BY <2>1, QuietRedeemInv
    <2>2. CASE TakeInvite(p, n)
      BY <2>2, TakeInviteInv
    <2>3. CASE SendToPlayer(p, n)
      BY <2>3, SendToPlayerInv
    <2>4. CASE EnterGame(p, n)
      BY <2>4, EnterGameInv
    <2>5. CASE InviteTaken(p, n)
      <3>1. /\ n \in DOMAIN sub[p] /\ sub[p][n].pc = "chown" /\ Fail(p, n)
            /\ UNCHANGED <<ledger, serving, codes, depositing, timeouts, faults>>
        BY <2>5 DEF InviteTaken, At, bounds, serving
      <3>2. faults' \in 0..MaxFaults
        BY <3>1 DEF InkIInv, TypeOK
      <3> QED
        BY <3>1, <3>2, FailInv
    <2> QED
      BY <1>8, <2>1, <2>2, <2>3, <2>4, <2>5 DEF Redeem
  <1>9. ASSUME NEW p \in Player, InviteTimeout(p) PROVE InkIInv'
    BY <1>9, InviteTimeoutInv
  <1>10. ASSUME NEW p \in Player, NEW i \in Invite, SubmitInvite(p, i) PROVE InkIInv'
    BY <1>10, SubmitInviteInv
  <1>11. CASE CallFails
    BY <1>11, CallFailsInv
  <1>12. CASE UNCHANGED vars
    <2> USE <1>12 DEF vars, ledger, serving, players, depositing, bounds, InkIInv
    <2>1. TypeOK'
      BY DEF TypeOK
    <2>2. ServingInv'
      BY ServingFrame DEF ServingInv, UnaskedIsNew, TypeOK
    <2>3. RedeemInv'
      BY RedeemFrame
    <2>4. Calm'
      BY CalmFrame DEF Calm, CalmFlight
    <2> QED
      BY <2>1, <2>2, <2>3, <2>4
  <1> QED
    BY <1>1, <1>2, <1>3, <1>4, <1>5, <1>6, <1>7, <1>8, <1>9, <1>10, <1>11, <1>12
    DEF Next, Service

\* The inductive invariant holds in every reachable state.
THEOREM InkInductive == Spec => []InkIInv
  BY InitInkIInv, NextInkIInv, PTL DEF Spec

\* A game that left invitation mode has a player tree with the ink of an invite, and
\* no invite brings two players in, however many submissions the handlers are at.
THEOREM InkInvariant == Spec => []InkInv
  <1>1. InkIInv => InkInv
    <2> SUFFICES ASSUME InkIInv PROVE GameHasInk
      BY DEF InkInv, InkIInv
    <2> USE DEF InkIInv, RedeemInv
    <2>1. \A p \in Player : \A n \in DOMAIN sub[p] :
             sub[p][n].named => sub[p][n].ink = Grant /\ invite[sub[p][n].i].owner = p
      BY DEF TakerHasInk, Holds, Taken
    <2> QED
      BY <2>1 DEF GameHasInk, GameIsNamed
  <1> QED
    BY <1>1, InkInductive, PTL

\* A code that was given out and not yet used is worth exactly the grant, whatever
\* timeouts, refused blocks, deposits and failed submissions came before.
THEOREM CodesAreFunded == Spec => []CodeIsFunded
  BY InkInductive, PTL DEF InkIInv, ServingInv

\* In a run without timeouts and failing calls, ink between two trees is held by an
\* actor that is about to bring it to the next one.
THEOREM NoInkIsStranded == Spec => []NoInkStranded
  <1>1. InkIInv => NoInkStranded
    <2> SUFFICES ASSUME InkIInv, timeouts = 0, faults = 0
                 PROVE  NoInkStranded
      BY DEF NoInkStranded
    <2> USE DEF InkIInv, Calm
    <2>1. ASSUME NEW i \in Invite, flight[i] > 0 PROVE service = [pc |-> "receive", i |-> i]
      BY <2>1 DEF CalmFlight, TypeOK
    <2>2. ASSUME NEW p \in Player, NEW n \in DOMAIN sub[p]
          PROVE  /\ sub[p][n].payload > 0 => At(p, n, "receive")
                 /\ sub[p][n].ink > 0 /\ ~sub[p][n].named => Awaited(p, n)
      <3>1. Holds(p, sub[p][n]) /\ sub[p][n] \in Submission
        BY SubmissionTyped DEF RedeemInv, TakerHasInk
      <3>2. sub[p][n].payload > 0 => sub[p][n].pc = "receive"
        BY <3>1 DEF Holds, Submission, CalmGames
      <3>3. sub[p][n].ink > 0 /\ ~sub[p][n].named => Awaited(p, n)
        BY DEF CalmGames
      <3> QED
        BY <3>2, <3>3 DEF At
    <2> QED
      BY <2>1, <2>2 DEF CalmInvites, NoInkStranded
  <1> QED
    BY <1>1, InkInductive, PTL
=============================================================================
