----------------------------- MODULE InkInvites -----------------------------
(***************************************************************************)
(* How ink reaches a player.  The ink faucet service runs an InkActor,     *)
(* which sends ink from the faucet's tree, and an InvitesActor, which puts *)
(* ink on a new tree whose key is the invite code.  A game in invitation   *)
(* mode gives a code to an InvitesActor of its own, which makes the        *)
(* player's tree, takes the invite's tree over and moves its ink.          *)
(*                                                                         *)
(* Ink moves in two blocks on two trees: SendInk takes it from the sender  *)
(* and yields a token payload, ReceiveInk adds it to the receiver.  In     *)
(* between only an actor's memory knows of it.  Actors handle one message  *)
(* at a time, and those who ask them give up after a while: the service    *)
(* waits 30 seconds for ink, the game 10 seconds for the invite.           *)
(***************************************************************************)
EXTENDS Naturals, Sequences, FiniteSets

CONSTANTS
    Invite,       \* invites that may be requested
    Player,       \* games in invitation mode
    Grant,        \* inviteInkAmount
    Deposit,      \* amounts that may be deposited on the faucet
    Supply,       \* the ink of the faucet at the start
    Nil,
    MaxTries,     \* bound on the codes a player enters
    MaxTimeouts,  \* bound on requests that are given up
    MaxFaults     \* bound on calls to the network that fail

ASSUME InkAssumption ==
    /\ Grant \in Nat \ {0} /\ Supply \in Nat /\ Deposit \subseteq Nat
    /\ Nil \notin Invite \cup Player /\ Invite \cap Player = {}
    /\ {"none", "key"} \cap Player = {}
    /\ MaxTries \in Nat /\ MaxTimeouts \in Nat /\ MaxFaults \in Nat

VARIABLES
    faucet,    \* the faucet's tree: ink and number of blocks
    invite,    \* [Invite -> owner and ink of its tree]
    codes,     \* the invites whose code was given out
    flight,    \* [Invite -> ink sent to its tree and not received]
    inkBox,    \* the mailbox of the InkActor
    inkActor,  \* what the InkActor is at
    service,   \* what the service's InvitesActor is at
    late,      \* answers of the InkActor that nobody waits for any more
    sub,       \* [Player -> its submissions, each handled by an InvitesActor of its own]
    game,      \* [Player -> "invitation", "waiting" or "game"]
    deposits,  \* the deposits that are still to be made
    depositor, \* what the depositor is at
    timeouts, faults

ledger == <<faucet, invite, flight>>
serving == <<codes, inkBox, inkActor, service, late>>
players == <<sub, game>>
depositing == <<deposits, depositor>>
bounds == <<timeouts, faults>>
vars == <<ledger, serving, players, depositing, bounds>>

\* A submission: where its handler is, its invite, the token payload the handler
\* holds, the ink on the player tree it made, and whether that has player data.
NewSub(i) == [pc |-> "create", i |-> i, payload |-> 0, ink |-> 0, named |-> FALSE]
Idle == [pc |-> "idle", i |-> Nil]
NoDeposit == [pc |-> "idle", n |-> 0, blocks |-> 0]

Init ==
    /\ faucet = [ink |-> Supply, blocks |-> 0]
    /\ invite = [i \in Invite |-> [owner |-> "none", ink |-> 0]]
    /\ codes = {}
    /\ flight = [i \in Invite |-> 0]
    /\ inkBox = <<>>
    /\ inkActor = [pc |-> "idle", i |-> Nil, blocks |-> 0]
    /\ service = Idle
    /\ late = {}
    /\ sub = [p \in Player |-> <<>>]
    /\ game = [p \in Player |-> "invitation"]
    /\ deposits = Deposit /\ depositor = NoDeposit
    /\ timeouts = 0 /\ faults = 0

---------------------------------------------------------------------------
(* The service's InvitesActor: handleInviteRequest *)

\* An invite is requested: a key, a tree, and a request for ink.
RequestInvite(i) ==
    /\ service.pc = "idle"
    /\ invite[i].owner = "none"
    /\ invite' = [invite EXCEPT ![i].owner = "key"]
    /\ inkBox' = Append(inkBox, i)
    /\ service' = [pc |-> "ask", i |-> i]
    /\ UNCHANGED <<faucet, flight, codes, inkActor, late, players, depositing, bounds>>

\* ReceiveInkOnEphemeralChainTree, then the code is given out.
ReceiveOnInvite ==
    /\ service.pc = "receive"
    /\ invite' = [invite EXCEPT ![service.i].ink = @ + flight[service.i]]
    /\ flight' = [flight EXCEPT ![service.i] = 0]
    /\ codes' = codes \cup {service.i}
    /\ service' = Idle
    /\ UNCHANGED <<faucet, inkBox, inkActor, late, players, depositing, bounds>>

\* The 30 seconds are over; the answer will find nobody.
InkTimeout ==
    /\ service.pc = "ask"
    /\ timeouts < MaxTimeouts
    /\ timeouts' = timeouts + 1
    /\ late' = late \cup {service.i}
    /\ service' = Idle
    /\ UNCHANGED <<ledger, codes, inkBox, inkActor, players, depositing, faults>>

---------------------------------------------------------------------------
(* The InkActor: RequestInk *)

\* It fetches the faucet's tree and looks at the balance.
TakeInkRequest ==
    /\ inkActor.pc = "idle"
    /\ inkBox # <<>>
    /\ inkBox' = Tail(inkBox)
    /\ inkActor' = [pc |-> IF faucet.ink < Grant THEN "refuse" ELSE "send",
                    i |-> Head(inkBox), blocks |-> faucet.blocks]
    /\ UNCHANGED <<ledger, codes, service, late, players, depositing, bounds>>

\* The answer goes to the service if it still waits for it.  An answer without
\* a payload makes the receiving transaction fail.
Answer(pc) ==
    /\ inkActor' = [pc |-> "idle", i |-> Nil, blocks |-> 0]
    /\ IF inkActor.i \in late THEN /\ late' = late \ {inkActor.i} /\ UNCHANGED service
                              ELSE /\ service' = [service EXCEPT !.pc = pc]
                                   /\ UNCHANGED late

SendInk ==
    /\ inkActor.pc = "send"
    /\ inkActor.blocks = faucet.blocks
    /\ faucet' = [ink |-> faucet.ink - Grant, blocks |-> faucet.blocks + 1]
    /\ flight' = [flight EXCEPT ![inkActor.i] = @ + Grant]
    /\ Answer("receive")
    /\ UNCHANGED <<invite, codes, inkBox, players, depositing, bounds>>

\* Mutant: the empty payload of an error answer is taken for a received one.
RefuseUnnoticed ==
    /\ \/ inkActor.pc = "refuse"
       \/ inkActor.pc = "send" /\ inkActor.blocks # faucet.blocks
    /\ Answer("receive")
    /\ UNCHANGED <<ledger, codes, inkBox, players, depositing, bounds>>

\* There is too little ink, or a deposit came first and the block is refused.
RefuseInk ==
    /\ \/ inkActor.pc = "refuse"
       \/ inkActor.pc = "send" /\ inkActor.blocks # faucet.blocks
    /\ Answer("idle")
    /\ UNCHANGED <<ledger, codes, inkBox, players, depositing, bounds>>

\* Another process deposits ink on the faucet.  DepositInk fetches the faucet's
\* tree and receives the payload on it, which is refused when the InkActor's
\* block came first; Deposit reports success either way.
FetchFaucet(n) ==
    /\ depositor.pc = "idle"
    /\ n \in deposits
    /\ deposits' = deposits \ {n}
    /\ depositor' = [pc |-> "receive", n |-> n, blocks |-> faucet.blocks]
    /\ UNCHANGED <<ledger, serving, players, bounds>>

DepositInk ==
    /\ depositor.pc = "receive"
    /\ faucet' = IF depositor.blocks = faucet.blocks
                 THEN [ink |-> faucet.ink + depositor.n, blocks |-> faucet.blocks + 1]
                 ELSE faucet
    /\ depositor' = NoDeposit
    /\ UNCHANGED <<invite, flight, serving, players, deposits, bounds>>

---------------------------------------------------------------------------
(* A game in invitation mode and its InvitesActors: handleInviteSubmission *)

\* The player enters a code.  A game that gave an earlier submission up was
\* restarted with a new InvitesActor, and the old one may still be at work.
SubmitInvite(p, i) ==
    /\ game[p] = "invitation"
    /\ i \in codes
    /\ Len(sub[p]) < MaxTries
    /\ sub' = [sub EXCEPT ![p] = Append(@, NewSub(i))]
    /\ game' = [game EXCEPT ![p] = "waiting"]
    /\ UNCHANGED <<ledger, serving, depositing, bounds>>

Awaited(p, n) == game[p] = "waiting" /\ n = Len(sub[p])
At(p, n, pc) == n \in DOMAIN sub[p] /\ sub[p][n].pc = pc
Then(p, n, pc) == sub' = [sub EXCEPT ![p][n].pc = pc]

\* CreateLocalChainTree("player"): a new tree takes the name.
CreatePlayer(p, n) ==
    /\ At(p, n, "create")
    /\ Then(p, n, "chown")
    /\ UNCHANGED <<ledger, serving, game, depositing, bounds>>

\* ChangeChainTreeOwnerWithKey: the invite's key must still own its tree.
TakeInvite(p, n) ==
    /\ At(p, n, "chown")
    /\ LET i == sub[p][n].i
       IN  /\ invite[i].owner = "key"
           /\ invite' = [invite EXCEPT ![i].owner = p]
    /\ Then(p, n, "send")
    /\ UNCHANGED <<faucet, flight, serving, game, depositing, bounds>>

\* SendInk of the whole balance.
SendToPlayer(p, n) ==
    /\ At(p, n, "send")
    /\ LET s == sub[p][n]
       IN  /\ invite' = [invite EXCEPT ![s.i].ink = 0]
           /\ sub' = [sub EXCEPT ![p][n] = [s EXCEPT !.pc = "receive", !.payload = invite[s.i].ink]]
    /\ UNCHANGED <<faucet, flight, serving, game, depositing, bounds>>

\* Mutant: the payload is not received before the invite is deleted.
ForgetPayload(p, n) ==
    /\ At(p, n, "receive")
    /\ Then(p, n, "delete")
    /\ UNCHANGED <<ledger, serving, game, depositing, bounds>>

ReceiveInk(p, n) ==
    /\ At(p, n, "receive")
    /\ LET s == sub[p][n] IN
       sub' = [sub EXCEPT ![p][n] = [s EXCEPT !.pc = "delete", !.payload = 0, !.ink = @ + s.payload]]
    /\ UNCHANGED <<ledger, serving, game, depositing, bounds>>

\* DeleteTree forgets the invite's tree locally, then the answer is sent.
RespondPlayer(p, n) ==
    /\ At(p, n, "delete")
    /\ Then(p, n, IF Awaited(p, n) THEN "answered" ELSE "done")
    /\ UNCHANGED <<ledger, serving, game, depositing, bounds>>

\* The game gives the tree its player data and becomes a game.
EnterGame(p, n) ==
    /\ At(p, n, "answered")
    /\ game' = [game EXCEPT ![p] = "game"]
    /\ sub' = [sub EXCEPT ![p][n] = [sub[p][n] EXCEPT !.pc = "done", !.named = TRUE]]
    /\ UNCHANGED <<ledger, serving, depositing, bounds>>

\* Mutant: an error path returns without an answer.
FailSilently(p, n) ==
    /\ Then(p, n, "done")
    /\ UNCHANGED game

\* The submission fails: if the game still waits for it, it panics and is
\* restarted in invitation mode.
Fail(p, n) ==
    /\ Then(p, n, "done")
    /\ game' = IF Awaited(p, n) THEN [game EXCEPT ![p] = "invitation"] ELSE game

\* Mutant: the error of the ownership change is not looked at.
TakenAnyway(p, n) ==
    /\ At(p, n, "chown")
    /\ invite[sub[p][n].i].owner # "key"
    /\ Then(p, n, "send")
    /\ UNCHANGED <<ledger, serving, game, depositing, bounds>>

\* Another submission was faster.
InviteTaken(p, n) ==
    /\ At(p, n, "chown")
    /\ invite[sub[p][n].i].owner # "key"
    /\ Fail(p, n)
    /\ UNCHANGED <<ledger, serving, depositing, bounds>>

\* The 10 seconds are over: the game panics while its InvitesActor goes on.
InviteTimeout(p) ==
    /\ game[p] = "waiting" /\ sub[p][Len(sub[p])].pc # "answered"
    /\ timeouts < MaxTimeouts
    /\ timeouts' = timeouts + 1
    /\ game' = [game EXCEPT ![p] = "invitation"]
    /\ UNCHANGED <<ledger, serving, sub, depositing, faults>>

---------------------------------------------------------------------------
\* A call to the network fails, in the service or while an invite is redeemed.
CallFails ==
    /\ faults < MaxFaults
    /\ faults' = faults + 1
    /\ \/ /\ service.pc = "receive"
          /\ service' = Idle
          /\ UNCHANGED players
       \/ /\ \E p \in Player : \E n \in DOMAIN sub[p] : sub[p][n].pc # "done" /\ Fail(p, n)
          /\ UNCHANGED service
    /\ UNCHANGED <<ledger, codes, inkBox, inkActor, late, depositing, timeouts>>

Service == ReceiveOnInvite \/ TakeInkRequest \/ SendInk \/ RefuseInk

Redeem(p, n) ==
    \/ CreatePlayer(p, n) \/ TakeInvite(p, n) \/ SendToPlayer(p, n) \/ ReceiveInk(p, n)
    \/ RespondPlayer(p, n) \/ EnterGame(p, n) \/ InviteTaken(p, n)

Next ==
    \/ \E i \in Invite : RequestInvite(i)
    \/ Service \/ InkTimeout
    \/ (\E n \in Deposit : FetchFaucet(n)) \/ DepositInk
    \/ \E p \in Player, n \in 1..MaxTries : Redeem(p, n)
    \/ \E p \in Player : InviteTimeout(p) \/ \E i \in Invite : SubmitInvite(p, i)
    \/ CallFails

Spec == Init /\ [][Next]_vars

\* Actors run; nothing makes a player enter a code or an operator ask for one.
FairSpec ==
    /\ Spec
    /\ WF_vars(Service)
    /\ \A p \in Player, n \in 1..MaxTries : WF_vars(Redeem(p, n))

---------------------------------------------------------------------------
Submission == [pc : {"create", "chown", "send", "receive", "delete", "answered", "done"},
               i : Invite, payload : Nat, ink : Nat, named : BOOLEAN]

(* Types; a handler is at one statement. *)
TypeOK ==
    /\ faucet \in [ink : Nat, blocks : Nat]
    /\ invite \in [Invite -> [owner : {"none", "key"} \cup Player, ink : Nat]]
    /\ codes \subseteq Invite /\ late \subseteq Invite
    /\ flight \in [Invite -> Nat]
    /\ inkBox \in Seq(Invite)
    /\ inkActor \in [pc : {"idle", "send", "refuse"}, i : Invite \cup {Nil}, blocks : Nat]
    /\ service \in [pc : {"idle", "ask", "receive"}, i : Invite \cup {Nil}]
    /\ sub \in [Player -> Seq(Submission)]
    /\ game \in [Player -> {"invitation", "waiting", "game"}]
    /\ deposits \subseteq Deposit
    /\ depositor \in [pc : {"idle", "receive"}, n : Nat, blocks : Nat]
    /\ timeouts \in 0..MaxTimeouts /\ faults \in 0..MaxFaults

(* A code that was given out is worth its ink: as long as nobody has taken the
   invite over, its tree holds exactly the grant, also after submissions that
   failed before, so entering the code again works. *)
CodeIsFunded ==
    \A i \in codes : invite[i].owner = "key" => invite[i].ink = Grant

(* A game leaves invitation mode only on a player tree that holds the ink of an
   invite, whatever earlier submissions of the same game did or still do, and no
   invite brings two players into the game. *)
GameHasInk ==
    LET entered == {p \in Player : game[p] = "game"}
    IN  /\ \A p \in entered : \E n \in DOMAIN sub[p] : sub[p][n].named /\ sub[p][n].ink = Grant
        /\ \A p, q \in entered : \A m \in DOMAIN sub[p], n \in DOMAIN sub[q] :
              sub[p][m].named /\ sub[q][n].named /\ sub[p][m].i = sub[q][n].i => p = q

(* Types, and what a game has that left invitation mode. *)
InkInv == TypeOK /\ GameHasInk

(* Ink that has left one tree and not arrived on the other is held by an actor
   that is about to receive it, ink on an invite that a player took over by the
   actor that is about to send it, and ink on a player tree belongs to a game or
   to an answer on its way: as long as no call fails and nobody gives up, no ink
   is stranded by the orders in which codes are entered and ink is requested. *)
NoInkStranded ==
    timeouts = 0 /\ faults = 0 =>
        /\ \A i \in Invite :
              /\ flight[i] > 0 => service = [pc |-> "receive", i |-> i]
              /\ invite[i].ink > 0 /\ invite[i].owner \in Player =>
                    \E n \in DOMAIN sub[invite[i].owner] :
                        At(invite[i].owner, n, "send") /\ sub[invite[i].owner][n].i = i
        /\ \A p \in Player : \A n \in DOMAIN sub[p] :
              /\ sub[p][n].payload > 0 => At(p, n, "receive")
              /\ sub[p][n].ink > 0 /\ ~sub[p][n].named => Awaited(p, n)

(* A player who enters a code gets into the game or may enter one again, also
   when no timeout ends the wait: every path of the handler answers, and a race
   for an invite that was lost is answered too. *)
SubmissionEnds ==
    \A p \in Player : game[p] = "waiting" ~> game[p] # "waiting"
=============================================================================
