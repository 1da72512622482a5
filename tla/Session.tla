------------------------------- MODULE Session ------------------------------
(***************************************************************************)
(* A player's session on the game server: the calls of the browser, the    *)
(* UI actor that connects them with the game, the AuthenticatedSession     *)
(* actor and its child, which is a Login actor until the keyring holds a   *)
(* key and the Game afterwards.                                            *)
(*                                                                         *)
(* Calls run in goroutines of their own and share the map of sessions.     *)
(* Actors handle one message at a time; the UI actor waits inside a        *)
(* handler, for at most five seconds, for the answer of the child.  The    *)
(* five seconds of a SendCommand start before those of the UI actor that   *)
(* serves it, so they also end before.                                     *)
(***************************************************************************)
EXTENDS Naturals, Sequences, FiniteSets

CONSTANTS
    Stream,      \* calls of ReceiveUIMessages
    Command,     \* calls of SendCommand
    Nil,
    MaxKeys,     \* bound on the keys that signing up generates
    MaxChildren, \* bound on the children of the session
    MaxFaults    \* bound on failing calls and crashes of the server

ASSUME SessionAssumption ==
    /\ Stream \cap Command = {} /\ "update" \notin Command
    /\ Nil \notin Stream \cup Command \cup Nat \cup {"update"}
    /\ MaxKeys \in Nat /\ MaxChildren \in Nat \ {0} /\ MaxFaults \in Nat

Call == Stream \cup Command
OldKey == 0                     \* an account made earlier, on another machine
WrongKey == MaxKeys + 1         \* what a wrong phrase or email derives
Key == 0..MaxKeys

VARIABLES
    session,  \* GameServer.sessions has an entry for this session
    call,     \* [Call -> where the call is]
    broken,   \* streams whose browser has gone
    box,      \* the mailbox of the UI actor
    stream,   \* UIServer.stream
    done,     \* UIServer.doneChan: the call that waits on it
    game,     \* UIServer.game: the number of a child, 0 for nil
    waits,    \* what the UI actor is waiting for: Nil, "update" or a command
    auth,     \* AuthenticatedSession: "none", "initialize" or "running"
    child,    \* its child: [kind, id, box, email]
    keyring,  \* the key in the keyring, or Nil
    keys,     \* keys generated so far
    signups,  \* the keys the signup service has recorded
    shown,    \* the keys whose recovery phrase the player has seen
    account,  \* the keys that have a player tree
    faults

calls == <<session, call, broken>>
uivars == <<box, stream, done, game, waits>>
login == <<keyring, keys, signups, shown, account>>
vars == <<calls, uivars, auth, child, login, faults>>

ToUser == [type |-> "ToUser", arg |-> Nil]
NoChild(n) == [kind |-> "none", id |-> n, box |-> <<>>, email |-> Nil]

Init ==
    /\ session = FALSE
    /\ call = [c \in Call |-> "new"]
    /\ broken = {}
    /\ box = <<>> /\ stream = Nil /\ done = Nil /\ game = 0 /\ waits = Nil
    /\ auth = "none"
    /\ child = NoChild(0)
    /\ keyring = Nil /\ keys = 0 /\ signups = {OldKey} /\ shown = {OldKey}
    /\ account = {OldKey}
    /\ faults = 0

---------------------------------------------------------------------------
(* GameServer *)

\* What a call does once it has the UI actor.
Post(c) ==
    /\ box' = Append(box, [type |-> IF c \in Stream THEN "SetStream" ELSE "UserInput", arg |-> c])
    /\ call' = [call EXCEPT ![c] = IF c \in Stream THEN "posted" ELSE "wait"]

\* getOrCreateSession finds the session.
Lookup(c) ==
    /\ call[c] = "new"
    /\ session
    /\ Post(c)
    /\ UNCHANGED <<session, broken, stream, done, game, waits, auth, child, login, faults>>

\* It does not: the call will open the data store and spawn the actors.
LookupFails(c) ==
    /\ call[c] = "new"
    /\ ~session
    /\ call' = [call EXCEPT ![c] = "create"]
    /\ UNCHANGED <<session, broken, uivars, auth, child, login, faults>>

\* The UI actor starts with the stream of the call, which is nil for a command.
\* A second creator finds the data store locked and panics, and so does the
\* server.
CreateSession(c) ==
    /\ call[c] = "create"
    /\ ~session
    /\ session' = TRUE
    /\ stream' = IF c \in Stream THEN c ELSE Nil
    /\ Post(c)
    /\ auth' = "initialize"
    /\ UNCHANGED <<broken, done, game, waits, child, login, faults>>

\* A stream's call reaches its receive on the channel.
AwaitDone(c) ==
    /\ c \in Stream
    /\ call[c] = "posted"
    /\ call' = [call EXCEPT ![c] = "wait"]
    /\ UNCHANGED <<session, broken, uivars, auth, child, login, faults>>

\* The five seconds of a command are over.
CommandTimeout(c) ==
    /\ c \in Command
    /\ call[c] = "wait"
    /\ call' = [call EXCEPT ![c] = "ended"]
    /\ UNCHANGED <<session, broken, uivars, auth, child, login, faults>>

\* The browser closes a stream.
Disconnect(c) ==
    /\ c \in Stream \ broken
    /\ call[c] \in {"posted", "wait"}
    /\ broken' = broken \cup {c}
    /\ UNCHANGED <<session, call, uivars, auth, child, login, faults>>

\* The server goes down: a creator that lost the race, or a crash.  The key,
\* the signups and the trees stay.
GoDown ==
    /\ session' = FALSE
    /\ call' = [c \in Call |-> IF call[c] = "new" THEN "new" ELSE "ended"]
    /\ box' = <<>> /\ stream' = Nil /\ done' = Nil /\ game' = 0 /\ waits' = Nil
    /\ auth' = "none" /\ child' = NoChild(0)
    /\ UNCHANGED <<broken, login>>

CreateTwice(c) == call[c] = "create" /\ session /\ GoDown /\ UNCHANGED faults
Crash == session /\ faults < MaxFaults /\ faults' = faults + 1 /\ GoDown

---------------------------------------------------------------------------
(* UIServer *)

Gets(type) == waits = Nil /\ box # <<>> /\ Head(box).type = type

ToChild(m) == child' = IF game = child.id /\ child.kind \in {"login", "game"}
                       THEN [child EXCEPT !.box = Append(@, m)] ELSE child

\* sendDone: a call that is not at its receive yet misses the signal.
SendDone(from) == [c \in Call |-> IF c = from /\ call[c] = "wait" THEN "ended" ELSE call[c]]

\* Mutant: the signal is sent after the new channel is stored.
SetStreamFirst ==
    LET c == Head(box).arg
    IN  /\ Gets("SetStream")
        /\ call' = SendDone(c)
        /\ stream' = c /\ done' = c
        /\ box' = Tail(box)
        /\ waits' = IF game = 0 THEN Nil ELSE "update"
        /\ ToChild("update")
        /\ UNCHANGED <<session, broken, game, auth, login, faults>>

\* The previous stream is freed, then the game is asked for its commands.
SetStream ==
    LET c == Head(box).arg
    IN  /\ Gets("SetStream")
        /\ call' = SendDone(done)
        /\ stream' = c /\ done' = c
        /\ box' = Tail(box)
        /\ waits' = IF game = 0 THEN Nil ELSE "update"
        /\ ToChild("update")
        /\ UNCHANGED <<session, broken, game, auth, login, faults>>

\* No child answers a CommandUpdate: the UI actor waits its five seconds.
UpdateTimeout ==
    /\ waits = "update"
    /\ waits' = Nil
    /\ UNCHANGED <<calls, box, stream, done, game, auth, child, login, faults>>

SetGame ==
    /\ Gets("SetGame")
    /\ game' = Head(box).arg
    /\ box' = Tail(box)
    /\ UNCHANGED <<calls, stream, done, waits, auth, child, login, faults>>

\* A message for the user goes to the stream, or shows that it is broken.
MessageToUser ==
    /\ Gets("ToUser")
    /\ box' = Tail(box)
    /\ IF stream \in broken
       THEN stream' = Nil /\ call' = SendDone(done)
       ELSE UNCHANGED <<stream, call>>
    /\ UNCHANGED <<session, broken, done, game, waits, auth, child, login, faults>>

UserInput ==
    /\ Gets("UserInput")
    /\ box' = Tail(box)
    /\ IF game = 0 THEN UNCHANGED <<waits, child>>
       ELSE waits' = Head(box).arg /\ ToChild(Head(box).arg)
    /\ UNCHANGED <<calls, stream, done, game, auth, login, faults>>

\* The answer of the child is forwarded to the call ...
Answered(c) == call' = [call EXCEPT ![c] = IF call[c] = "wait" THEN "ended" ELSE @]

\* ... or it does not come, and the call has given up already.
InputTimeout ==
    /\ waits \in Command
    /\ call[waits] = "ended"
    /\ waits' = Nil
    /\ UNCHANGED <<calls, box, stream, done, game, auth, child, login, faults>>

---------------------------------------------------------------------------
(* AuthenticatedSession: Started, and Terminated of the child, initialize.  *)
(* FindOrCreatePassphraseTree("player") is taken as one step here.  The new  *)
(* child greets the player.                                                  *)

\* Mutant: the UI actor is not told of the new child.
InitializeQuietly ==
    /\ auth = "initialize"
    /\ child.id < MaxChildren
    /\ auth' = "running"
    /\ child' = [NoChild(child.id + 1) EXCEPT !.kind = IF keyring = Nil THEN "login" ELSE "game"]
    /\ box' = Append(box, ToUser)
    /\ account' = IF keyring = Nil THEN account ELSE account \cup {keyring}
    /\ UNCHANGED <<calls, stream, done, game, waits, keyring, keys, signups, shown, faults>>

Initialize ==
    /\ auth = "initialize"
    /\ child.id < MaxChildren
    /\ auth' = "running"
    /\ child' = [NoChild(child.id + 1) EXCEPT !.kind = IF keyring = Nil THEN "login" ELSE "game"]
    /\ box' = box \o <<[type |-> "SetGame", arg |-> child.id + 1], ToUser>>
    /\ account' = IF keyring = Nil THEN account ELSE account \cup {keyring}
    /\ UNCHANGED <<calls, stream, done, game, waits, keyring, keys, signups, shown, faults>>

\* Mutant: only a game that dies is replaced.
ForgetChild ==
    /\ auth = "running"
    /\ child.kind = "stopped"
    /\ child' = NoChild(child.id)
    /\ UNCHANGED <<calls, uivars, auth, login, faults>>

ChildTerminated ==
    /\ auth = "running"
    /\ child.kind = "stopped"
    /\ auth' = "initialize"
    /\ UNCHANGED <<calls, uivars, child, login, faults>>

---------------------------------------------------------------------------
(* The child *)

GetsChild(kind) == child.kind = kind /\ child.box # <<>>
Msg == Head(child.box)
Rest == [child EXCEPT !.box = Tail(@)]

\* The child answers the future the UI actor waits on, if it still does, and
\* posts messages for the user, one after the other.
Respond ==
    /\ box' = Append(box, ToUser)
    /\ IF Msg \in Command /\ waits = Msg
       THEN Answered(Msg) /\ waits' = Nil
       ELSE UNCHANGED <<call, waits>>
    /\ UNCHANGED <<session, broken, stream, done, game>>

\* "Key exists, no need to login": whatever the message is, the actor stops.
LoginStops ==
    /\ GetsChild("login")
    /\ keyring # Nil
    /\ child' = [child EXCEPT !.kind = "stopped", !.box = <<>>]
    /\ UNCHANGED <<calls, uivars, auth, login, faults>>

\* Mutant: the keyring is not looked at before a message is handled.
LoginAlways == GetsChild("login")

LoginGets == GetsChild("login") /\ keyring = Nil

LoginUpdate ==
    /\ LoginGets /\ Msg = "update"
    /\ child' = Rest
    /\ box' = Append(box, ToUser)
    /\ UNCHANGED <<calls, stream, done, game, waits, auth, login, faults>>

\* "sign up": a new key, the message to the signup service, the keyring, and
\* only then the recovery phrase.
SignUp ==
    /\ LoginGets /\ Msg \in Command
    /\ keys < MaxKeys
    /\ keys' = keys + 1
    /\ signups' = signups \cup {keys'}
    /\ keyring' = keys'
    /\ shown' = shown \cup {keys'}
    /\ child' = Rest
    /\ Respond
    /\ UNCHANGED <<auth, account, faults>>

\* Saving the key fails: the actor panics and is restarted with its mailbox.
SignUpFails ==
    /\ LoginGets /\ Msg \in Command
    /\ keys < MaxKeys /\ faults < MaxFaults
    /\ keys' = keys + 1
    /\ faults' = faults + 1
    /\ signups' = signups \cup {keys'}
    /\ child' = [Rest EXCEPT !.email = Nil]
    /\ box' = Append(box, ToUser)
    /\ UNCHANGED <<calls, stream, done, game, waits, auth, keyring, shown, account>>

\* "recover": the email is kept for the next message.
Recover ==
    /\ LoginGets /\ Msg \in Command
    /\ \E k \in Key : child' = [Rest EXCEPT !.email = k]
    /\ Respond
    /\ UNCHANGED <<auth, login, faults>>

Derive(phrase, email) == IF phrase = email THEN phrase ELSE WrongKey

\* "recovery phrase": the account must exist; the email is forgotten.
RecoveryPhrase ==
    \E phrase \in shown \cup {WrongKey} :
        LET k == Derive(phrase, child.email)
        IN  /\ LoginGets /\ Msg \in Command
            /\ IF k \in account
               THEN /\ keyring' = k
                    /\ child' = [child EXCEPT !.kind = "stopped", !.box = <<>>]
                    /\ Respond
               ELSE /\ UNCHANGED keyring
                    /\ child' = [Rest EXCEPT !.email = Nil]
                    /\ Respond
            /\ UNCHANGED <<auth, keys, signups, shown, account, faults>>

\* An unknown command is not answered; the commands are sent again.
UnknownInput ==
    /\ LoginGets /\ Msg \in Command
    /\ child' = Rest
    /\ box' = Append(box, ToUser)
    /\ UNCHANGED <<calls, stream, done, game, waits, auth, login, faults>>

\* The game acknowledges a command first, and answers an update with commands.
GameInput ==
    /\ GetsChild("game")
    /\ child' = Rest
    /\ Respond
    /\ UNCHANGED <<auth, login, faults>>

---------------------------------------------------------------------------
Server ==
    \E c \in Call : Lookup(c) \/ LookupFails(c) \/ CreateSession(c) \/ AwaitDone(c)
                    \/ CommandTimeout(c) \/ CreateTwice(c)

Actors ==
    \/ SetStream \/ UpdateTimeout \/ SetGame \/ MessageToUser \/ UserInput \/ InputTimeout
    \/ Initialize \/ ChildTerminated
    \/ LoginStops \/ LoginUpdate \/ SignUp \/ SignUpFails \/ Recover \/ RecoveryPhrase
    \/ UnknownInput \/ GameInput

Next == Server \/ Actors \/ Crash \/ \E c \in Stream : Disconnect(c)

Spec == Init /\ [][Next]_vars

\* Goroutines, timers and actors run.
FairSpec ==
    /\ Spec
    /\ WF_vars(Actors)
    /\ \A c \in Call : WF_vars(call[c] # "new" /\ (CreateSession(c) \/ CreateTwice(c)
                                                 \/ AwaitDone(c) \/ CommandTimeout(c)))

---------------------------------------------------------------------------
Message ==
    [type : {"SetStream", "UserInput", "SetGame", "ToUser"},
     arg  : Call \cup {Nil} \cup (1..MaxChildren)]
Child ==
    [kind : {"none", "login", "game", "stopped"}, id : 0..MaxChildren,
     box : Seq(Command \cup {"update"}), email : Key \cup {Nil}]

(* Types. *)
TypeOK ==
    /\ session \in BOOLEAN
    /\ box \in Seq(Message)
    /\ call \in [Call -> {"new", "create", "posted", "wait", "ended"}]
    /\ broken \subseteq Stream
    /\ stream \in Stream \cup {Nil} /\ done \in Stream \cup {Nil}
    /\ game \in 0..MaxChildren
    /\ waits \in Command \cup {Nil, "update"}
    /\ auth \in {"none", "initialize", "running"}
    /\ child \in Child
    /\ keyring \in Key \cup {Nil} /\ keys \in 0..MaxKeys
    /\ signups \subseteq Key /\ shown \subseteq Key /\ account \subseteq Key
    /\ faults \in 0..MaxFaults

(* The stream the UI actor writes to belongs to a call that is still open: the
   signal that ends a call only ever reaches the stream before it. *)
CurrentStreamIsOpen ==
    stream # Nil => call[stream] \in {"posted", "wait"}

(* The UI actor sends the player's input to the child that runs, or the message
   that says so is on its way: a login that gave way to the game, or a game
   that died, leaves no session that talks to a dead actor. *)
InputReachesChild ==
    auth = "running" /\ child.kind \in {"login", "game"} =>
        \/ game = child.id
        \/ \E i \in 1..Len(box) : box[i] = [type |-> "SetGame", arg |-> child.id]

(* A recovery phrase the player was shown on this machine is the phrase of the
   key that this machine keeps, and the signup service knows it: nobody writes
   down a phrase that opens nothing, and input that was queued behind a sign up
   cannot sign up again or recover another account over it. *)
ShownPhraseWorks ==
    \A k \in shown \ {OldKey} : k \in signups /\ (keyring = k)

(* The game is played on a player tree of the key in the keyring, and a
   recovery only takes a key whose player tree exists. *)
GameHasAccount ==
    /\ child.kind = "game" => keyring \in account
    /\ keyring # Nil => keyring \in signups

(* The session is well formed, its stream is that of an open call, and who plays has
   signed up. *)
SessionInv == TypeOK /\ CurrentStreamIsOpen /\ GameHasAccount

(* A login that is over leads into the game: the session gets a game and the
   UI actor hears of it, unless the server goes down. *)
LoginLeadsToGame ==
    child.kind = "stopped" ~> \/ auth = "none"
                              \/ child.kind = "game" /\ game = child.id
=============================================================================
