----------------------------- MODULE SessionProofs -----------------------------
(***************************************************************************)
(* The safety of a session, for any number of streams and commands, any    *)
(* bounds and any number of crashes.                                       *)
(*                                                                         *)
(* The three invariants the run checks say what the session may show; they *)
(* hold because of what is still on its way in the mailbox of the UI       *)
(* actor, which the inductive invariant describes: a stream that is about  *)
(* to be set is open and is not the one that waits for the signal, and the *)
(* children that are about to be announced come in the order of their      *)
(* numbers, all of them newer than the one the UI actor knows.             *)
(***************************************************************************)
EXTENDS Session, TLAPS

\* A stream in the mailbox belongs to an open call, and the signal that the
\* next stream sends will not reach it.
StreamsAreOpen ==
    \A i \in 1..Len(box) :
        box[i].type = "SetStream" =>
            /\ box[i].arg \in Stream
            /\ call[box[i].arg] \in {"posted", "wait"}
            /\ box[i].arg # done

\* A call asks for its stream once.
StreamsOnce ==
    \A i, j \in 1..Len(box) :
        i < j /\ box[i].type = "SetStream" /\ box[j].type = "SetStream"
        => box[i].arg # box[j].arg

\* The call that waits for the signal has begun.
DoneHasBegun == done # Nil => call[done] \notin {"new", "create"}

StreamInv == StreamsAreOpen /\ StreamsOnce /\ DoneHasBegun /\ CurrentStreamIsOpen

\* The input in the mailbox is a command.
InputIsCommand ==
    \A i \in 1..Len(box) : box[i].type = "UserInput" => box[i].arg \in Command

\* The mailbox announces children newer than the one the UI actor knows ...
GamesAreNew ==
    \A i \in 1..Len(box) :
        box[i].type = "SetGame" =>
            box[i].arg \in Nat /\ game < box[i].arg /\ box[i].arg <= child.id

\* ... in the order in which they started.
GamesInOrder ==
    \A i, j \in 1..Len(box) :
        i < j /\ box[i].type = "SetGame" /\ box[j].type = "SetGame"
        => box[i].arg < box[j].arg

GameInv == GamesAreNew /\ GamesInOrder /\ game <= child.id /\ InputReachesChild

\* Player trees belong to keys that have signed up.
KeyInv == GameHasAccount /\ ShownPhraseWorks /\ account \subseteq signups

SessionIInv == TypeOK /\ StreamInv /\ InputIsCommand /\ GameInv /\ KeyInv

---------------------------------------------------------------------------
(* Sequences. *)

\* The head and the tail of a queue.
LEMMA Dequeue ==
    ASSUME NEW S, NEW q \in Seq(S), q # <<>>
    PROVE  /\ Head(q) \in S /\ Head(q) = q[1] /\ 1 \in 1..Len(q)
           /\ Tail(q) \in Seq(S) /\ Len(Tail(q)) = Len(q) - 1 /\ Len(q) \in Nat
           /\ \A i \in 1..Len(Tail(q)) : i + 1 \in 1..Len(q) /\ Tail(q)[i] = q[i + 1]
           /\ \A i \in 1..Len(q) : i = 1 \/ (i - 1 \in 1..Len(Tail(q)) /\ Tail(q)[i - 1] = q[i])
  OBVIOUS

\* A message goes to the end of a queue and moves no other.
LEMMA Enqueue ==
    ASSUME NEW S, NEW q \in Seq(S), NEW m \in S
    PROVE  /\ Append(q, m) \in Seq(S) /\ Len(Append(q, m)) = Len(q) + 1 /\ Len(q) \in Nat
           /\ Append(q, m)[Len(q) + 1] = m
           /\ \A i \in 1..Len(q) : Append(q, m)[i] = q[i]
           /\ \A i \in 1..Len(Append(q, m)) : i \in 1..Len(q) \/ i = Len(q) + 1
  OBVIOUS

---------------------------------------------------------------------------
(* What a step does to the mailbox of the UI actor. *)

\* The messages of these types that are in the mailbox were there before, in
\* the same order.
Keeps(types) ==
    \E d \in {0, 1} : \A i \in 1..Len(box') :
        box'[i].type \in types => i + d \in 1..Len(box) /\ box'[i] = box[i + d]

\* The messages of these types that were in the mailbox still are.
Has(types) ==
    \A i \in 1..Len(box) :
        box[i].type \in types => \E j \in 1..Len(box') : box'[j] = box[i]

\* A step that leaves the mailbox alone keeps everything in it.
LEMMA BoxUnchanged ==
    ASSUME TypeOK, box' = box, NEW types
    PROVE  Keeps(types) /\ Has(types)
<1>1. \A i \in 1..Len(box') : i + 0 \in 1..Len(box) /\ box'[i] = box[i + 0]
  BY DEF TypeOK
<1>2. Keeps(types)
  BY <1>1 DEF Keeps
<1> QED
  BY <1>2 DEF Has

\* Handling a message keeps the others.
LEMMA BoxHandled ==
    ASSUME TypeOK, box # <<>>, box' = Tail(box), NEW types
    PROVE  /\ Keeps(types) /\ box' \in Seq(Message)
           /\ Head(box).type \notin types => Has(types)
           /\ Head(box) \in Message /\ Head(box) = box[1] /\ 1 \in 1..Len(box)
<1>1. box \in Seq(Message)
  BY DEF TypeOK
<1>2. /\ Head(box) \in Message /\ Head(box) = box[1] /\ 1 \in 1..Len(box)
      /\ box' \in Seq(Message)
      /\ \A i \in 1..Len(box') : i + 1 \in 1..Len(box) /\ box'[i] = box[i + 1]
      /\ \A i \in 1..Len(box) : i = 1 \/ (i - 1 \in 1..Len(box') /\ box'[i - 1] = box[i])
  BY <1>1, Dequeue
<1>3. Keeps(types)
  BY <1>2 DEF Keeps
<1>4. Head(box).type \notin types => Has(types)
  BY <1>2 DEF Has
<1> QED
  BY <1>2, <1>3, <1>4

\* Posting a message keeps those that are there.
LEMMA BoxPosted ==
    ASSUME TypeOK, NEW m \in Message, box' = Append(box, m), NEW types
    PROVE  /\ Has(types) /\ box' \in Seq(Message)
           /\ m.type \notin types => Keeps(types)
           /\ Len(box) \in Nat /\ Len(box') = Len(box) + 1 /\ box'[Len(box) + 1] = m
           /\ \A i \in 1..Len(box) : box'[i] = box[i]
           /\ \A i \in 1..Len(box') : i \in 1..Len(box) \/ i = Len(box) + 1
<1>1. box \in Seq(Message)
  BY DEF TypeOK
<1>2. /\ box' \in Seq(Message)
      /\ Len(box) \in Nat /\ Len(box') = Len(box) + 1 /\ box'[Len(box) + 1] = m
      /\ \A i \in 1..Len(box) : box'[i] = box[i]
      /\ \A i \in 1..Len(box') : i \in 1..Len(box) \/ i = Len(box) + 1
  BY <1>1, Enqueue
<1>3. Has(types)
  BY <1>2 DEF Has
<1>4. ASSUME m.type \notin types PROVE Keeps(types)
  <2>1. \A i \in 1..Len(box') : box'[i].type \in types => i + 0 \in 1..Len(box) /\ box'[i] = box[i + 0]
    BY <1>2, <1>4
  <2> QED
    BY <2>1 DEF Keeps
<1> QED
  BY <1>2, <1>3, <1>4

\* The message for the user is a message.
LEMMA ToUserIsMessage == ToUser \in Message /\ ToUser.type = "ToUser"
  BY DEF ToUser, Message, Call

---------------------------------------------------------------------------
(* What does not disturb the parts of the invariant. *)

\* A stream's call moves on unless it is told that its stream is over, and then
\* the UI actor has no stream.
StreamsGoOn ==
    \A c \in Stream :
        \/ call'[c] = call[c]
        \/ call[c] = "posted" /\ call'[c] = "wait"
        \/ call[c] = "new" /\ call'[c] = "create"
        \/ c = done /\ stream' = Nil /\ call'[c] = "ended"

\* A step that posts no stream and lets the calls go on keeps the streams open.
LEMMA StreamsStay ==
    ASSUME TypeOK, StreamInv, Keeps({"SetStream"}), StreamsGoOn,
           done' = done, stream' \in {stream, Nil}
    PROVE  StreamInv'
<1>1. PICK d \in {0, 1} : \A i \in 1..Len(box') :
          box'[i].type = "SetStream" => i + d \in 1..Len(box) /\ box'[i] = box[i + d]
  BY DEF Keeps
<1>2. (StreamsAreOpen)'
  BY <1>1 DEF StreamInv, StreamsAreOpen, StreamsGoOn
<1>3. (StreamsOnce)'
  BY <1>1 DEF StreamInv, StreamsOnce
<1>4. (DoneHasBegun)'
  BY DEF TypeOK, StreamInv, DoneHasBegun, StreamsGoOn
<1>5. (CurrentStreamIsOpen)'
  BY DEF TypeOK, StreamInv, CurrentStreamIsOpen, StreamsGoOn
<1> QED
  BY <1>2, <1>3, <1>4, <1>5 DEF StreamInv

\* A step that posts no input keeps the input in the mailbox as it is.
LEMMA InputStays ==
    ASSUME InputIsCommand, Keeps({"UserInput"})
    PROVE  InputIsCommand'
  BY DEF InputIsCommand, Keeps

\* A step that announces no child and starts none keeps the announcements.
LEMMA GamesStay ==
    ASSUME TypeOK, GameInv, Keeps({"SetGame"}), Has({"SetGame"}),
           game' = game, child'.id = child.id,
           auth' = "running" /\ child'.kind \in {"login", "game"}
               => auth = "running" /\ child.kind \in {"login", "game"}
    PROVE  GameInv'
<1>1. PICK d \in {0, 1} : \A i \in 1..Len(box') :
          box'[i].type = "SetGame" => i + d \in 1..Len(box) /\ box'[i] = box[i + d]
  BY DEF Keeps
<1>2. (GamesAreNew)'
  BY <1>1 DEF GameInv, GamesAreNew
<1>3. (GamesInOrder)'
  BY <1>1 DEF GameInv, GamesInOrder
<1>4. (game <= child.id)'
  BY DEF GameInv
<1>5. (InputReachesChild)'
  <2> SUFFICES ASSUME auth = "running" /\ child.kind \in {"login", "game"}, game # child.id
               PROVE  \E j \in 1..Len(box') : box'[j] = [type |-> "SetGame", arg |-> child.id]
    BY DEF InputReachesChild
  <2>1. PICK i \in 1..Len(box) : box[i] = [type |-> "SetGame", arg |-> child.id]
    BY DEF GameInv, InputReachesChild
  <2> QED
    BY <2>1 DEF Has
<1> QED
  BY <1>2, <1>3, <1>4, <1>5 DEF GameInv

\* A step that changes no key and starts no game keeps the keys in order.
LEMMA KeysStay ==
    ASSUME KeyInv, keyring' = keyring, signups' = signups, shown' = shown,
           account' = account, child'.kind = "game" => child.kind = "game"
    PROVE  KeyInv'
  BY DEF KeyInv, GameHasAccount, ShownPhraseWorks
---------------------------------------------------------------------------
(* Types. *)

\* A child keeps its shape when a message arrives for it.
LEMMA ToChildType ==
    ASSUME TypeOK, NEW m \in Command \cup {"update"}, ToChild(m)
    PROVE  child' \in Child /\ child'.id = child.id /\ child'.kind = child.kind
<1>1. child \in Child
  BY DEF TypeOK
<1>2. CASE child' = child
  BY <1>1, <1>2
<1>3. CASE child' = [child EXCEPT !.box = Append(@, m)]
  <2>1. Append(child.box, m) \in Seq(Command \cup {"update"})
    BY <1>1 DEF Child
  <2> QED
    BY <1>1, <1>3, <2>1 DEF Child
<1> QED
  BY <1>2, <1>3 DEF ToChild

\* The message the child handles, and the child that has handled it.
LEMMA RestType ==
    ASSUME TypeOK, child.box # <<>>
    PROVE  /\ Msg \in Command \cup {"update"}
           /\ Rest \in Child /\ Rest.id = child.id /\ Rest.kind = child.kind
           /\ \A k \in Key \cup {Nil} :
                 LET r == [Rest EXCEPT !.email = k]
                 IN  r \in Child /\ r.id = child.id /\ r.kind = child.kind
           /\ LET s == [child EXCEPT !.kind = "stopped", !.box = <<>>]
              IN  s \in Child /\ s.id = child.id /\ s.kind = "stopped"
<1>1. child \in Child
  BY DEF TypeOK
<1>2. Head(child.box) \in Command \cup {"update"} /\ Tail(child.box) \in Seq(Command \cup {"update"})
  BY <1>1, Dequeue DEF Child
<1>3. /\ Rest = [child EXCEPT !.box = Tail(child.box)]
      /\ Rest \in Child /\ Rest.id = child.id /\ Rest.kind = child.kind
  BY <1>1, <1>2 DEF Child, Rest
<1>4. ASSUME NEW k \in Key \cup {Nil}
      PROVE  LET r == [Rest EXCEPT !.email = k]
             IN  r \in Child /\ r.id = child.id /\ r.kind = child.kind
  BY <1>3 DEF Child
<1>5. <<>> \in Seq(Command \cup {"update"})
  OBVIOUS
<1>6. LET s == [child EXCEPT !.kind = "stopped", !.box = <<>>]
      IN  s \in Child /\ s.id = child.id /\ s.kind = "stopped"
  BY <1>1, <1>5 DEF Child
<1> QED
  BY <1>2, <1>3, <1>4, <1>6 DEF Msg

\* A new child.
LEMMA NewChildType ==
    ASSUME NEW n \in 0..MaxChildren, NEW k \in {"none", "login", "game", "stopped"}
    PROVE  LET s == [NoChild(n) EXCEPT !.kind = k]
           IN  /\ s \in Child /\ s.id = n /\ s.kind = k
               /\ NoChild(n) \in Child /\ NoChild(n).id = n /\ NoChild(n).kind = "none"
<1>1. <<>> \in Seq(Command \cup {"update"})
  OBVIOUS
<1>2. /\ NoChild(n) \in Child /\ NoChild(n).id = n /\ NoChild(n).kind = "none"
  BY <1>1 DEF Child, NoChild
<1> QED
  BY <1>2 DEF Child

\* What the mailbox holds besides the message that is handled.
LEMMA GetsType ==
    ASSUME TypeOK, InputIsCommand, StreamInv, GameInv, NEW type, Gets(type)
    PROVE  /\ box # <<>> /\ Head(box).type = type /\ waits = Nil
           /\ type = "SetStream" => Head(box).arg \in Stream
           /\ type = "UserInput" => Head(box).arg \in Command
           /\ type = "SetGame" => Head(box).arg \in 0..MaxChildren
<1>1. box # <<>> /\ Head(box).type = type /\ waits = Nil
  BY DEF Gets
<1>2. Head(box) = box[1] /\ 1 \in 1..Len(box)
  BY <1>1, Dequeue DEF TypeOK
<1>3. type = "SetStream" => Head(box).arg \in Stream
  BY <1>1, <1>2 DEF StreamInv, StreamsAreOpen
<1>4. type = "UserInput" => Head(box).arg \in Command
  BY <1>1, <1>2 DEF InputIsCommand
<1>5. child.id \in 0..MaxChildren /\ game \in 0..MaxChildren
  BY DEF TypeOK, Child
<1>6. type = "SetGame" => Head(box).arg \in 0..MaxChildren
  BY <1>1, <1>2, <1>5, SessionAssumption DEF GameInv, GamesAreNew
<1> QED
  BY <1>1, <1>3, <1>4, <1>6

\* Every message a step posts is a message.
LEMMA MessageTypes ==
    /\ \A c \in Stream : [type |-> "SetStream", arg |-> c] \in Message
    /\ \A c \in Command : [type |-> "UserInput", arg |-> c] \in Message
    /\ \A n \in 1..MaxChildren : [type |-> "SetGame", arg |-> n] \in Message
  BY DEF Message, Call

\* The calls of the server keep the types.
LEMMA ServerType ==
    ASSUME SessionIInv, Server
    PROVE  TypeOK'
<1> USE DEF SessionIInv
<1>1. PICK c \in Call : Lookup(c) \/ LookupFails(c) \/ CreateSession(c) \/ AwaitDone(c)
                        \/ CommandTimeout(c) \/ CreateTwice(c)
  BY DEF Server
<1>2. ASSUME Post(c) PROVE box' \in Seq(Message) /\ call' \in [Call -> {"new", "create", "posted", "wait", "ended"}]
  <2>1. [type |-> IF c \in Stream THEN "SetStream" ELSE "UserInput", arg |-> c] \in Message
    BY MessageTypes DEF Call
  <2>2. box' \in Seq(Message)
    BY <1>2, <2>1, BoxPosted DEF Post
  <2> QED
    BY <1>2, <2>2 DEF Post, TypeOK
<1>3. CASE Lookup(c)
  BY <1>2, <1>3 DEF Lookup, TypeOK, login
<1>4. CASE LookupFails(c)
  BY <1>4 DEF LookupFails, TypeOK, login, uivars
<1>5. CASE CreateSession(c)
  BY <1>2, <1>5 DEF CreateSession, TypeOK, login
<1>6. CASE AwaitDone(c)
  BY <1>6 DEF AwaitDone, TypeOK, login, uivars
<1>7. CASE CommandTimeout(c)
  BY <1>7 DEF CommandTimeout, TypeOK, login, uivars
<1>8. CASE CreateTwice(c)
  <2>1. NoChild(0) \in Child
    <3>1. 0 \in 0..MaxChildren /\ "none" \in {"none", "login", "game", "stopped"}
      BY SessionAssumption
    <3> QED
      BY <3>1, NewChildType
  <2>2. box' \in Seq(Message) /\ game' \in 0..MaxChildren
    BY <1>8, SessionAssumption DEF CreateTwice, GoDown
  <2>3. call' \in [Call -> {"new", "create", "posted", "wait", "ended"}]
    BY <1>8 DEF CreateTwice, GoDown
  <2> QED
    BY <1>8, <2>1, <2>2, <2>3 DEF CreateTwice, GoDown, TypeOK, login
<1> QED
  BY <1>1, <1>3, <1>4, <1>5, <1>6, <1>7, <1>8

\* The steps of the actors keep the types.
LEMMA ActorsType ==
    ASSUME SessionIInv, Actors
    PROVE  TypeOK'
<1> USE DEF SessionIInv
<1>1. \A from : SendDone(from) \in [Call -> {"new", "create", "posted", "wait", "ended"}]
  BY DEF SendDone, TypeOK
<1>2. ASSUME box # <<>>, box' = Tail(box) PROVE box' \in Seq(Message)
  BY <1>2, BoxHandled
<1>3. ASSUME box' = Append(box, ToUser) PROVE box' \in Seq(Message)
  BY <1>3, BoxPosted, ToUserIsMessage
<1>4. CASE SetStream
  <2>1. Gets("SetStream") /\ box' = Tail(box) /\ ToChild("update")
    BY <1>4 DEF SetStream
  <2>2. Head(box).arg \in Stream /\ box' \in Seq(Message)
    BY <2>1, GetsType, <1>2
  <2>3. child' \in Child
    BY <2>1, ToChildType
  <2> QED
    BY <1>1, <1>4, <2>2, <2>3 DEF SetStream, TypeOK, login
<1>5. CASE UpdateTimeout
  BY <1>5 DEF UpdateTimeout, TypeOK, login, calls
<1>6. CASE SetGame
  <2>1. Gets("SetGame") /\ box' = Tail(box)
    BY <1>6 DEF SetGame
  <2>2. Head(box).arg \in 0..MaxChildren /\ box' \in Seq(Message)
    BY <2>1, GetsType, <1>2
  <2> QED
    BY <1>6, <2>2 DEF SetGame, TypeOK, login, calls
<1>7. CASE MessageToUser
  <2>1. box' \in Seq(Message)
    BY <1>7, GetsType, <1>2 DEF MessageToUser
  <2> QED
    BY <1>1, <1>7, <2>1 DEF MessageToUser, TypeOK, login
<1>8. CASE UserInput
  <2>1. Gets("UserInput") /\ box' = Tail(box)
    BY <1>8 DEF UserInput
  <2>2. Head(box).arg \in Command /\ box' \in Seq(Message)
    BY <2>1, GetsType, <1>2
  <2>3. child' \in Child /\ waits' \in Command \cup {Nil, "update"}
    BY <1>8, <2>2, ToChildType DEF UserInput, TypeOK
  <2> QED
    BY <1>8, <2>2, <2>3 DEF UserInput, TypeOK, login, calls
<1>9. CASE InputTimeout
  BY <1>9 DEF InputTimeout, TypeOK, login, calls
<1>10. CASE Initialize
  <2>1. child.id + 1 \in 1..MaxChildren /\ child.id + 1 \in 0..MaxChildren
    BY <1>10, SessionAssumption DEF Initialize, TypeOK, Child
  <2>2. child' \in Child
    <3>1. (IF keyring = Nil THEN "login" ELSE "game") \in {"none", "login", "game", "stopped"}
      OBVIOUS
    <3> QED
      BY <1>10, <2>1, <3>1, NewChildType DEF Initialize
  <2>3. box' \in Seq(Message)
    <3>1. [type |-> "SetGame", arg |-> child.id + 1] \in Message
      BY <2>1, MessageTypes
    <3> QED
      BY <1>10, <3>1, ToUserIsMessage DEF Initialize, TypeOK
  <2>4. account' \subseteq Key
    BY <1>10 DEF Initialize, TypeOK
  <2> QED
    BY <1>10, <2>2, <2>3, <2>4 DEF Initialize, TypeOK, calls
<1>11. CASE ChildTerminated
  BY <1>11 DEF ChildTerminated, TypeOK, login, calls, uivars
<1>12. CASE LoginStops
  BY <1>12, RestType DEF LoginStops, GetsChild, TypeOK, login, calls, uivars
<1>13. ASSUME Respond
       PROVE  /\ box' \in Seq(Message)
              /\ call' \in [Call -> {"new", "create", "posted", "wait", "ended"}]
              /\ waits' \in Command \cup {Nil, "update"}
              /\ UNCHANGED <<session, broken, stream, done, game>>
  <2>1. box' = Append(box, ToUser) /\ UNCHANGED <<session, broken, stream, done, game>>
    BY <1>13 DEF Respond
  <2>2. /\ call' \in [Call -> {"new", "create", "posted", "wait", "ended"}]
        /\ waits' \in Command \cup {Nil, "update"}
    BY <1>13 DEF Respond, Answered, TypeOK
  <2> QED
    BY <1>3, <2>1, <2>2
<1>14. CASE LoginUpdate
  BY <1>3, <1>14, RestType DEF LoginUpdate, LoginGets, GetsChild, TypeOK, login, calls
<1>15. CASE SignUp
  <2>1. keys' \in 0..MaxKeys /\ keys' \in Key
    BY <1>15, SessionAssumption DEF SignUp, TypeOK, Key
  <2> QED
    BY <1>13, <1>15, <2>1, RestType DEF SignUp, LoginGets, GetsChild, TypeOK
<1>16. CASE SignUpFails
  <2>1. keys' \in 0..MaxKeys /\ keys' \in Key /\ faults' \in 0..MaxFaults
    BY <1>16, SessionAssumption DEF SignUpFails, TypeOK, Key
  <2> QED
    BY <1>3, <1>16, <2>1, RestType DEF SignUpFails, LoginGets, GetsChild, TypeOK, calls
<1>17. CASE Recover
  BY <1>13, <1>17, RestType DEF Recover, LoginGets, GetsChild, TypeOK, login
<1>18. CASE RecoveryPhrase
  <2>1. PICK phrase \in shown \cup {WrongKey} :
           LET k == Derive(phrase, child.email)
           IN  /\ LoginGets /\ Msg \in Command
               /\ Respond
               /\ \/ /\ k \in account /\ keyring' = k
                     /\ child' = [child EXCEPT !.kind = "stopped", !.box = <<>>]
                  \/ /\ keyring' = keyring
                     /\ child' = [Rest EXCEPT !.email = Nil]
               /\ UNCHANGED <<auth, keys, signups, shown, account, faults>>
    BY <1>18 DEF RecoveryPhrase
  <2>2. child' \in Child
    BY <2>1, RestType DEF LoginGets, GetsChild
  <2>3. keyring' \in Key \cup {Nil}
    BY <2>1 DEF TypeOK
  <2> QED
    BY <1>13, <2>1, <2>2, <2>3 DEF TypeOK
<1>19. CASE UnknownInput
  BY <1>3, <1>19, RestType DEF UnknownInput, LoginGets, GetsChild, TypeOK, login, calls
<1>20. CASE GameInput
  BY <1>13, <1>20, RestType DEF GameInput, GetsChild, TypeOK, login
<1> QED
  BY <1>4, <1>5, <1>6, <1>7, <1>8, <1>9, <1>10, <1>11, <1>12, <1>14, <1>15, <1>16, <1>17,
     <1>18, <1>19, <1>20 DEF Actors
---------------------------------------------------------------------------
(* The parts of the invariant, step by step. *)

\* When the server goes down nothing is on its way and there is no child; what
\* the player saw of the keys stays true.
LEMMA GoDownSafe ==
    ASSUME SessionIInv, GoDown
    PROVE  StreamInv' /\ InputIsCommand' /\ GameInv' /\ KeyInv'
<1>1. Len(box') = 0 /\ (\A i : i \notin 1..Len(box')) /\ stream' = Nil /\ done' = Nil
  BY DEF GoDown
<1>2. child'.id = 0 /\ child'.kind = "none" /\ game' = 0 /\ auth' = "none"
  BY DEF GoDown, NoChild
<1>3. StreamInv'
  BY <1>1 DEF StreamInv, StreamsAreOpen, StreamsOnce, DoneHasBegun, CurrentStreamIsOpen
<1>4. InputIsCommand'
  BY <1>1 DEF InputIsCommand
<1>5. GameInv'
  BY <1>1, <1>2 DEF GameInv, GamesAreNew, GamesInOrder, InputReachesChild
<1>6. KeyInv'
  BY <1>2, KeysStay DEF GoDown, login, SessionIInv
<1> QED
  BY <1>3, <1>4, <1>5, <1>6

\* A call that posts its stream or its command is new to the mailbox.
LEMMA PostSafe ==
    ASSUME SessionIInv, NEW c \in Call, call[c] \in {"new", "create"}, Post(c),
           UNCHANGED <<done, game, child>>,
           stream' = stream \/ (c \in Stream /\ stream' = c) \/ stream' = Nil,
           auth' = auth \/ auth' = "initialize",
           UNCHANGED login
    PROVE  StreamInv' /\ InputIsCommand' /\ GameInv' /\ KeyInv'
<1> DEFINE m == [type |-> IF c \in Stream THEN "SetStream" ELSE "UserInput", arg |-> c]
<1>1. m \in Message /\ m.arg = c /\ box' = Append(box, m)
  BY MessageTypes DEF Call, Post
<1>2. /\ c \in Stream => m.type = "SetStream"
      /\ c \notin Stream => m.type = "UserInput" /\ c \in Command
  BY DEF Call
<1>3. TypeOK /\ StreamInv /\ InputIsCommand /\ GameInv /\ KeyInv
  BY DEF SessionIInv
<1>4. call' = [call EXCEPT ![c] = IF c \in Stream THEN "posted" ELSE "wait"]
  BY DEF Post
<1> HIDE DEF m
<1>5. /\ Len(box) \in Nat /\ Len(box') = Len(box) + 1 /\ box'[Len(box) + 1] = m
      /\ \A i \in 1..Len(box) : box'[i] = box[i]
      /\ \A i \in 1..Len(box') : i \in 1..Len(box) \/ i = Len(box) + 1
  BY <1>1, <1>3, BoxPosted
<1>6. Keeps({"SetGame"}) /\ Has({"SetGame"})
  BY <1>1, <1>2, <1>3, BoxPosted
<1>7. GameInv'
  BY <1>3, <1>6, GamesStay
<1>8. KeyInv'
  BY <1>3, KeysStay DEF login
<1>9. InputIsCommand'
  BY <1>1, <1>2, <1>3, <1>5 DEF InputIsCommand
<1>10. \A d \in Stream : d # c => call'[d] = call[d]
  BY <1>3, <1>4 DEF TypeOK, Call
<1>11. c \in Stream => call'[c] = "posted"
  BY <1>3, <1>4 DEF TypeOK
<1>12. done # c
  <2>1. c # Nil
    BY SessionAssumption DEF Call
  <2> QED
    BY <1>3, <2>1 DEF StreamInv, DoneHasBegun
<1>13. (StreamsAreOpen)'
  BY <1>1, <1>2, <1>3, <1>5, <1>10, <1>11, <1>12 DEF StreamInv, StreamsAreOpen
<1>14. (StreamsOnce)'
  <2> SUFFICES ASSUME NEW i \in 1..Len(box'), NEW j \in 1..Len(box'), i < j,
                      box'[i].type = "SetStream", box'[j].type = "SetStream"
               PROVE  box'[i].arg # box'[j].arg
    BY DEF StreamsOnce
  <2>1. i \in 1..Len(box) /\ call[box[i].arg] \in {"posted", "wait"} /\ box'[i] = box[i]
    BY <1>3, <1>5 DEF StreamInv, StreamsAreOpen
  <2>2. CASE j \in 1..Len(box)
    BY <1>3, <1>5, <2>1, <2>2 DEF StreamInv, StreamsOnce
  <2>3. CASE j = Len(box) + 1
    BY <1>1, <1>5, <2>1, <2>3
  <2> QED
    BY <1>5, <2>2, <2>3
<1>15. (DoneHasBegun)'
  BY <1>3, <1>10, <1>12 DEF StreamInv, DoneHasBegun, TypeOK
<1>16. (CurrentStreamIsOpen)'
  BY <1>3, <1>10, <1>11 DEF StreamInv, CurrentStreamIsOpen, TypeOK
<1> QED
  BY <1>7, <1>8, <1>9, <1>13, <1>14, <1>15, <1>16 DEF StreamInv

\* A step that leaves the actors alone and lets the calls go on.
LEMMA CallsSafe ==
    ASSUME SessionIInv, StreamsGoOn, UNCHANGED <<uivars, auth, login>>,
           child'.id = child.id, child'.kind \in {child.kind, "stopped"}
    PROVE  StreamInv' /\ InputIsCommand' /\ GameInv' /\ KeyInv'
<1>1. TypeOK /\ StreamInv /\ InputIsCommand /\ GameInv /\ KeyInv
  BY DEF SessionIInv
<1>2. box' = box /\ stream' = stream /\ done' = done /\ game' = game
  BY DEF uivars
<1>3. Keeps({"SetStream"}) /\ Keeps({"UserInput"}) /\ Keeps({"SetGame"}) /\ Has({"SetGame"})
  BY <1>1, <1>2, BoxUnchanged
<1>4. StreamInv'
  BY <1>1, <1>2, <1>3, StreamsStay
<1>5. InputIsCommand'
  BY <1>1, <1>3, InputStays
<1>6. GameInv'
  BY <1>1, <1>2, <1>3, GamesStay
<1>7. KeyInv'
  BY <1>1, KeysStay DEF login
<1> QED
  BY <1>4, <1>5, <1>6, <1>7

\* A message for the user, posted while the calls go on, disturbs no one.
LEMMA ToUserSafe ==
    ASSUME SessionIInv, StreamsGoOn, box' = Append(box, ToUser),
           UNCHANGED <<stream, done, game, auth>>,
           child'.id = child.id, child'.kind \in {child.kind, "stopped"}
    PROVE  StreamInv' /\ InputIsCommand' /\ GameInv'
<1>1. TypeOK /\ StreamInv /\ InputIsCommand /\ GameInv
  BY DEF SessionIInv
<1>2. Keeps({"SetStream"}) /\ Keeps({"UserInput"}) /\ Keeps({"SetGame"}) /\ Has({"SetGame"})
  BY <1>1, BoxPosted, ToUserIsMessage
<1>3. StreamInv'
  BY <1>1, <1>2, StreamsStay
<1>4. InputIsCommand'
  BY <1>1, <1>2, InputStays
<1>5. GameInv'
  BY <1>1, <1>2, GamesStay
<1> QED
  BY <1>3, <1>4, <1>5

\* The calls of the server.
LEMMA ServerSafe ==
    ASSUME SessionIInv, Server
    PROVE  StreamInv' /\ InputIsCommand' /\ GameInv' /\ KeyInv'
<1>0. PICK c \in Call : Lookup(c) \/ LookupFails(c) \/ CreateSession(c) \/ AwaitDone(c)
                        \/ CommandTimeout(c) \/ CreateTwice(c)
  BY DEF Server
<1>1. CASE Lookup(c)
  BY <1>1, PostSafe DEF Lookup
<1>2. CASE CreateSession(c)
  BY <1>2, PostSafe DEF CreateSession
<1>3. TypeOK
  BY DEF SessionIInv
<1>4. CASE LookupFails(c)
  <2>1. StreamsGoOn
    BY <1>3, <1>4 DEF LookupFails, StreamsGoOn, TypeOK, Call
  <2> QED
    BY <1>4, <2>1, CallsSafe DEF LookupFails
<1>5. CASE AwaitDone(c)
  <2>1. StreamsGoOn
    BY <1>3, <1>5 DEF AwaitDone, StreamsGoOn, TypeOK, Call
  <2> QED
    BY <1>5, <2>1, CallsSafe DEF AwaitDone
<1>6. CASE CommandTimeout(c)
  <2>1. StreamsGoOn
    BY <1>3, <1>6, SessionAssumption DEF CommandTimeout, StreamsGoOn, TypeOK, Call
  <2> QED
    BY <1>6, <2>1, CallsSafe DEF CommandTimeout
<1>7. CASE CreateTwice(c)
  BY <1>7, GoDownSafe DEF CreateTwice
<1> QED
  BY <1>0, <1>1, <1>2, <1>4, <1>5, <1>6, <1>7
---------------------------------------------------------------------------
(* The UI actor. *)

\* A new stream: the call of the one before it ends, and it is another call.
LEMMA SetStreamSafe ==
    ASSUME SessionIInv, SetStream
    PROVE  StreamInv' /\ InputIsCommand' /\ GameInv' /\ KeyInv'
<1> DEFINE c == Head(box).arg
<1>1. TypeOK /\ StreamInv /\ InputIsCommand /\ GameInv /\ KeyInv
  BY DEF SessionIInv
<1>2. /\ Gets("SetStream") /\ call' = SendDone(done) /\ stream' = c /\ done' = c
      /\ box' = Tail(box) /\ ToChild("update")
      /\ UNCHANGED <<session, broken, game, auth, login, faults>>
  BY DEF SetStream
<1>3. box # <<>> /\ Head(box).type = "SetStream" /\ c \in Stream
  BY <1>1, <1>2, GetsType
<1>4. /\ Keeps({"SetGame"}) /\ Has({"SetGame"}) /\ Keeps({"UserInput"})
      /\ Head(box) = box[1] /\ 1 \in 1..Len(box)
  BY <1>1, <1>2, <1>3, BoxHandled
<1>5. /\ \A i \in 1..Len(box') : i + 1 \in 1..Len(box) /\ box'[i] = box[i + 1] /\ 1 < i + 1
      /\ Len(box) \in Nat
  BY <1>1, <1>2, <1>3, Dequeue DEF TypeOK
<1>6. c = box[1].arg /\ box[1].type = "SetStream"
  BY <1>3, <1>4
<1>7. call[c] \in {"posted", "wait"} /\ c # done
  BY <1>1, <1>4, <1>6 DEF StreamInv, StreamsAreOpen
<1> HIDE DEF c
<1>8. \A d \in Stream : d # done => call'[d] = call[d]
  BY <1>2 DEF SendDone, Call
<1>9. (StreamsAreOpen)'
  <2> SUFFICES ASSUME NEW i \in 1..Len(box'), box'[i].type = "SetStream"
               PROVE  /\ box'[i].arg \in Stream
                      /\ call'[box'[i].arg] \in {"posted", "wait"}
                      /\ box'[i].arg # done'
    BY DEF StreamsAreOpen
  <2>1. i + 1 \in 1..Len(box) /\ box'[i] = box[i + 1] /\ 1 < i + 1
    BY <1>5
  <2>2. /\ box'[i].arg \in Stream /\ call[box'[i].arg] \in {"posted", "wait"}
        /\ box'[i].arg # done
    BY <1>1, <2>1 DEF StreamInv, StreamsAreOpen
  <2>3. box'[i].arg # c
    BY <1>1, <1>4, <1>6, <2>1 DEF StreamInv, StreamsOnce
  <2> QED
    BY <1>2, <1>8, <2>2, <2>3
<1>10. (StreamsOnce)'
  BY <1>1, <1>5 DEF StreamInv, StreamsOnce
<1>11. (DoneHasBegun)' /\ (CurrentStreamIsOpen)'
  BY <1>2, <1>3, <1>7, <1>8 DEF DoneHasBegun, CurrentStreamIsOpen
<1>12. child'.id = child.id /\ child'.kind = child.kind
  BY <1>1, <1>2, ToChildType
<1>13. GameInv'
  BY <1>1, <1>2, <1>4, <1>12, GamesStay
<1>14. InputIsCommand'
  BY <1>1, <1>4, InputStays
<1>15. KeyInv'
  BY <1>1, <1>2, <1>12, KeysStay DEF login
<1> QED
  BY <1>9, <1>10, <1>11, <1>13, <1>14, <1>15 DEF StreamInv

\* A child is announced: it is newer than the one before and older than those
\* still to be announced.
LEMMA SetGameSafe ==
    ASSUME SessionIInv, SetGame
    PROVE  StreamInv' /\ InputIsCommand' /\ GameInv' /\ KeyInv'
<1>1. TypeOK /\ StreamInv /\ InputIsCommand /\ GameInv /\ KeyInv
  BY DEF SessionIInv
<1>2. /\ Gets("SetGame") /\ game' = Head(box).arg /\ box' = Tail(box)
      /\ UNCHANGED <<calls, stream, done, auth, child, login>>
  BY DEF SetGame
<1>3. box # <<>> /\ Head(box).type = "SetGame"
  BY <1>1, <1>2, GetsType
<1>4. /\ Keeps({"SetStream"}) /\ Keeps({"UserInput"})
      /\ Head(box) = box[1] /\ 1 \in 1..Len(box)
  BY <1>1, <1>2, <1>3, BoxHandled
<1>5. /\ \A i \in 1..Len(box') : i + 1 \in 1..Len(box) /\ box'[i] = box[i + 1] /\ 1 < i + 1
      /\ \A i \in 1..Len(box) : i = 1 \/ (i - 1 \in 1..Len(box') /\ box'[i - 1] = box[i])
      /\ Len(box) \in Nat
  BY <1>1, <1>2, <1>3, Dequeue DEF TypeOK
<1>6. game' = box[1].arg /\ box[1].type = "SetGame"
  BY <1>2, <1>3, <1>4
<1>7. game' \in Nat /\ game < game' /\ game' <= child.id
  BY <1>1, <1>4, <1>6 DEF GameInv, GamesAreNew
<1>8. StreamsGoOn
  BY <1>2 DEF StreamsGoOn, calls
<1>9. StreamInv'
  BY <1>1, <1>2, <1>4, <1>8, StreamsStay
<1>10. InputIsCommand'
  BY <1>1, <1>4, InputStays
<1>11. KeyInv'
  BY <1>1, <1>2, KeysStay DEF login
<1>12. (GamesAreNew)'
  <2> SUFFICES ASSUME NEW i \in 1..Len(box'), box'[i].type = "SetGame"
               PROVE  box'[i].arg \in Nat /\ game' < box'[i].arg /\ box'[i].arg <= child'.id
    BY DEF GamesAreNew
  <2>1. i + 1 \in 1..Len(box) /\ box'[i] = box[i + 1] /\ 1 < i + 1
    BY <1>5
  <2>2. box'[i].arg \in Nat /\ box'[i].arg <= child.id
    BY <1>1, <2>1 DEF GameInv, GamesAreNew
  <2>3. game' < box'[i].arg
    BY <1>1, <1>4, <1>6, <2>1 DEF GameInv, GamesInOrder
  <2> QED
    BY <1>2, <2>2, <2>3
<1>13. (GamesInOrder)'
  BY <1>1, <1>5 DEF GameInv, GamesInOrder
<1>14. (InputReachesChild)'
  <2> SUFFICES ASSUME auth = "running" /\ child.kind \in {"login", "game"}, game' # child.id
               PROVE  \E j \in 1..Len(box') : box'[j] = [type |-> "SetGame", arg |-> child.id]
    BY <1>2 DEF InputReachesChild
  <2>1. game # child.id
    BY <1>1, <1>7 DEF TypeOK, Child
  <2>2. PICK i \in 1..Len(box) : box[i] = [type |-> "SetGame", arg |-> child.id]
    BY <1>1, <2>1 DEF GameInv, InputReachesChild
  <2>3. i # 1
    BY <1>6, <2>2
  <2>4. i - 1 \in 1..Len(box') /\ box'[i - 1] = box[i]
    BY <1>5, <2>2, <2>3
  <2> QED
    BY <2>2, <2>4
<1>15. (game <= child.id)'
  BY <1>2, <1>7
<1> QED
  BY <1>9, <1>10, <1>11, <1>12, <1>13, <1>14, <1>15 DEF GameInv

\* The other messages of the UI actor.
LEMMA UISafe ==
    ASSUME SessionIInv, UpdateTimeout \/ MessageToUser \/ UserInput \/ InputTimeout
    PROVE  StreamInv' /\ InputIsCommand' /\ GameInv' /\ KeyInv'
<1>1. TypeOK /\ StreamInv /\ InputIsCommand /\ GameInv /\ KeyInv
  BY DEF SessionIInv
<1>2. ASSUME box # <<>>, box' = Tail(box), Head(box).type \in {"ToUser", "UserInput"},
             StreamsGoOn, stream' \in {stream, Nil}, UNCHANGED <<done, game, auth, login>>,
             child'.id = child.id, child'.kind = child.kind
      PROVE  StreamInv' /\ InputIsCommand' /\ GameInv' /\ KeyInv'
  <2>1. Keeps({"SetStream"}) /\ Keeps({"UserInput"}) /\ Keeps({"SetGame"}) /\ Has({"SetGame"})
    BY <1>1, <1>2, BoxHandled
  <2>2. StreamInv'
    BY <1>1, <1>2, <2>1, StreamsStay
  <2>3. InputIsCommand'
    BY <1>1, <2>1, InputStays
  <2>4. GameInv'
    BY <1>1, <1>2, <2>1, GamesStay
  <2>5. KeyInv'
    BY <1>1, <1>2, KeysStay DEF login
  <2> QED
    BY <2>2, <2>3, <2>4, <2>5
<1>3. ASSUME UNCHANGED <<calls, box, stream, done, game, auth, child, login>>
      PROVE  StreamInv' /\ InputIsCommand' /\ GameInv' /\ KeyInv'
  BY <1>1, <1>3 DEF calls, login, StreamInv, StreamsAreOpen, StreamsOnce, DoneHasBegun,
     CurrentStreamIsOpen, InputIsCommand, GameInv, GamesAreNew, GamesInOrder,
     InputReachesChild, KeyInv, GameHasAccount, ShownPhraseWorks
<1>4. CASE UpdateTimeout
  BY <1>3, <1>4 DEF UpdateTimeout
<1>5. CASE InputTimeout
  BY <1>3, <1>5 DEF InputTimeout
<1>6. CASE MessageToUser
  <2>1. box # <<>> /\ Head(box).type = "ToUser"
    BY <1>1, <1>6, GetsType DEF MessageToUser
  <2>2. StreamsGoOn /\ stream' \in {stream, Nil}
    BY <1>6 DEF MessageToUser, SendDone, StreamsGoOn, Call
  <2> QED
    BY <1>2, <1>6, <2>1, <2>2 DEF MessageToUser
<1>7. CASE UserInput
  <2>1. Gets("UserInput")
    BY <1>7 DEF UserInput
  <2>2. box # <<>> /\ Head(box).type = "UserInput" /\ Head(box).arg \in Command
    BY <1>1, <2>1, GetsType
  <2>3. child'.id = child.id /\ child'.kind = child.kind
    BY <1>1, <1>7, <2>2, ToChildType DEF UserInput
  <2>4. StreamsGoOn
    BY <1>7 DEF UserInput, calls, StreamsGoOn
  <2> QED
    BY <1>2, <1>7, <2>2, <2>3, <2>4 DEF UserInput
<1> QED
  BY <1>4, <1>5, <1>6, <1>7
---------------------------------------------------------------------------
(* The session and its child. *)

\* A new child gets the next number and is announced after all the others.
LEMMA InitializeSafe ==
    ASSUME SessionIInv, Initialize
    PROVE  StreamInv' /\ InputIsCommand' /\ GameInv' /\ KeyInv'
<1> DEFINE m == [type |-> "SetGame", arg |-> child.id + 1]
           kind == IF keyring = Nil THEN "login" ELSE "game"
<1>1. TypeOK /\ StreamInv /\ InputIsCommand /\ GameInv /\ KeyInv
  BY DEF SessionIInv
<1>2. /\ child.id < MaxChildren /\ child' = [NoChild(child.id + 1) EXCEPT !.kind = kind]
      /\ box' = box \o <<m, ToUser>>
      /\ account' = IF keyring = Nil THEN account ELSE account \cup {keyring}
      /\ UNCHANGED <<calls, stream, done, game, keyring, keys, signups, shown>>
  BY DEF Initialize
<1>3. child.id \in Nat /\ child.id + 1 \in 1..MaxChildren /\ game \in Nat
  BY <1>1, <1>2, SessionAssumption DEF TypeOK, Child
<1>4. child'.id = child.id + 1 /\ child'.kind = kind
  BY <1>2 DEF NoChild
<1>5. /\ Len(box) \in Nat /\ Len(box') = Len(box) + 2
      /\ box'[Len(box) + 1] = m /\ box'[Len(box) + 2] = ToUser
      /\ \A i \in 1..Len(box) : box'[i] = box[i]
      /\ \A i \in 1..Len(box') : i \in 1..Len(box) \/ i = Len(box) + 1 \/ i = Len(box) + 2
  <2> HIDE DEF m
  <2>1. box \in Seq(Message)
    BY <1>1 DEF TypeOK
  <2>2. m \in Message
    BY <1>3, MessageTypes DEF m
  <2> QED
    BY <1>2, <2>1, <2>2, ToUserIsMessage
<1>6. m.type = "SetGame" /\ m.arg = child.id + 1
  OBVIOUS
<1> HIDE DEF m
<1>7. \A i \in 1..Len(box') :
          /\ box'[i].type \in {"SetStream", "UserInput"} => i \in 1..Len(box) /\ box'[i] = box[i]
          /\ box'[i].type = "SetGame" => \/ i \in 1..Len(box) /\ box'[i] = box[i]
                                         \/ i = Len(box) + 1 /\ box'[i].arg = child.id + 1
  BY <1>5, <1>6, ToUserIsMessage
<1>8. StreamInv'
  <2>1. Keeps({"SetStream"})
    <3>1. \A i \in 1..Len(box') :
             box'[i].type \in {"SetStream"} => i + 0 \in 1..Len(box) /\ box'[i] = box[i + 0]
      BY <1>7
    <3> QED
      BY <3>1 DEF Keeps
  <2>2. StreamsGoOn
    BY <1>2 DEF calls, StreamsGoOn
  <2> QED
    BY <1>1, <1>2, <2>1, <2>2, StreamsStay
<1>9. InputIsCommand'
  BY <1>1, <1>7 DEF InputIsCommand
<1>10. (GamesAreNew)'
  BY <1>1, <1>2, <1>3, <1>4, <1>7 DEF GameInv, GamesAreNew
<1>11. (GamesInOrder)'
  <2> SUFFICES ASSUME NEW i \in 1..Len(box'), NEW j \in 1..Len(box'), i < j,
                      box'[i].type = "SetGame", box'[j].type = "SetGame"
               PROVE  box'[i].arg < box'[j].arg
    BY DEF GamesInOrder
  <2>1. i \in 1..Len(box) /\ box'[i] = box[i]
    BY <1>5, <1>7
  <2>2. box[i].arg \in Nat /\ box[i].arg <= child.id
    BY <1>1, <2>1 DEF GameInv, GamesAreNew
  <2>3. CASE j \in 1..Len(box) /\ box'[j] = box[j]
    BY <1>1, <2>1, <2>3 DEF GameInv, GamesInOrder
  <2>4. CASE box'[j].arg = child.id + 1
    BY <1>3, <2>1, <2>2, <2>4
  <2> QED
    BY <1>7, <2>3, <2>4
<1>12. (game <= child.id)' /\ (InputReachesChild)'
  <2>1. (game <= child.id)'
    BY <1>1, <1>2, <1>3, <1>4 DEF GameInv
  <2>2. Len(box) + 1 \in 1..Len(box') /\ box'[Len(box) + 1] = [type |-> "SetGame", arg |-> child'.id]
    BY <1>4, <1>5 DEF m
  <2> QED
    BY <2>1, <2>2 DEF InputReachesChild
<1>13. KeyInv'
  BY <1>1, <1>2, <1>4 DEF KeyInv, GameHasAccount, ShownPhraseWorks
<1> QED
  BY <1>8, <1>9, <1>10, <1>11, <1>12, <1>13 DEF GameInv

\* The child answers, and its answer ends the call of a command at most.
LEMMA RespondSafe ==
    ASSUME SessionIInv, Respond, auth' = auth,
           child'.id = child.id, child'.kind \in {child.kind, "stopped"}
    PROVE  StreamInv' /\ InputIsCommand' /\ GameInv'
<1>1. TypeOK
  BY DEF SessionIInv
<1>2. /\ box' = Append(box, ToUser) /\ UNCHANGED <<stream, done, game>>
      /\ (Msg \in Command /\ Answered(Msg)) \/ call' = call
  BY DEF Respond
<1>3. StreamsGoOn
  BY <1>1, <1>2, SessionAssumption DEF StreamsGoOn, Answered, TypeOK, Call
<1> QED
  BY <1>2, <1>3, ToUserSafe

\* Login: whoever signs up or recovers has no key yet, so no phrase was shown.
LEMMA LoginSafe ==
    ASSUME SessionIInv,
           LoginUpdate \/ SignUp \/ SignUpFails \/ Recover \/ RecoveryPhrase \/ UnknownInput
    PROVE  StreamInv' /\ InputIsCommand' /\ GameInv' /\ KeyInv'
<1>1. TypeOK /\ KeyInv
  BY DEF SessionIInv
<1>2. LoginGets
  BY DEF LoginUpdate, SignUp, SignUpFails, Recover, RecoveryPhrase, UnknownInput
<1>3. child.kind = "login" /\ child.box # <<>> /\ keyring = Nil
  BY <1>2 DEF LoginGets, GetsChild
<1>4. Rest.id = child.id /\ Rest.kind = "login"
  BY <1>1, <1>3, RestType
<1>5. \A k \in Key \cup {Nil} :
         [Rest EXCEPT !.email = k].id = child.id /\ [Rest EXCEPT !.email = k].kind = "login"
  BY <1>1, <1>3, RestType
<1>6. shown \subseteq {OldKey}
  BY <1>1, <1>3, SessionAssumption DEF KeyInv, ShownPhraseWorks, TypeOK, Key
<1>7. ASSUME calls' = calls, box' = Append(box, ToUser), UNCHANGED <<stream, done, game, auth>>,
             child'.id = child.id, child'.kind = "login"
      PROVE  StreamInv' /\ InputIsCommand' /\ GameInv'
  <2>1. StreamsGoOn
    BY <1>7 DEF calls, StreamsGoOn
  <2> QED
    BY <1>3, <1>7, <2>1, ToUserSafe
<1>8. CASE LoginUpdate
  <2>1. KeyInv'
    BY <1>1, <1>4, <1>8, KeysStay DEF LoginUpdate, login
  <2> QED
    BY <1>4, <1>7, <1>8, <2>1 DEF LoginUpdate
<1>9. CASE UnknownInput
  <2>1. KeyInv'
    BY <1>1, <1>4, <1>9, KeysStay DEF UnknownInput, login
  <2> QED
    BY <1>4, <1>7, <1>9, <2>1 DEF UnknownInput
<1>10. CASE SignUpFails
  <2>1. child'.id = child.id /\ child'.kind = "login"
    BY <1>5, <1>10 DEF SignUpFails
  <2>2. KeyInv'
    BY <1>1, <1>3, <1>10, <2>1 DEF SignUpFails, KeyInv, GameHasAccount, ShownPhraseWorks
  <2> QED
    BY <1>7, <1>10, <2>1, <2>2 DEF SignUpFails
<1>11. CASE Recover
  <2>1. child'.id = child.id /\ child'.kind = "login"
    BY <1>5, <1>11 DEF Recover
  <2>2. KeyInv'
    BY <1>1, <1>11, <2>1, KeysStay DEF Recover, login
  <2> QED
    BY <1>3, <1>11, <2>1, <2>2, RespondSafe DEF Recover
<1>12. CASE SignUp
  <2>1. /\ keyring' = keys' /\ signups' = signups \cup {keys'} /\ shown' = shown \cup {keys'}
        /\ account' = account /\ child' = Rest /\ Respond /\ auth' = auth
    BY <1>12 DEF SignUp
  <2>2. KeyInv'
    BY <1>1, <1>4, <1>6, <2>1 DEF KeyInv, GameHasAccount, ShownPhraseWorks
  <2> QED
    BY <1>3, <1>4, <2>1, <2>2, RespondSafe
<1>13. CASE RecoveryPhrase
  <2>1. PICK phrase \in shown \cup {WrongKey} :
           LET k == Derive(phrase, child.email)
           IN  /\ Respond
               /\ \/ /\ k \in account /\ keyring' = k
                     /\ child' = [child EXCEPT !.kind = "stopped", !.box = <<>>]
                  \/ /\ keyring' = keyring
                     /\ child' = [Rest EXCEPT !.email = Nil]
               /\ UNCHANGED <<auth, keys, signups, shown, account, faults>>
    BY <1>13 DEF RecoveryPhrase
  <2>2. child'.id = child.id /\ child'.kind \in {child.kind, "stopped"}
    <3>1. \/ child' = [child EXCEPT !.kind = "stopped", !.box = <<>>]
          \/ child' = [Rest EXCEPT !.email = Nil]
      BY <2>1
    <3> QED
      BY <1>1, <1>3, <1>5, <3>1, RestType
  <2>3. keyring' \in account \/ keyring' = Nil
    BY <1>3, <2>1
  <2>4. KeyInv'
    BY <1>1, <1>3, <1>6, <2>1, <2>2, <2>3 DEF KeyInv, GameHasAccount, ShownPhraseWorks
  <2> QED
    BY <2>1, <2>2, <2>4, RespondSafe
<1> QED
  BY <1>8, <1>9, <1>10, <1>11, <1>12, <1>13

\* The steps of all actors.
LEMMA ActorsSafe ==
    ASSUME SessionIInv, Actors
    PROVE  StreamInv' /\ InputIsCommand' /\ GameInv' /\ KeyInv'
<1>1. TypeOK /\ KeyInv
  BY DEF SessionIInv
<1>2. CASE ChildTerminated
  <2>1. TypeOK /\ StreamInv /\ InputIsCommand /\ GameInv /\ KeyInv
    BY DEF SessionIInv
  <2>2. /\ UNCHANGED <<calls, uivars, child, login>> /\ auth' = "initialize"
    BY <1>2 DEF ChildTerminated
  <2>3. Keeps({"SetStream"}) /\ Keeps({"UserInput"}) /\ Keeps({"SetGame"}) /\ Has({"SetGame"})
    BY <2>1, <2>2, BoxUnchanged DEF uivars
  <2>4. StreamInv'
    BY <2>1, <2>2, <2>3, StreamsStay DEF uivars, calls, StreamsGoOn
  <2>5. InputIsCommand'
    BY <2>1, <2>3, InputStays
  <2>6. GameInv'
    BY <2>1, <2>2, <2>3, GamesStay DEF uivars
  <2>7. KeyInv'
    BY <2>1, <2>2, KeysStay DEF login
  <2> QED
    BY <2>4, <2>5, <2>6, <2>7
<1>3. CASE LoginStops
  <2>1. child.box # <<>> /\ child' = [child EXCEPT !.kind = "stopped", !.box = <<>>]
    BY <1>3 DEF LoginStops, GetsChild
  <2>2. child'.id = child.id /\ child'.kind = "stopped"
    BY <1>1, <2>1, RestType
  <2>3. StreamsGoOn
    BY <1>3 DEF LoginStops, calls, StreamsGoOn
  <2> QED
    BY <1>3, <2>2, <2>3, CallsSafe DEF LoginStops
<1>4. CASE GameInput
  <2>1. child.box # <<>> /\ child' = Rest /\ Respond /\ UNCHANGED <<auth, login>>
    BY <1>4 DEF GameInput, GetsChild
  <2>2. child'.id = child.id /\ child'.kind = child.kind
    BY <1>1, <2>1, RestType
  <2>3. KeyInv'
    BY <1>1, <2>1, <2>2, KeysStay DEF login
  <2> QED
    BY <2>1, <2>2, <2>3, RespondSafe
<1> QED
  BY <1>2, <1>3, <1>4, SetStreamSafe, SetGameSafe, UISafe, InitializeSafe, LoginSafe DEF Actors

---------------------------------------------------------------------------
(* The theorems. *)

\* Nothing is in the mailbox at first, no key in the keyring and no child.
LEMMA SessionInit == Init => SessionIInv
<1> SUFFICES ASSUME Init PROVE SessionIInv
  OBVIOUS
<1>1. NoChild(0) \in Child /\ NoChild(0).id = 0 /\ NoChild(0).kind = "none"
  <2>1. 0 \in 0..MaxChildren /\ "none" \in {"none", "login", "game", "stopped"}
    BY SessionAssumption
  <2> QED
    BY <2>1, NewChildType
<1>2. TypeOK
  <2>1. box \in Seq(Message) /\ child \in Child
    BY <1>1 DEF Init
  <2>2. call \in [Call -> {"new", "create", "posted", "wait", "ended"}]
    BY DEF Init
  <2>3. signups \subseteq Key /\ shown \subseteq Key /\ account \subseteq Key
    BY SessionAssumption DEF Init, Key, OldKey
  <2>4. /\ session \in BOOLEAN /\ broken \subseteq Stream /\ auth \in {"none", "initialize", "running"}
        /\ stream \in Stream \cup {Nil} /\ done \in Stream \cup {Nil}
        /\ waits \in Command \cup {Nil, "update"} /\ keyring \in Key \cup {Nil}
    BY DEF Init
  <2>5. game \in 0..MaxChildren /\ keys \in 0..MaxKeys /\ faults \in 0..MaxFaults
    BY SessionAssumption DEF Init
  <2> QED
    BY <2>1, <2>2, <2>3, <2>4, <2>5 DEF TypeOK
<1>3. Len(box) = 0 /\ (\A i : i \notin 1..Len(box))
  BY DEF Init
<1>4. StreamInv /\ InputIsCommand
  BY <1>3 DEF Init, StreamInv, StreamsAreOpen, StreamsOnce, DoneHasBegun,
     CurrentStreamIsOpen, InputIsCommand
<1>5. GameInv
  BY <1>1, <1>3 DEF Init, GameInv, GamesAreNew, GamesInOrder, InputReachesChild
<1>6. KeyInv
  BY <1>1, SessionAssumption DEF Init, KeyInv, GameHasAccount, ShownPhraseWorks
<1> QED
  BY <1>2, <1>4, <1>5, <1>6 DEF SessionIInv

\* Every step of the server, the actors, the browser and a crash keeps it.
LEMMA SessionNext == SessionIInv /\ [Next]_vars => SessionIInv'
<1> SUFFICES ASSUME SessionIInv, [Next]_vars PROVE SessionIInv'
  OBVIOUS
<1>1. CASE Server
  BY <1>1, ServerType, ServerSafe DEF SessionIInv
<1>2. CASE Actors
  BY <1>2, ActorsType, ActorsSafe DEF SessionIInv
<1>3. CASE Crash
  <2>1. NoChild(0) \in Child
    <3>1. 0 \in 0..MaxChildren /\ "none" \in {"none", "login", "game", "stopped"}
      BY SessionAssumption
    <3> QED
      BY <3>1, NewChildType
  <2>2. box' \in Seq(Message) /\ game' \in 0..MaxChildren
    BY <1>3, SessionAssumption DEF Crash, GoDown
  <2>3. call' \in [Call -> {"new", "create", "posted", "wait", "ended"}]
    BY <1>3 DEF Crash, GoDown
  <2>4. faults' \in 0..MaxFaults
    BY <1>3, SessionAssumption DEF Crash, SessionIInv, TypeOK
  <2>5. TypeOK'
    BY <1>3, <2>1, <2>2, <2>3, <2>4 DEF Crash, GoDown, SessionIInv, TypeOK, login
  <2> QED
    BY <1>3, <2>5, GoDownSafe DEF Crash, SessionIInv
<1>4. CASE \E c \in Stream : Disconnect(c)
  <2>1. TypeOK'
    BY <1>4 DEF Disconnect, SessionIInv, TypeOK, uivars, login
  <2>2. StreamsGoOn /\ UNCHANGED <<uivars, auth, child, login>>
    BY <1>4 DEF Disconnect, StreamsGoOn
  <2> QED
    BY <2>1, <2>2, CallsSafe DEF SessionIInv
<1>5. CASE UNCHANGED vars
  BY <1>5 DEF vars, calls, uivars, login, SessionIInv, TypeOK, StreamInv, StreamsAreOpen,
     StreamsOnce, DoneHasBegun, CurrentStreamIsOpen, InputIsCommand, GameInv, GamesAreNew,
     GamesInOrder, InputReachesChild, KeyInv, GameHasAccount, ShownPhraseWorks
<1> QED
  BY <1>1, <1>2, <1>3, <1>4, <1>5 DEF Next

\* The inductive invariant holds in every session, with any number of streams,
\* commands, children, keys, failing calls and crashes.
THEOREM SessionInductive == Spec => []SessionIInv
  BY SessionInit, SessionNext, PTL DEF Spec

\* The session is well formed, the stream the UI actor writes to belongs to a call
\* that is still open, and whoever plays has signed up.
THEOREM SessionInvariant == Spec => []SessionInv
<1>1. SessionIInv => SessionInv
  BY DEF SessionIInv, SessionInv, StreamInv, KeyInv
<1> QED
  BY <1>1, SessionInductive, PTL

\* The player's input goes to the child that runs, or the announcement of that
\* child is in the mailbox: no older announcement can undo it.
THEOREM InputReaches == Spec => []InputReachesChild
<1>1. SessionIInv => InputReachesChild
  BY DEF SessionIInv, GameInv
<1> QED
  BY <1>1, SessionInductive, PTL

\* A recovery phrase that was shown opens the key of this machine, which the signup
\* service knows.
THEOREM PhraseWorks == Spec => []ShownPhraseWorks
<1>1. SessionIInv => ShownPhraseWorks
  BY DEF SessionIInv, KeyInv
<1> QED
  BY <1>1, SessionInductive, PTL

===============================================================================
