-------------------------- MODULE WebClient_proofs --------------------------
(***************************************************************************)
(* What holds of the browser client's connection for any number of attempts *)
(* and whatever the server answers.                                        *)
(***************************************************************************)
EXTENDS WebClient, TLAPS

---------------------------------------------------------------------------
(* Sequences of questions.                                                  *)

(* What sendCommand makes of a list of commands is a list of questions.      *)
LEMMA NumberedType ==
    ASSUME NEW cmds \in Seq(Command), NEW by \in Socket \cup {NoSocket}, cmdId \in Nat
    PROVE  /\ Numbered(cmds, by) \in Seq(Question)
           /\ Len(Numbered(cmds, by)) = Len(cmds)
           /\ \A i \in 1..Len(cmds) : Numbered(cmds, by)[i] = [id |-> cmdId + i, cmd |-> cmds[i], by |-> by]
<1> DEFINE N == Numbered(cmds, by)
<1>1. Len(cmds) \in Nat
  OBVIOUS
<1>2. N = [i \in 1..Len(cmds) |-> [id |-> cmdId + i, cmd |-> cmds[i], by |-> by]]
  BY DEF Numbered
<1>3. ASSUME NEW i \in 1..Len(cmds)
      PROVE  [id |-> cmdId + i, cmd |-> cmds[i], by |-> by] \in Question
  <2>1. cmds[i] \in Command
    BY <1>3
  <2> QED
    BY <2>1, <1>1 DEF Question
<1>4. N \in [1..Len(cmds) -> Question]
  BY <1>2, <1>3
<1>5. N \in Seq(Question) /\ Len(N) = Len(cmds)
  BY <1>1, <1>4
<1> QED
  BY <1>2, <1>5

(* Sending keeps the types.                                                 *)
LEMMA SendType ==
    ASSUME TypeOK, NEW cmds \in Seq(Command), NEW by \in Socket \cup {NoSocket},
           NEW rest \in [Socket -> Seq(Question)], NEW kept \in SUBSET Question,
           Send(cmds, by, rest, kept)
    PROVE  cmdId' \in Nat /\ pending' \subseteq Question /\ asked' \in [Socket -> Seq(Question)]
<1> DEFINE N == Numbered(cmds, by)
<1>1. cmdId \in Nat
  BY DEF TypeOK
<1>2. /\ N \in Seq(Question)
      /\ Len(N) = Len(cmds)
  BY <1>1, NumberedType
<1>3. cmdId' \in Nat
  BY <1>1 DEF Send
<1>4. pending' = kept \cup {N[i] : i \in 1..Len(cmds)}
  BY DEF Send
<1>5. \A i \in 1..Len(cmds) : N[i] \in Question
  BY <1>2
<1>6. pending' \subseteq Question
  BY <1>4, <1>5
<1>7. \A s \in Socket : rest[s] \in Seq(Question) /\ rest[s] \o N \in Seq(Question)
  BY <1>2
<1>8. asked' \in [Socket -> Seq(Question)]
  BY <1>7 DEF Send
<1> QED
  BY <1>3, <1>6, <1>8

(* Every command of the dialogue is a command.                              *)
LEMMA FirstCommandType ==
    ASSUME NEW r \in Reason, NEW salt \in BOOLEAN
    PROVE  /\ FirstCommand(r, salt) \in Command
           /\ FirstCommand(r, salt) \notin {"ListUsers", "ListRooms", "JoinRoom", "Ping"}
BY DEF FirstCommand, Reason, Command

LEMMA SaltedCommandType ==
    ASSUME NEW r \in Reason
    PROVE  /\ SaltedCommand(r) \in Command
           /\ SaltedCommand(r) \notin {"ListUsers", "ListRooms", "JoinRoom", "Ping"}
BY DEF SaltedCommand, FirstCommand, Reason, Command

LEMMA DisconnectType ==
    ASSUME TypeOK
    PROVE  AfterDisconnect \in [Socket -> {"unused", "connecting", "failing", "open", "closing", "failed", "closed"}]
BY DEF AfterDisconnect, TypeOK

LEMMA RestType ==
    ASSUME TypeOK, NEW s \in Socket, Answered(s)
    PROVE  /\ Rest(s) \in [Socket -> Seq(Question)]
           /\ Head(asked[s]) \in Question
<1>1. asked[s] \in Seq(Question) /\ asked[s] # <<>>
  BY DEF TypeOK, Answered
<1>2. Tail(asked[s]) \in Seq(Question) /\ Head(asked[s]) \in Question
  BY <1>1
<1> QED
  BY <1>2 DEF Rest, TypeOK

---------------------------------------------------------------------------
(* Type correctness.                                                        *)

LEMMA InitType == Init => TypeOK
<1> SUFFICES ASSUME Init PROVE TypeOK
  OBVIOUS
<1>1. asked \in [Socket -> Seq(Question)]
  <2>1. <<>> \in Seq(Question)
    OBVIOUS
  <2> QED
    BY <2>1 DEF Init
<1> QED
  BY <1>1 DEF Init, TypeOK, Reason, Status


LEMMA UserType ==
    ASSUME TypeOK, (Logout \/ CloseDialog \/ \E s \in Socket, r \in Reason : Connect(s, r))
    PROVE  TypeOK'
<1>1. CASE Logout
  BY <1>1, DisconnectType DEF Logout, TypeOK, netVars, askVars, loopVars, storeVars, pageVars
<1>2. CASE CloseDialog
  BY <1>2 DEF CloseDialog, TypeOK, netVars, askVars, loopVars, storeVars, pageVars
<1>3. ASSUME NEW s \in Socket, NEW r \in Reason, Connect(s, r)
      PROVE  TypeOK'
  <2>1. sock' \in [Socket -> {"unused", "connecting", "failing", "open", "closing", "failed", "closed"}]
        /\ current' \in Socket \cup {NoSocket}
    BY <1>3 DEF Connect, TypeOK
  <2>2. why' \in [Socket -> Reason] /\ status' \in Status /\ options' \in Socket \cup {NoSocket}
    BY <1>3 DEF Connect, TypeOK, Status
  <2> QED
    BY <1>3, <2>1, <2>2 DEF Connect, TypeOK, askVars, loopVars, storeVars
<1> QED
  BY <1>1, <1>2, <1>3

LEMMA BrowserType ==
    ASSUME TypeOK, NEW s \in Socket, ConnectionTimer(s) \/ OnOpen(s) \/ OnError(s) \/ OnClose(s)
    PROVE  TypeOK'
<1>1. CASE ConnectionTimer(s)
  BY <1>1 DEF ConnectionTimer, TypeOK, askVars, loopVars, storeVars, pageVars
<1>2. CASE OnOpen(s)
  BY <1>2 DEF OnOpen, TypeOK, Status, askVars, storeVars, pageVars
<1>3. CASE OnError(s)
  <2>1. sock' \in [Socket -> {"unused", "connecting", "failing", "open", "closing", "failed", "closed"}]
    BY <1>3 DEF OnError, TypeOK
  <2> QED
    BY <1>3, <2>1 DEF OnError, Disconnected, ResetStores, TypeOK, Status, loopVars
<1>4. CASE OnClose(s)
  <2>1. sock' \in [Socket -> {"unused", "connecting", "failing", "open", "closing", "failed", "closed"}]
    BY <1>4 DEF OnClose, TypeOK
  <2>2. /\ status' \in Status /\ cmdId' \in Nat /\ pending' \subseteq Question
        /\ user' \in Socket \cup {NoSocket} /\ lists' \subseteq {"users", "rooms"} /\ awaiting' \in Socket \cup {NoSocket}
    <3>1. CASE status = "DISCONNECTED"
      BY <1>4, <3>1 DEF OnClose, TypeOK, Status, storeVars
    <3>2. CASE status # "DISCONNECTED"
      <4>1. Disconnected
        BY <1>4, <3>2 DEF OnClose
      <4> QED
        BY <4>1 DEF Disconnected, ResetStores, Status
    <3> QED
      BY <3>1, <3>2
  <2>3. loops' \subseteq Socket /\ handle' \in Socket \cup {NoSocket} /\ lastPing' \in BOOLEAN
    BY <1>4 DEF OnClose, EndPingLoop, TypeOK
  <2>4. /\ asked' \in [Socket -> Seq(Question)]
        /\ granted' \in [Socket -> SUBSET {"session", "users", "rooms"}]
    <3>1. <<>> \in Seq(Question) /\ {} \in SUBSET {"session", "users", "rooms"}
      OBVIOUS
    <3> QED
      BY <1>4, <3>1 DEF OnClose, Forget, TypeOK
  <2> QED
    BY <1>4, <2>1, <2>2, <2>3, <2>4 DEF OnClose, TypeOK, pageVars
<1> QED
  BY <1>1, <1>2, <1>3, <1>4

LEMMA TickType ==
    ASSUME TypeOK, NEW l \in Socket, Tick(l)
    PROVE  TypeOK'
<1>1. sock' \in [Socket -> {"unused", "connecting", "failing", "open", "closing", "failed", "closed"}]
      /\ status' \in Status
      /\ user' \in Socket \cup {NoSocket} /\ lists' \subseteq {"users", "rooms"} /\ awaiting' \in Socket \cup {NoSocket}
  BY DisconnectType DEF Tick, Disconnected, ResetStores, TypeOK, Status, storeVars
<1>2. cmdId' \in Nat /\ pending' \subseteq Question /\ asked' \in [Socket -> Seq(Question)]
  <2>1. CASE lastPing
    BY <2>1 DEF Tick, Disconnected, ResetStores, TypeOK
  <2>2. CASE ~lastPing /\ sock[current] = "open"
    <3>1. Send(<<"Ping">>, NoSocket, asked, pending)
      BY <2>2 DEF Tick
    <3>2. <<"Ping">> \in Seq(Command)
      BY DEF Command
    <3>3. asked \in [Socket -> Seq(Question)] /\ pending \in SUBSET Question
      BY DEF TypeOK
    <3> QED
      BY <3>1, <3>2, <3>3, SendType
  <2>3. CASE ~lastPing /\ sock[current] # "open"
    BY <2>3 DEF Tick, TypeOK, askVars
  <2> QED
    BY <2>1, <2>2, <2>3 DEF TypeOK
<1>3. loops' \subseteq Socket /\ handle' \in Socket \cup {NoSocket} /\ lastPing' \in BOOLEAN
  BY DEF Tick, EndPingLoop, TypeOK
<1>4. granted' = granted
  BY DEF Tick, askVars
<1> QED
  BY <1>1, <1>2, <1>3, <1>4 DEF Tick, TypeOK, pageVars

LEMMA MessageType ==
    ASSUME TypeOK, NEW s \in Socket, Mismatch(s) \/ Dismiss(s) \/ \E salt \in BOOLEAN : Identify(s, salt)
    PROVE  TypeOK'
<1>1. CASE Mismatch(s)
  <2>1. server' \in [Socket -> {"silent", "greeted", "mute"}]
    BY <1>1 DEF Mismatch, TypeOK
  <2> QED
    BY <1>1, <2>1, DisconnectType DEF Mismatch, Disconnected, ResetStores, TypeOK, Status, loopVars, pageVars
<1>2. CASE Dismiss(s)
  <2>1. server' \in [Socket -> {"silent", "greeted", "mute"}]
    BY <1>2 DEF Dismiss, TypeOK
  <2> QED
    BY <1>2, <2>1 DEF Dismiss, Disconnected, ResetStores, TypeOK, Status, loopVars, pageVars
<1>3. ASSUME NEW salt \in BOOLEAN, Identify(s, salt)
      PROVE  TypeOK'
  <2>1. options \in Socket /\ why[options] \in Reason
    BY <1>3 DEF Identify, TypeOK
  <2>2. FirstCommand(why[options], salt) \in Command
    BY <2>1, FirstCommandType
  <2>3. <<FirstCommand(why[options], salt)>> \in Seq(Command)
    BY <2>2
  <2>4. asked \in [Socket -> Seq(Question)] /\ pending \in SUBSET Question
    BY DEF TypeOK
  <2>5. Send(<<FirstCommand(why[options], salt)>>, options, asked, pending)
    BY <1>3 DEF Identify
  <2>6. cmdId' \in Nat /\ pending' \subseteq Question /\ asked' \in [Socket -> Seq(Question)]
    BY <2>1, <2>3, <2>4, <2>5, SendType
  <2>7. server' \in [Socket -> {"silent", "greeted", "mute"}] /\ status' \in Status
    BY <1>3 DEF Identify, TypeOK, Status
  <2> QED
    BY <1>3, <2>6, <2>7 DEF Identify, TypeOK, loopVars, storeVars, pageVars
<1> QED
  BY <1>1, <1>2, <1>3

(* The callbacks of the dialogue belong to an attempt; only those of the     *)
(* lists and of pings belong to none.  Without this a salt's answer would    *)
(* not name a command.                                                      *)
AllOwned == \A p \in pending : p.cmd \notin {"ListUsers", "ListRooms", "JoinRoom", "Ping"} => p.by \in Socket

TypeInv == TypeOK /\ AllOwned

(* Sending keeps the callbacks owned.                                       *)
LEMMA SendOwned ==
    ASSUME TypeInv, NEW cmds \in Seq(Command), NEW by \in Socket \cup {NoSocket},
           NEW rest \in [Socket -> Seq(Question)], NEW kept \in SUBSET pending,
           Send(cmds, by, rest, kept),
           by \in Socket \/ \A i \in 1..Len(cmds) : cmds[i] \in {"ListUsers", "ListRooms", "JoinRoom", "Ping"}
    PROVE  AllOwned'
<1> DEFINE N == Numbered(cmds, by)
<1>1. \A i \in 1..Len(cmds) : N[i] = [id |-> cmdId + i, cmd |-> cmds[i], by |-> by]
  BY NumberedType DEF TypeInv, TypeOK
<1>2. pending' = kept \cup {N[i] : i \in 1..Len(cmds)}
  BY DEF Send
<1>3. SUFFICES ASSUME NEW p \in pending', p.cmd \notin {"ListUsers", "ListRooms", "JoinRoom", "Ping"}
               PROVE  p.by \in Socket
  BY DEF AllOwned
<1>4. CASE p \in kept
  BY <1>3, <1>4 DEF TypeInv, AllOwned
<1>5. ASSUME NEW i \in 1..Len(cmds), p = N[i]
      PROVE  p.by \in Socket
  <2>1. p = [id |-> cmdId + i, cmd |-> cmds[i], by |-> by]
    BY <1>1, <1>5
  <2>2. p.cmd = cmds[i] /\ p.by = by
    BY <2>1
  <2> QED
    BY <1>3, <2>2
<1> QED
  BY <1>2, <1>4, <1>5

(* Dropping callbacks keeps the others owned.                               *)
LEMMA FewerOwned == ASSUME AllOwned, pending' \subseteq pending PROVE AllOwned'
BY DEF AllOwned

(* An answer that sends the next commands keeps types and owners.            *)
LEMMA NextCommandType ==
    ASSUME TypeInv, NEW s \in Socket, Answered(s), NEW p \in pending,
           NEW cmds \in Seq(Command), NEW by \in Socket \cup {NoSocket},
           Send(cmds, by, Rest(s), pending \ {p}),
           by \in Socket \/ \A i \in 1..Len(cmds) : cmds[i] \in {"ListUsers", "ListRooms", "JoinRoom", "Ping"}
    PROVE  /\ cmdId' \in Nat /\ pending' \subseteq Question /\ asked' \in [Socket -> Seq(Question)]
           /\ AllOwned'
<1>1. Rest(s) \in [Socket -> Seq(Question)] /\ pending \ {p} \in SUBSET Question
  BY RestType DEF TypeInv, TypeOK
<1>2. pending \ {p} \in SUBSET pending
  OBVIOUS
<1> QED
  BY <1>1, <1>2, SendType, SendOwned DEF TypeInv

(* A callback is registered, and its record says for which command.          *)
LEMMA CallbackIsPending ==
    ASSUME TypeOK, NEW s \in Socket, NEW cmd, NEW p \in Callback(s, cmd)
    PROVE  p \in pending /\ p \in Question /\ p.cmd = cmd /\ p.id = Head(asked[s]).id
BY DEF Callback, TypeOK

(* What an answer grants is granted to its own session.                      *)
LEMMA GrantType ==
    ASSUME TypeOK, NEW s \in Socket, Grant(s)
    PROVE  granted' \in [Socket -> SUBSET {"session", "users", "rooms"}]
<1>1. CASE granted' = [granted EXCEPT ![s] = @ \cup {"session"}]
  BY <1>1 DEF TypeOK
<1>2. CASE granted' = [granted EXCEPT ![s] = @ \cup {"users"}]
  BY <1>2 DEF TypeOK
<1>3. CASE granted' = granted
  BY <1>3 DEF TypeOK
<1> QED
  BY <1>1, <1>2, <1>3 DEF Grant

(* The events that keep the lists of users and rooms.                        *)
LEMMA EventType ==
    ASSUME TypeInv, NEW s \in Socket,
           \/ UserJoined(s) \/ UserLeft(s)
           \/ \E joins \in {<<>>, <<"JoinRoom">>} : RoomsListed(s, joins)
    PROVE  TypeInv'
<1> USE DEF TypeInv
<1>1. CASE UserJoined(s) \/ UserLeft(s)
  BY <1>1 DEF UserJoined, UserLeft, TypeOK, AllOwned, netVars, askVars, loopVars, pageVars
<1>2. ASSUME NEW joins \in {<<>>, <<"JoinRoom">>}, RoomsListed(s, joins)
      PROVE  TypeInv'
  <2>1. /\ joins \in Seq(Command)
        /\ \A i \in 1..Len(joins) : joins[i] \in {"ListUsers", "ListRooms", "JoinRoom", "Ping"}
    <3>1. CASE joins = <<>>
      BY <3>1
    <3>2. CASE joins = <<"JoinRoom">>
      BY <3>2 DEF Command
    <3> QED
      BY <3>1, <3>2
  <2>2. asked \in [Socket -> Seq(Question)] /\ pending \in SUBSET Question /\ pending \in SUBSET pending
    BY DEF TypeOK
  <2>3. Send(joins, NoSocket, asked, pending)
    BY <1>2 DEF RoomsListed
  <2>4. cmdId' \in Nat /\ pending' \subseteq Question /\ asked' \in [Socket -> Seq(Question)]
    BY <2>1, <2>2, <2>3, SendType
  <2>5. AllOwned'
    BY <2>1, <2>2, <2>3, SendOwned
  <2>6. granted' \in [Socket -> SUBSET {"session", "users", "rooms"}] /\ lists' \subseteq {"users", "rooms"}
    BY <1>2 DEF RoomsListed, TypeOK
  <2> QED
    BY <1>2, <2>4, <2>5, <2>6 DEF RoomsListed, TypeOK, netVars, loopVars, pageVars
<1> QED
  BY <1>1, <1>2

LEMMA AnswerSends ==
    ASSUME TypeInv, NEW s \in Socket, AnswerSalt(s) \/ Registered(s) \/ Activated(s) \/ LoggedIn(s)
    PROVE  TypeInv'
<1>0. Answered(s)
  BY DEF AnswerSalt, Registered, Activated, LoggedIn
<1>1. CASE AnswerSalt(s)
  <2>1. PICK p \in Callback(s, "Salt") :
          Send(<<SaltedCommand(why[p.by])>>, p.by, Rest(s), pending \ {p})
    BY <1>1 DEF AnswerSalt
  <2>2. p \in pending /\ p.by \in Socket
    BY CallbackIsPending DEF TypeInv, AllOwned
  <2>3. why[p.by] \in Reason
    BY <2>2 DEF TypeInv, TypeOK
  <2>4. <<SaltedCommand(why[p.by])>> \in Seq(Command)
    BY <2>3, SaltedCommandType
  <2>5. cmdId' \in Nat /\ pending' \subseteq Question /\ asked' \in [Socket -> Seq(Question)] /\ AllOwned'
    BY <1>0, <2>1, <2>2, <2>4, NextCommandType
  <2> QED
    BY <1>1, <2>5, GrantType DEF AnswerSalt, TypeInv, TypeOK, netVars, loopVars, storeVars, pageVars
<1>2. CASE Registered(s)
  <2>1. PICK p \in Callback(s, "Register") : Send(<<"Login">>, p.by, Rest(s), pending \ {p})
    BY <1>2 DEF Registered
  <2>2. p \in pending /\ p.by \in Socket
    BY CallbackIsPending DEF TypeInv, AllOwned
  <2>3. <<"Login">> \in Seq(Command)
    BY DEF Command
  <2>4. cmdId' \in Nat /\ pending' \subseteq Question /\ asked' \in [Socket -> Seq(Question)] /\ AllOwned'
    BY <1>0, <2>1, <2>2, <2>3, NextCommandType
  <2> QED
    BY <1>2, <2>4 DEF Registered, TypeInv, TypeOK, netVars, loopVars, storeVars, pageVars
<1>3. CASE Activated(s)
  <2>1. PICK p \in Callback(s, "Activate") : Send(<<"Login">>, p.by, Rest(s), pending \ {p})
    BY <1>3 DEF Activated
  <2>2. p \in pending /\ p.by \in Socket
    BY CallbackIsPending DEF TypeInv, AllOwned
  <2>3. <<"Login">> \in Seq(Command)
    BY DEF Command
  <2>4. cmdId' \in Nat /\ pending' \subseteq Question /\ asked' \in [Socket -> Seq(Question)] /\ AllOwned'
    BY <1>0, <2>1, <2>2, <2>3, NextCommandType
  <2> QED
    BY <1>3, <2>4 DEF Activated, TypeInv, TypeOK, netVars, loopVars
<1>4. CASE LoggedIn(s)
  <2>1. PICK p \in Callback(s, "Login") :
          Send(<<"ListUsers", "ListRooms">>, NoSocket, Rest(s), pending \ {p})
    BY <1>4 DEF LoggedIn
  <2>2. p \in pending /\ p.by \in Socket
    BY CallbackIsPending DEF TypeInv, AllOwned
  <2>3. /\ <<"ListUsers", "ListRooms">> \in Seq(Command)
        /\ \A i \in 1..Len(<<"ListUsers", "ListRooms">>) :
              <<"ListUsers", "ListRooms">>[i] \in {"ListUsers", "ListRooms", "JoinRoom", "Ping"}
    BY DEF Command
  <2>4. cmdId' \in Nat /\ pending' \subseteq Question /\ asked' \in [Socket -> Seq(Question)] /\ AllOwned'
    BY <1>0, <2>1, <2>2, <2>3, NextCommandType
  <2>5. user' \in Socket \cup {NoSocket}
    BY <1>0, <1>4, RestType DEF LoggedIn, TypeInv, Question
  <2>6. granted' \in [Socket -> SUBSET {"session", "users", "rooms"}]
    BY <1>4 DEF LoggedIn, TypeInv, TypeOK
  <2> QED
    BY <1>4, <2>4, <2>5, <2>6 DEF LoggedIn, TypeInv, TypeOK, Status, netVars, loopVars
<1> QED
  BY <1>1, <1>2, <1>3, <1>4

(* An answer after which the client has nothing more to send.               *)
LEMMA AnswerEnds ==
    ASSUME TypeInv, NEW s \in Socket,
           \/ Stray(s) \/ NotActivated(s) \/ AnswerList(s)
           \/ \E activate \in BOOLEAN : NotRegistered(s, activate)
           \/ \E cmd \in {"Salt", "Login", "Activate", "ForgotRequest", "ForgotReset"} : Over(s, cmd)
    PROVE  TypeInv'
<1> USE DEF TypeInv
<1>1. CASE Stray(s)
  <2>1. asked' \in [Socket -> Seq(Question)]
    BY <1>1, RestType DEF Stray
  <2> QED
    BY <1>1, <2>1, GrantType DEF Stray, TypeOK, AllOwned, netVars, loopVars, storeVars, pageVars
<1>2. CASE NotActivated(s)
  <2>1. PICK p \in Callback(s, "Login") : ResetStores(p.by)
    BY <1>2 DEF NotActivated
  <2>2. p.by \in Socket \cup {NoSocket}
    BY CallbackIsPending DEF Question
  <2>3. asked' \in [Socket -> Seq(Question)]
    BY <1>2, RestType DEF NotActivated
  <2> QED
    BY <1>2, <2>1, <2>2, <2>3, DisconnectType
       DEF NotActivated, ResetStores, TypeOK, Status, AllOwned, loopVars
<1>3. CASE AnswerList(s)
  <2>1. asked' \in [Socket -> Seq(Question)]
    BY <1>3, RestType DEF AnswerList
  <2>0. PICK cmd \in {"ListUsers", "ListRooms", "JoinRoom", "Ping"} : \E p \in Callback(s, cmd) :
          /\ pending' = pending \ {p}
          /\ \E filled \in Fillings(s, cmd) : lists' = lists \cup filled
          /\ lastPing' = (lastPing /\ cmd # "Ping")
    BY <1>3 DEF AnswerList
  <2>2. PICK p \in Callback(s, cmd) :
          /\ pending' = pending \ {p}
          /\ \E filled \in Fillings(s, cmd) : lists' = lists \cup filled
          /\ lastPing' = (lastPing /\ cmd # "Ping")
    BY <2>0
  <2>3. AllOwned' /\ pending' \subseteq Question
    BY <2>2 DEF AllOwned, TypeOK
  <2>4. lastPing' \in BOOLEAN
    BY <2>2
  <2>5. lists' \subseteq {"users", "rooms"}
    <3>1. \A filled \in Fillings(s, cmd) : filled \subseteq {"users", "rooms"}
      BY DEF Fillings
    <3> QED
      BY <2>2, <3>1 DEF TypeOK
  <2> QED
    BY <1>3, <2>1, <2>3, <2>4, <2>5, GrantType DEF AnswerList, TypeOK, netVars, pageVars
<1>4. ASSUME NEW activate \in BOOLEAN, NotRegistered(s, activate)
      PROVE  TypeInv'
  <2>1. asked' \in [Socket -> Seq(Question)]
    BY <1>4, RestType DEF NotRegistered
  <2>2. PICK p \in Callback(s, "Register") :
          /\ pending' = pending \ {p}
          /\ awaiting' = IF activate THEN p.by ELSE awaiting
    BY <1>4 DEF NotRegistered
  <2>3. p.by \in Socket \cup {NoSocket}
    BY CallbackIsPending DEF Question
  <2>4. AllOwned' /\ pending' \subseteq Question /\ awaiting' \in Socket \cup {NoSocket}
    BY <2>2, <2>3 DEF AllOwned, TypeOK
  <2>5. dialog' \in BOOLEAN
    BY <1>4 DEF NotRegistered, TypeOK
  <2> QED
    BY <1>4, <2>1, <2>4, <2>5, DisconnectType, GrantType DEF NotRegistered, TypeOK, loopVars
<1>5. ASSUME NEW cmd \in {"Salt", "Login", "Activate", "ForgotRequest", "ForgotReset"}, Over(s, cmd)
      PROVE  TypeInv'
  <2>1. asked' \in [Socket -> Seq(Question)]
    BY <1>5, RestType DEF Over
  <2>2. submitting' \in BOOLEAN
    BY <1>5 DEF Over
  <2> QED
    BY <1>5, <2>1, <2>2, DisconnectType
       DEF Over, Disconnected, ResetStores, TypeOK, Status, AllOwned, loopVars
<1> QED
  BY <1>1, <1>2, <1>3, <1>4, <1>5

(* What the user, the browser, the timers and the other messages do to the   *)
(* callbacks.                                                               *)
LEMMA OthersOwned ==
    ASSUME TypeInv, NEW s \in Socket,
           \/ Logout \/ CloseDialog \/ \E r \in Reason : Connect(s, r)
           \/ ConnectionTimer(s) \/ OnOpen(s) \/ OnError(s) \/ OnClose(s) \/ Tick(s)
           \/ \E salt \in BOOLEAN : Identify(s, salt)
           \/ Mismatch(s) \/ Dismiss(s)
    PROVE  AllOwned'
<1>1. CASE pending' \subseteq pending
  BY <1>1, FewerOwned DEF TypeInv
<1>2. CASE Logout \/ CloseDialog \/ (\E r \in Reason : Connect(s, r)) \/ ConnectionTimer(s) \/ OnOpen(s)
  <2>1. pending' = pending
    BY <1>2 DEF Logout, CloseDialog, Connect, ConnectionTimer, OnOpen, askVars
  <2> QED
    BY <2>1, <1>1
<1>3. CASE OnError(s) \/ Mismatch(s) \/ Dismiss(s)
  <2>1. pending' = {}
    BY <1>3 DEF OnError, Mismatch, Dismiss, Disconnected, ResetStores
  <2> QED
    BY <2>1, <1>1
<1>4. CASE OnClose(s)
  <2>1. pending' = {} \/ pending' = pending
    BY <1>4 DEF OnClose, Disconnected, ResetStores
  <2> QED
    BY <2>1, <1>1
<1>5. CASE Tick(s)
  <2>1. CASE lastPing
    <3>1. pending' = {}
      BY <1>5, <2>1 DEF Tick, Disconnected, ResetStores
    <3> QED
      BY <3>1, <1>1
  <2>2. CASE ~lastPing /\ sock[current] = "open"
    <3>1. Send(<<"Ping">>, NoSocket, asked, pending)
      BY <1>5, <2>2 DEF Tick
    <3>2. <<"Ping">> \in Seq(Command) /\ \A i \in 1..Len(<<"Ping">>) : <<"Ping">>[i] \in {"ListUsers", "ListRooms", "JoinRoom", "Ping"}
      BY DEF Command
    <3>3. asked \in [Socket -> Seq(Question)] /\ pending \in SUBSET pending
      BY DEF TypeInv, TypeOK
    <3> QED
      BY <3>1, <3>2, <3>3, SendOwned
  <2>3. CASE ~lastPing /\ sock[current] # "open"
    <3>1. pending' = pending
      BY <1>5, <2>3 DEF Tick, askVars
    <3> QED
      BY <3>1, <1>1
  <2> QED
    BY <2>1, <2>2, <2>3 DEF TypeInv, TypeOK
<1>6. ASSUME NEW salt \in BOOLEAN, Identify(s, salt)
      PROVE  AllOwned'
  <2>1. options \in Socket /\ why[options] \in Reason
    BY <1>6 DEF Identify, TypeInv, TypeOK
  <2>2. FirstCommand(why[options], salt) \in Command
    BY <2>1, FirstCommandType
  <2>3. <<FirstCommand(why[options], salt)>> \in Seq(Command)
    BY <2>2
  <2>4. asked \in [Socket -> Seq(Question)] /\ pending \in SUBSET pending
    BY DEF TypeInv, TypeOK
  <2>5. Send(<<FirstCommand(why[options], salt)>>, options, asked, pending)
    BY <1>6 DEF Identify
  <2> QED
    BY <2>1, <2>3, <2>4, <2>5, SendOwned
<1> QED
  BY <1>2, <1>3, <1>4, <1>5, <1>6

LEMMA NextType == TypeInv /\ [Next]_vars => TypeInv'
<1> SUFFICES ASSUME TypeInv, [Next]_vars PROVE TypeInv'
  OBVIOUS
<1>0. TypeOK
  BY DEF TypeInv
<1>1. CASE UNCHANGED vars
  BY <1>1 DEF TypeInv, TypeOK, AllOwned, vars, netVars, askVars, loopVars, storeVars, pageVars
<1>2. CASE Logout \/ CloseDialog
  <2>1. pending' = pending
    BY <1>2 DEF Logout, CloseDialog, askVars
  <2> QED
    BY <1>0, <1>2, <2>1, UserType, FewerOwned DEF TypeInv
<1>3. ASSUME NEW s \in Socket,
             (\E r \in Reason : Connect(s, r)) \/ ConnectionTimer(s) \/ OnOpen(s) \/ OnError(s) \/ OnClose(s)
                \/ Tick(s) \/ (\E salt \in BOOLEAN : Identify(s, salt)) \/ Mismatch(s) \/ Dismiss(s)
      PROVE  TypeInv'
  <2>1. TypeOK'
    BY <1>0, <1>3, UserType, BrowserType, TickType, MessageType
  <2> QED
    BY <1>3, <2>1, OthersOwned DEF TypeInv
<1>4. ASSUME NEW s \in Socket, Answer(s)
      PROVE  TypeInv'
  BY <1>4, AnswerSends, AnswerEnds DEF Answer
<1>5. ASSUME NEW s \in Socket,
             \/ UserJoined(s) \/ UserLeft(s)
             \/ \E joins \in {<<>>, <<"JoinRoom">>} : RoomsListed(s, joins)
      PROVE  TypeInv'
  BY <1>5, EventType
<1> QED
  BY <1>1, <1>2, <1>3, <1>4, <1>5 DEF Next

LEMMA TypeInvariant == Spec => []TypeInv
<1>1. Init => TypeInv
  BY InitType DEF TypeInv, AllOwned, Init
<1> QED
  BY <1>1, NextType, PTL DEF Spec

(* The client stays in its types, however many sockets are open and in       *)
(* whatever order answers, timers and the user come.                        *)
THEOREM TypeCorrect == Spec => []TypeOK
<1>1. TypeInv => TypeOK
  BY DEF TypeInv
<1> QED
  BY <1>1, TypeInvariant, PTL

---------------------------------------------------------------------------
(* Pings without an answer.                                                 *)

(* Answers and events leave the loops alone; an answer can only end the      *)
(* waiting for a ping.                                                      *)
LEMMA MessagesKeepLoops ==
    ASSUME TypeOK, NEW s \in Socket,
           \/ Answer(s) \/ UserJoined(s) \/ UserLeft(s)
           \/ \E joins \in {<<>>, <<"JoinRoom">>} : RoomsListed(s, joins)
           \/ Mismatch(s) \/ Dismiss(s) \/ \E salt \in BOOLEAN : Identify(s, salt)
    PROVE  loops' = loops /\ (lastPing' => lastPing)
<1>1. CASE AnswerList(s)
  BY <1>1 DEF AnswerList
<1>2. CASE Stray(s) \/ AnswerSalt(s) \/ Registered(s) \/ Activated(s) \/ LoggedIn(s) \/ NotActivated(s)
  BY <1>2 DEF Stray, AnswerSalt, Registered, Activated, LoggedIn, NotActivated, loopVars
<1>3. ASSUME NEW activate \in BOOLEAN, NotRegistered(s, activate)
      PROVE  UNCHANGED loopVars
  BY <1>3 DEF NotRegistered, loopVars
<1>4. ASSUME NEW cmd \in {"Salt", "Login", "Activate", "ForgotRequest", "ForgotReset"}, Over(s, cmd)
      PROVE  UNCHANGED loopVars
  BY <1>4 DEF Over, loopVars
<1>5. CASE UserJoined(s) \/ UserLeft(s) \/ Mismatch(s) \/ Dismiss(s)
  BY <1>5 DEF UserJoined, UserLeft, Mismatch, Dismiss, loopVars
<1>6. ASSUME NEW joins \in {<<>>, <<"JoinRoom">>}, RoomsListed(s, joins)
      PROVE  UNCHANGED loopVars
  BY <1>6 DEF RoomsListed, loopVars
<1>7. ASSUME NEW salt \in BOOLEAN, Identify(s, salt)
      PROVE  UNCHANGED loopVars
  BY <1>7 DEF Identify, loopVars
<1> QED
  BY <1>1, <1>2, <1>3, <1>4, <1>5, <1>6, <1>7 DEF Answer, loopVars

(* A ping without an answer is always noticed, whatever sockets overlap and   *)
(* whoever's end stops whose loop: some interval still runs that finds it.   *)
PingIsWatched == lastPing => loops # {}

(* A loop is only ended together with the waiting, by whomever.              *)
LEMMA PingStep == TypeOK /\ PingIsWatched /\ [Next]_vars => PingIsWatched'
<1> SUFFICES ASSUME TypeOK, PingIsWatched, [Next]_vars PROVE PingIsWatched'
  OBVIOUS
<1> USE DEF PingIsWatched
<1>1. CASE UNCHANGED vars
  BY <1>1 DEF vars, loopVars
<1>2. CASE Logout \/ CloseDialog
  BY <1>2 DEF Logout, CloseDialog, loopVars
<1>3. ASSUME NEW s \in Socket, (\E r \in Reason : Connect(s, r)) \/ ConnectionTimer(s) \/ OnError(s)
      PROVE  PingIsWatched'
  BY <1>3 DEF Connect, ConnectionTimer, OnError, loopVars
<1>4. ASSUME NEW s \in Socket, OnOpen(s)
      PROVE  PingIsWatched'
  BY <1>4 DEF OnOpen
<1>5. ASSUME NEW s \in Socket, OnClose(s)
      PROVE  PingIsWatched'
  BY <1>5 DEF OnClose, EndPingLoop, TypeOK
<1>6. ASSUME NEW l \in Socket, Tick(l)
      PROVE  PingIsWatched'
  BY <1>6 DEF Tick, EndPingLoop
<1>7. ASSUME NEW s \in Socket,
             \/ Answer(s) \/ UserJoined(s) \/ UserLeft(s)
             \/ \E joins \in {<<>>, <<"JoinRoom">>} : RoomsListed(s, joins)
             \/ Mismatch(s) \/ Dismiss(s) \/ \E salt \in BOOLEAN : Identify(s, salt)
      PROVE  PingIsWatched'
  BY <1>7, MessagesKeepLoops
<1> QED
  BY <1>1, <1>2, <1>3, <1>4, <1>5, <1>6, <1>7 DEF Next

(* However many connections overlap, and whichever of them ends whose loop,   *)
(* an unanswered ping is found by an interval that still runs.              *)
THEOREM PingsAreWatched == Spec => []PingIsWatched
<1>1. Init => PingIsWatched
  BY DEF Init, PingIsWatched
<1>2. TypeInv => TypeOK
  BY DEF TypeInv
<1> QED
  BY <1>1, <1>2, PingStep, TypeInvariant, PTL DEF Spec

=============================================================================
