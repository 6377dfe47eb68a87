----------------------------- MODULE WebClient -----------------------------
(***************************************************************************)
(* The connection of the browser client: WebSocketService.ts (sockets and   *)
(* their callbacks), KeepAliveService.ts (the ping loop), ProtobufService.ts *)
(* (numbered commands and their callbacks), SessionCommands.ts and          *)
(* SessionEvents.ts (the dialogue that registers, activates, resets a        *)
(* password or logs in, and the events that keep the lists of users and      *)
(* rooms), the connection part of server.reducer.ts, and the submit button   *)
(* and activation dialog of Login.tsx.                                       *)
(*                                                                         *)
(* An attempt is named by the socket it opens.  JavaScript runs one callback *)
(* at a time, so each action is one whole callback; what interleaves are the *)
(* browser's events for several sockets, timers, messages and the user.      *)
(***************************************************************************)
EXTENDS Naturals, Sequences, FiniteSets

CONSTANTS
    Socket,     \* the attempts of one run of the page, each with its socket
    NoSocket,   \* no socket, no options, nobody logged in
    MaxCmd,     \* bound: no ping with a greater number is answered any more,
                \* and no room joined automatically under one
    Patient     \* TRUE: the user waits until every earlier socket has closed

ASSUME WebClientAssumption ==
    /\ NoSocket \notin Socket
    /\ MaxCmd \in Nat
    /\ Patient \in BOOLEAN

VARIABLES
    sock,       \* readyState of each socket, and how far its end has come
    why,        \* the reason given with each attempt
    current,    \* WebSocketService.socket
    server,     \* per socket: has the server introduced itself, or gone mute
    asked,      \* per socket: the commands sent and not yet answered, in order
    granted,    \* per socket: has its server session logged in, and of which
                \* lists is it sent the changes
    status,     \* WebSocketService.status, also shown by the store
    options,    \* WebClient.options: the attempt whose options wait for use
    cmdId,      \* ProtobufService.cmdId
    pending,    \* ProtobufService.pendingCommands
    loops,      \* sockets whose interval of KeepAliveService still runs
    handle,     \* KeepAliveService.keepalivecb: whose interval it names
    lastPing,   \* KeepAliveService.lastPingPending
    user,       \* store.server.user: the attempt that logged in
    lists,      \* which lists of the store hold something: of users, of rooms
    awaiting,   \* store.server.connectOptions: the attempt to be activated
    dialog,     \* Login.tsx: the activation dialog is open
    submitting  \* Login.tsx: the login button is disabled by useFireOnce

netVars   == <<sock, why, current, server, options>>
askVars   == <<asked, cmdId, pending, granted>>
loopVars  == <<loops, handle, lastPing>>
storeVars == <<user, lists, awaiting>>
pageVars  == <<dialog, submitting>>
vars == <<netVars, askVars, loopVars, storeVars, pageVars, status>>

Reason  == {"LOGIN", "REGISTER", "ACTIVATE_ACCOUNT", "PASSWORD_RESET_REQUEST", "PASSWORD_RESET"}
Command == {"Salt", "Login", "Register", "Activate", "ForgotRequest", "ForgotReset",
            "ListUsers", "ListRooms", "JoinRoom", "Ping"}
Status  == {"DISCONNECTED", "CONNECTING", "CONNECTED", "LOGGING_IN", "LOGGED_IN"}
Question == [id : Nat, cmd : Command, by : Socket \cup {NoSocket}]

(* The reason PASSWORD_RESET_CHALLENGE is treated like ..._REQUEST all the   *)
(* way, so one value stands for both.                                        *)

TypeOK ==
    /\ sock \in [Socket -> {"unused", "connecting", "failing", "open", "closing", "failed", "closed"}]
    /\ why \in [Socket -> Reason]
    /\ current \in Socket \cup {NoSocket}
    /\ server \in [Socket -> {"silent", "greeted", "mute"}]
    /\ asked \in [Socket -> Seq(Question)]
    /\ granted \in [Socket -> SUBSET {"session", "users", "rooms"}]
    /\ status \in Status
    /\ options \in Socket \cup {NoSocket}
    /\ cmdId \in Nat
    /\ pending \subseteq Question
    /\ loops \subseteq Socket
    /\ handle \in Socket \cup {NoSocket}
    /\ lastPing \in BOOLEAN
    /\ user \in Socket \cup {NoSocket}
    /\ lists \subseteq {"users", "rooms"}
    /\ awaiting \in Socket \cup {NoSocket}
    /\ dialog \in BOOLEAN
    /\ submitting \in BOOLEAN

Init ==
    /\ sock = [s \in Socket |-> "unused"]
    /\ why = [s \in Socket |-> "LOGIN"]
    /\ current = NoSocket
    /\ server = [s \in Socket |-> "silent"]
    /\ asked = [s \in Socket |-> <<>>]
    /\ granted = [s \in Socket |-> {}]
    /\ status = "DISCONNECTED"
    /\ options = NoSocket
    /\ cmdId = 0
    /\ pending = {}
    /\ loops = {}
    /\ handle = NoSocket
    /\ lastPing = FALSE
    /\ user = NoSocket
    /\ lists = {}
    /\ awaiting = NoSocket
    /\ dialog = FALSE
    /\ submitting = FALSE

---------------------------------------------------------------------------
(* What the callbacks are built from.                                       *)

(* WebSocketService.disconnect: close() of the current socket.  A socket     *)
(* that was still connecting fails; one that is closing or closed stays so.  *)
AfterDisconnect ==
    [s \in Socket |-> IF s # current THEN sock[s]
                      ELSE IF sock[s] = "open" THEN "closing"
                      ELSE IF sock[s] = "connecting" THEN "failing" ELSE sock[s]]

ResetStores_KeepsPending(kept) ==       \* variant: only the counter is reset
    /\ status' = "DISCONNECTED" /\ cmdId' = 0 /\ UNCHANGED pending
    /\ user' = NoSocket /\ lists' = {} /\ awaiting' = kept
ResetStores_KeepsLists(kept) ==         \* variant: the lists outlive the session
    /\ status' = "DISCONNECTED" /\ cmdId' = 0 /\ pending' = {}
    /\ user' = NoSocket /\ awaiting' = kept /\ UNCHANGED lists

(* updateStatus(DISCONNECTED): the commands are reset and the stores cleared;*)
(* what is stored for an activation right afterwards is kept.                *)
ResetStores(kept) ==
    /\ status' = "DISCONNECTED"
    /\ cmdId' = 0
    /\ pending' = {}
    /\ user' = NoSocket
    /\ lists' = {}
    /\ awaiting' = kept
Disconnected == ResetStores(NoSocket)

(* The numbered commands that sendCommand makes of a list of commands.       *)
Numbered(cmds, by) ==
    [i \in 1..Len(cmds) |-> [id |-> cmdId + i, cmd |-> cmds[i], by |-> by]]

(* sendCommand: every command is registered, but leaves the client only if   *)
(* the current socket is open.  rest and kept are the questions still open   *)
(* and the callbacks still registered when the command is sent.  What is     *)
(* sent to a server that is gone is never answered and not recorded.         *)
Send(cmds, by, rest, kept) ==
    /\ cmdId' = cmdId + Len(cmds)
    /\ pending' = kept \cup {Numbered(cmds, by)[i] : i \in 1..Len(cmds)}
    /\ asked' = [s \in Socket |->
                    IF s = current /\ sock[s] = "open" /\ server[s] # "mute"
                    THEN rest[s] \o Numbered(cmds, by) ELSE rest[s]]

(* endPingLoop clears the interval that keepalivecb names, whosoever it is.  *)
EndPingLoop ==
    /\ loops' = loops \ {handle}
    /\ handle' = NoSocket
    /\ lastPing' = FALSE

---------------------------------------------------------------------------
(* The user.                                                                *)

(* A form of the login page is submitted.  Only the login form disables its  *)
(* button; the activation form reuses the options the store kept.  Without   *)
(* options the address is no URL: new WebSocket throws after the status has  *)
(* been set, and no socket is made.                                          *)
Connect(s, r) ==
    /\ sock[s] = "unused"
    /\ status # "LOGGED_IN"
    /\ r = "LOGIN" => ~submitting
    /\ r = "ACTIVATE_ACCOUNT" => dialog
    /\ Patient => \A t \in Socket : sock[t] \in {"unused", "closed"}
    /\ status' = "CONNECTING"
    /\ why' = [why EXCEPT ![s] = r]
    /\ options' = s
    /\ submitting' = (submitting \/ r = "LOGIN")
    /\ IF r = "ACTIVATE_ACCOUNT" /\ awaiting = NoSocket
       THEN sock' = [sock EXCEPT ![s] = "closed"] /\ UNCHANGED current
       ELSE sock' = [sock EXCEPT ![s] = "connecting"] /\ current' = s
    /\ UNCHANGED <<server, askVars, loopVars, storeVars, dialog>>

(* The logged-in user leaves: only the socket is closed.                    *)
Logout ==
    /\ status = "LOGGED_IN"
    /\ sock' = AfterDisconnect
    /\ UNCHANGED <<why, current, server, options, askVars, loopVars, storeVars, pageVars, status>>

(* The user closes the activation dialog.                                   *)
CloseDialog ==
    /\ dialog
    /\ dialog' = FALSE
    /\ UNCHANGED <<netVars, askVars, loopVars, storeVars, submitting, status>>

---------------------------------------------------------------------------
(* Events of the browser.                                                   *)

(* The timer of createWebSocket closes a socket that has not opened in time.*)
ConnectionTimer(s) ==
    /\ sock[s] = "connecting"
    /\ sock' = [sock EXCEPT ![s] = "failing"]
    /\ UNCHANGED <<why, current, server, options, askVars, loopVars, storeVars, pageVars, status>>

OnOpen_Unwatched(s) ==                  \* variant: no ping loop is started
    /\ sock[s] = "connecting"
    /\ sock' = [sock EXCEPT ![s] = "open"]
    /\ status' = "CONNECTED"
    /\ UNCHANGED <<why, current, server, options, askVars, loopVars, storeVars, pageVars>>

(* onopen; startPingLoop overwrites the handle of a loop that still runs.   *)
OnOpen(s) ==
    /\ sock[s] = "connecting"
    /\ sock' = [sock EXCEPT ![s] = "open"]
    /\ status' = "CONNECTED"
    /\ loops' = loops \cup {s}
    /\ handle' = s
    /\ UNCHANGED <<why, current, server, options, askVars, lastPing, storeVars, pageVars>>

OnError_OnlyForm(s) ==                  \* variant: the status is not updated
    /\ sock[s] \in {"connecting", "failing", "open"}
    /\ sock' = [sock EXCEPT ![s] = "failed"]
    /\ submitting' = FALSE
    /\ UNCHANGED <<why, current, server, options, askVars, storeVars, loopVars, dialog, status>>

(* onerror: a connection could not be made, or broke.                       *)
OnError(s) ==
    /\ sock[s] \in {"connecting", "failing", "open"}
    /\ sock' = [sock EXCEPT ![s] = "failed"]
    /\ Disconnected
    /\ submitting' = FALSE
    /\ UNCHANGED <<why, current, server, options, asked, granted, loopVars, dialog>>

(* What is under way on a connection is lost with it, and so is its session. *)
Forget(s) ==
    /\ asked' = [asked EXCEPT ![s] = <<>>]
    /\ granted' = [granted EXCEPT ![s] = {}]

OnClose_KeepsLoop(s) ==         \* variant: the ping loop is not ended
    /\ sock[s] \in {"open", "closing", "failed"}
    /\ sock' = [sock EXCEPT ![s] = "closed"]
    /\ IF status # "DISCONNECTED" THEN Disconnected ELSE UNCHANGED <<status, cmdId, pending, storeVars>>
    /\ Forget(s)
    /\ UNCHANGED <<why, current, server, options, loopVars, pageVars>>

(* onclose of any socket: after our close(), after an error, or because the  *)
(* server closed.  It looks at the common status and ends the common loop.   *)
OnClose(s) ==
    /\ sock[s] \in {"open", "closing", "failed"}
    /\ sock' = [sock EXCEPT ![s] = "closed"]
    /\ IF status # "DISCONNECTED" THEN Disconnected ELSE UNCHANGED <<status, cmdId, pending, storeVars>>
    /\ EndPingLoop
    /\ Forget(s)
    /\ UNCHANGED <<why, current, server, options, pageVars>>

(* One beat of the interval that socket l started: a ping without an answer  *)
(* ends the connection; a current socket that is not open ends the loop.     *)
Tick(l) ==
    /\ l \in loops
    /\ IF lastPing
       THEN /\ sock' = AfterDisconnect
            /\ Disconnected
            /\ UNCHANGED <<asked, granted>>
       ELSE /\ UNCHANGED <<sock, status, storeVars>>
            /\ IF sock[current] = "open"
               THEN Send(<<"Ping">>, NoSocket, asked, pending) /\ UNCHANGED granted
               ELSE UNCHANGED askVars
    /\ IF sock'[current] = "open"
       THEN lastPing' = TRUE /\ UNCHANGED <<loops, handle>>
       ELSE EndPingLoop
    /\ UNCHANGED <<why, current, server, options, pageVars>>

---------------------------------------------------------------------------
(* Messages.  A browser delivers them only while the socket is open.  A mute *)
(* server takes no more commands, but what it has sent or is just answering  *)
(* may still arrive.                                                        *)

Reads(s) == sock[s] = "open"

(* The command serverIdentification begins with.                            *)
FirstCommand(r, salt) ==
    CASE r = "REGISTER" -> "Register"
      [] r = "PASSWORD_RESET_REQUEST" -> "ForgotRequest"
      [] salt -> "Salt"
      [] r = "LOGIN" -> "Login"
      [] r = "ACTIVATE_ACCOUNT" -> "Activate"
      [] r = "PASSWORD_RESET" -> "ForgotReset"

(* And the one that follows the salt.                                       *)
SaltedCommand(r) == FirstCommand(r, FALSE)

(* Event_ServerIdentification: the dialogue begins with the options of the   *)
(* latest attempt, and they are consumed; salt says whether the server offers   *)
(* password salts.                                                          *)
Identify(s, salt) ==
    /\ Reads(s) /\ server[s] = "silent"
    /\ options # NoSocket
    /\ server' = [server EXCEPT ![s] = "greeted"]
    /\ status' = IF why[options] = "LOGIN" THEN "LOGGING_IN" ELSE status
    /\ Send(<<FirstCommand(why[options], salt)>>, options, asked, pending)
    /\ options' = NoSocket
    /\ UNCHANGED <<sock, why, current, granted, loopVars, storeVars, pageVars>>

(* The same event of a server with another protocol version, or when the     *)
(* options have been consumed already.                                      *)
Mismatch(s) ==
    /\ Reads(s) /\ server[s] = "silent"
    /\ server' = [server EXCEPT ![s] = "greeted"]
    /\ Disconnected
    /\ sock' = AfterDisconnect
    /\ UNCHANGED <<why, current, options, asked, granted, loopVars, pageVars>>

Dismiss_EndsLoop(s) ==                  \* variant: nobody watches any more
    /\ Reads(s) /\ server[s] # "mute"
    /\ server' = [server EXCEPT ![s] = "mute"]
    /\ Disconnected
    /\ EndPingLoop
    /\ UNCHANGED <<sock, why, current, options, asked, granted, pageVars>>

(* Event_ConnectionClosed: the client shows the reason.  The server ends the *)
(* session after it, and the connection with it.                            *)
Dismiss(s) ==
    /\ Reads(s) /\ server[s] # "mute"
    /\ server' = [server EXCEPT ![s] = "mute"]
    /\ Disconnected
    /\ UNCHANGED <<sock, why, current, options, asked, granted, loopVars, pageVars>>

(* A session is sent the changes of a list from the time it asks for it;     *)
(* they can overtake the answer.                                            *)
Informed(s, list, cmd) ==
    /\ Reads(s) /\ "session" \in granted[s]
    /\ list \notin granted[s] => asked[s] # <<>> /\ Head(asked[s]).cmd = cmd

(* Event_UserJoined                                                         *)
UserJoined(s) ==
    /\ Informed(s, "users", "ListUsers")
    /\ lists' = lists \cup {"users"}
    /\ UNCHANGED <<netVars, askVars, loopVars, user, awaiting, pageVars, status>>

(* Event_UserLeft, of the only user in the list.                            *)
UserLeft(s) ==
    /\ Informed(s, "users", "ListUsers")
    /\ lists' = lists \ {"users"}
    /\ UNCHANGED <<netVars, askVars, loopVars, user, awaiting, pageVars, status>>

(* Event_ListRooms, before the answer to ListRooms and whenever a room has   *)
(* changed: the rooms marked for it are joined, over the current socket.     *)
RoomsListed(s, joins) ==
    /\ Informed(s, "rooms", "ListRooms")
    /\ joins # <<>> => cmdId < MaxCmd
    /\ lists' = lists \cup {"rooms"}
    /\ granted' = [granted EXCEPT ![s] = @ \cup {"rooms"}]
    /\ Send(joins, NoSocket, asked, pending)
    /\ UNCHANGED <<netVars, loopVars, user, awaiting, pageVars, status>>

(* The server answers in the order it was asked, and only after it has       *)
(* introduced itself; the list of rooms precedes the answer to ListRooms.    *)
(* The answer carries a number, and the client looks up the callback under   *)
(* that number: normally the one of the very question.                       *)
Answered(s) ==
    /\ Reads(s) /\ server[s] # "silent"
    /\ asked[s] # <<>>
    /\ Head(asked[s]).cmd = "Ping" => Head(asked[s]).id <= MaxCmd
    /\ Head(asked[s]).cmd = "ListRooms" /\ "session" \in granted[s] => "rooms" \in granted[s]

(* What the server grants with an answer: a session when it accepts a login, *)
(* and to a session the changes of the list of users.                        *)
Grant(s) ==
    \/ /\ Head(asked[s]).cmd = "Login"
       /\ granted' = [granted EXCEPT ![s] = @ \cup {"session"}]
    \/ /\ Head(asked[s]).cmd = "ListUsers" /\ "session" \in granted[s]
       /\ granted' = [granted EXCEPT ![s] = @ \cup {"users"}]
    \/ /\ Head(asked[s]).cmd = "ListUsers" => "session" \notin granted[s]
       /\ UNCHANGED granted

Callback(s, cmd) == {p \in pending : p.id = Head(asked[s]).id /\ p.cmd = cmd}
Rest(s) == [asked EXCEPT ![s] = Tail(@)]

(* An answer without a callback, or whose callback fails on what it does not *)
(* find in the answer to another command: handleMessageEvent catches that.  *)
Stray(s) ==
    /\ Answered(s)
    /\ \/ \A p \in pending : p.id # Head(asked[s]).id
       \/ \E cmd \in {"Login", "ForgotRequest", "JoinRoom"} :
             Callback(s, cmd) # {} /\ Head(asked[s]).cmd # cmd
    /\ asked' = Rest(s)
    /\ Grant(s)
    /\ UNCHANGED <<netVars, cmdId, pending, loopVars, storeVars, pageVars, status>>

(* requestPasswordSalt: the command the salt was wanted for.                 *)
AnswerSalt(s) ==
    /\ Answered(s)
    /\ \E p \in Callback(s, "Salt") :
          Send(<<SaltedCommand(why[p.by])>>, p.by, Rest(s), pending \ {p})
    /\ Grant(s)
    /\ UNCHANGED <<netVars, loopVars, storeVars, pageVars, status>>

(* register, accepted: the same attempt logs in.                             *)
Registered(s) ==
    /\ Answered(s) /\ Head(asked[s]).cmd = "Register"
    /\ \E p \in Callback(s, "Register") : Send(<<"Login">>, p.by, Rest(s), pending \ {p})
    /\ UNCHANGED <<netVars, granted, loopVars, storeVars, pageVars, status>>

NotRegistered_StoresCommand(s, activate) ==     \* variant: not the options
    /\ Answered(s)
    /\ activate => Head(asked[s]).cmd = "Register"
    /\ \E p \in Callback(s, "Register") :
          /\ pending' = pending \ {p}
          /\ awaiting' = IF activate THEN p ELSE awaiting
    /\ dialog' = (dialog \/ activate)
    /\ asked' = Rest(s)
    /\ Grant(s)
    /\ sock' = AfterDisconnect
    /\ UNCHANGED <<why, current, server, options, cmdId, loopVars, user, lists, submitting, status>>

(* register, not accepted, or accepted but to be activated by mail: the      *)
(* options are stored for the activation dialog and the socket is closed;    *)
(* the status follows when it has closed.                                   *)
NotRegistered(s, activate) ==
    /\ Answered(s)
    /\ activate => Head(asked[s]).cmd = "Register"
    /\ \E p \in Callback(s, "Register") :
          /\ pending' = pending \ {p}
          /\ awaiting' = IF activate THEN p.by ELSE awaiting
    /\ dialog' = (dialog \/ activate)
    /\ asked' = Rest(s)
    /\ Grant(s)
    /\ sock' = AfterDisconnect
    /\ UNCHANGED <<why, current, server, options, cmdId, loopVars, user, lists, submitting, status>>

(* activateAccount, accepted: the dialog closes and the attempt logs in.     *)
Activated(s) ==
    /\ Answered(s) /\ Head(asked[s]).cmd = "Activate"
    /\ \E p \in Callback(s, "Activate") : Send(<<"Login">>, p.by, Rest(s), pending \ {p})
    /\ awaiting' = NoSocket
    /\ dialog' = FALSE
    /\ UNCHANGED <<netVars, granted, loopVars, user, lists, submitting, status>>

(* login, RespOk: the store learns the user, the lists are asked for, and    *)
(* the login page is left.                                                  *)
LoggedIn(s) ==
    /\ Answered(s) /\ Head(asked[s]).cmd = "Login"
    /\ \E p \in Callback(s, "Login") :
          /\ Send(<<"ListUsers", "ListRooms">>, NoSocket, Rest(s), pending \ {p})
    /\ user' = Head(asked[s]).by
    /\ granted' = [granted EXCEPT ![s] = @ \cup {"session"}]
    /\ status' = "LOGGED_IN"
    /\ dialog' = FALSE
    /\ submitting' = FALSE
    /\ UNCHANGED <<netVars, loopVars, lists, awaiting>>

(* login, RespAccountNotActivated: the options are stored after the stores   *)
(* have been cleared.                                                       *)
NotActivated(s) ==
    /\ Answered(s) /\ Head(asked[s]).cmd = "Login"
    /\ \E p \in Callback(s, "Login") : ResetStores(p.by)
    /\ asked' = Rest(s)
    /\ sock' = AfterDisconnect
    /\ dialog' = TRUE
    /\ submitting' = FALSE
    /\ UNCHANGED <<why, current, server, options, granted, loopVars>>

(* A refused salt, login or activation, and any end of a password reset      *)
(* step: DISCONNECTED, and the socket is closed.  The login form is told of  *)
(* a failed login, and of a salt refused to one.                            *)
Over(s, cmd) ==
    /\ Answered(s)
    /\ \E p \in Callback(s, cmd) :
          LET loginFailed == cmd = "Login" \/ (cmd = "Salt" /\ why[p.by] \notin {"ACTIVATE_ACCOUNT", "PASSWORD_RESET"})
          IN  submitting' = (submitting /\ ~loginFailed)
    /\ Disconnected
    /\ asked' = Rest(s)
    /\ sock' = AfterDisconnect
    /\ UNCHANGED <<why, current, server, options, granted, loopVars, dialog>>

(* What the answer to a command may fill: the list of users if the session   *)
(* has logged in, that of the rooms if the room could be joined.             *)
Fillings(s, cmd) ==
    IF Head(asked[s]).cmd # cmd \/ "session" \notin granted[s] THEN {{}}
    ELSE IF cmd = "ListUsers" THEN {{"users"}}
    ELSE IF cmd = "JoinRoom" THEN {{}, {"rooms"}} ELSE {{}}

(* The user list, the end of the room list, a room joined or not, the echo   *)
(* of a ping.                                                               *)
AnswerList(s) ==
    /\ Answered(s)
    /\ \E cmd \in {"ListUsers", "ListRooms", "JoinRoom", "Ping"} : \E p \in Callback(s, cmd) :
          /\ pending' = pending \ {p}
          /\ \E filled \in Fillings(s, cmd) : lists' = lists \cup filled
          /\ lastPing' = (lastPing /\ cmd # "Ping")
    /\ asked' = Rest(s)
    /\ Grant(s)
    /\ UNCHANGED <<netVars, cmdId, loops, handle, user, awaiting, pageVars, status>>

Answer(s) ==
    \/ Stray(s) \/ AnswerSalt(s) \/ Registered(s) \/ Activated(s) \/ LoggedIn(s) \/ NotActivated(s)
    \/ \E activate \in BOOLEAN : NotRegistered(s, activate)
    \/ \E cmd \in {"Salt", "Login", "Activate", "ForgotRequest", "ForgotReset"} : Over(s, cmd)
    \/ AnswerList(s)

---------------------------------------------------------------------------
Next ==
    \/ Logout \/ CloseDialog
    \/ \E s \in Socket :
          \/ \E r \in Reason : Connect(s, r)
          \/ ConnectionTimer(s) \/ OnOpen(s) \/ OnError(s) \/ OnClose(s) \/ Tick(s)
          \/ \E salt \in BOOLEAN : Identify(s, salt)
          \/ Mismatch(s) \/ Dismiss(s) \/ UserJoined(s) \/ UserLeft(s)
          \/ \E joins \in {<<>>, <<"JoinRoom">>} : RoomsListed(s, joins)
          \/ Answer(s)

(* Timers fire, and a browser ends every connection it was told to close or  *)
(* has failed.  Nothing is assumed of the server, the network or the user.   *)
Fairness ==
    \A s \in Socket :
        /\ WF_vars(ConnectionTimer(s))
        /\ WF_vars(Tick(s))
        /\ WF_vars(sock[s] = "failing" /\ OnError(s))
        /\ WF_vars(sock[s] \in {"closing", "failed"} /\ OnClose(s))

Spec == Init /\ [][Next]_vars /\ Fairness

---------------------------------------------------------------------------
(* No answer reaches the callback of another command than it answers, though *)
(* numbers start again at every disconnection and a dismissed connection may *)
(* still deliver answers to what was asked before.  The only callbacks such  *)
(* an answer can take are of pings and automatic joins sent in vain since.   *)
RightCallback ==
    \A s \in Socket : sock[s] = "open" =>
        \A i \in 1..Len(asked[s]) : \A p \in pending :
            p.id = asked[s][i].id =>
                p = asked[s][i] \/ (server[s] = "mute" /\ p.cmd \in {"Ping", "JoinRoom"})

(* An open connection that is the current one is watched by its own ping     *)
(* loop and by no other, so a silent server is noticed.                     *)
Watched ==
    \A s \in Socket : sock[s] = "open" => s = current /\ handle = s /\ loops = {s}

(* The lists of the store are those of the session the client is logged in    *)
(* to.  Nothing is left of an earlier one, and no answer, close or error puts  *)
(* anything back; only what a dismissed connection still delivers can, and   *)
(* stays.                                                                   *)
ListsAreOfTheSession ==
    lists # {} => status = "LOGGED_IN" \/ \E s \in Socket : server[s] = "mute"

(* A client that shows itself logged in is logged in with the attempt the    *)
(* user made last, over a connection that has not ended.                    *)
LoggedInIsCurrent ==
    status = "LOGGED_IN" => user = current /\ sock[current] \in {"open", "closing"}

(* Every attempt that got a socket ends: the user is logged in or is told of *)
(* the disconnection, whatever the server and the network do or fail to do.  *)
AttemptEnds ==
    \A s \in Socket :
        (current = s /\ sock[s] \notin {"unused", "closed"}) ~> (status \in {"LOGGED_IN", "DISCONNECTED"})

(* A connection the server has dismissed is closed in the end.               *)
DismissedCloses ==
    \A s \in Socket : (server[s] = "mute") ~> (sock[s] = "closed")

(* The activation dialog is open only while the attempt to activate is       *)
(* known: "You need to provide the activation token received in the          *)
(* activation email", and nothing else.                                     *)
DialogKnowsAccount == dialog => awaiting # NoSocket

=============================================================================
