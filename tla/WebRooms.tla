----------------------------- MODULE WebRooms -----------------------------
(***************************************************************************)
(* A room of the server (server_room.cpp, server.cpp, the commands of       *)
(* server_protocolhandler.cpp) composed with what browser clients show of   *)
(* it: rooms.reducer.tsx, the user list of server.reducer.ts, RoomEvents.ts *)
(* and the room commands of SessionCommands.ts and RoomCommands.ts.         *)
(*                                                                         *)
(* The sessions of desktop clients live in pool threads and interleave at   *)
(* every lock they release; the sessions of browser clients all live in the *)
(* main thread, which also delivers the room's queued game announcements.   *)
(* What a session is sent goes through one queue per session, in order.     *)
(***************************************************************************)
EXTENDS Integers, Sequences, FiniteSets, SequencesExt

CONSTANTS
    Web,            \* users of the browser client
    Desk,           \* users of the desktop client, each in its own pool thread
    Game, Chat,     \* games that are created, messages that are said, once each
    HistorySize,    \* Server_Room::chatHistorySize
    MaxQueue        \* bound: nothing new is begun while a queue is this long

User == Web \cup Desk

ASSUME WebRoomsAssumption ==
    /\ Web \cap Desk = {}
    /\ HistorySize \in Nat
    /\ MaxQueue \in Nat \ {0}

VARIABLES
    online,     \* Server::users
    accepts,    \* sessions with acceptsUserListChanges
    members,    \* Server_Room::users
    games,      \* Server_Room::games
    fresh,      \* games and messages not made yet
    history,    \* Server_Room::chatHistory
    posted,     \* game announcements queued for the main thread
    pc,         \* where the command of each session stands
    doing,      \* the message being said, the lists being sent
    queue,      \* outputQueue of each browser session, up to its client
    view,       \* the store of each browser client
    missed,     \* history: what was under way while a client's room lists were made
    missedLobby \* history: who came or went while a client's user list was sent

vars == <<online, accepts, members, games, fresh, history, posted, pc, doing, queue, view, missed,
          missedLobby>>

Nothing == [users |-> {}, games |-> {}, said |-> <<>>]

(* The store of a client: room.userList and users as bags (no reducer looks  *)
(* for a name before adding it), room.gameList, the messages of the room.    *)
NewView ==
    [loaded |-> FALSE,                      \* JOIN_ROOM has filled the room
     joined |-> FALSE,
     users  |-> [u \in User |-> 0],
     games  |-> [g \in Game |-> "absent"],
     said   |-> [m \in Chat |-> 0],
     lobby  |-> [u \in User |-> 0]]

TypeOK ==
    /\ online \subseteq User /\ accepts \subseteq Web /\ members \subseteq User
    /\ games \subseteq Game
    /\ fresh \subseteq Game \cup Chat
    /\ history \in Seq(Chat)
    /\ posted \in Seq([game : Game, closed : BOOLEAN])
    /\ pc \in [User -> {"offline", "idle", "joining", "inserted", "replying", "leaving", "left",
                        "quitting", "gone", "saying", "listing"}]
    /\ doing \in [User -> [users : SUBSET User, games : SUBSET Game, said : Seq(Chat)]]
    /\ \A w \in Web :
          /\ view[w].users \in [User -> 0..3]
          /\ view[w].lobby \in [User -> 0..3]
          /\ view[w].said \in [Chat -> 0..3]
          /\ view[w].games \in [Game -> {"absent", "open", "closed"}]

Init ==
    /\ online = Web
    /\ accepts = {}
    /\ members = {}
    /\ games = {}
    /\ fresh = Game \cup Chat
    /\ history = <<>>
    /\ posted = <<>>
    /\ pc = [u \in User |-> IF u \in Web THEN "idle" ELSE "offline"]
    /\ doing = [u \in User |-> Nothing]
    /\ queue = [w \in Web |-> <<>>]
    /\ view = [w \in Web |-> NewView]
    /\ missed = [w \in Web |-> {}]
    /\ missedLobby = [w \in Web |-> {}]

---------------------------------------------------------------------------
(* Sending.                                                                 *)

Message(type, arg) == [type |-> type, arg |-> arg]

(* sendRoomEvent: to everybody in Server_Room::users, under usersLock.       *)
ToRoom(msg) == queue' = [w \in Web |-> IF w \in members THEN Append(queue[w], msg) ELSE queue[w]]

(* Event_UserJoined and Event_UserLeft: to sessions that asked for the list. *)
ToLobby(msg) == queue' = [w \in Web |-> IF w \in accepts THEN Append(queue[w], msg) ELSE queue[w]]

(* The main thread runs one handler at a time; a session in a pool thread is *)
(* held up by nobody.  The bound keeps the queues short.                    *)
MainIdle == \A w \in Web : pc[w] = "idle"
MayBegin(u) ==
    /\ pc[u] = "idle"
    /\ u \in Web => MainIdle
    /\ \A w \in Web : Len(queue[w]) < MaxQueue

Step(u, from, to) == pc[u] = from /\ pc' = [pc EXCEPT ![u] = to]

(* The history variables.  x begins while lists are made for some clients.   *)
MakesRoomList(w) == pc[w] \in {"joining", "inserted", "replying"}
BeginsNow(x) == missed' = [w \in Web |-> IF MakesRoomList(w) THEN missed[w] \cup {x} ELSE missed[w]]
LobbyChanges(u) ==
    missedLobby' = [w \in Web |-> IF pc[w] = "listing" THEN missedLobby[w] \cup {u} ELSE missedLobby[w]]
UnderWay ==
    {u \in User : pc[u] \in {"joining", "leaving", "quitting"}}
        \cup UNION {ToSet(doing[u].said) : u \in {v \in User : pc[v] = "saying"}}

roomVars  == <<members, games, history>>
madeVars  == <<fresh, posted>>
lobbyVars == <<online, accepts, missedLobby>>

---------------------------------------------------------------------------
(* Joining and leaving the room.                                            *)

(* Server_Room::addClient: the others are told first.                        *)
JoinAnnounce(u) ==
    /\ MayBegin(u) /\ u \notin members
    /\ pc' = [pc EXCEPT ![u] = "joining"]
    /\ ToRoom(Message("joinRoom", u))
    /\ missed' = [w \in Web |-> IF w = u THEN UnderWay
                                ELSE IF MakesRoomList(w) THEN missed[w] \cup {u} ELSE missed[w]]
    /\ UNCHANGED <<roomVars, madeVars, lobbyVars, doing, view>>

(* Then the session is entered, under usersLock.  What follows matters for   *)
(* browser sessions only: a desktop's own view is not modelled.             *)
JoinInsert(u) ==
    /\ Step(u, "joining", IF u \in Web THEN "inserted" ELSE "idle")
    /\ members' = members \cup {u}
    /\ UNCHANGED <<games, history, madeVars, lobbyVars, doing, queue, view, missed>>

(* cmdJoinRoom, rest: history, games and users as they are now; historyLock  *)
(* is held from reading the history to the end.                             *)
JoinSnapshot(w) ==
    /\ Step(w, "inserted", "replying")
    /\ doing' = [doing EXCEPT ![w] = [users |-> members, games |-> games, said |-> history]]
    /\ UNCHANGED <<roomVars, madeVars, lobbyVars, queue, view, missed>>

(* The answer enters the queue, and the history behind it.                   *)
JoinReply(w) ==
    /\ Step(w, "replying", "idle")
    /\ queue' = [queue EXCEPT ![w] = Append(@, Message("roomInfo", doing[w]))
                                     \o [i \in 1..Len(doing[w].said) |-> Message("roomSay", doing[w].said[i])]]
    /\ doing' = [doing EXCEPT ![w] = Nothing]
    /\ UNCHANGED <<roomVars, madeVars, lobbyVars, view, missed>>

(* Server_Room::removeClient, for a leaving session and for one that ends.   *)
LeaveRemove(u, how) ==
    /\ MayBegin(u) /\ u \in members
    /\ how = "quitting" => u \in Desk
    /\ pc' = [pc EXCEPT ![u] = how]
    /\ members' = members \ {u}
    /\ BeginsNow(u)
    /\ UNCHANGED <<games, history, madeVars, lobbyVars, doing, queue, view>>

LeaveAnnounce(u) ==
    /\ pc[u] \in {"leaving", "quitting"}
    /\ pc' = [pc EXCEPT ![u] = IF pc[u] = "quitting" THEN "gone" ELSE IF u \in Web THEN "left" ELSE "idle"]
    /\ ToRoom(Message("leaveRoom", u))
    /\ UNCHANGED <<roomVars, madeVars, lobbyVars, doing, view, missed>>

(* cmdLeaveRoom: the answer.                                                *)
LeaveReply(w) ==
    /\ Step(w, "left", "idle")
    /\ queue' = [queue EXCEPT ![w] = Append(@, Message("left", w))]
    /\ UNCHANGED <<roomVars, madeVars, lobbyVars, doing, view, missed>>

---------------------------------------------------------------------------
(* The server's users.                                                      *)

(* Server::loginUser enters the user and tells the others under clientsLock. *)
Login(d) ==
    /\ d \in Desk /\ Step(d, "offline", "idle")
    /\ \A w \in Web : Len(queue[w]) < MaxQueue
    /\ online' = online \cup {d}
    /\ ToLobby(Message("userJoined", d))
    /\ LobbyChanges(d)
    /\ UNCHANGED <<roomVars, madeVars, accepts, doing, view, missed>>

SessionEnds_Silent(d) ==        \* variant: the others are not told
    /\ d \in Desk
    /\ \/ pc[d] = "gone"
       \/ MayBegin(d) /\ d \notin members
    /\ pc' = [pc EXCEPT ![d] = "offline"]
    /\ online' = online \ {d}
    /\ LobbyChanges(d)
    /\ UNCHANGED <<roomVars, madeVars, accepts, doing, queue, view, missed>>

(* Server::removeClient tells the others and removes the user; it is reached *)
(* from prepareDestroy when the session has left its room.                  *)
SessionEnds(d) ==
    /\ d \in Desk
    /\ \/ pc[d] = "gone"
       \/ MayBegin(d) /\ d \notin members
    /\ pc' = [pc EXCEPT ![d] = "offline"]
    /\ online' = online \ {d}
    /\ ToLobby(Message("userLeft", d))
    /\ LobbyChanges(d)
    /\ UNCHANGED <<roomVars, madeVars, accepts, doing, view, missed>>

(* cmdListUsers: the list and the wish to hear of changes, under clientsLock;*)
(* the answer enters the queue later.  A client asks once, when it logs in.  *)
ListUsers(w) ==
    /\ MayBegin(w) /\ w \notin accepts
    /\ pc' = [pc EXCEPT ![w] = "listing"]
    /\ accepts' = accepts \cup {w}
    /\ doing' = [doing EXCEPT ![w] = [Nothing EXCEPT !.users = online]]
    /\ UNCHANGED <<roomVars, madeVars, online, missedLobby, queue, view, missed>>

ListReply(w) ==
    /\ Step(w, "listing", "idle")
    /\ queue' = [queue EXCEPT ![w] = Append(@, Message("users", doing[w].users))]
    /\ doing' = [doing EXCEPT ![w] = Nothing]
    /\ UNCHANGED <<roomVars, madeVars, lobbyVars, view, missed>>

---------------------------------------------------------------------------
(* Games and chat.                                                          *)

(* Server_Room::addGame, a change of an open game, Server_Room::removeGame.  *)
(* A game lives in a pool thread and its players need not be in the room:    *)
(* browser clients have no game commands.  So every announcement comes from  *)
(* another thread and is queued for the main one.                           *)
Post(g, closed) == posted' = Append(posted, [game |-> g, closed |-> closed])

MayPost == Len(posted) < MaxQueue

AddGame(g) ==
    /\ MayPost /\ g \in fresh
    /\ fresh' = fresh \ {g}
    /\ games' = games \cup {g}
    /\ Post(g, FALSE)
    /\ UNCHANGED <<members, history, lobbyVars, pc, doing, queue, view, missed>>

ChangeGame(g) ==
    /\ MayPost /\ g \in games
    /\ Post(g, FALSE)
    /\ UNCHANGED <<roomVars, fresh, lobbyVars, pc, doing, queue, view, missed>>

RemoveGame(g) ==
    /\ MayPost /\ g \in games
    /\ games' = games \ {g}
    /\ Post(g, TRUE)
    /\ UNCHANGED <<members, history, fresh, lobbyVars, pc, doing, queue, view, missed>>

BroadcastGame_Direct ==         \* variant: not left to the main thread
    /\ posted # <<>>
    /\ \A w \in Web : Len(queue[w]) < MaxQueue
    /\ posted' = Tail(posted)
    /\ ToRoom(Message("listGames", Head(posted)))
    /\ UNCHANGED <<roomVars, fresh, lobbyVars, pc, doing, view, missed>>

(* Server_Room::broadcastGameListUpdate, in the main thread.                 *)
BroadcastGame ==
    /\ posted # <<>> /\ MainIdle
    /\ \A w \in Web : Len(queue[w]) < MaxQueue
    /\ posted' = Tail(posted)
    /\ ToRoom(Message("listGames", Head(posted)))
    /\ UNCHANGED <<roomVars, fresh, lobbyVars, pc, doing, view, missed>>

(* Server_Room::say: the message is sent, then kept; historyLock is not free *)
(* while a browser session reads the history.                               *)
Say(u, m) ==
    /\ MayBegin(u) /\ u \in members /\ m \in fresh
    /\ fresh' = fresh \ {m}
    /\ pc' = [pc EXCEPT ![u] = "saying"]
    /\ doing' = [doing EXCEPT ![u] = [Nothing EXCEPT !.said = <<m>>]]
    /\ ToRoom(Message("roomSay", m))
    /\ BeginsNow(m)
    /\ UNCHANGED <<roomVars, posted, lobbyVars, view>>

KeepSaid(u) ==
    /\ Step(u, "saying", "idle")
    /\ \A w \in Web : pc[w] # "replying"
    /\ doing' = [doing EXCEPT ![u] = Nothing]
    /\ history' = IF HistorySize = 0 THEN history
                  ELSE (IF Len(history) >= HistorySize THEN Tail(history) ELSE history) \o doing[u].said
    /\ UNCHANGED <<members, games, madeVars, lobbyVars, queue, view, missed>>

---------------------------------------------------------------------------
(* The client: one message changes the store.  Events of a room whose user   *)
(* and game lists were never filled fail and are dropped.                   *)

(* UPDATE_GAMES: a listed game is changed or, when closed, taken out; any    *)
(* other is pushed to the end of the list, closed or not.                   *)
UpdateGames(list, update) ==
    [list EXCEPT ![update.game] =
        IF update.closed THEN (IF @ = "absent" THEN "closed" ELSE "absent") ELSE "open"]

JoinRoom_Merges(v, info) ==     \* variant: who was listed before stays
    [v EXCEPT !.loaded = TRUE, !.joined = TRUE,
              !.users = [u \in User |-> IF u \in info.users \/ @[u] > 0 THEN 1 ELSE 0],
              !.games = [g \in Game |-> IF g \in info.games THEN "open" ELSE "absent"]]

(* JOIN_ROOM replaces both lists by the ones of the answer.                  *)
JoinRoom(v, info) ==
    [v EXCEPT !.loaded = TRUE, !.joined = TRUE,
              !.users = [u \in User |-> IF u \in info.users THEN 1 ELSE 0],
              !.games = [g \in Game |-> IF g \in info.games THEN "open" ELSE "absent"]]

Apply_KeepsMessages(v, msg) ==  \* variant: leaving keeps the messages
    CASE msg.type = "roomInfo" -> JoinRoom(v, msg.arg)
      [] msg.type = "left" -> [v EXCEPT !.joined = FALSE]
      [] msg.type = "joinRoom" -> IF v.loaded THEN [v EXCEPT !.users[msg.arg] = @ + 1] ELSE v
      [] msg.type = "leaveRoom" -> IF v.loaded THEN [v EXCEPT !.users[msg.arg] = 0] ELSE v
      [] msg.type = "listGames" -> IF v.loaded THEN [v EXCEPT !.games = UpdateGames(@, msg.arg)] ELSE v
      [] msg.type = "roomSay" -> [v EXCEPT !.said[msg.arg] = @ + 1]
      [] msg.type = "users" -> [v EXCEPT !.lobby = [u \in User |-> IF u \in msg.arg THEN 1 ELSE 0]]
      [] msg.type = "userJoined" -> [v EXCEPT !.lobby[msg.arg] = @ + 1]
      [] msg.type = "userLeft" -> [v EXCEPT !.lobby[msg.arg] = 0]
Apply_Decrements(v, msg) ==     \* variant: the room's list counts down
    CASE msg.type = "roomInfo" -> JoinRoom(v, msg.arg)
      [] msg.type = "left" -> [v EXCEPT !.joined = FALSE, !.said = [m \in Chat |-> 0]]
      [] msg.type = "joinRoom" -> IF v.loaded THEN [v EXCEPT !.users[msg.arg] = @ + 1] ELSE v
      [] msg.type = "leaveRoom" -> IF v.loaded THEN [v EXCEPT !.users[msg.arg] = @ - 1] ELSE v
      [] msg.type = "listGames" -> IF v.loaded THEN [v EXCEPT !.games = UpdateGames(@, msg.arg)] ELSE v
      [] msg.type = "roomSay" -> [v EXCEPT !.said[msg.arg] = @ + 1]
      [] msg.type = "users" -> [v EXCEPT !.lobby = [u \in User |-> IF u \in msg.arg THEN 1 ELSE 0]]
      [] msg.type = "userJoined" -> [v EXCEPT !.lobby[msg.arg] = @ + 1]
      [] msg.type = "userLeft" -> [v EXCEPT !.lobby[msg.arg] = 0]

Apply(v, msg) ==
    CASE msg.type = "roomInfo" -> JoinRoom(v, msg.arg)
      [] msg.type = "left" -> [v EXCEPT !.joined = FALSE, !.said = [m \in Chat |-> 0]]
      [] msg.type = "joinRoom" -> IF v.loaded THEN [v EXCEPT !.users[msg.arg] = @ + 1] ELSE v
      [] msg.type = "leaveRoom" -> IF v.loaded THEN [v EXCEPT !.users[msg.arg] = 0] ELSE v
      [] msg.type = "listGames" -> IF v.loaded THEN [v EXCEPT !.games = UpdateGames(@, msg.arg)] ELSE v
      [] msg.type = "roomSay" -> [v EXCEPT !.said[msg.arg] = @ + 1]
      [] msg.type = "users" -> [v EXCEPT !.lobby = [u \in User |-> IF u \in msg.arg THEN 1 ELSE 0]]
      [] msg.type = "userJoined" -> [v EXCEPT !.lobby[msg.arg] = @ + 1]
      [] msg.type = "userLeft" -> [v EXCEPT !.lobby[msg.arg] = 0]

Receive(w) ==
    /\ queue[w] # <<>>
    /\ view' = [view EXCEPT ![w] = Apply(@, Head(queue[w]))]
    /\ queue' = [queue EXCEPT ![w] = Tail(@)]
    /\ UNCHANGED <<roomVars, madeVars, lobbyVars, pc, doing, missed>>

---------------------------------------------------------------------------
Next ==
    \/ \E u \in User :
          \/ JoinAnnounce(u) \/ JoinInsert(u)
          \/ \E how \in {"leaving", "quitting"} : LeaveRemove(u, how)
          \/ LeaveAnnounce(u) \/ KeepSaid(u)
          \/ \E m \in Chat : Say(u, m)
    \/ \E d \in Desk : Login(d) \/ SessionEnds(d)
    \/ \E w \in Web :
          JoinSnapshot(w) \/ JoinReply(w) \/ LeaveReply(w) \/ ListUsers(w) \/ ListReply(w) \/ Receive(w)
    \/ \E g \in Game : AddGame(g) \/ ChangeGame(g) \/ RemoveGame(g)
    \/ BroadcastGame

Spec == Init /\ [][Next]_vars

---------------------------------------------------------------------------
(* What the client will show when it has read what is under way to it.       *)
Replay(w) == FoldLeft(Apply, view[w], queue[w])

InRoom(w) == w \in members /\ ~MakesRoomList(w)

(* A client in the room lists every member once and nobody else, itself      *)
(* included, but for users whose own joining or leaving was under way while  *)
(* its list was made.                                                       *)
RoomUsersRight ==
    \A w \in Web : InRoom(w) =>
        \A u \in User \ missed[w] : pc[u] \notin {"joining", "leaving", "quitting"} =>
            Replay(w).users[u] = IF u \in members THEN 1 ELSE 0

(* The same of the server's users, but for those who came or went while the  *)
(* list was on its way into the queue.                                      *)
LobbyRight ==
    \A w \in accepts : pc[w] # "listing" =>
        \A u \in User \ missedLobby[w] : Replay(w).lobby[u] = IF u \in online THEN 1 ELSE 0

(* Every game of the room is listed as open once the announcements queued in *)
(* the server have been read too, and no other game is.                     *)
GamesAgree ==
    \A w \in Web : InRoom(w) =>
        \A g \in Game :
            (FoldLeft(UpdateGames, Replay(w).games, posted)[g] = "open") <=> g \in games

(* A message is shown once, whether the client heard it said or was given it *)
(* with the history; but for one that was being said while it joined.       *)
ChatOnce ==
    \A w \in Web : InRoom(w) =>
        \A m \in Chat \ missed[w] :
            /\ Replay(w).said[m] <= 1
            /\ m \in ToSet(history) => Replay(w).said[m] = 1

=============================================================================
