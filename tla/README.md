# A verification of SchreckNet's game server and browser client

SchreckNet (a fork of Cockatrice) lets people play card games over a network.
`servatrice` is the server, `cockatrice` the desktop client, `webclient` a
browser client, `oracle` a card importer. The server's own logic is the library
in `src/common`: it decides who is connected, who sits at which table, whose turn
it is and which card lies where; `src/servatrice` gives it sockets, threads,
timers, a database and links to other servers. `webclient` keeps one connection to
that server and a store of what it was told. This directory holds TLA+ models of both, the TLC configurations that check them, and TLAPS proofs.

Contents: [the system](#the-system), [how the parts interact](#how-the-parts-interact),
[modules](#modules), [runs](#runs), [theorems](#theorems), [plan](#plan),
[not modelled](#what-is-not-modelled).

## The system

| Component | State | Operations | What makes it correct |
|---|---|---|---|
| Game table and match (`server_game`) | players by id, host, active player, phase, started/closed flags, inactivity counter | join, leave, kick, ready, start, concede, next turn, reverse, ping, close | one seat per user, a host at the table, a ready table starts, a match has two contenders and the turn is with one of them, closed games go away |
| Player's cards (`server_player`, `server_card`, `server_cardzone`, `server_arrow`) | zones of cards, coordinates, attachments, arrows, counters, the list of cards last drawn | draw, undo draw, move, attach, create token, reveal, shuffle, arrows, counters | a card is in exactly one zone, ids name one card, attachments and arrows never outlive what they point to, an undone draw restores the hand |
| Sessions (`server`, `server_protocolhandler`) | the list of clients, users by name, sessions by id, users of other servers, references to kept seats, rooms and games of a session | connect, log in, replace an older session, log out, time out, ping, flood limits | a user name means one session, a session's end takes it from every table, a kept seat is found again |
| Seats of a session (`server_abstractuserinterface`) | the session's own map of games | join, leave, resume kept seats, send responses and events | the map and the tables agree |
| Rooms (`server_room`) | users, external users, games, external games, chat history | join, leave, say, add game, remove game, join a game | members see what happens, histories are bounded, a listed game exists |
| Server links (`isl_interface`) | one interface per peer server, its queue | connect, log in, announce users and games, forward commands, disconnect | no deadlock between the locks, users of a lost peer disappear |
| Threads and pools (`servatrice`, `servatrice_connection_pool`) | pools of worker threads, connected counters, shutdown countdown | new connection, hand over to a thread, shut down, status update | the counters match the sessions, a shutdown ends every session |
| Sockets (`serversocketinterface`) | input buffer, frame length, handshake, output queue | read, frame, write, moderate, ban, warn | frames are cut where the sender put them, nothing runs after the end |
| Desktop connection (`remoteclient`, `abstractclient`) | status, buffer, pending commands, timer | connect, register, log in, disconnect, ping | one answer per command, every attempt ends in a stable status |
| Desktop game view (`tab_game` and the scene classes) | players, zones and cards as the events told | apply events, send commands | the view equals the server's state |
| Web client's connection (`webclient/src/websocket`, the store's server part) | sockets, status, ping loop, numbered commands and their callbacks, options of the attempt, user and lists | register, activate, reset a password, log in, log out, time out, be dismissed | an answer reaches the callback of its command, every attempt ends, the store shows no session that is over |
| Web client's rooms (the store's rooms part) | users, games and messages of a room, users of the server | join, leave, apply an event | the lists agree with the server's |
| Card import (`oracle`), decks (`decklist`), card database, settings, GUI | files | parse, format, show | round trips |
| Password hashes, random numbers, mail, database | external | | |

## How the parts interact

* A *session* is a `Server_ProtocolHandler` living in one worker thread. A frame
  that arrives becomes `processCommandContainer()`, which calls the server, a
  room or a game directly and synchronously.
* A *game* belongs to the thread of the session that created it. Commands of
  other sessions run in *their* threads and lock the game's `gameMutex`; the game's
  own thread only runs what is posted to it: the start request
  (`startGameIfReady()` is queued), the deferred deletion (`deleteLater()`) and the
  1 Hz ping.
* Locks are nested in the order `Server::roomsLock`, `Server_Room::gamesLock`,
  `Server_Game::gameMutex`, `Server::clientsLock` (server.h:59), with `gameListMutex` of a session
  and `persistentPlayersLock` as leaves.
* A game speaks to a session by `sendProtocolItem()`, which queues the message in
  the session's thread; the answer to a command is queued the same way.
* A browser session lives, unlike the others, in the main thread, since websockets cannot
  be moved (servatrice.cpp:161); the announcements of games are queued for that thread
  too. What a session is sent goes through its own output queue, in order; the browser
  client reads it one message, one callback, at a time.
* A lost connection ends in `prepareDestroy()`: it takes the session out of its
  rooms, its games and the server's lists. A registered player's seat is
  *kept*: the player object stays with no user interface, and the server keeps a
  reference (`persistentPlayers`), which the next login resolves.

The behaviours that are hard to test are the interleavings of these threads: a
kick and a lost connection, a login that resolves a reference to a game that is
closing, a start request that arrives after somebody has left, two sessions with
one name, a list that is made while its entries change; and, in the browser, the
callbacks of a socket that closes while the next one opens. `PROJECT.json` lists them line by line
under `hazards`, each with the properties that would fail if it went wrong.

## Modules

| Module | Models | State ↔ code | Actions ↔ code |
|---|---|---|---|
| `ServerGame` | one game with the users who come and go | `players` ↔ `Server_Game::players` (per player: user, spectator, judge, `readyStart`, `conceded`, a deck, zones, whether there is a user interface), `hostId`, `activePlayer`, `gameStarted`, `gameClosed`, ...; `persistentPlayers` ↔ `Server::persistentPlayers`; `games` ↔ the session's map; `pendingStarts`, `deletePending` ↔ the posted events | one per game command, plus `Join`, `Disconnect`, `Login`/`Rejoin` (the two halves of `joinPersistentGames()`), `DoStartGameIfReady`, `PingClockTimeout`, `Destroy` |
| `Match` | what a game promises its players | `running`, `contenders`, `turn` | `Deal`, `Withdraw`, `LastWithdraw`, `Return`, `PassTurn`, `Abandon` |
| `ServerSessions` | connections, logins and their ends in several threads | `clients`, `users`, `usersBySessionId` ↔ `Server`; `userInfo`, `authState`, `deleted` ↔ the session; `openRows` ↔ the sessions table; `seat` ↔ the interface of a kept player; `task` ↔ where each thread is | `Login` → `AdmitAccount`/`AdmitGuest` → `LogOut` → `Insert` → `Resume`; `Disconnect` → `End`/`EndAgain` → `Mark` → `LeaveGames` → `Find` → `Drop`; `Free`, `EndSession` |
| `CardTable` | the cards of a running game | `place` ↔ the zone whose list holds a card; `id`, `faceDown`, `parent`, `stash` ↔ `Server_Card`; `kind` ↔ `destroyOnZoneChange`; `nextCardId`, `lastDrawList`, `arrows` ↔ `Server_Player`; `grants` ↔ `playersWithWritePermission`; `seated`, `conceded`, `started` ↔ the game | one per card command (`CmdMoveCard`, `CmdUndoDraw`, `CmdAttachCard`, `CmdCreateToken`, `CmdTransform`, ...), plus `DoStartGame`, `JoinGame`, `RemovePlayer`, `CmdConcede`, `CmdUnconcede` for what they do to cards |
| `WebClient` | the browser client's connection | `sock`, `current` ↔ the sockets and `WebSocketService.socket`; `status` ↔ its status; `cmdId`, `pending` ↔ `ProtobufService`; `loops`, `handle`, `lastPing` ↔ the intervals and `KeepAliveService`; `options` ↔ `WebClient.options`; `user`, `awaiting` ↔ the store's server part; `lists` ↔ which of its lists of users and rooms hold something; `dialog`, `submitting` ↔ `Login.tsx`; `server`, `asked`, `granted` ↔ what the server has still to say, and of which lists it sends the changes | `Connect`, `Logout`, `CloseDialog` ↔ the user; `ConnectionTimer`, `OnOpen`, `OnError`, `OnClose`, `Tick` ↔ the browser's callbacks; `Identify`, `Mismatch`, `Dismiss`, `UserJoined`, `UserLeft`, `RoomsListed` ↔ session events; `AnswerSalt`, `Registered`, `NotRegistered`, `Activated`, `LoggedIn`, `NotActivated`, `Over`, `AnswerList`, `Stray` ↔ the callbacks of the commands |
| `WebRooms` | a room of the server composed with what browser clients show of it | `members`, `games`, `history` ↔ `Server_Room`; `online`, `accepts` ↔ `Server::users`, `acceptsUserListChanges`; `posted` ↔ the queued announcements of games; `pc`, `doing` ↔ where each session's command is; `queue` ↔ its output queue; `view` ↔ the store | `JoinAnnounce` → `JoinInsert` → `JoinSnapshot` → `JoinReply`; `LeaveRemove` → `LeaveAnnounce` → `LeaveReply`; `ListUsers` → `ListReply`; `Say` → `KeepSaid`; `AddGame`, `ChangeGame`, `RemoveGame` → `BroadcastGame`; `Login`, `SessionEnds`; `Receive` ↔ one message through the reducers |
| `MCServerGame`, `MCServerSessions`, `MCCardTable`, `MCWebClient`, `MCWebRooms` | the instances TLC checks | | |
| `ServerGame_proofs`, `ServerGameSeats_proofs`, `ServerSessions_proofs`, `ServerSessionsPool_proofs`, `CardTable_proofs`, `WebClient_proofs`, `WebRooms_proofs`, `LeastElements_proofs` | the theorems: the match and the turn, the seats and the start, sessions in any number of pools, sessions of one pool, cards, the browser's connection, rooms and what clients show of them, and two facts about numbers they use | | |

A game command is one action: every handler of `Server_Game` and `Server_Player`
runs with `gameMutex` held from before its first read to after its last write, so
nothing of the same game can interleave inside it. What does interleave is
modelled apart: the start request that reads the ready flags late, the deferred
deletion, the login that copies the references first and resolves them later.
The abstraction of the data: a deck is a flag, a user is a name with a level, a
zone is "set up or not".

A login and the end of a session are, by contrast, *not* atomic in
`ServerSessions`: `clientsLock` is taken for the insertion and for the removal, not
for the look-ups before them, so those are separate actions of separate threads.
The database's table locks do not help, because no lock spans the look-up and
the insertion. `endSession` is delivered by the event loop of the thread that made the
first database interface; a session that lives in that very thread has it
executed at once, which is the behaviour in which `EndSession` follows `Drop`
without delay.

`CardTable` looks into what `ServerGame` calls a zone that is "set up or not". It has the
control of `Server_Player::moveCard()` and of the commands that lead to it: who may
move whose card, which card arrives when a token leaves the table, when a card gets
a new id, which attachments and arrows end, what becomes of the list of draws.
Abstracted are coordinates and the order of cards in a zone (a draw takes any card
of the deck), attributes, counters and names; the zones "stack" and "rfg" behave
as "ashheap" does; a command for several cards is several commands for one. The
inputs are those the clients send: they do not attach a card to itself, do not
draw an arrow from a card to itself, and create tokens on the table. Objects of
class `Server_Card` are numbered, and an object that has been deleted may be used for a new
card, as memory is; `Free` tells which ones are not in use.
`removeArrowsRelatedToPlayer()` lists an arrow that both starts and ends at the
leaving player twice and reads its id again after deleting it. What that read
returns is unspecified, so `Misread` lets it be the id of any other arrow of
the same owner, which is then deleted as well.

In `WebClient` an attempt is named by the socket it opens, and stands for the options the
user gave with it: `user = s` means that the account of attempt `s` is logged in. One callback
of the browser is one action, because JavaScript runs a callback to its end. The server is
external: it introduces itself on each connection, answers commands in the order they were sent,
may refuse any of them, sends a session that has logged in the changes of the lists it has asked for, may dismiss the client, and may fall silent at any point. What a
server had sent before it dismissed the client, or is just answering, still arrives. Commands
sent over a socket that is not open are registered but never leave the client, as in
`sendCommand()`. `Callback` looks an answer up by its number alone, as the client does; that
it finds the callback of the very command is a property (`RightCallback`), not an
assumption, and `Stray` is what happens otherwise. When an account is to be activated the page asks for the token only,
and `Connect` with `awaiting = NoSocket` is that form submitted with nothing stored: its address is no
URL and `new WebSocket` throws.

`Patient` is an assumption about the user, not about the code: the user waits until every
earlier socket has closed before trying again. The code does not enforce it: the
forms for registration and activation never disable their buttons, and the status says
DISCONNECTED from the moment a command is refused, before the socket has closed. An impatient user
lets the old socket's `onclose` report the new attempt disconnected and end its ping loop
(WebSocketService.ts:87-93), lets answers of the last connection arrive when the numbers have started again, and lets events of either put
lists back into the cleared store. With `Patient = FALSE` `RightCallback`, `Watched`, `LoggedInIsCurrent` and `ListsAreOfTheSession` fail; with it they are
claims about one connection after another, no more. `TypeOK` and `PingIsWatched` hold for both and are proved for both.
For a patient user too, `ListsAreOfTheSession` excepts a connection the server has dismissed: the client clears its store then but
goes on listening until the connection has closed.

`WebRooms` is the composition of the server's room with a client's reducers. Sessions of desktop clients
(`Desk`) interleave at every lock they release; browser sessions (`Web`) are all in the main
thread, so that while one of them is in a command no other is and no queued announcement is delivered (`MainIdle`).
The store's lists are bags, because the reducers add a name without looking for it
first. `Replay` is what a client will show when it has read its queue, so the properties
compare it with the server at every moment, not only when nothing is under way. `missed` and `missedLobby` are
history variables: they record whose coming or going, or which message, was under way while a
client's list was made, for these the client is told wrongly (a user twice, or not at
all), for as long as the list stands, and the properties say nothing. `AddGame` makes one step of the insertion (server_room.cpp:358) and
the announcement after the unlock (:371): a game that is in the room and not announced yet is not seen.

### Mutations

A definition named after another with a suffix (`Continues_NobodyConcedes`) is a
plausible slip in the code the original models. Nothing uses it; it exists so
that it can be put in the original's place to see that a property notices.

## Runs

| Run | Instance | Shows |
|---|---|---|
| `game_table` | 2 seats; a registered creator, a guest, a judge who watches; ids to 3; 2 queued starts; 1 ping of inactivity | seats, sessions, references, host and queued starts stay consistent; full tables start, abandoned games go away |
| `game_match` | 3 seats; two registered players and a guest, one of them moderator; ids to 4; 2 queued starts | the match follows `Match`, the turn goes round the table |
| `session_pool` | 4 sessions of one pool: two ask for an account, two for a guest's name whose first numbered form is an account's; a third user is refused | while one thread runs them all, the server's lists, the sessions table and the kept seat agree, and a name that is given up comes free |
| `session_name`, `session_after`, `session_null`, `session_index` | 2 sessions of two pools (`session_index`: 3) | each finds the disagreement recorded under `findings` |
| `cards_moves` | 2 players, a crypt card and 2 spare objects; 4 and 2 ids; hands may be revealed with write access | ids stay unique through draws, undos, moves face down, thefts and transformations; tokens over tokens stash one plain card and give it back |
| `cards_links` | 3 players with two cards, one and none; arrows of the second player | attachments and arrows end with what they join |
| `client_calm` | 2 attempts of a patient user; pings are answered, and rooms joined automatically, up to command 5 | answers reach their callbacks, open connections are watched, the store follows the connection, every attempt ends |
| `client_activation` | as `client_calm` | the activation dialog loses the account it is about |
| `rooms_view` | a browser user and a desktop user, a game, a message; queues of two before something new begins | the client's lists of users and games agree with the server's, the message is shown once, heard or given with the history |

### Bounds, and why they are enough

* `MaxId` bounds the ids a game hands out. An id is used once, so it bounds the
  number of joins: three at the small table (the creator, one more and a return
  or replacement), four at the table for three. Seats differ only by the order of
  their ids, and the turn's direction and wrap-around need three contenders, which
  `game_match` has.
* `MaxPendingStarts` = 2: a start event is either consumed without effect or starts
  the game, and a second one is what can arrive late. A third behaves as the
  second does.
* `MaxInactivity` = 1 (`game_match`: 0, no limit): the counter's only test is whether it has reached the limit.
* Sessions are used once. Two sessions of one account are a takeover, a third lets
  an index go stale; two guests of one name are a collision, and the account that
  has the first numbered form makes the renaming go on to the second.
* In the card runs `MaxCardId` and `MaxArrows` are given for each player. The second to fourth
  id are what a renaming, two tokens and a card that comes back take; three objects are a card, the token over it
  and the token over that, or a card attached to a card attached to a third. `MoveZone`, `Side` and `GrantZone`
  keep a run to the zones its question is about: a zone matters to these properties only by
  being the table, public, a hand or a deck. One entry of `lastDrawList` suffices for what is
  said of an entry.
* In `client_calm` two sockets are what a stale callback, loop or number needs: one that ends and one that
  follows. A dialogue takes five commands at most (salt, activation, login and the two lists). Pings up to number five
  are answered, so they come between any two of these; only pings count, other commands are
  answered whatever their number. A ping with a greater number is not answered, which is a server that has fallen silent.
* In `rooms_view` one browser user suffices for what is said of a client, since browser sessions
  never overlap; the desktop user is the other thread. With one message nothing ever leaves the history in this run; `ShownOnce` proves `ChatOnce` for any number of messages and any length of the history. `MaxQueue` bounds when something new is
  *begun*; what has begun is finished, so queues grow past it.
* Users are not symmetric (they differ in level, in who created the game and in what
  they ask for), so no symmetry is used.

`CHECK_DEADLOCK FALSE` is stated in every configuration because every system here may
rest: a game that has been destroyed, or a server whose sessions have all ended.

### Fairness

`game_table` assumes weak fairness of the posted start, the posted deletion and the
one-second ping: all three are events of one Qt event loop, which delivers posted
events in order and fires a running timer. Nothing is assumed of users or of their
connections. `session_pool` assumes that a thread goes on with the
handler it is in and that the posted `endSession` is delivered; `NameComesFree` is claimed for one thread only. `client_calm` assumes that timers fire (the
connection timer, the ping interval) and that a browser ends a connection it was told to close or that has failed. Nothing is
assumed of the server, the network or the user: that every attempt ends although the server may fall silent at
any point is what the ping loop is for, and `AttemptEnds` fails without it.

### What the failing runs show

* `session_name`: the search for a free guest name is made without `clientsLock`
  and the insertion with it; two pools can insert one name.
* `session_after`: a session that was taken over while its own login was under way
  continues and takes the kept seat. What lets it happen is that a takeover destroys the older session in the
  thread of the newer login (server.cpp:126), against the comment at server_protocolhandler.cpp:46.
* `session_null`: a takeover reads `users` four times without the lock (server.cpp:115-126); when the
  older session ends itself in between, a null session is dereferenced.
* `session_index`: `removeClient()` looks up an index before the lock and removes what is at that index
  under it (server.cpp:232). When two sessions end together, a third that goes on is taken out of `clients`.
  It hears no more of the server, and at its own end `removeClient()` does not find it: its name stays in `users`, leading to
  freed memory, and its row stays open. So `ClientsAreAlive`, `FoundIsAlive` and `NameComesFree` are claimed, and
  true, for one thread only.
* `client_activation`: `register()` stores the options for the activation dialog, opens it, and closes
  the socket. The status is still CONNECTED, so `onclose` reports DISCONNECTED, which clears the store. The
  dialog stays open and submits the token without user name, host and port. (A *login* that meets an account to be
  activated reports DISCONNECTED first, stores the options afterwards, and works.)

One weakness is in the model and not in a run: when a connection opens before the last one has closed, `startPingLoop()`
(KeepAliveService.ts:18) overwrites the handle of the loop that still runs. Nothing can clear that interval any more, and its
beats clear whatever interval the handle names.

All session runs among these need two pools (`number_pools`, or one of each kind, since TCP and websocket
connections never share a thread); the default configuration, a TCP pool and websockets in the main thread, has two.

## Theorems

All theorems hold for every set of users, every size of table and every bound
(`ServerGame`), and for every number of sessions, threads and accounts
(`ServerSessions`), for every set of players, cards and decks (`CardTable`), for every number of attempts (`WebClient`), and for every set of browser and desktop users, games and messages (`WebRooms`), under the assumptions the modules name: `UsersAssumption` (the
roles are sets of users), `SizesAssumption` (sizes are natural numbers, a table
has a seat), `SessionsAssumption` (a session lives in one thread, there are finitely many), `AccountAssumption` (of every base name, as many numbers belong to no account as there are sessions; the code's search for a free name has no bound, so this only says that the model has numbers enough), `WebClientAssumption` (`NoSocket` is no attempt), `WebRoomsAssumption` (nobody uses both clients; lengths are numbers) and `CardsAssumption` (card
objects are numbered and finitely many, `None` is none of the things it stands in for).

* `TypeCorrect` is inductive as it stands. It rests on lemmas about the turn:
  `TurnAfterInPlay` shows, from the existence of least and greatest elements of
  finite sets of ids, that `nextTurn()` lands on a contender whenever there is one.
* `MatchInvariant` proves `MatchInv`, the strengthening of `MatchHasOpponents`, `TurnIsInPlay`,
  `ZonesIffInPlay` and `TurnLoopTerminates`. None of the four is inductive alone: that two contenders
  remain needs the zones to tell who is in play, that the turn is with a
  contender needs two of them to remain when one withdraws, and that the search
  ends needs both. `MatchIsKept` and `NoTurnLoop` are its consequences.
* `DecksAreThere` proves that everybody who is dealt in has a deck and that no ready flag
  survives into a match; it is inductive with `TypeOK`.
* `ImplementsMatch` is the refinement: with `MatchInv` and `DecksBeforeDeals`, each
  action of `ServerGame` is a step of `Match` under the mapping at the end of that module,
  or leaves the three mapped variables alone. It is stated for tables for two or
  more. At a table for one the game starts with a single contender, as the code
  means it to, and there is no `Match` to keep.
* `SeatInvariant` proves `SeatInv`. Between the two halves of `joinPersistentGames()` the login holds references it has
  copied, while others kick, leave, sit down and end the game. The four seat properties are not inductive alone: needed are that a
  copied reference is the user's own (`RefsAreOwn`), that every kept seat of a user in mid-login is among the copied ones
  (`RefsAreComplete`), that their ids have been given out, so that a seat taken later is not mistaken for
  a copied one (`RefsAreOld`), and that a seat without an interface is one the server keeps and one
  with an interface belongs to somebody online (`AwaySeatsAreKept`, `InterfacesAreOnline`). `SeatsAreKept` is its consequence.
* `HostIsHandedOver` needs only `TypeOK`; `StartIsNotLost` needs that no table is overfull and `DecksBeforeDeals`
  (`StartInv`): the command that makes the last seat ready posts an event, and an event is
  consumed without effect only where the table is not ready.
* `TurnGoesRound` rests on `TurnSkipsNobody`: an id between the old holder and the new one, in
  the direction of play, would have been a smaller (or greater) choice for `TurnAfter`.
* `SessionInvariant` proves `SessionInv`: a thread's task belongs to a session of that
  thread, a session has no name until the single step that gives it one, and
  whoever has a row, a session id or an end under way has a name. With it
  `RowsAreKept` holds across pools.
* `TypeCorrect` of `ServerSessions` needs `FreeNumberIsFree`: were every number of a base taken, each that is no account's would
  be a different other session's (`FoundHaveIds`, `KnownHaveNames`), and there are fewer of these than numbers (pigeonhole).
* The `OnePool` theorems assume `OneThread`, and need to: `session_name` refutes one of the properties with two pools, and the
  stale index of `session_index` three more. Such a server has web sockets only, which share the
  main thread (`number_pools` = 0), or no web sockets and one pool. `PoolInvariant` proves `PoolInv`. Its ideas are
  `Present` (connected and not yet dropped: the time in which a session is in the lists), `OwnName` (an account's session
  has its own name, a guest's nobody's account), and `Fits`, what the one working thread knows at each step: a name found in
  `users` stays found until the takeover has ended its session, a name found free stays free, the place in `clients` stays
  the session's, and nobody ends the session that logs in. With it `seat` is given up only by the
  session that has it, and a takeover never meets a session that has ended already. `DoomedAreGone` adds that a session
  to be deleted has been marked and is out of the lists, whence `FoundIsAlive`.
* `TypeCorrect` of `CardTable` rests on `FromLastType`: erasing the entries before a card leaves a
  list of ids, since a nonempty set of positions has a last one.
* `StashesStayPlain` is proved by `CardInv`. That a stashed card is no token and lies in no zone is not
  inductive: it needs that tokens lie only on tables (`TokensOnTable`; a token that
  leaves is deleted), and that cards lie only with players in play (`HoldersInPlay`), so that a
  deck dealt to a returning player takes objects that nothing refers to.
* `IdsStayUnique` is proved by `IdInv`, which adds `IdsBelow`: every card's id is one that its holder's
  counter has passed. `OneArrives` is the argument for all commands: one card at most
  comes under a new id, which is at least the counter was, and all others keep
  player and id. `SetupZonesIds` is the deal, where ids are the ranks of the cards in
  a deck. The theorem assumes that nobody has the judge flag, and needs to: what
  comes back from under a token is given an id of the *mover's* counter (server_player.cpp:521), and
  only a judge moves a card from one zone to another of somebody else's.
* `AttachmentsStayFlat` and `ArrowsStayPublic` are inductive together with `CardInv`: what `moveCard()` brings up
  from under a token, and the objects of which a new deck is made, lay nowhere, so
  nothing was attached to them and no arrow pointed at them.
* `DeckCardsStay` proves the action property with `StashUnderCreated`: only cards that clients created have a card
  under them. Transforming a token that hides a card keeps the hidden card and deletes the token, and
  without that invariant the one deleted could be a card of a deck.

* `TypeCorrect` of `WebClient` is inductive with `AllOwned`: every command that a person's dialogue sent was sent by
  an attempt, so what is stored for an activation is one.
* `PingsAreWatched` holds for any user, with overlapping connections: an interval is cleared only together with the waiting for a
  ping, whosoever's interval it is, and waiting begins only in a beat whose interval goes on. It need not be the
  *right* interval: a loop whose handle was overwritten can outlive the loop of the connection that is watched.

* `RoomInvariant` of `WebRooms` proves `RoomInv`. None of the properties is inductive, because what a client
  will show depends on steps a session has begun and not ended. `PcInv` says what each begun step has done
  already. `UsersInv` replaces *is a member* by `Announced` (a member, or coming or going as the others have been
  told), and says that nobody but the exempted comes or goes while a list is being made, so the copy in
  `doing` still agrees when it is sent. `GamesInv` says that the *last* queued announcement of a game is true, and that a
  list, shown or about to be sent, is right about every game of which no announcement is queued; with `LastDecides`
  (a list of announcements leaves of a game what the last of them says) this is `GamesAgree`. `SaidInv` and
  `HeardInv` follow a message from fresh to said to kept: a message is in one of the three places, one speaker has it, and who is
  not in the room shows nothing. `CountsInv` is why no user is counted four times: a list
  may still name a user who left while it was being sent (once), who joins again (twice), leaves while the client is out of the room, and
  joins again after the client has and before its new list arrives (three times).
  `BoundsInv` says so of everything a client shows *while* it reads its queue, not only in the end; `TypeCorrect` needs that.
* What a client will show is a fold over its queue. `FoldLeft` is defined over the set of the list's indexes, with the last one taken away
  first, and not by a RECURSIVE operator, so it can be reasoned about: `FoldExists` builds the function the definition
  chooses, from a run of the list; `FoldIsRun` shows that the fold is that run; the induction over positions is
  `BoundedInduction`, which rests on least elements of sets of numbers. `ReadAppend`, `ReadTail` and `ReadConcat`
  are what the actions need: a message sent is read last, reading a message changes nothing of what will
  be shown, and an answer with the history behind it is the answer and then each message of the history.

Only model-checked: every liveness property (`FullTableStarts`, `AbandonedGameGoes`, `NameComesFree`, `AttemptEnds`,
`DismissedCloses`): liveness under fairness is beyond the proof system. Each other property of a passing run
is stated by a theorem, where said above for one pool or without judges, but for those of a patient user (`RightCallback`, `Watched`,
`LoggedInIsCurrent`, `ListsAreOfTheSession`), which are left to the run.

## Plan

1. *(done)* `ServerGame`, `Match` and their proofs: the table, its seats and the match.
2. *(done)* `ServerSessions` and its proofs: sessions and logins, in any number of pools and in one.
3. *(done)* `CardTable` and its proofs: zones, ids, tokens with stashed cards, attachments,
   arrows, and the list of cards last drawn.
4. *(done)* `WebClient` and its proofs: the browser client's connection.
5. *(done)* `WebRooms` and its proofs: a room, the lists of users and games, chat, and the client's store.

What a continuation would add, in this order: `JoinSnapshot`, the answer that describes a joined
game against the events of other players' commands, as `WebRooms` does it for rooms; the locks
of server links; the idle clock and the shutdown; the grid of a zone against a reference definition;
the desktop client's status machine.

## What is not modelled

* Formatting, parsing and storage: deck files, card databases, replays, settings,
  SQL statements, mail. Their results appear as values (an account exists, a
  deck has been chosen).
* Presentation: the desktop client's windows and scenes, the web client's
  components. The translations (`cockatrice/translations/*.ts`, `oracle/translations/*.ts`)
  are XML files of texts, by far the largest part of the files with that ending; they contain no code.
* Arithmetic of others: password hashes, the Mersenne twister, protocol-buffer
  encoding.
* In `ServerGame`: chat, dice, counters, cards and arrows; the text of events; replays; the
  game list entry of the room.
* In `CardTable`: a card's attributes (tapped, attack, annotation, counters), counters of players,
  the coordinates and the order of a zone, what is revealed to whom, and sideboard
  changes before the start.
* In `ServerSessions`: bans, account activation, the messages sent to other users, rooms.
* In `WebClient`: the connection test, buddy and ignore lists, logs, moderation and account
  commands of a logged-in user (each stores or shows one answer), and the remembered hosts.
* In `WebRooms`: the list of rooms and its counts, the limit of messages the client keeps (`MAX_ROOM_MESSAGES`),
  removing messages, joining a second room, sorting. A browser user has one session and joins and
  leaves it at will; its disconnection is the subject of `WebClient`, where the store is cleared.
* Links between servers, the shutdown, the choice of a pool, the idle clock, framing, the desktop
  client's connection and the coordinates of cards on the table. Each is a component of its own that could
  be added as a module; none of the modules here depends on what it leaves open,
  since an end of a session by the clock or the shutdown is an end like any other.
