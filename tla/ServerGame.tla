----------------------------- MODULE ServerGame -----------------------------
(***************************************************************************)
(* The life of one game on the server: Server_Game with the part of        *)
(* Server_Player, Server_AbstractUserInterface and Server that decides who  *)
(* sits at the table, who is host, when the match starts, whose turn it is, *)
(* when it stops, and when the game object goes away.                       *)
(*                                                                          *)
(* Every handler below runs with gameMutex held, so each one is a single    *)
(* action; what interleaves is the handlers of different sessions, the two  *)
(* events a game posts to its own event loop (the queued start and the      *)
(* deferred deletion) and the steps of a login.  Cards, counters and arrows *)
(* are left to other modules: a player's zones are only set up or cleared.  *)
(***************************************************************************)
EXTENDS Integers, FiniteSets, FiniteSetsExt

CONSTANTS
  User,                    \* account names and guest names
  Registered,              \* users whose level has IsRegistered
  Judge,                   \* users whose level has IsJudge
  Moderator,               \* users whose level has IsModerator
  Creator,                 \* the user who created the game
  MayPlay,                 \* users whom password, buddy and level checks admit
  MayWatch,                \* users whom the same checks admit as spectators
  PermitCreateGameAsJudge, \* the server option of that name
  MaxPlayers,              \* seats of the table
  MaxInactivity,           \* max_game_inactivity_time in pings, 0 for never
  MaxId,                   \* bound on the player ids handed out
  MaxPendingStarts         \* bound on the start events waiting in the queue

ASSUME UsersAssumption ==
  /\ Registered \subseteq User /\ Judge \subseteq User /\ Moderator \subseteq User
  /\ MayPlay \subseteq User /\ MayWatch \subseteq User
  /\ Creator \in User
  /\ PermitCreateGameAsJudge \in BOOLEAN

\* The client's create dialog offers 1..100 seats.
ASSUME SizesAssumption ==
  /\ MaxPlayers \in Nat \ {0}
  /\ MaxInactivity \in Nat
  /\ MaxId \in Nat
  /\ MaxPendingStarts \in Nat \ {0}

VARIABLES
  players,           \* the QMap of players, by player id
  nextPlayerId,
  hostId,
  activePlayer,      \* -1 before the first turn
  turnOrderReversed,
  gameStarted,
  gameClosed,
  inactivityCounter,
  pendingStarts,     \* posted doStartGameIfReady events, all ahead of a deletion
  deletePending,     \* deleteLater() has been called
  destroyed,         \* the destructor has run and the room forgot the game
  stuck,             \* nextTurn() is looping for ever, with gameMutex held
  persistentPlayers, \* Server::persistentPlayers, of this game
  session,           \* where each user's session is
  games,             \* the session's own entry for this game, -1 for none
  refs               \* the references a login has read and not yet resolved

tableVars   == <<players, nextPlayerId, hostId>>
matchVars   == <<activePlayer, turnOrderReversed, gameStarted>>
closingVars == <<gameClosed, inactivityCounter, deletePending, destroyed>>
sessionVars == <<session, refs>>
vars == <<tableVars, matchVars, closingVars, pendingStarts, stuck,
          persistentPlayers, sessionVars, games>>

NoId == -1
Id   == 0..MaxId

Player == [user: User, spectator: BOOLEAN, judge: BOOLEAN, deck: BOOLEAN,
           readyStart: BOOLEAN, conceded: BOOLEAN, zones: BOOLEAN,
           userInterface: BOOLEAN]

-----------------------------------------------------------------------------
(* Queries on a table of players.                                           *)

Seats(ps)  == {i \in DOMAIN ps : ~ps[i].spectator}
InPlay(ps) == {i \in Seats(ps) : ~ps[i].conceded}

PlayerCount == Cardinality(Seats(players))

\* The seat nextTurn() moves to, with the ids in play and the current holder.
\* An active player whose id is no longer a key sends the search to the end.
TurnAfter_LosesPlace(ps, active, reversed) ==
  IF reversed THEN Max(InPlay(ps)) ELSE Min(InPlay(ps))

TurnAfter(ps, active, reversed) ==
  LET eligible == InPlay(ps)
      ahead    == IF active \notin DOMAIN ps THEN {}
                  ELSE {i \in eligible : IF reversed THEN i < active ELSE i > active}
  IN  IF reversed
      THEN Max(IF ahead # {} THEN ahead ELSE eligible)
      ELSE Min(IF ahead # {} THEN ahead ELSE eligible)

\* A definition whose name is another's with a suffix is a mutation of it: a
\* plausible slip in that code, which no action uses and the checks must catch.

\* stopGameIfFinished(): the match goes on while two contenders are left.
Continues_NobodyConcedes(ps) == Cardinality(Seats(ps)) > 1
Continues(ps) == Cardinality(InPlay(ps)) > 1

Cleared(ps) ==
  [i \in DOMAIN ps |-> [ps[i] EXCEPT !.zones = FALSE, !.conceded = FALSE]]

StopIfFinished(ps) == IF Continues(ps) THEN ps ELSE Cleared(ps)

Without(ps, i) == Restrict(ps, DOMAIN ps \ {i})

NewPlayer(u, spectator, judge) ==
  [user |-> u, spectator |-> spectator, judge |-> judge, deck |-> FALSE,
   readyStart |-> FALSE, conceded |-> FALSE, zones |-> FALSE,
   userInterface |-> TRUE]

-----------------------------------------------------------------------------
(* Who can reach the game.                                                  *)

\* The room still lists the game, and nobody sits on its mutex for ever.
Usable == ~destroyed /\ ~stuck

\* processGameCommandContainer(): a session speaks for the player id its own
\* map of games holds.
Commands(i) ==
  /\ i \in DOMAIN players
  /\ \E u \in User : session[u] = "online" /\ games[u] = i

\* A player's handlers run for its own session, or for a judge's (cmdJudge).
Acts(i) ==
  /\ Usable
  /\ i \in DOMAIN players
  /\ \/ Commands(i)
     \/ \E j \in DOMAIN players : players[j].judge /\ Commands(j)

CheckJoin_Twice(u, spectator, asJudge) ==
  /\ asJudge => u \in Judge
  /\ u \in IF spectator THEN MayWatch ELSE MayPlay
  /\ spectator \/ (~gameStarted /\ PlayerCount < MaxPlayers)

CheckJoin(u, spectator, asJudge) ==
  /\ \A i \in DOMAIN players : players[i].user # u
  /\ asJudge => u \in Judge
  /\ u \in IF spectator THEN MayWatch ELSE MayPlay
  /\ spectator \/ (~gameStarted /\ PlayerCount < MaxPlayers)

-----------------------------------------------------------------------------
(* Steps shared by several handlers.                                        *)

\* nextTurn() loops until it meets a contender; without one it never returns.
NextTurn(ps) ==
  IF InPlay(ps) = {}
  THEN stuck' = TRUE /\ UNCHANGED activePlayer
  ELSE /\ activePlayer' = TurnAfter(ps, activePlayer, turnOrderReversed)
       /\ UNCHANGED stuck

\* Pass the turn on if the one who leaves the match was holding it.
PassTurnFrom_Forgets(i, ps, stillOn) == UNCHANGED <<activePlayer, stuck>>
PassTurnFrom(i, ps, stillOn) ==
  IF stillOn /\ activePlayer = i
  THEN NextTurn(ps)
  ELSE UNCHANGED <<activePlayer, stuck>>

\* removePlayer(): the host's seat goes to the first seated player; with none
\* left the game closes at once and skips the rest of the handler.
NewHost(ps) == Seats(ps)

DeleteLater(closing) == deletePending' = (deletePending \/ closing)

\* removePersistentPlayer()
ForgetReference_Kept(u, i) == UNCHANGED persistentPlayers
ForgetReference(u, i) == persistentPlayers' = persistentPlayers \ {<<u, i>>}

\* playerRemovedFromGame(), called by prepareDestroy() when there is a session.
LeaveSession_Forgotten(p) == UNCHANGED games
LeaveSession(p) ==
  games' = IF p.userInterface THEN [games EXCEPT ![p.user] = NoId] ELSE games

RemovePlayer(i) ==
  LET p       == players[i]
      left    == Without(players, i)
      closing == hostId = i /\ NewHost(left) = {}
      settles == ~p.spectator /\ ~closing
      ps      == IF settles THEN StopIfFinished(left) ELSE left
      stillOn == gameStarted /\ (settles => Continues(left))
  IN  /\ ForgetReference(p.user, i)
      /\ LeaveSession(p)
      /\ players' = ps
      /\ hostId' = IF hostId = i /\ ~closing THEN Min(NewHost(left)) ELSE hostId
      /\ gameClosed' = (gameClosed \/ closing)
      /\ DeleteLater(closing)
      /\ gameStarted' = stillOn
      /\ PassTurnFrom(i, ps, settles /\ stillOn)
      /\ UNCHANGED <<nextPlayerId, turnOrderReversed, inactivityCounter,
                     destroyed, pendingStarts>>

-----------------------------------------------------------------------------
(* Game commands of the players.                                            *)

\* cmdLeaveGame()
Leave(i) == Acts(i) /\ RemovePlayer(i) /\ UNCHANGED sessionVars

\* cmdKickFromGame(): by the host or a moderator, of anybody at the table.
MayKick(k) == hostId = k \/ players[k].user \in Moderator

Kick(k, i) ==
  /\ Acts(k) /\ MayKick(k)
  /\ i \in DOMAIN players
  /\ RemovePlayer(i) /\ UNCHANGED sessionVars

\* cmdDeckSelect(): allowed at any time, and a ready player stays ready.
DeckSelect(i) ==
  /\ Acts(i) /\ ~players[i].spectator
  /\ players' = [players EXCEPT ![i].deck = TRUE]
  /\ UNCHANGED <<nextPlayerId, hostId, matchVars, closingVars, pendingStarts,
                 stuck, persistentPlayers, sessionVars, games>>

\* A start event posted after the deletion is never delivered.
PostStart_ReadsFlagsFirst ==
  pendingStarts' = pendingStarts
    + (IF ~deletePending /\ \A i \in Seats(players) : players[i].readyStart
       THEN 1 ELSE 0)
PostStart == pendingStarts' = IF deletePending THEN pendingStarts ELSE pendingStarts + 1

\* cmdReadyStart(): becoming ready posts a start, unready posts nothing.
MayReady(i) == players[i].deck /\ ~gameStarted

ReadyStart(i) ==
  /\ Acts(i) /\ ~players[i].spectator /\ MayReady(i)
  /\ ~players[i].readyStart
  /\ pendingStarts < MaxPendingStarts
  /\ players' = [players EXCEPT ![i].readyStart = TRUE]
  /\ PostStart
  /\ UNCHANGED <<nextPlayerId, hostId, matchVars, closingVars, stuck,
                 persistentPlayers, sessionVars, games>>

UnreadyStart(i) ==
  /\ Acts(i) /\ ~players[i].spectator /\ MayReady(i)
  /\ players[i].readyStart
  /\ players' = [players EXCEPT ![i].readyStart = FALSE]
  /\ UNCHANGED <<nextPlayerId, hostId, matchVars, closingVars, pendingStarts,
                 stuck, persistentPlayers, sessionVars, games>>

\* cmdConcede(): out of the match but still at the table.
Concede(i) ==
  LET out == [players EXCEPT ![i].conceded = TRUE, ![i].zones = FALSE]
  IN  /\ Acts(i) /\ ~players[i].spectator /\ gameStarted /\ ~players[i].conceded
      /\ players' = StopIfFinished(out)
      /\ gameStarted' = Continues(out)
      /\ PassTurnFrom(i, StopIfFinished(out), Continues(out))
      /\ UNCHANGED <<nextPlayerId, hostId, turnOrderReversed, closingVars,
                     pendingStarts, persistentPlayers, sessionVars, games>>

\* cmdUnconcede(): back into the match with freshly set up zones.
Unconcede(i) ==
  /\ Acts(i) /\ ~players[i].spectator /\ gameStarted /\ players[i].conceded
  /\ players' = [players EXCEPT ![i].conceded = FALSE, ![i].zones = TRUE]
  /\ UNCHANGED <<nextPlayerId, hostId, matchVars, closingVars, pendingStarts,
                 stuck, persistentPlayers, sessionVars, games>>

\* cmdNextTurn(): any contender may call the turn, a judge from any seat.
MayPassTurn(i) ==
  players[i].judge \/ (~players[i].spectator /\ ~players[i].conceded)

CmdNextTurn(i) ==
  /\ Acts(i) /\ gameStarted /\ MayPassTurn(i)
  /\ NextTurn(players)
  /\ UNCHANGED <<tableVars, turnOrderReversed, gameStarted, closingVars,
                 pendingStarts, persistentPlayers, sessionVars, games>>

\* cmdReverseTurn()
ReverseTurn(i) ==
  /\ Acts(i) /\ gameStarted
  /\ ~players[i].spectator /\ ~players[i].conceded
  /\ turnOrderReversed' = ~turnOrderReversed
  /\ UNCHANGED <<tableVars, activePlayer, gameStarted, closingVars,
                 pendingStarts, stuck, persistentPlayers, sessionVars, games>>

-----------------------------------------------------------------------------
(* Events of the game's own thread.                                         *)

\* doStartGameIfReady(): the conditions are read when the event arrives, not
\* when it was posted.
EverybodyReady == \A i \in Seats(players) : players[i].readyStart

StartConditions == PlayerCount >= MaxPlayers /\ EverybodyReady

Started_KeepsReady(ps) ==
  [i \in DOMAIN ps |-> [ps[i] EXCEPT !.zones = ~ps[i].spectator, !.conceded = FALSE]]
Started(ps) ==
  [i \in DOMAIN ps |-> [ps[i] EXCEPT !.zones = ~ps[i].spectator,
                                     !.conceded = FALSE, !.readyStart = FALSE]]

StartGame ==
  /\ Usable /\ pendingStarts > 0 /\ StartConditions
  /\ pendingStarts' = pendingStarts - 1
  /\ players' = Started(players)
  /\ gameStarted' = TRUE
  /\ activePlayer' = TurnAfter(Started(players), NoId, turnOrderReversed)
  /\ UNCHANGED <<nextPlayerId, hostId, turnOrderReversed, closingVars, stuck,
                 persistentPlayers, sessionVars, games>>

IgnoreStart ==
  /\ Usable /\ pendingStarts > 0 /\ ~StartConditions
  /\ pendingStarts' = pendingStarts - 1
  /\ UNCHANGED <<tableVars, matchVars, closingVars, stuck, persistentPlayers,
                 sessionVars, games>>

DoStartGameIfReady == StartGame \/ IgnoreStart

\* pingClockTimeout(): a game nobody plays from a live connection is given up,
\* at once when seats are free, after MaxInactivity pings otherwise.
AllPlayersInactive ==
  \A i \in DOMAIN players :
    players[i].userInterface => players[i].spectator /\ i # hostId

GiveUp_OnlyFreeSeats(counter) == PlayerCount < MaxPlayers
GiveUp(counter) ==
  (MaxInactivity > 0 /\ counter >= MaxInactivity) \/ PlayerCount < MaxPlayers

\* The counter stops mattering at MaxInactivity, so the model stops it there.
PingClockTimeout ==
  /\ Usable
  /\ inactivityCounter' = IF AllPlayersInactive
                          THEN Min({inactivityCounter + 1, MaxInactivity})
                          ELSE 0
  /\ deletePending' = (deletePending
                       \/ (AllPlayersInactive /\ GiveUp(inactivityCounter')))
  /\ UNCHANGED <<tableVars, matchVars, gameClosed, destroyed, pendingStarts,
                 stuck, persistentPlayers, sessionVars, games>>

\* ~Server_Game(), when the event loop reaches the deferred deletion: whoever
\* is still attached is detached, and the room drops the game.  The references
\* in persistentPlayers stay behind.
Destroy ==
  /\ Usable /\ deletePending /\ pendingStarts = 0
  /\ destroyed' = TRUE /\ gameClosed' = TRUE
  /\ players' = Restrict(players, {})
  /\ games' = [u \in User |->
                 IF \E i \in DOMAIN players : players[i].user = u /\ players[i].userInterface
                 THEN NoId ELSE games[u]]
  /\ UNCHANGED <<nextPlayerId, hostId, matchVars, inactivityCounter, deletePending,
                 pendingStarts, stuck, persistentPlayers, sessionVars>>

-----------------------------------------------------------------------------
(* Sessions: joining, losing the connection, logging in again.              *)

\* processJoinGameCommand(): checkJoin() and addPlayer() under one gameMutex.
NextPlayerId_Reused == nextPlayerId' = Cardinality(DOMAIN players) + 1
NextPlayerId == nextPlayerId' = nextPlayerId + 1

KeepsSeat(u, spectator) == u \in Registered /\ ~spectator

\* "if the original creator of the game joins, give them host status back"
TakesHost_Anybody(u, spectator) == ~spectator
TakesHost(u, spectator) == ~spectator /\ u = Creator

Join(u, spectator, asJudge) ==
  /\ Usable /\ session[u] = "online"
  /\ nextPlayerId <= MaxId
  /\ CheckJoin(u, spectator, asJudge)
  /\ NextPlayerId
  /\ players' = [i \in DOMAIN players \cup {nextPlayerId} |->
                   IF i = nextPlayerId THEN NewPlayer(u, spectator, asJudge)
                                       ELSE players[i]]
  /\ hostId' = IF TakesHost(u, spectator) THEN nextPlayerId ELSE hostId
  /\ persistentPlayers' = IF KeepsSeat(u, spectator)
                          THEN persistentPlayers \cup {<<u, nextPlayerId>>}
                          ELSE persistentPlayers
  /\ games' = [games EXCEPT ![u] = nextPlayerId]
  /\ UNCHANGED <<matchVars, closingVars, pendingStarts, stuck, sessionVars>>

\* prepareDestroy() of a session, and what disconnectClient() makes of it: no
\* seat in this game, a registered player's seat kept without an interface, or
\* anybody else's removed.
StaysAtTable(p) == p.user \in Registered /\ ~p.spectator

DropSession(u) ==
  /\ session[u] = "online"
  /\ session' = [session EXCEPT ![u] = "offline"]
  /\ UNCHANGED refs

DisconnectSeatless(u) ==
  /\ DropSession(u) /\ games[u] \notin DOMAIN players
  /\ games' = [games EXCEPT ![u] = NoId]
  /\ UNCHANGED <<tableVars, matchVars, closingVars, pendingStarts, stuck,
                 persistentPlayers>>

DisconnectKept(u) ==
  LET i == games[u]
  IN  /\ ~stuck /\ DropSession(u)
      /\ i \in DOMAIN players /\ StaysAtTable(players[i])
      /\ games' = [games EXCEPT ![u] = NoId]
      /\ players' = [players EXCEPT ![i].userInterface = FALSE]
      /\ UNCHANGED <<nextPlayerId, hostId, matchVars, closingVars,
                     pendingStarts, stuck, persistentPlayers>>

DisconnectRemoved(u) ==
  LET i == games[u]
  IN  /\ ~stuck /\ DropSession(u)
      /\ i \in DOMAIN players /\ ~StaysAtTable(players[i])
      /\ RemovePlayer(i)

Disconnect(u) == DisconnectSeatless(u) \/ DisconnectKept(u) \/ DisconnectRemoved(u)

\* loginUser() and the first line of joinPersistentGames(): the references are
\* copied, and resolved later.
Login(u) ==
  /\ session[u] = "offline"
  /\ session' = [session EXCEPT ![u] = "loggingIn"]
  /\ refs' = [refs EXCEPT ![u] = {i \in Id : <<u, i>> \in persistentPlayers}]
  /\ UNCHANGED <<tableVars, matchVars, closingVars, pendingStarts, stuck,
                 persistentPlayers, games>>

\* The rest of joinPersistentGames(): a reference to a seat that has gone in
\* the meantime is skipped.
Resumed_EarlyReturn(u) == {}
Resumed(u) == refs[u] \cap DOMAIN players

Rejoin(u) ==
  /\ ~stuck /\ session[u] = "loggingIn"
  /\ session' = [session EXCEPT ![u] = "online"]
  /\ refs' = [refs EXCEPT ![u] = {}]
  /\ players' = [i \in DOMAIN players |->
                   IF i \in Resumed(u) THEN [players[i] EXCEPT !.userInterface = TRUE]
                                       ELSE players[i]]
  /\ games' = IF Resumed(u) = {} THEN games
              ELSE [games EXCEPT ![u] = Max(Resumed(u))]
  /\ UNCHANGED <<nextPlayerId, hostId, matchVars, closingVars, pendingStarts,
                 stuck, persistentPlayers>>

-----------------------------------------------------------------------------
\* cmdCreateGame() has inserted its author as player 0.
Init ==
  /\ \E spectator, judge \in BOOLEAN :
       /\ judge => PermitCreateGameAsJudge \/ Creator \in Judge
       /\ players = [i \in {0} |-> NewPlayer(Creator, spectator, judge)]
       /\ persistentPlayers = IF KeepsSeat(Creator, spectator)
                              THEN {<<Creator, 0>>} ELSE {}
  /\ nextPlayerId = 1 /\ hostId = 0
  /\ activePlayer = NoId /\ turnOrderReversed = FALSE /\ gameStarted = FALSE
  /\ gameClosed = FALSE /\ inactivityCounter = 0
  /\ deletePending = FALSE /\ destroyed = FALSE
  /\ pendingStarts = 0 /\ stuck = FALSE
  /\ session = [u \in User |-> IF u = Creator THEN "online" ELSE "offline"]
  /\ games = [u \in User |-> IF u = Creator THEN 0 ELSE NoId]
  /\ refs = [u \in User |-> {}]

Command(i) ==
  \/ Leave(i) \/ DeckSelect(i) \/ ReadyStart(i) \/ UnreadyStart(i)
  \/ Concede(i) \/ Unconcede(i) \/ CmdNextTurn(i) \/ ReverseTurn(i)
  \/ \E k \in Id : Kick(k, i)

SessionStep(u) ==
  \/ \E spectator, asJudge \in BOOLEAN : Join(u, spectator, asJudge)
  \/ Disconnect(u) \/ Login(u) \/ Rejoin(u)

Next ==
  \/ \E i \in Id : Command(i)
  \/ DoStartGameIfReady \/ PingClockTimeout \/ Destroy
  \/ \E u \in User : SessionStep(u)

Spec == Init /\ [][Next]_vars

(* The event loop delivers what is posted to it and fires its timers; users  *)
(* and connections promise nothing.                                          *)
Fairness == WF_vars(DoStartGameIfReady) /\ WF_vars(Destroy) /\ WF_vars(PingClockTimeout)
FairSpec == Spec /\ Fairness

-----------------------------------------------------------------------------
(* Properties.                                                              *)

\* Types; ids are handed out once, so all of them are below nextPlayerId.
TypeOK ==
  /\ nextPlayerId \in 1..(MaxId + 1)
  /\ DOMAIN players \subseteq 0..(nextPlayerId - 1)
  /\ players \in [DOMAIN players -> Player]
  /\ hostId \in 0..(nextPlayerId - 1)
  /\ activePlayer \in {NoId} \cup Id
  /\ turnOrderReversed \in BOOLEAN /\ gameStarted \in BOOLEAN
  /\ gameClosed \in BOOLEAN /\ deletePending \in BOOLEAN
  /\ destroyed \in BOOLEAN /\ stuck \in BOOLEAN
  /\ inactivityCounter \in 0..MaxInactivity
  /\ pendingStarts \in 0..MaxPendingStarts
  /\ persistentPlayers \subseteq User \X Id
  /\ session \in [User -> {"offline", "loggingIn", "online"}]
  /\ games \in [User -> {NoId} \cup Id]
  /\ refs \in [User -> SUBSET Id]

\* No user sits twice at a table, whatever joins, kicks and reconnections
\* went before (checkJoin's scan against references that bring a seat back).
OneSeatPerUser ==
  \A i, j \in DOMAIN players : players[i].user = players[j].user => i = j

\* A session's own map of games and the players' interfaces are two records of
\* one fact: a session commands a seat iff the seat is its user's and sends its
\* events to it.  Otherwise commands would act for another player's seat.
SessionSeatAgree ==
  \A u \in User, i \in Id :
    games[u] = i <=> /\ i \in DOMAIN players
                     /\ players[i].user = u /\ players[i].userInterface

\* A registered player's seat can always be found again: Server keeps exactly
\* one reference per kept seat for as long as the game exists.
KeptSeatsAreReferenced ==
  ~destroyed =>
    persistentPlayers = {<<players[i].user, i>> :
      i \in {j \in DOMAIN players : KeepsSeat(players[j].user, players[j].spectator)}}

\* Once the login is over, a user who owns a seat is attached to it: no
\* interleaving of kicks, leaves and logins strands an online player.
OnlineOwnersAttached ==
  \A i \in DOMAIN players :
    session[players[i].user] = "online" => players[i].userInterface

\* A match that can start has its start on the way: when every seat is taken
\* and ready, a posted event is still to come (the ready flags are read late,
\* so an event consumed too early must be made up for by another).
NoLostStart ==
  (~gameStarted /\ ~deletePending /\ PlayerCount = MaxPlayers /\ EverybodyReady)
     => pendingStarts > 0

\* A running match has two contenders, and the turn is with one of them,
\* across concessions, returns, departures and kicks.
MatchHasOpponents ==
  MaxPlayers > 1 /\ gameStarted /\ ~destroyed => Cardinality(InPlay(players)) > 1
TurnIsInPlay ==
  MaxPlayers > 1 /\ gameStarted /\ ~destroyed => activePlayer \in InPlay(players)

\* setupZones() runs on a player without zones and with a deck, and zones live
\* exactly as long as the player is in the match: nothing is leaked or reused.
ZonesIffInPlay ==
  \A i \in DOMAIN players :
    players[i].zones <=> gameStarted /\ i \in InPlay(players)

\* A ready or started player has chosen a deck (setupZones dereferences it),
\* and no ready flag survives into a match, where a late start event would
\* deal a second time over a running game.
DecksBeforeDeals ==
  \A i \in Seats(players) :
    /\ players[i].readyStart \/ gameStarted => players[i].deck
    /\ players[i].readyStart => ~gameStarted

\* With a table for two or more, no command leaves nextTurn() looping with the
\* game's mutex held.
TurnLoopTerminates == MaxPlayers > 1 => ~stuck

\* The host changes only when the old one is gone or the creator sits down.
HostHandover ==
  [][hostId' # hostId =>
       hostId \notin DOMAIN players' \/ players'[hostId'].user = Creator]_vars

\* A full and ready table starts, unless somebody leaves, is no longer ready,
\* or the game is given up.
FullTableStarts ==
  (~gameStarted /\ ~deletePending /\ PlayerCount = MaxPlayers /\ EverybodyReady)
    ~> (gameStarted \/ deletePending \/ PlayerCount < MaxPlayers \/ ~EverybodyReady)

\* A game nobody plays any more goes away.
AbandonedGameGoes ==
  (<>[](AllPlayersInactive /\ ~stuck) => <>destroyed)

\* The turn goes round the table: when it moves while its old holder is still
\* at the table, no contender sits between the old and the new holder in the
\* direction of play.  (When the holder leaves, nextTurn() no longer finds the
\* place and starts over from the end of the table.)
SitsBetween(a, i, b) ==
  LET lo == IF turnOrderReversed THEN b ELSE a
      hi == IF turnOrderReversed THEN a ELSE b
  IN  IF lo < hi THEN lo < i /\ i < hi ELSE lo < i \/ i < hi

NobodyIsSkipped ==
  [][gameStarted /\ gameStarted' /\ activePlayer \in DOMAIN players'
     /\ activePlayer' # activePlayer
       => ~\E i \in InPlay(players') : SitsBetween(activePlayer, i, activePlayer')]_vars

-----------------------------------------------------------------------------
(* The game keeps the promise of module Match.                              *)

MatchOn == gameStarted /\ ~destroyed

AbstractMatch == INSTANCE Match WITH
  Seat       <- Id,
  Nobody     <- NoId,
  running    <- MatchOn,
  contenders <- IF MatchOn THEN InPlay(players) ELSE {},
  turn       <- IF MatchOn THEN activePlayer ELSE NoId

\* Whatever sessions, kicks and late events do, the players see a match that
\* is dealt, played and ended by the rules of Match (tables for two or more).
KeepsMatch == AbstractMatch!Spec

=============================================================================
