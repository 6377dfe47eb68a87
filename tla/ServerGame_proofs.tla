------------------------- MODULE ServerGame_proofs --------------------------
(***************************************************************************)
(* Theorems about module ServerGame, for every set of users, every size of  *)
(* table and every bound.                                                   *)
(***************************************************************************)
EXTENDS ServerGame, LeastElements_proofs, FiniteSetTheorems, TLAPS

-----------------------------------------------------------------------------
(* Least and greatest ids.                                                  *)

\* A nonempty set of naturals has a least element, and Min is one.
LEMMA MinExists ==
  ASSUME NEW S \in SUBSET Nat, S # {}
  PROVE  Min(S) \in S /\ \A y \in S : Min(S) <= y
BY LeastExists DEF Min

\* A nonempty set of naturals below a bound has a greatest element, and Max is
\* one: the least distance from the bound belongs to it.
LEMMA MaxExists ==
  ASSUME NEW n \in Nat, NEW S \in SUBSET (0..n), S # {}
  PROVE  Max(S) \in S /\ \A y \in S : Max(S) >= y
<1> DEFINE Gaps == {n - x : x \in S}
<1>1. Gaps \in SUBSET Nat /\ Gaps # {}
  <2>1. \A x \in S : n - x \in Nat
    <3>1. \A x \in 0..n : n - x \in Nat
      OBVIOUS
    <3> QED BY <3>1
  <2> QED BY <2>1
<1>2. Min(Gaps) \in Gaps /\ \A g \in Gaps : Min(Gaps) <= g
  <2> HIDE DEF Gaps
  <2> QED BY <1>1, MinExists
<1>3. PICK x \in S : Min(Gaps) = n - x
  BY <1>2
<1>4. ASSUME NEW y \in S PROVE x >= y
  <2>1. n - x <= n - y
    BY <1>2, <1>3
  <2> QED BY <2>1
<1> QED BY <1>4 DEF Max

-----------------------------------------------------------------------------
(* Tables of players: what the operations on them preserve.                 *)

\* A table whose ids are below n.
Table(ps, n) ==
  /\ DOMAIN ps \subseteq 0..(n - 1)
  /\ ps \in [DOMAIN ps -> Player]

LEMMA InPlayIds ==
  ASSUME NEW n \in Nat, NEW ps, Table(ps, n)
  PROVE  /\ InPlay(ps) \subseteq Seats(ps)
         /\ Seats(ps) \subseteq DOMAIN ps
         /\ Seats(ps) \in SUBSET Nat /\ InPlay(ps) \in SUBSET Nat
         /\ IsFiniteSet(Seats(ps)) /\ IsFiniteSet(InPlay(ps))
<1>1. InPlay(ps) \subseteq Seats(ps) /\ Seats(ps) \subseteq DOMAIN ps
  BY DEF InPlay, Seats
<1>2. IsFiniteSet(0..(n - 1))
  BY FS_Interval
<1>3. Seats(ps) \in SUBSET (0..(n - 1)) /\ InPlay(ps) \in SUBSET (0..(n - 1))
  BY <1>1 DEF Table
<1>4. IsFiniteSet(Seats(ps)) /\ IsFiniteSet(InPlay(ps))
  BY <1>2, <1>3, FS_Subset
<1> QED BY <1>1, <1>3, <1>4

\* nextTurn() lands on a contender whenever there is one.
LEMMA TurnAfterInPlay ==
  ASSUME NEW n \in Nat, NEW ps, Table(ps, n), InPlay(ps) # {},
         NEW active, NEW reversed \in BOOLEAN
  PROVE  TurnAfter(ps, active, reversed) \in InPlay(ps)
<1> DEFINE ahead == IF active \notin DOMAIN ps THEN {}
                    ELSE {i \in InPlay(ps) :
                            IF reversed THEN i < active ELSE i > active}
           pool  == IF ahead # {} THEN ahead ELSE InPlay(ps)
<1>1. pool \subseteq InPlay(ps) /\ pool # {}
  OBVIOUS
<1>2. pool \in SUBSET Nat
  BY <1>1, InPlayIds
<1>3. n # 0 /\ pool \in SUBSET (0..(n - 1)) /\ n - 1 \in Nat
  <2>1. pool \subseteq 0..(n - 1)
    BY <1>1, InPlayIds DEF Table
  <2>2. \E x : x \in 0..(n - 1)
    BY <1>1, <2>1
  <2>3. n # 0
    BY <2>2
  <2> QED BY <2>1, <2>3
<1>4. Min(pool) \in pool /\ Max(pool) \in pool
  <2> HIDE DEF pool
  <2> QED BY <1>1, <1>2, <1>3, MinExists, MaxExists
<1>5. TurnAfter(ps, active, reversed) = IF reversed THEN Max(pool) ELSE Min(pool)
  BY DEF TurnAfter
<1> HIDE DEF pool
<1> QED BY <1>1, <1>4, <1>5

LEMMA ClearedTable ==
  ASSUME NEW n \in Nat, NEW ps, Table(ps, n)
  PROVE  /\ Table(Cleared(ps), n) /\ Table(StopIfFinished(ps), n)
         /\ DOMAIN Cleared(ps) = DOMAIN ps
         /\ DOMAIN StopIfFinished(ps) = DOMAIN ps
BY DEF Table, Cleared, StopIfFinished, Player

LEMMA WithoutTable ==
  ASSUME NEW n \in Nat, NEW ps, Table(ps, n), NEW i
  PROVE  Table(Without(ps, i), n) /\ DOMAIN Without(ps, i) = DOMAIN ps \ {i}
BY DEF Table, Without, Restrict

LEMMA StartedTable ==
  ASSUME NEW n \in Nat, NEW ps, Table(ps, n)
  PROVE  Table(Started(ps), n) /\ DOMAIN Started(ps) = DOMAIN ps
BY DEF Table, Started, Player


-----------------------------------------------------------------------------
(* Type correctness.                                                        *)

LEMMA TypeTable ==
  ASSUME TypeOK
  PROVE  /\ nextPlayerId \in Nat /\ Table(players, nextPlayerId)
         /\ DOMAIN players \subseteq Id /\ IsFiniteSet(DOMAIN players)
<1>1. nextPlayerId \in 1..(MaxId + 1)
  BY DEF TypeOK
<1>2. nextPlayerId \in Nat /\ 0..(nextPlayerId - 1) \subseteq Id
  BY <1>1, SizesAssumption DEF Id
<1>3. Table(players, nextPlayerId)
  BY DEF TypeOK, Table
<1>4. IsFiniteSet(0..(nextPlayerId - 1))
  BY <1>2, FS_Interval
<1>5. DOMAIN players \subseteq 0..(nextPlayerId - 1)
  BY DEF TypeOK
<1>6. IsFiniteSet(DOMAIN players)
  BY <1>4, <1>5, FS_Subset
<1> QED BY <1>2, <1>3, <1>5, <1>6

\* nextTurn() keeps the active player an id.
LEMMA NextTurnType ==
  ASSUME TypeOK, NEW ps, Table(ps, nextPlayerId), NextTurn(ps)
  PROVE  activePlayer' \in {NoId} \cup Id /\ stuck' \in BOOLEAN
<1>1. CASE InPlay(ps) = {}
  BY <1>1 DEF NextTurn, TypeOK
<1>2. CASE InPlay(ps) # {}
  <2>1. nextPlayerId \in Nat /\ turnOrderReversed \in BOOLEAN
    BY TypeTable DEF TypeOK
  <2>2. TurnAfter(ps, activePlayer, turnOrderReversed) \in InPlay(ps)
    BY <1>2, <2>1, TurnAfterInPlay
  <2>3. InPlay(ps) \subseteq Id
    <3>1. InPlay(ps) \subseteq 0..(nextPlayerId - 1)
      BY <2>1, InPlayIds DEF Table
    <3> QED BY <3>1, SizesAssumption DEF TypeOK, Id
  <2> QED BY <1>2, <2>2, <2>3 DEF NextTurn, TypeOK
<1> QED BY <1>1, <1>2

\* What removePlayer() does to the types, whoever calls it and whatever the
\* caller does to its session.
LEMMA RemovePlayerType ==
  ASSUME TypeOK, NEW i \in DOMAIN players, RemovePlayer(i),
         session' \in [User -> {"offline", "loggingIn", "online"}],
         refs' \in [User -> SUBSET Id]
  PROVE  TypeOK'
<1> DEFINE p       == players[i]
           left    == Without(players, i)
           closing == hostId = i /\ NewHost(left) = {}
           settles == ~p.spectator /\ ~closing
           ps      == IF settles THEN StopIfFinished(left) ELSE left
           stillOn == gameStarted /\ (settles => Continues(left))
<1>1. nextPlayerId \in Nat /\ Table(players, nextPlayerId)
  BY TypeTable
<1>2. Table(left, nextPlayerId) /\ Table(ps, nextPlayerId)
  BY <1>1, WithoutTable, ClearedTable
<1>3. players' = ps /\ nextPlayerId' = nextPlayerId
  BY DEF RemovePlayer
<1>4. hostId' \in 0..(nextPlayerId - 1)
  <2>1. CASE hostId = i /\ ~closing
    <3>1. Seats(left) # {} /\ hostId' = Min(Seats(left))
      BY <2>1 DEF RemovePlayer, NewHost
    <3>2. Min(Seats(left)) \in Seats(left)
      <4>1. Seats(left) \in SUBSET Nat
        BY <1>1, <1>2, InPlayIds
      <4> QED BY <3>1, <4>1, MinExists
    <3> QED BY <1>1, <1>2, <3>1, <3>2, InPlayIds DEF Table
  <2>2. CASE ~(hostId = i /\ ~closing)
    BY <2>2 DEF RemovePlayer, TypeOK
  <2> QED BY <2>1, <2>2
<1>5. activePlayer' \in {NoId} \cup Id /\ stuck' \in BOOLEAN
  <2>1. PassTurnFrom(i, ps, settles /\ stillOn)
    BY DEF RemovePlayer
  <2>2. CASE NextTurn(ps)
    BY <1>2, <2>2, NextTurnType
  <2>3. CASE UNCHANGED <<activePlayer, stuck>>
    BY <2>3 DEF TypeOK
  <2> QED BY <2>1, <2>2, <2>3 DEF PassTurnFrom
<1>6. games' \in [User -> {NoId} \cup Id]
  BY DEF RemovePlayer, LeaveSession, TypeOK
<1>7. persistentPlayers' \subseteq User \X Id
  BY DEF RemovePlayer, ForgetReference, TypeOK
<1>8. gameStarted' \in BOOLEAN /\ gameClosed' \in BOOLEAN /\ deletePending' \in BOOLEAN
  <2>1. gameStarted' = stillOn /\ gameClosed' = (gameClosed \/ closing)
        /\ deletePending' = (deletePending \/ closing)
    BY DEF RemovePlayer, DeleteLater
  <2> QED BY <2>1 DEF TypeOK
<1>9. UNCHANGED <<turnOrderReversed, inactivityCounter, destroyed, pendingStarts>>
  BY DEF RemovePlayer
<1> QED BY <1>2, <1>3, <1>4, <1>5, <1>6, <1>7, <1>8, <1>9 DEF TypeOK, Table

LEMMA InitType == Init => TypeOK
<1> SUFFICES ASSUME Init PROVE TypeOK
  OBVIOUS
<1>1. PICK spectator \in BOOLEAN, judge \in BOOLEAN :
        /\ players = [i \in {0} |-> NewPlayer(Creator, spectator, judge)]
        /\ persistentPlayers = IF KeepsSeat(Creator, spectator)
                               THEN {<<Creator, 0>>} ELSE {}
  BY DEF Init
<1>2. NewPlayer(Creator, spectator, judge) \in Player
  BY UsersAssumption DEF NewPlayer, Player
<1>3. players \in [DOMAIN players -> Player] /\ DOMAIN players = {0}
  BY <1>1, <1>2
<1>4. persistentPlayers \subseteq User \X Id
  BY <1>1, UsersAssumption, SizesAssumption DEF Id
<1>5. games \in [User -> {NoId} \cup Id]
  BY SizesAssumption DEF Init, Id
<1>6. /\ session \in [User -> {"offline", "loggingIn", "online"}]
      /\ refs \in [User -> SUBSET Id]
  BY DEF Init
<1>7. /\ nextPlayerId = 1 /\ hostId = 0 /\ activePlayer = NoId
      /\ turnOrderReversed = FALSE /\ gameStarted = FALSE /\ gameClosed = FALSE
      /\ inactivityCounter = 0 /\ deletePending = FALSE /\ destroyed = FALSE
      /\ pendingStarts = 0 /\ stuck = FALSE
  BY DEF Init
<1>8. /\ nextPlayerId \in 1..(MaxId + 1) /\ inactivityCounter \in 0..MaxInactivity
      /\ pendingStarts \in 0..MaxPendingStarts
      /\ DOMAIN players \subseteq 0..(nextPlayerId - 1) /\ hostId \in 0..(nextPlayerId - 1)
  BY <1>3, <1>7, SizesAssumption
<1> QED BY <1>3, <1>4, <1>5, <1>6, <1>7, <1>8 DEF TypeOK

\* A step that rewrites the records of the players and leaves the ids alone.
LEMMA RewriteType ==
  ASSUME TypeOK, players' \in [DOMAIN players -> Player],
         UNCHANGED <<nextPlayerId, hostId, turnOrderReversed, closingVars,
                     persistentPlayers, sessionVars, games>>,
         activePlayer' \in {NoId} \cup Id, gameStarted' \in BOOLEAN,
         stuck' \in BOOLEAN, pendingStarts' \in 0..MaxPendingStarts
  PROVE  TypeOK'
BY DEF TypeOK, closingVars, sessionVars

LEMMA CommandType ==
  ASSUME TypeOK, NEW i \in Id, Command(i)
  PROVE  TypeOK'
<1> USE DEF matchVars, tableVars
<1>1. CASE Leave(i)
  BY <1>1, RemovePlayerType DEF Leave, Acts, sessionVars, TypeOK
<1>2. CASE DeckSelect(i)
  <2>1. players' \in [DOMAIN players -> Player]
    BY <1>2 DEF DeckSelect, TypeOK, Player
  <2> QED BY <1>2, <2>1, RewriteType DEF DeckSelect, TypeOK
<1>3. CASE ReadyStart(i)
  <2>1. players' \in [DOMAIN players -> Player]
    BY <1>3 DEF ReadyStart, TypeOK, Player
  <2>2. pendingStarts' \in 0..MaxPendingStarts
    BY <1>3, SizesAssumption DEF ReadyStart, PostStart, TypeOK
  <2> QED BY <1>3, <2>1, <2>2, RewriteType DEF ReadyStart, TypeOK
<1>4. CASE UnreadyStart(i)
  <2>1. players' \in [DOMAIN players -> Player]
    BY <1>4 DEF UnreadyStart, TypeOK, Player
  <2> QED BY <1>4, <2>1, RewriteType DEF UnreadyStart, TypeOK
<1>5. CASE Concede(i)
  <2> DEFINE out == [players EXCEPT ![i].conceded = TRUE, ![i].zones = FALSE]
  <2>1. Table(out, nextPlayerId) /\ DOMAIN out = DOMAIN players
    BY <1>5, TypeTable DEF Table, Player
  <2>2. Table(StopIfFinished(out), nextPlayerId)
        /\ DOMAIN StopIfFinished(out) = DOMAIN players
    BY <2>1, TypeTable, ClearedTable
  <2>3. /\ players' = StopIfFinished(out) /\ gameStarted' \in BOOLEAN
        /\ PassTurnFrom(i, StopIfFinished(out), Continues(out))
    BY <1>5 DEF Concede, Continues
  <2>4. activePlayer' \in {NoId} \cup Id /\ stuck' \in BOOLEAN
    BY <2>2, <2>3, NextTurnType DEF PassTurnFrom, TypeOK
  <2>5. players' \in [DOMAIN players -> Player]
    BY <2>2, <2>3 DEF Table
  <2> QED BY <1>5, <2>3, <2>4, <2>5, RewriteType DEF Concede, TypeOK
<1>6. CASE Unconcede(i)
  <2>1. players' \in [DOMAIN players -> Player]
    BY <1>6 DEF Unconcede, TypeOK, Player
  <2> QED BY <1>6, <2>1, RewriteType DEF Unconcede, TypeOK
<1>7. CASE CmdNextTurn(i)
  <2>1. activePlayer' \in {NoId} \cup Id /\ stuck' \in BOOLEAN
    BY <1>7, TypeTable, NextTurnType DEF CmdNextTurn
  <2> QED BY <1>7, <2>1, RewriteType DEF CmdNextTurn, TypeOK
<1>8. CASE ReverseTurn(i)
  BY <1>8 DEF ReverseTurn, closingVars, sessionVars, TypeOK
<1>9. CASE \E k \in Id : Kick(k, i)
  BY <1>9, RemovePlayerType DEF Kick, sessionVars, TypeOK
<1> QED BY <1>1, <1>2, <1>3, <1>4, <1>5, <1>6, <1>7, <1>8, <1>9 DEF Command

LEMMA SessionStepType ==
  ASSUME TypeOK, NEW u \in User, SessionStep(u)
  PROVE  TypeOK'
<1> USE DEF matchVars, tableVars, closingVars, sessionVars
<1>1. ASSUME NEW spectator \in BOOLEAN, NEW asJudge \in BOOLEAN,
             Join(u, spectator, asJudge)
      PROVE  TypeOK'
  <2>1. nextPlayerId \in Id /\ nextPlayerId' = nextPlayerId + 1
        /\ nextPlayerId' \in 1..(MaxId + 1)
    BY <1>1, SizesAssumption DEF Join, NextPlayerId, TypeOK, Id
  <2>2. NewPlayer(u, spectator, asJudge) \in Player
    BY DEF NewPlayer, Player
  <2>3. /\ players' \in [DOMAIN players \cup {nextPlayerId} -> Player]
        /\ DOMAIN players' = DOMAIN players \cup {nextPlayerId}
    BY <1>1, <2>2 DEF Join, TypeOK
  <2>4. DOMAIN players' \subseteq 0..(nextPlayerId' - 1) /\ hostId' \in 0..(nextPlayerId' - 1)
    BY <1>1, <2>1, <2>3 DEF Join, TypeOK, Id
  <2>5. persistentPlayers' \subseteq User \X Id /\ games' \in [User -> {NoId} \cup Id]
    BY <1>1, <2>1 DEF Join, TypeOK
  <2> QED BY <1>1, <2>1, <2>3, <2>4, <2>5 DEF Join, TypeOK
<1>2. CASE DisconnectSeatless(u)
  BY <1>2 DEF DisconnectSeatless, DropSession, TypeOK
<1>3. CASE DisconnectKept(u)
  <2>1. players' \in [DOMAIN players -> Player]
    BY <1>3 DEF DisconnectKept, TypeOK, Player
  <2> QED BY <1>3, <2>1 DEF DisconnectKept, DropSession, TypeOK
<1>4. CASE DisconnectRemoved(u)
  <2>1. /\ session' \in [User -> {"offline", "loggingIn", "online"}]
        /\ refs' \in [User -> SUBSET Id]
    BY <1>4 DEF DisconnectRemoved, DropSession, TypeOK
  <2> QED BY <1>4, <2>1, RemovePlayerType DEF DisconnectRemoved
<1>5. CASE Login(u)
  BY <1>5 DEF Login, TypeOK
<1>6. CASE Rejoin(u)
  <2>1. players' \in [DOMAIN players -> Player] /\ DOMAIN players' = DOMAIN players
    BY <1>6 DEF Rejoin, TypeOK, Player
  <2>2. games' \in [User -> {NoId} \cup Id]
    <3>1. CASE Resumed(u) # {}
      <4>1. Resumed(u) \in SUBSET (0..MaxId)
        BY DEF Resumed, TypeOK, Id
      <4>2. Max(Resumed(u)) \in Id
        BY <3>1, <4>1, MaxExists, SizesAssumption DEF Id
      <4> QED BY <1>6, <4>2 DEF Rejoin, TypeOK
    <3>2. CASE Resumed(u) = {}
      BY <1>6, <3>2 DEF Rejoin, TypeOK
    <3> QED BY <3>1, <3>2
  <2> QED BY <1>6, <2>1, <2>2 DEF Rejoin, TypeOK
<1> QED BY <1>1, <1>2, <1>3, <1>4, <1>5, <1>6 DEF SessionStep, Disconnect

LEMMA StartGameType ==
  ASSUME TypeOK, StartGame
  PROVE  TypeOK'
<1>1. Table(players, nextPlayerId) /\ nextPlayerId \in Nat
  BY TypeTable
<1>2. Table(Started(players), nextPlayerId) /\ DOMAIN Started(players) = DOMAIN players
  BY <1>1, StartedTable
<1>3. InPlay(Started(players)) = Seats(players)
  <2>1. \A i \in DOMAIN players : players[i] \in Player
    BY DEF TypeOK
  <2>2. \A i \in DOMAIN players :
           /\ Started(players)[i].spectator = players[i].spectator
           /\ Started(players)[i].conceded = FALSE
    BY <2>1 DEF Started, Player
  <2> QED BY <1>2, <2>2 DEF InPlay, Seats
<1>4. Seats(players) # {}
  <2>1. Cardinality(Seats(players)) >= MaxPlayers
    BY DEF StartGame, StartConditions, PlayerCount
  <2>2. Cardinality({}) = 0
    BY FS_EmptySet
  <2> QED BY <2>1, <2>2, SizesAssumption
<1>5. activePlayer' \in Id
  <2>1. turnOrderReversed \in BOOLEAN
    BY DEF TypeOK
  <2>2. activePlayer' \in InPlay(Started(players))
    BY <1>1, <1>2, <1>3, <1>4, <2>1, TurnAfterInPlay DEF StartGame
  <2> QED BY <1>3, <2>2, TypeTable DEF Seats
<1>6. players' \in [DOMAIN players -> Player]
  BY <1>2 DEF StartGame, Table
<1> QED BY <1>5, <1>6, RewriteType, SizesAssumption DEF StartGame, TypeOK

\* The variables keep their types, whatever users, sessions and timers do.
\* Ids stay below nextPlayerId, so the map of players never holds two of one.
THEOREM TypeCorrect == Spec => []TypeOK
<1>1. TypeOK /\ [Next]_vars => TypeOK'
  <2> SUFFICES ASSUME TypeOK, [Next]_vars PROVE TypeOK'
    OBVIOUS
  <2> USE DEF matchVars, tableVars, closingVars, sessionVars
  <2>1. CASE \E i \in Id : Command(i)
    BY <2>1, CommandType
  <2>2. CASE StartGame
    BY <2>2, StartGameType
  <2>3. CASE IgnoreStart
    <3>1. pendingStarts' \in 0..MaxPendingStarts
      BY <2>3, SizesAssumption DEF IgnoreStart, TypeOK
    <3> QED BY <2>3, <3>1 DEF IgnoreStart, TypeOK
  <2>4. CASE PingClockTimeout
    <3>1. inactivityCounter' \in 0..MaxInactivity
      <4>1. inactivityCounter \in 0..MaxInactivity /\ MaxInactivity \in Nat
        BY SizesAssumption DEF TypeOK
      <4>2. CASE AllPlayersInactive
        <5>1. Min({inactivityCounter + 1, MaxInactivity})
                 \in {inactivityCounter + 1, MaxInactivity}
              /\ Min({inactivityCounter + 1, MaxInactivity}) <= MaxInactivity
          BY <4>1, MinExists
        <5> QED BY <2>4, <4>1, <4>2, <5>1 DEF PingClockTimeout
      <4>3. CASE ~AllPlayersInactive
        BY <2>4, <4>1, <4>3 DEF PingClockTimeout
      <4> QED BY <4>2, <4>3
    <3>2. deletePending' \in BOOLEAN
      BY <2>4 DEF PingClockTimeout, TypeOK
    <3> QED BY <2>4, <3>1, <3>2 DEF PingClockTimeout, TypeOK
  <2>5. CASE Destroy
    <3>1. DOMAIN players' = {} /\ players' \in [{} -> Player]
      BY <2>5 DEF Destroy, Restrict
    <3>2. games' \in [User -> {NoId} \cup Id]
      BY <2>5 DEF Destroy, TypeOK
    <3> QED BY <2>5, <3>1, <3>2 DEF Destroy, TypeOK
  <2>6. CASE \E u \in User : SessionStep(u)
    BY <2>6, SessionStepType
  <2>7. CASE UNCHANGED vars
    BY <2>7 DEF vars, TypeOK
  <2> QED BY <2>1, <2>2, <2>3, <2>4, <2>5, <2>6, <2>7 DEF Next, DoStartGameIfReady
<1> QED BY InitType, <1>1, PTL DEF Spec

-----------------------------------------------------------------------------
(* The match: contenders, turn and zones.                                   *)

\* Whoever leaves a set of two or more leaves somebody behind.
LEMMA TwoLeaveOne ==
  ASSUME NEW S, IsFiniteSet(S), Cardinality(S) > 1, NEW x
  PROVE  S # {} /\ S \ {x} # {}
<1>1. Cardinality({}) = 0
  BY FS_EmptySet
<1>2. Cardinality({x}) = 1 /\ IsFiniteSet({x})
  BY FS_Singleton
<1>3. S # {}
  BY <1>1
<1>4. ASSUME S \subseteq {x} PROVE FALSE
  <2>1. Cardinality(S) <= Cardinality({x})
    BY <1>2, <1>4, FS_Subset
  <2>2. Cardinality(S) \in Nat
    BY FS_CardinalityType
  <2> QED BY <1>2, <2>1, <2>2
<1> QED BY <1>3, <1>4

\* More than one element is two different ones.
LEMMA TwoAreOpponents ==
  ASSUME NEW S, IsFiniteSet(S)
  PROVE  Cardinality(S) > 1 <=> \E i, j \in S : i # j
<1>1. ASSUME Cardinality(S) > 1 PROVE \E i, j \in S : i # j
  <2>1. PICK i \in S : TRUE
    BY <1>1, TwoLeaveOne
  <2> QED BY <1>1, TwoLeaveOne
<1>2. ASSUME NEW i \in S, NEW j \in S, i # j PROVE Cardinality(S) > 1
  <2>1. Cardinality({i}) = 1 /\ IsFiniteSet({i})
    BY FS_Singleton
  <2>2. Cardinality({i} \cup {j}) = 2 /\ IsFiniteSet({i} \cup {j})
    BY <1>2, <2>1, FS_AddElement
  <2>3. Cardinality({i} \cup {j}) <= Cardinality(S) /\ Cardinality(S) \in Nat
    BY <2>2, FS_Subset, FS_CardinalityType
  <2> QED BY <2>2, <2>3
<1> QED BY <1>1, <1>2

\* What the match invariant says of a table: zones are in play.
ZonesMatch(ps, started) ==
  \A i \in DOMAIN ps : ps[i].zones <=> started /\ i \in InPlay(ps)

MatchRuns == gameStarted /\ ~destroyed

\* The inductive invariant: the four match properties hold each other up.  The
\* turn can be passed on because two contenders are left, and a host who closes
\* the table was the only one seated, so no match was on.
MatchInv ==
  /\ TypeOK
  /\ ZonesMatch(players, gameStarted)
  /\ MaxPlayers > 1 /\ MatchRuns =>
       /\ Cardinality(InPlay(players)) > 1
       /\ activePlayer \in InPlay(players)
  /\ MaxPlayers > 1 => ~stuck
  /\ destroyed => DOMAIN players = {}

LEMMA TwoInPlay ==
  ASSUME NEW n \in Nat, NEW ps, Table(ps, n), Continues(ps)
  PROVE  /\ Cardinality(InPlay(ps)) > 1 /\ InPlay(ps) # {}
         /\ \A x : InPlay(ps) \ {x} # {}
BY InPlayIds, TwoLeaveOne DEF Continues

LEMMA ClearedZones ==
  ASSUME NEW n \in Nat, NEW ps, Table(ps, n)
  PROVE  \A i \in DOMAIN Cleared(ps) : ~Cleared(ps)[i].zones
BY DEF Cleared, Table, Player

\* removePlayer() and cmdConcede() share this: once the zones of a table agree
\* with a match that is on, stopping it if it is finished keeps them in agreement.
LEMMA StopZones ==
  ASSUME NEW n \in Nat, NEW ps, Table(ps, n), NEW on \in BOOLEAN, ZonesMatch(ps, on)
  PROVE  ZonesMatch(StopIfFinished(ps), on /\ Continues(ps))
<1>1. CASE Continues(ps)
  BY <1>1 DEF StopIfFinished
<1>2. CASE ~Continues(ps)
  BY <1>2, ClearedZones DEF StopIfFinished, ZonesMatch
<1> QED BY <1>1, <1>2

\* The turn stays with a contender when it is passed from one who is out.
LEMMA PassTurnInPlay ==
  ASSUME TypeOK, NEW ps, Table(ps, nextPlayerId), InPlay(ps) # {},
         NEW i, NEW on \in BOOLEAN, PassTurnFrom(i, ps, on),
         (~on \/ activePlayer # i) => activePlayer \in InPlay(ps)
  PROVE  activePlayer' \in InPlay(ps) /\ UNCHANGED stuck
<1>1. CASE on /\ activePlayer = i
  <2>1. NextTurn(ps)
    BY <1>1 DEF PassTurnFrom
  <2>2. nextPlayerId \in Nat /\ turnOrderReversed \in BOOLEAN
    BY TypeTable DEF TypeOK
  <2> QED BY <2>1, <2>2, TurnAfterInPlay DEF NextTurn
<1>2. CASE ~(on /\ activePlayer = i)
  BY <1>2 DEF PassTurnFrom
<1> QED BY <1>1, <1>2

LEMMA RemovePlayerMatch ==
  ASSUME MatchInv, TypeOK', ~destroyed, NEW i \in DOMAIN players, RemovePlayer(i)
  PROVE  MatchInv'
<1> DEFINE p       == players[i]
           left    == Without(players, i)
           closing == hostId = i /\ NewHost(left) = {}
           settles == ~p.spectator /\ ~closing
           ps      == IF settles THEN StopIfFinished(left) ELSE left
           stillOn == gameStarted /\ (settles => Continues(left))
<1>1. TypeOK /\ nextPlayerId \in Nat /\ Table(players, nextPlayerId)
  BY TypeTable DEF MatchInv
<1>2. /\ Table(left, nextPlayerId) /\ DOMAIN left = DOMAIN players \ {i}
      /\ \A j \in DOMAIN left : left[j] = players[j]
  BY <1>1, WithoutTable DEF Without, Restrict
<1>3. /\ players' = ps /\ gameStarted' = stillOn /\ destroyed' = destroyed
      /\ PassTurnFrom(i, ps, settles /\ stillOn)
  BY DEF RemovePlayer
<1>4. InPlay(left) = InPlay(players) \ {i} /\ Seats(left) = Seats(players) \ {i}
  BY <1>2 DEF InPlay, Seats
<1>5. ZonesMatch(left, gameStarted)
  BY <1>2, <1>4 DEF MatchInv, ZonesMatch
<1>6. ZonesMatch(ps, stillOn)
  BY <1>1, <1>2, <1>5, StopZones DEF TypeOK
<1>7. ASSUME MaxPlayers > 1
      PROVE  /\ stillOn => Cardinality(InPlay(ps)) > 1 /\ activePlayer' \in InPlay(ps)
             /\ ~stuck'
  <2>1. CASE ~stillOn
    BY <1>3, <1>7, <2>1 DEF PassTurnFrom, MatchInv
  <2>2. CASE stillOn
    <3>1. Cardinality(InPlay(players)) > 1 /\ activePlayer \in InPlay(players)
      BY <1>7, <2>2 DEF MatchInv, MatchRuns
    <3>2. InPlay(players) \ {i} # {}
      BY <1>1, <3>1, InPlayIds, TwoLeaveOne
    <3>3. ~closing
      BY <1>2, <1>4, <3>2, InPlayIds DEF NewHost, InPlay
    <3>4. CASE p.spectator
      <4>1. InPlay(ps) = InPlay(players) /\ ps = left
        BY <1>4, <3>4 DEF InPlay, Seats
      <4> QED BY <1>3, <1>7, <2>2, <3>1, <3>4, <4>1 DEF PassTurnFrom, MatchInv
    <3>5. CASE ~p.spectator
      <4>1. settles /\ Continues(left) /\ ps = left
        BY <2>2, <3>3, <3>5 DEF StopIfFinished
      <4>2. Cardinality(InPlay(ps)) > 1 /\ InPlay(ps) # {}
        BY <1>1, <1>2, <4>1, TwoInPlay
      <4>3. activePlayer # i => activePlayer \in InPlay(ps)
        BY <1>4, <3>1, <4>1
      <4>4. PassTurnFrom(i, ps, TRUE)
        BY <1>3, <2>2, <4>1
      <4>5. activePlayer' \in InPlay(ps) /\ UNCHANGED stuck
        <5> HIDE DEF ps, settles, stillOn
        <5>1. Table(ps, nextPlayerId)
          BY <1>2, <4>1
        <5> QED BY <1>1, <4>2, <4>3, <4>4, <5>1, PassTurnInPlay
      <4> QED BY <1>7, <4>2, <4>5 DEF MatchInv
    <3> QED BY <3>4, <3>5
  <2> QED BY <2>1, <2>2
<1> QED BY <1>3, <1>6, <1>7 DEF MatchInv, MatchRuns, ZonesMatch

\* A step that changes neither who is in the match nor the match itself.
LEMMA SameMatch ==
  ASSUME MatchInv, TypeOK', UNCHANGED <<matchVars, destroyed, stuck>>,
         DOMAIN players \subseteq DOMAIN players',
         \A j \in DOMAIN players :
           /\ players'[j].spectator = players[j].spectator
           /\ players'[j].conceded = players[j].conceded
           /\ players'[j].zones = players[j].zones,
         \A j \in DOMAIN players' \ DOMAIN players :
           ~players'[j].zones /\ (gameStarted => players'[j].spectator),
         destroyed => DOMAIN players' = {}
  PROVE  MatchInv'
<1>1. gameStarted => InPlay(players') = InPlay(players)
  BY DEF InPlay, Seats
<1>2. ZonesMatch(players', gameStarted)
  <2>1. CASE gameStarted
    <3>1. InPlay(players) \subseteq DOMAIN players
      BY DEF InPlay, Seats
    <3> QED BY <1>1, <2>1, <3>1 DEF MatchInv, ZonesMatch
  <2>2. CASE ~gameStarted
    BY <2>2 DEF MatchInv, ZonesMatch
  <2> QED BY <2>1, <2>2
<1> QED BY <1>1, <1>2 DEF MatchInv, MatchRuns, matchVars, ZonesMatch

LEMMA ConcedeMatch ==
  ASSUME MatchInv, TypeOK', NEW i \in Id, Concede(i)
  PROVE  MatchInv'
<1> DEFINE out == [players EXCEPT ![i].conceded = TRUE, ![i].zones = FALSE]
           ps  == StopIfFinished(out)
<1>1. TypeOK /\ nextPlayerId \in Nat /\ Table(players, nextPlayerId)
  BY TypeTable DEF MatchInv
<1>2. i \in DOMAIN players /\ gameStarted /\ ~destroyed
  BY DEF Concede, Acts, Usable
<1>3. Table(out, nextPlayerId) /\ DOMAIN out = DOMAIN players
  BY <1>1, <1>2 DEF Table, Player
<1>4. /\ \A j \in DOMAIN players \ {i} : out[j] = players[j]
      /\ out[i].conceded /\ ~out[i].zones
      /\ out[i].spectator = players[i].spectator
  BY <1>1, <1>2 DEF Table, Player
<1>5. InPlay(out) = InPlay(players) \ {i} /\ ZonesMatch(out, gameStarted)
  <2> HIDE DEF out
  <2>1. InPlay(out) = InPlay(players) \ {i}
    BY <1>2, <1>3, <1>4 DEF InPlay, Seats
  <2> QED BY <1>2, <1>3, <1>4, <2>1 DEF MatchInv, ZonesMatch
<1>6. /\ players' = ps /\ gameStarted' = Continues(out) /\ destroyed' = destroyed
      /\ PassTurnFrom(i, ps, Continues(out))
  BY DEF Concede, closingVars
<1>7. ZonesMatch(ps, Continues(out))
  <2> HIDE DEF out
  <2>1. ZonesMatch(ps, gameStarted /\ Continues(out))
    BY <1>1, <1>3, <1>5, StopZones DEF TypeOK
  <2> QED BY <1>2, <2>1 DEF ZonesMatch
<1>8. CASE Continues(out)
  <2>1. ps = out
    BY <1>8 DEF StopIfFinished
  <2>2. Cardinality(InPlay(out)) > 1 /\ InPlay(out) # {}
    <3> HIDE DEF out
    <3> QED BY <1>1, <1>3, <1>8, TwoInPlay
  <2>3. ASSUME MaxPlayers > 1 PROVE activePlayer' \in InPlay(out) /\ UNCHANGED stuck
    <3>1. activePlayer # i => activePlayer \in InPlay(out)
      BY <1>2, <1>5, <2>3 DEF MatchInv, MatchRuns
    <3>2. PassTurnFrom(i, out, TRUE)
      BY <1>6, <1>8, <2>1
    <3>3. Table(out, nextPlayerId)
      BY <1>3
    <3> HIDE DEF out, ps
    <3> QED BY <1>1, <2>2, <3>1, <3>2, <3>3, PassTurnInPlay
  <2>4. players' = out /\ gameStarted' /\ ~destroyed'
    BY <1>2, <1>6, <1>8, <2>1
  <2>5. ZonesMatch(players', gameStarted')
    <3> HIDE DEF out
    <3> QED BY <1>7, <1>8, <2>1, <2>4 DEF ZonesMatch
  <2> HIDE DEF out, ps
  <2> QED BY <2>2, <2>3, <2>4, <2>5 DEF MatchInv, MatchRuns, ZonesMatch
<1>9. CASE ~Continues(out)
  BY <1>2, <1>6, <1>7, <1>9 DEF PassTurnFrom, MatchInv, MatchRuns, ZonesMatch
<1> QED BY <1>8, <1>9

LEMMA UnconcedeMatch ==
  ASSUME MatchInv, TypeOK', NEW i \in Id, Unconcede(i)
  PROVE  MatchInv'
<1>1. TypeOK /\ nextPlayerId \in Nat /\ Table(players, nextPlayerId)
  BY TypeTable DEF MatchInv
<1>2. i \in Seats(players) /\ gameStarted /\ ~destroyed
  BY DEF Unconcede, Acts, Usable, Seats
<1>3. InPlay(players') = InPlay(players) \cup {i} /\ DOMAIN players' = DOMAIN players
  BY <1>1, <1>2 DEF Unconcede, InPlay, Seats, Table, Player
<1>4. ZonesMatch(players', TRUE)
  BY <1>1, <1>2, <1>3 DEF Unconcede, MatchInv, ZonesMatch, Table, Player
<1>5. ASSUME MaxPlayers > 1 PROVE Cardinality(InPlay(players')) > 1
  <2>1. IsFiniteSet(InPlay(players)) /\ Cardinality(InPlay(players)) > 1
    BY <1>1, <1>2, <1>5, InPlayIds DEF MatchInv, MatchRuns
  <2>2. IsFiniteSet(InPlay(players'))
    BY <1>3, <2>1, FS_AddElement
  <2>3. Cardinality(InPlay(players)) <= Cardinality(InPlay(players'))
    BY <1>3, <2>2, FS_Subset
  <2> QED BY <2>1, <2>2, <2>3, FS_CardinalityType
<1> QED
  BY <1>2, <1>3, <1>4, <1>5
  DEF Unconcede, matchVars, closingVars, MatchInv, MatchRuns, ZonesMatch

LEMMA CmdNextTurnMatch ==
  ASSUME MatchInv, TypeOK', NEW i \in Id, CmdNextTurn(i)
  PROVE  MatchInv'
<1>1. TypeOK /\ nextPlayerId \in Nat /\ Table(players, nextPlayerId)
      /\ turnOrderReversed \in BOOLEAN
  BY TypeTable DEF MatchInv, TypeOK
<1>2. /\ gameStarted /\ ~destroyed /\ NextTurn(players)
      /\ UNCHANGED <<players, gameStarted, destroyed>>
  BY DEF CmdNextTurn, Acts, Usable, tableVars, closingVars
<1>3. ASSUME MaxPlayers > 1
      PROVE  Cardinality(InPlay(players)) > 1 /\ activePlayer' \in InPlay(players)
             /\ ~stuck'
  <2>1. Cardinality(InPlay(players)) > 1 /\ activePlayer \in InPlay(players)
    BY <1>2, <1>3 DEF MatchInv, MatchRuns
  <2>2. TurnAfter(players, activePlayer, turnOrderReversed) \in InPlay(players)
    BY <1>1, <2>1, TurnAfterInPlay
  <2> QED BY <1>2, <1>3, <2>1, <2>2 DEF NextTurn, MatchInv
<1> QED BY <1>2, <1>3 DEF MatchInv, MatchRuns, ZonesMatch

LEMMA StartGameMatch ==
  ASSUME MatchInv, TypeOK', StartGame
  PROVE  MatchInv'
<1>1. TypeOK /\ nextPlayerId \in Nat /\ Table(players, nextPlayerId)
      /\ turnOrderReversed \in BOOLEAN
  BY TypeTable DEF MatchInv, TypeOK
<1>2. /\ DOMAIN players' = DOMAIN players /\ Table(players', nextPlayerId)
      /\ \A j \in DOMAIN players :
           /\ players'[j].spectator = players[j].spectator
           /\ players'[j].conceded = FALSE
           /\ players'[j].zones = ~players[j].spectator
  <2>1. players' = Started(players)
    BY DEF StartGame
  <2>2. \A j \in DOMAIN players : players[j] \in Player
    BY <1>1 DEF Table
  <2>3. \A j \in DOMAIN players :
           /\ Started(players)[j].spectator = players[j].spectator
           /\ Started(players)[j].conceded = FALSE
           /\ Started(players)[j].zones = ~players[j].spectator
    BY <2>2 DEF Started, Player
  <2> QED BY <1>1, <2>1, <2>3, StartedTable
<1>3. InPlay(players') = Seats(players)
  BY <1>2 DEF InPlay, Seats
<1>4. ZonesMatch(players', TRUE)
  BY <1>2, <1>3 DEF ZonesMatch, Seats
<1>5. Cardinality(InPlay(players')) >= MaxPlayers
  BY <1>3 DEF StartGame, StartConditions, PlayerCount
<1>6. ASSUME MaxPlayers > 1
      PROVE  Cardinality(InPlay(players')) > 1 /\ activePlayer' \in InPlay(players')
  <2>1. IsFiniteSet(InPlay(players')) /\ Cardinality(InPlay(players')) \in Nat
    BY <1>1, <1>2, InPlayIds, FS_CardinalityType
  <2>2. Cardinality(InPlay(players')) > 1 /\ InPlay(players') # {}
    BY <1>5, <1>6, <2>1, TwoLeaveOne, SizesAssumption
  <2>3. activePlayer' = TurnAfter(players', NoId, turnOrderReversed)
    BY DEF StartGame
  <2> QED BY <1>1, <1>2, <2>2, <2>3, TurnAfterInPlay
<1> QED
  BY <1>2, <1>4, <1>6
  DEF StartGame, Usable, closingVars, MatchInv, MatchRuns, ZonesMatch

LEMMA CommandMatch ==
  ASSUME MatchInv, TypeOK', NEW i \in Id, Command(i)
  PROVE  MatchInv'
<1> USE DEF tableVars, matchVars, closingVars
<1>1. CASE Leave(i)
  BY <1>1, RemovePlayerMatch DEF Leave, Acts, Usable
<1>2. CASE DeckSelect(i)
  BY <1>2, SameMatch DEF DeckSelect, Acts, Usable, MatchInv, TypeOK, Player
<1>3. CASE ReadyStart(i)
  BY <1>3, SameMatch DEF ReadyStart, Acts, Usable, MatchInv, TypeOK, Player
<1>4. CASE UnreadyStart(i)
  BY <1>4, SameMatch DEF UnreadyStart, Acts, Usable, MatchInv, TypeOK, Player
<1>5. CASE Concede(i)
  BY <1>5, ConcedeMatch
<1>6. CASE Unconcede(i)
  BY <1>6, UnconcedeMatch
<1>7. CASE CmdNextTurn(i)
  BY <1>7, CmdNextTurnMatch
<1>8. CASE ReverseTurn(i)
  BY <1>8 DEF ReverseTurn, MatchInv, MatchRuns, ZonesMatch
<1>9. CASE \E k \in Id : Kick(k, i)
  BY <1>9, RemovePlayerMatch DEF Kick, Acts, Usable
<1> QED BY <1>1, <1>2, <1>3, <1>4, <1>5, <1>6, <1>7, <1>8, <1>9 DEF Command

LEMMA SessionStepMatch ==
  ASSUME MatchInv, TypeOK', NEW u \in User, SessionStep(u)
  PROVE  MatchInv'
<1> USE DEF tableVars, matchVars, closingVars
<1>1. ASSUME NEW spectator \in BOOLEAN, NEW asJudge \in BOOLEAN,
             Join(u, spectator, asJudge)
      PROVE  MatchInv'
  <2>1. nextPlayerId \notin DOMAIN players
    BY DEF MatchInv, TypeOK
  <2>2. players'[nextPlayerId] = NewPlayer(u, spectator, asJudge)
        /\ DOMAIN players' = DOMAIN players \cup {nextPlayerId}
        /\ \A j \in DOMAIN players : players'[j] = players[j]
    BY <1>1, <2>1 DEF Join
  <2>3. ~players'[nextPlayerId].zones
        /\ (gameStarted => players'[nextPlayerId].spectator)
    BY <1>1, <2>2 DEF Join, CheckJoin, NewPlayer
  <2> QED BY <1>1, <2>2, <2>3, SameMatch DEF Join, Usable
<1>2. CASE DisconnectSeatless(u)
  BY <1>2, SameMatch DEF DisconnectSeatless, MatchInv
<1>3. CASE DisconnectKept(u)
  BY <1>3, SameMatch DEF DisconnectKept, MatchInv, TypeOK, Player
<1>4. CASE DisconnectRemoved(u)
  BY <1>4, RemovePlayerMatch DEF DisconnectRemoved, MatchInv
<1>5. CASE Login(u)
  BY <1>5, SameMatch DEF Login, MatchInv
<1>6. CASE Rejoin(u)
  BY <1>6, SameMatch DEF Rejoin, MatchInv, TypeOK, Player
<1> QED BY <1>1, <1>2, <1>3, <1>4, <1>5, <1>6 DEF SessionStep, Disconnect

THEOREM MatchInvariant == Spec => []MatchInv
<1>1. Init => MatchInv
  <2> SUFFICES ASSUME Init PROVE MatchInv
    OBVIOUS
  <2>1. TypeOK
    BY InitType
  <2>2. ZonesMatch(players, gameStarted)
    BY DEF Init, ZonesMatch, NewPlayer
  <2> QED BY <2>1, <2>2 DEF Init, MatchInv, MatchRuns
<1>2. MatchInv /\ TypeOK' /\ [Next]_vars => MatchInv'
  <2> SUFFICES ASSUME MatchInv, TypeOK', [Next]_vars PROVE MatchInv'
    OBVIOUS
  <2> USE DEF tableVars, matchVars, closingVars
  <2>1. CASE \E i \in Id : Command(i)
    BY <2>1, CommandMatch
  <2>2. CASE StartGame
    BY <2>2, StartGameMatch
  <2>3. CASE IgnoreStart
    BY <2>3, SameMatch DEF IgnoreStart, MatchInv
  <2>4. CASE PingClockTimeout
    BY <2>4, SameMatch DEF PingClockTimeout, MatchInv
  <2>5. CASE Destroy
    BY <2>5 DEF Destroy, Usable, Restrict, MatchInv, MatchRuns, ZonesMatch
  <2>6. CASE \E u \in User : SessionStep(u)
    BY <2>6, SessionStepMatch
  <2>7. CASE UNCHANGED vars
    BY <2>7 DEF vars, MatchInv, MatchRuns, ZonesMatch, TypeOK
  <2> QED BY <2>1, <2>2, <2>3, <2>4, <2>5, <2>6, <2>7 DEF Next, DoStartGameIfReady
<1> QED BY <1>1, <1>2, TypeCorrect, PTL DEF Spec

\* A running match has two contenders, the turn is with one of them, zones live
\* as long as their player is in the match, and nextTurn() always returns: for
\* every table, whatever joins, kicks, concessions and lost connections happen.
THEOREM MatchIsKept ==
  Spec => [](MatchHasOpponents /\ TurnIsInPlay /\ ZonesIffInPlay)
<1>1. MatchInv => MatchHasOpponents /\ TurnIsInPlay /\ ZonesIffInPlay
  BY DEF MatchInv, MatchRuns, ZonesMatch, MatchHasOpponents, TurnIsInPlay, ZonesIffInPlay
<1> QED BY <1>1, MatchInvariant, PTL

\* No command leaves the turn search of a table for two or more looping with
\* the game's mutex held.
THEOREM NoTurnLoop == Spec => []TurnLoopTerminates
<1>1. MatchInv => TurnLoopTerminates
  BY DEF MatchInv, TurnLoopTerminates
<1> QED BY <1>1, MatchInvariant, PTL

-----------------------------------------------------------------------------
(* Ready flags and decks.                                                   *)

\* A step that keeps the seats' flags, and does not start the match.
LEMMA SameFlags ==
  ASSUME DecksBeforeDeals, gameStarted' => gameStarted,
         \A j \in Seats(players') :
           /\ j \in Seats(players)
           /\ players'[j].readyStart = players[j].readyStart
           /\ players[j].deck => players'[j].deck
  PROVE  DecksBeforeDeals'
BY DEF DecksBeforeDeals, Seats

\* Stopping or clearing a table touches neither seats, ready flags nor decks.
LEMMA StopKeepsFlags ==
  ASSUME NEW n \in Nat, NEW ps, Table(ps, n), NEW j \in DOMAIN ps
  PROVE  /\ StopIfFinished(ps)[j].spectator = ps[j].spectator
         /\ StopIfFinished(ps)[j].readyStart = ps[j].readyStart
         /\ StopIfFinished(ps)[j].deck = ps[j].deck
BY DEF StopIfFinished, Cleared, Table, Player

LEMMA RemovePlayerFlags ==
  ASSUME TypeOK, DecksBeforeDeals, NEW i \in DOMAIN players, RemovePlayer(i)
  PROVE  DecksBeforeDeals'
<1> DEFINE left == Without(players, i)
<1>1. /\ nextPlayerId \in Nat /\ Table(left, nextPlayerId)
      /\ DOMAIN left = DOMAIN players \ {i}
      /\ \A j \in DOMAIN left : left[j] = players[j]
  BY TypeTable, WithoutTable DEF Without, Restrict
<1>2. players' = left \/ players' = StopIfFinished(left)
  BY DEF RemovePlayer
<1>3. gameStarted' => gameStarted
  BY DEF RemovePlayer
<1>4. DOMAIN players' = DOMAIN left
      /\ \A j \in DOMAIN left :
           /\ players'[j].spectator = players[j].spectator
           /\ players'[j].readyStart = players[j].readyStart
           /\ players'[j].deck = players[j].deck
  <2> HIDE DEF left
  <2> QED BY <1>1, <1>2, StopKeepsFlags, ClearedTable
<1> QED BY <1>1, <1>3, <1>4, SameFlags DEF Seats

LEMMA CommandFlags ==
  ASSUME TypeOK, DecksBeforeDeals, NEW i \in Id, Command(i)
  PROVE  DecksBeforeDeals'
<1> USE DEF tableVars, matchVars
<1>1. CASE Leave(i)
  BY <1>1, RemovePlayerFlags DEF Leave, Acts
<1>2. CASE DeckSelect(i)
  BY <1>2 DEF DeckSelect, DecksBeforeDeals, Seats, TypeOK, Player
<1>3. CASE ReadyStart(i)
  <2>1. ~gameStarted /\ ~gameStarted' /\ players[i].deck /\ i \in DOMAIN players
    BY <1>3 DEF ReadyStart, MayReady, Acts
  <2>2. /\ DOMAIN players' = DOMAIN players
        /\ \A j \in DOMAIN players : players'[j].spectator = players[j].spectator
                                     /\ players'[j].deck = players[j].deck
        /\ \A j \in DOMAIN players \ {i} : players'[j] = players[j]
    BY <1>3 DEF ReadyStart, TypeOK, Player
  <2> QED BY <2>1, <2>2 DEF DecksBeforeDeals, Seats
<1>4. CASE UnreadyStart(i)
  <2>1. ~gameStarted /\ ~gameStarted' /\ players[i].deck /\ i \in DOMAIN players
    BY <1>4 DEF UnreadyStart, MayReady, Acts
  <2>2. /\ DOMAIN players' = DOMAIN players
        /\ \A j \in DOMAIN players : players'[j].spectator = players[j].spectator
                                     /\ players'[j].deck = players[j].deck
        /\ \A j \in DOMAIN players \ {i} : players'[j] = players[j]
    BY <1>4 DEF UnreadyStart, TypeOK, Player
  <2> QED BY <2>1, <2>2 DEF DecksBeforeDeals, Seats
<1>5. CASE Concede(i)
  <2> DEFINE out == [players EXCEPT ![i].conceded = TRUE, ![i].zones = FALSE]
  <2>1. /\ nextPlayerId \in Nat /\ Table(players, nextPlayerId) /\ i \in DOMAIN players
        /\ players' = StopIfFinished(out) /\ gameStarted
    BY <1>5, TypeTable DEF Concede, Acts
  <2>2. /\ Table(out, nextPlayerId) /\ DOMAIN out = DOMAIN players
        /\ \A j \in DOMAIN players :
             /\ out[j].spectator = players[j].spectator
             /\ out[j].readyStart = players[j].readyStart
             /\ out[j].deck = players[j].deck
    BY <2>1 DEF Table, Player
  <2>3. /\ DOMAIN players' = DOMAIN players
        /\ \A j \in DOMAIN players :
             /\ players'[j].spectator = players[j].spectator
             /\ players'[j].readyStart = players[j].readyStart
             /\ players'[j].deck = players[j].deck
    <3> HIDE DEF out
    <3> QED BY <2>1, <2>2, StopKeepsFlags, ClearedTable
  <2> QED BY <2>1, <2>3, SameFlags DEF Seats
<1>6. CASE Unconcede(i)
  BY <1>6, SameFlags DEF Unconcede, Seats, TypeOK, Player
<1>7. CASE CmdNextTurn(i)
  BY <1>7, SameFlags DEF CmdNextTurn
<1>8. CASE ReverseTurn(i)
  BY <1>8, SameFlags DEF ReverseTurn
<1>9. CASE \E k \in Id : Kick(k, i)
  BY <1>9, RemovePlayerFlags DEF Kick
<1> QED BY <1>1, <1>2, <1>3, <1>4, <1>5, <1>6, <1>7, <1>8, <1>9 DEF Command

LEMMA SessionStepFlags ==
  ASSUME TypeOK, DecksBeforeDeals, NEW u \in User, SessionStep(u)
  PROVE  DecksBeforeDeals'
<1> USE DEF tableVars, matchVars
<1>1. ASSUME NEW spectator \in BOOLEAN, NEW asJudge \in BOOLEAN,
             Join(u, spectator, asJudge)
      PROVE  DecksBeforeDeals'
  <2>1. nextPlayerId \notin DOMAIN players
    BY DEF TypeOK
  <2>2. /\ DOMAIN players' = DOMAIN players \cup {nextPlayerId}
        /\ \A j \in DOMAIN players : players'[j] = players[j]
        /\ players'[nextPlayerId] = NewPlayer(u, spectator, asJudge)
    BY <1>1, <2>1 DEF Join
  <2>3. ~players'[nextPlayerId].readyStart
        /\ (gameStarted' => players'[nextPlayerId].spectator)
    BY <1>1, <2>2 DEF Join, CheckJoin, NewPlayer
  <2>4. gameStarted' = gameStarted
    BY <1>1 DEF Join
  <2> QED BY <2>2, <2>3, <2>4 DEF DecksBeforeDeals, Seats
<1>2. CASE DisconnectSeatless(u)
  BY <1>2, SameFlags DEF DisconnectSeatless
<1>3. CASE DisconnectKept(u)
  BY <1>3, SameFlags DEF DisconnectKept, Seats, TypeOK, Player
<1>4. CASE DisconnectRemoved(u)
  BY <1>4, RemovePlayerFlags DEF DisconnectRemoved
<1>5. CASE Login(u)
  BY <1>5, SameFlags DEF Login
<1>6. CASE Rejoin(u)
  BY <1>6, SameFlags DEF Rejoin, Seats, TypeOK, Player
<1> QED BY <1>1, <1>2, <1>3, <1>4, <1>5, <1>6 DEF SessionStep, Disconnect

\* doStartGameIfReady() deals only to players who have chosen a deck, and never
\* over a running match: no ready flag survives into one.
THEOREM DecksAreThere == Spec => []DecksBeforeDeals
<1>1. Init => DecksBeforeDeals
  BY DEF Init, DecksBeforeDeals, Seats, NewPlayer
<1>2. TypeOK /\ DecksBeforeDeals /\ [Next]_vars => DecksBeforeDeals'
  <2> SUFFICES ASSUME TypeOK, DecksBeforeDeals, [Next]_vars PROVE DecksBeforeDeals'
    OBVIOUS
  <2> USE DEF tableVars, matchVars
  <2>1. CASE \E i \in Id : Command(i)
    BY <2>1, CommandFlags
  <2>2. CASE StartGame
    <3>1. \A j \in DOMAIN players : players[j] \in Player
      BY DEF TypeOK
    <3>2. /\ DOMAIN players' = DOMAIN players
          /\ \A j \in DOMAIN players :
               /\ players'[j].spectator = players[j].spectator
               /\ players'[j].deck = players[j].deck
               /\ players'[j].readyStart = FALSE
      BY <2>2, <3>1 DEF StartGame, Started, Player
    <3>3. \A j \in Seats(players) : players[j].readyStart /\ players[j].deck
      BY <2>2 DEF StartGame, StartConditions, EverybodyReady, DecksBeforeDeals
    <3> QED BY <3>2, <3>3 DEF DecksBeforeDeals, Seats
  <2>3. CASE IgnoreStart
    BY <2>3, SameFlags DEF IgnoreStart
  <2>4. CASE PingClockTimeout
    BY <2>4, SameFlags DEF PingClockTimeout
  <2>5. CASE Destroy
    BY <2>5 DEF Destroy, Restrict, DecksBeforeDeals, Seats
  <2>6. CASE \E u \in User : SessionStep(u)
    BY <2>6, SessionStepFlags
  <2>7. CASE UNCHANGED vars
    BY <2>7, SameFlags DEF vars
  <2> QED BY <2>1, <2>2, <2>3, <2>4, <2>5, <2>6, <2>7 DEF Next, DoStartGameIfReady
<1> QED BY <1>1, <1>2, TypeCorrect, PTL DEF Spec

-----------------------------------------------------------------------------
(* The game implements the abstract match.                                  *)

\* The contenders and the turn, as module Match sees them.
Contenders == IF MatchOn THEN InPlay(players) ELSE {}
Turn       == IF MatchOn THEN activePlayer ELSE NoId

SimInv == MaxPlayers > 1 /\ MatchInv /\ DecksBeforeDeals

\* Steps outside a match, and steps that leave the match alone, stutter.
LEMMA Stutters ==
  ASSUME MatchOn' = MatchOn, MatchOn => InPlay(players') = InPlay(players),
         MatchOn => activePlayer' = activePlayer
  PROVE  UNCHANGED AbstractMatch!vars
BY DEF MatchOn, AbstractMatch!vars

\* A running match has opponents after the step, too.
LEMMA OpponentsThere ==
  ASSUME SimInv'
  PROVE  MatchOn' => AbstractMatch!Opponents(InPlay(players'))
<1>1. nextPlayerId' \in Nat /\ Table(players', nextPlayerId')
  BY SizesAssumption DEF SimInv, MatchInv, TypeOK, Table
<1>2. MatchOn' => Cardinality(InPlay(players')) > 1
  BY DEF SimInv, MatchInv, MatchRuns, MatchOn
<1> QED BY <1>1, <1>2, InPlayIds, TwoAreOpponents DEF AbstractMatch!Opponents

\* One contender is out and the match goes on.
LEMMA Withdraws ==
  ASSUME SimInv, SimInv', NEW i \in Id, MatchOn, MatchOn',
         InPlay(players') = InPlay(players) \ {i},
         activePlayer # i => activePlayer' = activePlayer
  PROVE  AbstractMatch!Next
<1>1. activePlayer' \in InPlay(players') /\ AbstractMatch!Opponents(InPlay(players'))
  BY OpponentsThere DEF SimInv, MatchInv, MatchRuns, MatchOn
<1>2. AbstractMatch!Withdraw(i)
  BY <1>1 DEF AbstractMatch!Withdraw, MatchOn
<1> QED BY <1>2 DEF AbstractMatch!Next

\* One contender is out and the match is over.
LEMMA WithdrawsLast ==
  ASSUME SimInv, NEW n \in Nat, NEW left, Table(left, n), ~Continues(left),
         NEW i \in Id, MatchOn, ~MatchOn', InPlay(left) = InPlay(players) \ {i}
  PROVE  AbstractMatch!Next
<1>1. Cardinality(InPlay(players)) > 1
  BY DEF SimInv, MatchInv, MatchRuns, MatchOn
<1>2. ~(Cardinality(InPlay(left)) > 1) /\ ~AbstractMatch!Opponents(InPlay(left))
  BY InPlayIds, TwoAreOpponents DEF Continues, AbstractMatch!Opponents
<1>3. i \in InPlay(players)
  BY <1>1, <1>2
<1>4. AbstractMatch!LastWithdraw(i)
  BY <1>2, <1>3 DEF AbstractMatch!LastWithdraw, AbstractMatch!NoMatch, MatchOn
<1> QED BY <1>4 DEF AbstractMatch!Next

LEMMA RemovePlayerSim ==
  ASSUME SimInv, SimInv', ~destroyed, NEW i \in DOMAIN players, RemovePlayer(i)
  PROVE  [AbstractMatch!Next]_(AbstractMatch!vars)
<1> DEFINE p       == players[i]
           left    == Without(players, i)
           closing == hostId = i /\ NewHost(left) = {}
           settles == ~p.spectator /\ ~closing
           ps      == IF settles THEN StopIfFinished(left) ELSE left
           stillOn == gameStarted /\ (settles => Continues(left))
<1>1. /\ TypeOK /\ nextPlayerId \in Nat /\ Table(players, nextPlayerId) /\ i \in Id
      /\ Table(left, nextPlayerId) /\ DOMAIN left = DOMAIN players \ {i}
      /\ \A j \in DOMAIN left : left[j] = players[j]
  BY TypeTable, WithoutTable DEF SimInv, MatchInv, Without, Restrict
<1>2. /\ players' = ps /\ gameStarted' = stillOn /\ destroyed' = destroyed
      /\ PassTurnFrom(i, ps, settles /\ stillOn)
  BY DEF RemovePlayer
<1>3. InPlay(left) = InPlay(players) \ {i}
  BY <1>1 DEF InPlay, Seats
<1>4. CASE ~gameStarted
  BY <1>2, <1>4, Stutters DEF MatchOn
<1>5. CASE gameStarted /\ ~stillOn
  BY <1>1, <1>2, <1>3, <1>5, WithdrawsLast DEF MatchOn
<1>6. CASE stillOn /\ ~settles
  <2>1. players' = left /\ UNCHANGED activePlayer /\ MatchOn /\ MatchOn'
    BY <1>2, <1>6 DEF PassTurnFrom, MatchOn
  <2> HIDE DEF left
  <2> QED BY <1>1, <1>3, <2>1, Withdraws
<1>7. CASE stillOn /\ settles
  <2>1. players' = left /\ MatchOn /\ MatchOn'
    BY <1>2, <1>7 DEF StopIfFinished, MatchOn
  <2>2. activePlayer # i => activePlayer' = activePlayer
    BY <1>2, <1>7 DEF PassTurnFrom
  <2> HIDE DEF left
  <2> QED BY <1>1, <1>3, <2>1, <2>2, Withdraws
<1> QED BY <1>4, <1>5, <1>6, <1>7

LEMMA ConcedeSim ==
  ASSUME SimInv, SimInv', NEW i \in Id, Concede(i)
  PROVE  [AbstractMatch!Next]_(AbstractMatch!vars)
<1> DEFINE out == [players EXCEPT ![i].conceded = TRUE, ![i].zones = FALSE]
<1>1. /\ TypeOK /\ nextPlayerId \in Nat /\ Table(players, nextPlayerId)
      /\ i \in DOMAIN players /\ gameStarted /\ ~destroyed /\ ~destroyed'
      /\ players' = StopIfFinished(out) /\ gameStarted' = Continues(out)
      /\ PassTurnFrom(i, StopIfFinished(out), Continues(out))
  BY TypeTable DEF SimInv, MatchInv, Concede, Acts, Usable, closingVars
<1>2. /\ Table(out, nextPlayerId) /\ DOMAIN out = DOMAIN players
      /\ \A j \in DOMAIN players \ {i} : out[j] = players[j]
      /\ out[i].conceded /\ out[i].spectator = players[i].spectator
  BY <1>1 DEF Table, Player
<1> HIDE DEF out
<1>3. InPlay(out) = InPlay(players) \ {i}
  BY <1>1, <1>2 DEF InPlay, Seats
<1>4. CASE ~Continues(out)
  BY <1>1, <1>2, <1>3, <1>4, WithdrawsLast DEF MatchOn
<1>5. CASE Continues(out)
  <2>1. players' = out /\ MatchOn /\ MatchOn'
    BY <1>1, <1>5 DEF StopIfFinished, MatchOn
  <2>2. activePlayer # i => activePlayer' = activePlayer
    BY <1>1 DEF PassTurnFrom
  <2> QED BY <1>3, <2>1, <2>2, Withdraws
<1> QED BY <1>4, <1>5

LEMMA StartGameSim ==
  ASSUME SimInv, SimInv', StartGame
  PROVE  [AbstractMatch!Next]_(AbstractMatch!vars)
<1>1. ~MatchOn /\ MatchOn'
  <2>1. Seats(players) # {}
    <3>1. Cardinality({}) = 0
      BY FS_EmptySet
    <3> QED BY <3>1, SizesAssumption DEF StartGame, StartConditions, PlayerCount
  <2>2. PICK j \in Seats(players) : players[j].readyStart
    BY <2>1 DEF StartGame, StartConditions, EverybodyReady
  <2> QED BY <2>2 DEF SimInv, DecksBeforeDeals, StartGame, Usable, closingVars, MatchOn
<1>2. activePlayer' \in InPlay(players') /\ AbstractMatch!Opponents(InPlay(players'))
  BY <1>1, OpponentsThere DEF SimInv, MatchInv, MatchRuns, MatchOn
<1>3. InPlay(players') \subseteq Id
  <2>1. InPlay(players') \subseteq DOMAIN players'
    BY DEF InPlay, Seats
  <2>2. DOMAIN players' = DOMAIN players
    BY DEF StartGame, Started
  <2> QED BY <2>1, <2>2, TypeTable DEF SimInv, MatchInv
<1>4. AbstractMatch!Deal(InPlay(players'))
  BY <1>1, <1>2 DEF AbstractMatch!Deal, MatchOn
<1> QED BY <1>3, <1>4 DEF AbstractMatch!Next

LEMMA UnconcedeSim ==
  ASSUME SimInv, SimInv', NEW i \in Id, Unconcede(i)
  PROVE  [AbstractMatch!Next]_(AbstractMatch!vars)
<1>1. /\ MatchOn /\ MatchOn' /\ UNCHANGED activePlayer
      /\ i \in Seats(players) /\ players[i].conceded
  BY DEF Unconcede, Acts, Usable, Seats, MatchOn, matchVars, closingVars
<1>2. InPlay(players') = InPlay(players) \cup {i} /\ i \notin InPlay(players)
  BY <1>1 DEF Unconcede, InPlay, Seats, SimInv, MatchInv, TypeOK, Player
<1>3. AbstractMatch!Return(i)
  BY <1>1, <1>2 DEF AbstractMatch!Return, MatchOn
<1> QED BY <1>3 DEF AbstractMatch!Next

LEMMA CmdNextTurnSim ==
  ASSUME SimInv, SimInv', NEW i \in Id, CmdNextTurn(i)
  PROVE  [AbstractMatch!Next]_(AbstractMatch!vars)
<1>1. MatchOn /\ MatchOn' /\ players' = players
  BY DEF CmdNextTurn, Acts, Usable, MatchOn, tableVars, closingVars
<1>2. activePlayer' \in InPlay(players')
  BY <1>1 DEF SimInv, MatchInv, MatchRuns, MatchOn
<1>3. AbstractMatch!PassTurn
  BY <1>1, <1>2 DEF AbstractMatch!PassTurn, MatchOn
<1> QED BY <1>3 DEF AbstractMatch!Next

\* Steps that rewrite records without touching who is in play.
LEMMA RecordsSim ==
  ASSUME UNCHANGED <<gameStarted, activePlayer, destroyed>>,
         DOMAIN players \subseteq DOMAIN players',
         \A j \in DOMAIN players :
           /\ players'[j].spectator = players[j].spectator
           /\ players'[j].conceded = players[j].conceded,
         \A j \in DOMAIN players' \ DOMAIN players :
           gameStarted => players'[j].spectator
  PROVE  [AbstractMatch!Next]_(AbstractMatch!vars)
<1>1. MatchOn => InPlay(players') = InPlay(players)
  BY DEF InPlay, Seats, MatchOn
<1> QED BY <1>1, Stutters DEF MatchOn

LEMMA CommandSim ==
  ASSUME SimInv, SimInv', NEW i \in Id, Command(i)
  PROVE  [AbstractMatch!Next]_(AbstractMatch!vars)
<1> USE DEF tableVars, matchVars, closingVars
<1>0. TypeOK
  BY DEF SimInv, MatchInv
<1>1. CASE Leave(i)
  BY <1>1, RemovePlayerSim DEF Leave, Acts, Usable
<1>2. CASE DeckSelect(i)
  BY <1>0, <1>2, RecordsSim DEF DeckSelect, TypeOK, Player
<1>3. CASE ReadyStart(i)
  BY <1>0, <1>3, RecordsSim DEF ReadyStart, TypeOK, Player
<1>4. CASE UnreadyStart(i)
  BY <1>0, <1>4, RecordsSim DEF UnreadyStart, TypeOK, Player
<1>5. CASE Concede(i)
  BY <1>5, ConcedeSim
<1>6. CASE Unconcede(i)
  BY <1>6, UnconcedeSim
<1>7. CASE CmdNextTurn(i)
  BY <1>7, CmdNextTurnSim
<1>8. CASE ReverseTurn(i)
  BY <1>8, RecordsSim DEF ReverseTurn
<1>9. CASE \E k \in Id : Kick(k, i)
  BY <1>9, RemovePlayerSim DEF Kick, Acts, Usable
<1> QED BY <1>1, <1>2, <1>3, <1>4, <1>5, <1>6, <1>7, <1>8, <1>9 DEF Command

LEMMA SessionStepSim ==
  ASSUME SimInv, SimInv', NEW u \in User, SessionStep(u)
  PROVE  [AbstractMatch!Next]_(AbstractMatch!vars)
<1> USE DEF tableVars, matchVars, closingVars
<1>0. TypeOK
  BY DEF SimInv, MatchInv
<1>1. ASSUME NEW spectator \in BOOLEAN, NEW asJudge \in BOOLEAN,
             Join(u, spectator, asJudge)
      PROVE  [AbstractMatch!Next]_(AbstractMatch!vars)
  <2>1. nextPlayerId \notin DOMAIN players
    BY <1>0 DEF TypeOK
  <2>2. /\ DOMAIN players' = DOMAIN players \cup {nextPlayerId}
        /\ \A j \in DOMAIN players : players'[j] = players[j]
        /\ players'[nextPlayerId] = NewPlayer(u, spectator, asJudge)
    BY <1>1, <2>1 DEF Join
  <2>3. gameStarted => players'[nextPlayerId].spectator
    BY <1>1, <2>2 DEF Join, CheckJoin, NewPlayer
  <2>4. UNCHANGED <<gameStarted, activePlayer, destroyed>>
    BY <1>1 DEF Join
  <2> QED BY <2>2, <2>3, <2>4, RecordsSim
<1>2. CASE DisconnectSeatless(u)
  BY <1>2, RecordsSim DEF DisconnectSeatless
<1>3. CASE DisconnectKept(u)
  BY <1>0, <1>3, RecordsSim DEF DisconnectKept, TypeOK, Player
<1>4. CASE DisconnectRemoved(u)
  BY <1>4, RemovePlayerSim DEF DisconnectRemoved, SimInv, MatchInv
<1>5. CASE Login(u)
  BY <1>5, RecordsSim DEF Login
<1>6. CASE Rejoin(u)
  BY <1>0, <1>6, RecordsSim DEF Rejoin, TypeOK, Player
<1> QED BY <1>1, <1>2, <1>3, <1>4, <1>5, <1>6 DEF SessionStep, Disconnect

\* Whatever sessions, kicks and late events do, the players of a table for two
\* or more see a match dealt, played and ended by the rules of module Match.
THEOREM ImplementsMatch ==
  ASSUME MaxPlayers > 1
  PROVE  Spec => KeepsMatch
<1>1. Init => AbstractMatch!Init
  BY DEF Init, AbstractMatch!Init, AbstractMatch!NoMatch, MatchOn
<1>2. SimInv /\ SimInv' /\ [Next]_vars => [AbstractMatch!Next]_(AbstractMatch!vars)
  <2> SUFFICES ASSUME SimInv, SimInv', [Next]_vars
               PROVE  [AbstractMatch!Next]_(AbstractMatch!vars)
    OBVIOUS
  <2> USE DEF tableVars, matchVars, closingVars
  <2>1. CASE \E i \in Id : Command(i)
    BY <2>1, CommandSim
  <2>2. CASE StartGame
    BY <2>2, StartGameSim
  <2>3. CASE IgnoreStart
    BY <2>3, RecordsSim DEF IgnoreStart
  <2>4. CASE PingClockTimeout
    BY <2>4, RecordsSim DEF PingClockTimeout
  <2>5. CASE Destroy
    <3>1. MatchOn => AbstractMatch!Abandon
      BY <2>5 DEF Destroy, MatchOn, AbstractMatch!Abandon, AbstractMatch!NoMatch
    <3>2. ~MatchOn => UNCHANGED AbstractMatch!vars
      BY <2>5 DEF Destroy, MatchOn, AbstractMatch!vars
    <3> QED BY <3>1, <3>2 DEF AbstractMatch!Next
  <2>6. CASE \E u \in User : SessionStep(u)
    BY <2>6, SessionStepSim
  <2>7. CASE UNCHANGED vars
    BY <2>7, RecordsSim DEF vars
  <2> QED BY <2>1, <2>2, <2>3, <2>4, <2>5, <2>6, <2>7 DEF Next, DoStartGameIfReady
<1>3. Spec => []SimInv
  <2>1. MatchInv /\ DecksBeforeDeals => SimInv
    BY DEF SimInv
  <2> QED BY <2>1, MatchInvariant, DecksAreThere, PTL
<1> QED BY <1>1, <1>2, <1>3, PTL DEF Spec, KeepsMatch, AbstractMatch!Spec

=============================================================================
