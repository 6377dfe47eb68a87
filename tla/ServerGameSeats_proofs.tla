----------------------- MODULE ServerGameSeats_proofs -----------------------
(***************************************************************************)
(* Who owns which seat, whose turn comes next and which start is on its way: *)
(* theorems about module ServerGame for every set of users and every bound.  *)
(* The lemmas about tables, least and greatest ids are ServerGame_proofs'.   *)
(***************************************************************************)
EXTENDS ServerGame_proofs

-----------------------------------------------------------------------------
(* Seats, sessions and references.                                          *)

\* The ids at which a user sits, and the part of a player the seats are about.
SeatsOf(u) == {i \in DOMAIN players : players[i].user = u}

Badge(p) == <<p.user, p.spectator, p.userInterface>>

\* A seat whose owner is away is one the server keeps, and only an online
\* owner's seat has an interface.
AwaySeatsAreKept ==
  \A i \in DOMAIN players :
    players[i].userInterface
      \/ KeepsSeat(players[i].user, players[i].spectator)

InterfacesAreOnline ==
  \A i \in DOMAIN players :
    players[i].userInterface => session[players[i].user] = "online"

\* The references a login holds name its own seats and nobody else's, and
\* every seat of a user who is logging in is among them.
RefsAreOwn ==
  \A u \in User : refs[u] \cap DOMAIN players \subseteq SeatsOf(u)

RefsAreComplete ==
  \A u \in User : session[u] = "loggingIn" => SeatsOf(u) \subseteq refs[u]

\* No reference names an id that is still to be handed out.
RefsAreOld ==
  /\ \A u \in User : refs[u] \subseteq 0..(nextPlayerId - 1)
  /\ \A r \in persistentPlayers : r[2] \in 0..(nextPlayerId - 1)

\* The inductive invariant: the four seat properties, and what a login that
\* has read its references and not yet resolved them relies on.
SeatInv ==
  /\ TypeOK
  /\ OneSeatPerUser
  /\ SessionSeatAgree
  /\ KeptSeatsAreReferenced
  /\ OnlineOwnersAttached
  /\ AwaySeatsAreKept
  /\ InterfacesAreOnline
  /\ RefsAreOwn
  /\ RefsAreComplete
  /\ RefsAreOld
  /\ destroyed => DOMAIN players = {}

\* A step that keeps who sits where, and touches neither sessions nor
\* references.
LEMMA SameSeats ==
  ASSUME SeatInv, TypeOK',
         UNCHANGED <<nextPlayerId, destroyed, persistentPlayers, session, refs, games>>,
         DOMAIN players' = DOMAIN players,
         \A j \in DOMAIN players : Badge(players'[j]) = Badge(players[j])
  PROVE  SeatInv'
<1>1. \A j \in DOMAIN players :
        /\ players'[j].user = players[j].user
        /\ players'[j].spectator = players[j].spectator
        /\ players'[j].userInterface = players[j].userInterface
  BY DEF Badge
<1>2. OneSeatPerUser' /\ OnlineOwnersAttached' /\ AwaySeatsAreKept'
      /\ InterfacesAreOnline'
  BY <1>1 DEF SeatInv, OneSeatPerUser, OnlineOwnersAttached, AwaySeatsAreKept,
              InterfacesAreOnline
<1>3. SessionSeatAgree'
  BY <1>1 DEF SeatInv, SessionSeatAgree
<1>4. KeptSeatsAreReferenced'
  <2>1. {j \in DOMAIN players' : KeepsSeat(players'[j].user, players'[j].spectator)}
          = {j \in DOMAIN players : KeepsSeat(players[j].user, players[j].spectator)}
    BY <1>1
  <2>2. {<<players'[i].user, i>> :
           i \in {j \in DOMAIN players' : KeepsSeat(players'[j].user, players'[j].spectator)}}
          = {<<players[i].user, i>> :
               i \in {j \in DOMAIN players : KeepsSeat(players[j].user, players[j].spectator)}}
    BY <1>1, <2>1
  <2> QED BY <2>2 DEF SeatInv, KeptSeatsAreReferenced
<1>5. \A u \in User : SeatsOf(u)' = SeatsOf(u)
  BY <1>1 DEF SeatsOf
<1>6. RefsAreOwn' /\ RefsAreComplete' /\ RefsAreOld'
  BY <1>5 DEF SeatInv, RefsAreOwn, RefsAreComplete, RefsAreOld
<1> QED BY <1>2, <1>3, <1>4, <1>6 DEF SeatInv

\* What removePlayer() leaves of the table: everybody else, with owner, role
\* and interface as before.
LEMMA RemovePlayerBadges ==
  ASSUME TypeOK, NEW i \in DOMAIN players, RemovePlayer(i)
  PROVE  /\ DOMAIN players' = DOMAIN players \ {i}
         /\ \A j \in DOMAIN players \ {i} :
              /\ players'[j].user = players[j].user
              /\ players'[j].spectator = players[j].spectator
              /\ players'[j].userInterface = players[j].userInterface
<1> DEFINE left == Without(players, i)
<1>1. /\ nextPlayerId \in Nat /\ Table(left, nextPlayerId)
      /\ DOMAIN left = DOMAIN players \ {i}
      /\ \A j \in DOMAIN left : left[j] = players[j]
  BY TypeTable, WithoutTable DEF Without, Restrict
<1>2. players' = left \/ players' = StopIfFinished(left)
  BY DEF RemovePlayer
<1> HIDE DEF left
<1>3. /\ DOMAIN StopIfFinished(left) = DOMAIN left
      /\ \A j \in DOMAIN left : Badge(StopIfFinished(left)[j]) = Badge(left[j])
  BY <1>1 DEF StopIfFinished, Cleared, Badge, Table, Player
<1> QED BY <1>1, <1>2, <1>3 DEF Badge

\* removePlayer(), called for a player who leaves or is kicked, or for the seat
\* of a session that is ending.
LEMMA RemovePlayerSeats ==
  ASSUME SeatInv, TypeOK', ~destroyed, NEW i \in DOMAIN players, RemovePlayer(i),
         refs' = refs,
         \/ session' = session
         \/ session' = [session EXCEPT ![players[i].user] = "offline"]
  PROVE  SeatInv'
<1> DEFINE u0 == players[i].user
<1>1. /\ DOMAIN players' = DOMAIN players \ {i}
      /\ \A j \in DOMAIN players \ {i} :
           /\ players'[j].user = players[j].user
           /\ players'[j].spectator = players[j].spectator
           /\ players'[j].userInterface = players[j].userInterface
  BY RemovePlayerBadges DEF SeatInv
<1>2. /\ u0 \in User /\ i \in Id /\ DOMAIN players \subseteq Id
      /\ \A j \in DOMAIN players : players[j].user \in User
  BY TypeTable DEF SeatInv, TypeOK, Player
<1>3. \A j \in DOMAIN players \ {i} : players[j].user # u0
  BY DEF SeatInv, OneSeatPerUser
<1>4. \A u \in User \ {u0} : session'[u] = session[u]
  BY DEF SeatInv, TypeOK
<1>5. /\ persistentPlayers' = persistentPlayers \ {<<u0, i>>}
      /\ games' = IF players[i].userInterface THEN [games EXCEPT ![u0] = NoId] ELSE games
      /\ destroyed' = destroyed /\ nextPlayerId' = nextPlayerId
  BY DEF RemovePlayer, ForgetReference, LeaveSession
<1> HIDE DEF u0
<1>6. OneSeatPerUser'
  BY <1>1 DEF SeatInv, OneSeatPerUser
<1>7. SessionSeatAgree'
  <2> SUFFICES ASSUME NEW u \in User, NEW k \in Id
               PROVE  games'[u] = k <=> /\ k \in DOMAIN players'
                                        /\ players'[k].user = u /\ players'[k].userInterface
    BY DEF SessionSeatAgree
  <2>1. games[u] = k <=> /\ k \in DOMAIN players
                         /\ players[k].user = u /\ players[k].userInterface
    BY DEF SeatInv, SessionSeatAgree
  <2>2. games \in [User -> {NoId} \cup Id] /\ NoId # k
    BY DEF SeatInv, TypeOK, NoId, Id
  <2>3. CASE u = u0
    <3>1. ~(k \in DOMAIN players' /\ players'[k].user = u)
      BY <1>1, <1>3, <2>3
    <3>2. games'[u] # k
      BY <1>1, <1>2, <1>3, <1>5, <2>1, <2>2, <2>3
    <3> QED BY <3>1, <3>2
  <2>4. CASE u # u0
    <3>1. games'[u] = games[u] /\ (players[k].user = u => k # i)
      BY <1>5, <2>2, <2>4 DEF u0
    <3> QED BY <1>1, <2>1, <3>1 DEF u0
  <2> QED BY <2>3, <2>4
<1>8. KeptSeatsAreReferenced'
  <2> DEFINE kept  == {j \in DOMAIN players : KeepsSeat(players[j].user, players[j].spectator)}
             kept1 == {j \in DOMAIN players' : KeepsSeat(players'[j].user, players'[j].spectator)}
  <2>1. kept1 = kept \ {i} /\ kept \subseteq DOMAIN players
    BY <1>1
  <2>2. persistentPlayers = {<<players[j].user, j>> : j \in kept}
    BY DEF SeatInv, KeptSeatsAreReferenced
  <2>3. {<<players'[j].user, j>> : j \in kept1} = {<<players[j].user, j>> : j \in kept \ {i}}
    <3> HIDE DEF kept, kept1
    <3> QED BY <1>1, <2>1
  <2>4. {<<players[j].user, j>> : j \in kept \ {i}}
          = {<<players[j].user, j>> : j \in kept} \ {<<u0, i>>}
    <3> HIDE DEF kept
    <3> QED BY DEF u0
  <2> QED BY <1>5, <2>2, <2>3, <2>4 DEF KeptSeatsAreReferenced
<1>9. OnlineOwnersAttached' /\ InterfacesAreOnline'
  BY <1>1, <1>2, <1>3, <1>4 DEF SeatInv, OnlineOwnersAttached, InterfacesAreOnline
<1>10. AwaySeatsAreKept'
  BY <1>1 DEF SeatInv, AwaySeatsAreKept
<1>11. \A u \in User : /\ SeatsOf(u)' = SeatsOf(u) \ {i}
                       /\ session'[u] = "loggingIn" => session[u] = "loggingIn"
  <2>1. \A u \in User : SeatsOf(u)' = SeatsOf(u) \ {i}
    BY <1>1 DEF SeatsOf
  <2>2. \A u \in User : session'[u] = "loggingIn" => session[u] = "loggingIn"
    BY DEF SeatInv, TypeOK
  <2> QED BY <2>1, <2>2
<1>12. RefsAreOwn' /\ RefsAreComplete' /\ RefsAreOld'
  BY <1>1, <1>5, <1>11 DEF SeatInv, RefsAreOwn, RefsAreComplete, RefsAreOld
<1> QED BY <1>1, <1>5, <1>6, <1>7, <1>8, <1>9, <1>10, <1>12 DEF SeatInv

\* A newcomer has no seat yet, takes an id no reference names, and is online.
LEMMA JoinSeats ==
  ASSUME SeatInv, TypeOK', NEW u \in User, NEW spectator \in BOOLEAN,
         NEW asJudge \in BOOLEAN, Join(u, spectator, asJudge)
  PROVE  SeatInv'
<1> DEFINE n == nextPlayerId
<1>1. n \notin DOMAIN players /\ n \in Nat /\ n \in Id /\ nextPlayerId' = n + 1
  BY SizesAssumption DEF SeatInv, TypeOK, Join, NextPlayerId, Id
<1>2. /\ DOMAIN players' = DOMAIN players \cup {n}
      /\ \A j \in DOMAIN players : players'[j] = players[j]
      /\ players'[n] = NewPlayer(u, spectator, asJudge)
  BY <1>1 DEF Join
<1>3. /\ players'[n].user = u /\ players'[n].spectator = spectator
      /\ players'[n].userInterface
  BY <1>2 DEF NewPlayer
<1>4. /\ session[u] = "online" /\ \A j \in DOMAIN players : players[j].user # u
      /\ UNCHANGED <<session, refs, destroyed>> /\ ~destroyed
      /\ games' = [games EXCEPT ![u] = n]
      /\ persistentPlayers' = IF KeepsSeat(u, spectator)
                              THEN persistentPlayers \cup {<<u, n>>} ELSE persistentPlayers
  BY DEF Join, CheckJoin, Usable, sessionVars, closingVars
<1> HIDE DEF n
<1>5. OneSeatPerUser'
  BY <1>2, <1>3, <1>4 DEF SeatInv, OneSeatPerUser
<1>6. SessionSeatAgree'
  <2> SUFFICES ASSUME NEW v \in User, NEW k \in Id
               PROVE  games'[v] = k <=> /\ k \in DOMAIN players'
                                        /\ players'[k].user = v /\ players'[k].userInterface
    BY DEF SessionSeatAgree
  <2>1. games[v] = k <=> /\ k \in DOMAIN players
                         /\ players[k].user = v /\ players[k].userInterface
    BY DEF SeatInv, SessionSeatAgree
  <2>2. games'[v] = IF v = u THEN n ELSE games[v]
    BY <1>4 DEF SeatInv, TypeOK
  <2> QED BY <1>1, <1>2, <1>3, <1>4, <2>1, <2>2
<1>7. KeptSeatsAreReferenced'
  <2> DEFINE kept  == {j \in DOMAIN players : KeepsSeat(players[j].user, players[j].spectator)}
             kept1 == {j \in DOMAIN players' : KeepsSeat(players'[j].user, players'[j].spectator)}
  <2>1. kept1 = (IF KeepsSeat(u, spectator) THEN kept \cup {n} ELSE kept)
        /\ kept \subseteq DOMAIN players
    BY <1>2, <1>3
  <2>2. persistentPlayers = {<<players[j].user, j>> : j \in kept}
    BY <1>4 DEF SeatInv, KeptSeatsAreReferenced
  <2>3. persistentPlayers' = {<<players'[j].user, j>> : j \in kept1}
    <3> HIDE DEF kept, kept1
    <3>1. {<<players'[j].user, j>> : j \in kept} = {<<players[j].user, j>> : j \in kept}
      BY <1>2, <2>1
    <3>2. {<<players'[j].user, j>> : j \in kept \cup {n}}
            = {<<players'[j].user, j>> : j \in kept} \cup {<<u, n>>}
      BY <1>3
    <3> QED BY <1>4, <2>1, <2>2, <3>1, <3>2
  <2> QED BY <2>3 DEF KeptSeatsAreReferenced
<1>8. OnlineOwnersAttached' /\ InterfacesAreOnline' /\ AwaySeatsAreKept'
  BY <1>2, <1>3, <1>4 DEF SeatInv, OnlineOwnersAttached, InterfacesAreOnline, AwaySeatsAreKept
<1>9. RefsAreOld'
  <2>1. 0..(n - 1) \subseteq 0..(nextPlayerId' - 1) /\ n \in 0..(nextPlayerId' - 1)
    BY <1>1
  <2> QED BY <1>4, <2>1 DEF SeatInv, RefsAreOld, n
<1>10. RefsAreOwn'
  <2>1. \A v \in User : n \notin refs[v]
    BY <1>1 DEF SeatInv, RefsAreOld, n
  <2> QED BY <1>2, <1>4, <2>1 DEF SeatInv, RefsAreOwn, SeatsOf
<1>11. RefsAreComplete'
  BY <1>2, <1>3, <1>4 DEF SeatInv, RefsAreComplete, SeatsOf
<1> QED BY <1>2, <1>4, <1>5, <1>6, <1>7, <1>8, <1>9, <1>10, <1>11 DEF SeatInv

\* The seat a session's map of games names is its user's only one.
LEMMA OnlySeat ==
  ASSUME SeatInv, NEW u \in User, games[u] \in DOMAIN players
  PROVE  /\ players[games[u]].user = u /\ players[games[u]].userInterface
         /\ games[u] \in Id
         /\ \A j \in DOMAIN players : players[j].user = u => j = games[u]
<1>1. games[u] \in Id
  BY TypeTable DEF SeatInv
<1>2. players[games[u]].user = u /\ players[games[u]].userInterface
  BY <1>1 DEF SeatInv, SessionSeatAgree
<1> QED BY <1>1, <1>2 DEF SeatInv, OneSeatPerUser

LEMMA DisconnectSeatlessSeats ==
  ASSUME SeatInv, TypeOK', NEW u \in User, DisconnectSeatless(u)
  PROVE  SeatInv'
<1>1. /\ session[u] = "online" /\ session' = [session EXCEPT ![u] = "offline"]
      /\ games' = [games EXCEPT ![u] = NoId] /\ games[u] \notin DOMAIN players
      /\ UNCHANGED <<players, nextPlayerId, persistentPlayers, refs, destroyed>>
  BY DEF DisconnectSeatless, DropSession, tableVars, closingVars
<1>2. \A j \in DOMAIN players : players[j].user # u
  <2> SUFFICES ASSUME NEW j \in DOMAIN players, players[j].user = u PROVE FALSE
    OBVIOUS
  <2>1. players[j].userInterface /\ j \in Id
    BY <1>1, TypeTable DEF SeatInv, OnlineOwnersAttached
  <2> QED BY <1>1, <2>1 DEF SeatInv, SessionSeatAgree
<1>3. \A v \in User \ {u} : session'[v] = session[v] /\ games'[v] = games[v]
  BY <1>1 DEF SeatInv, TypeOK
<1>4. session'[u] = "offline" /\ games'[u] = NoId
  BY <1>1 DEF SeatInv, TypeOK
<1>5. \A j \in DOMAIN players : players[j].user \in User
  BY DEF SeatInv, TypeOK, Player
<1>6. SessionSeatAgree'
  BY <1>1, <1>2, <1>3, <1>4 DEF SeatInv, SessionSeatAgree, NoId, Id
<1>7. OnlineOwnersAttached' /\ InterfacesAreOnline' /\ OneSeatPerUser'
      /\ AwaySeatsAreKept' /\ KeptSeatsAreReferenced'
  BY <1>1, <1>2, <1>3, <1>5
  DEF SeatInv, OnlineOwnersAttached, InterfacesAreOnline, OneSeatPerUser,
      AwaySeatsAreKept, KeptSeatsAreReferenced
<1>8. RefsAreOwn' /\ RefsAreOld'
  BY <1>1 DEF SeatInv, RefsAreOwn, RefsAreOld, SeatsOf
<1>9. RefsAreComplete'
  BY <1>1, <1>3, <1>4 DEF SeatInv, RefsAreComplete, SeatsOf
<1> QED BY <1>1, <1>6, <1>7, <1>8, <1>9 DEF SeatInv

LEMMA DisconnectKeptSeats ==
  ASSUME SeatInv, TypeOK', NEW u \in User, DisconnectKept(u)
  PROVE  SeatInv'
<1> DEFINE i == games[u]
<1>1. /\ session[u] = "online" /\ session' = [session EXCEPT ![u] = "offline"]
      /\ games' = [games EXCEPT ![u] = NoId]
      /\ i \in DOMAIN players /\ StaysAtTable(players[i])
      /\ players' = [players EXCEPT ![i].userInterface = FALSE]
      /\ UNCHANGED <<nextPlayerId, persistentPlayers, refs, destroyed>>
  BY DEF DisconnectKept, DropSession, closingVars
<1>2. /\ players[i].user = u /\ i \in Id
      /\ \A j \in DOMAIN players : players[j].user = u => j = i
  BY <1>1, OnlySeat
<1>3. /\ DOMAIN players' = DOMAIN players
      /\ \A j \in DOMAIN players : /\ players'[j].user = players[j].user
                                   /\ players'[j].spectator = players[j].spectator
      /\ ~players'[i].userInterface
      /\ \A j \in DOMAIN players \ {i} :
           players'[j].userInterface = players[j].userInterface
  <2>1. \A j \in DOMAIN players : players[j] \in Player
    BY DEF SeatInv, TypeOK
  <2> QED BY <1>1, <2>1 DEF Player
<1>4. \A v \in User \ {u} : session'[v] = session[v] /\ games'[v] = games[v]
  BY <1>1 DEF SeatInv, TypeOK
<1>5. session'[u] = "offline" /\ games'[u] = NoId
  BY <1>1 DEF SeatInv, TypeOK
<1>6. \A j \in DOMAIN players : players[j].user \in User
  BY DEF SeatInv, TypeOK, Player
<1> HIDE DEF i
<1>7. SessionSeatAgree'
  <2> SUFFICES ASSUME NEW v \in User, NEW k \in Id
               PROVE  games'[v] = k <=> /\ k \in DOMAIN players'
                                        /\ players'[k].user = v /\ players'[k].userInterface
    BY DEF SessionSeatAgree
  <2>1. games[v] = k <=> /\ k \in DOMAIN players
                         /\ players[k].user = v /\ players[k].userInterface
    BY DEF SeatInv, SessionSeatAgree
  <2>2. NoId # k
    BY DEF NoId, Id
  <2> QED BY <1>2, <1>3, <1>4, <1>5, <2>1, <2>2
<1>8. OneSeatPerUser' /\ OnlineOwnersAttached' /\ InterfacesAreOnline'
  BY <1>2, <1>3, <1>4, <1>5, <1>6
  DEF SeatInv, OneSeatPerUser, OnlineOwnersAttached, InterfacesAreOnline
<1>9. AwaySeatsAreKept'
  BY <1>1, <1>3 DEF SeatInv, AwaySeatsAreKept, StaysAtTable, KeepsSeat
<1>10. KeptSeatsAreReferenced'
  <2>1. {j \in DOMAIN players' : KeepsSeat(players'[j].user, players'[j].spectator)}
          = {j \in DOMAIN players : KeepsSeat(players[j].user, players[j].spectator)}
    BY <1>3
  <2>2. {<<players'[k].user, k>> :
           k \in {j \in DOMAIN players' : KeepsSeat(players'[j].user, players'[j].spectator)}}
          = {<<players[k].user, k>> :
               k \in {j \in DOMAIN players : KeepsSeat(players[j].user, players[j].spectator)}}
    BY <1>3, <2>1
  <2> QED BY <1>1, <2>2 DEF SeatInv, KeptSeatsAreReferenced
<1>11. \A v \in User : /\ SeatsOf(v)' = SeatsOf(v)
                       /\ session'[v] = "loggingIn" => session[v] = "loggingIn"
  BY <1>3, <1>4, <1>5 DEF SeatsOf
<1>12. RefsAreOwn' /\ RefsAreComplete' /\ RefsAreOld'
  BY <1>1, <1>3, <1>11 DEF SeatInv, RefsAreOwn, RefsAreComplete, RefsAreOld
<1> QED BY <1>1, <1>3, <1>7, <1>8, <1>9, <1>10, <1>12 DEF SeatInv

LEMMA DisconnectRemovedSeats ==
  ASSUME SeatInv, TypeOK', NEW u \in User, DisconnectRemoved(u)
  PROVE  SeatInv'
<1>1. games[u] \in DOMAIN players /\ RemovePlayer(games[u]) /\ ~destroyed
  BY DEF DisconnectRemoved, SeatInv
<1>2. session' = [session EXCEPT ![players[games[u]].user] = "offline"] /\ refs' = refs
  BY <1>1, OnlySeat DEF DisconnectRemoved, DropSession
<1> QED BY <1>1, <1>2, RemovePlayerSeats

\* The references a login copies are its own kept seats, and those are all the
\* seats its user can have.
LEMMA LoginSeats ==
  ASSUME SeatInv, TypeOK', NEW u \in User, Login(u)
  PROVE  SeatInv'
<1>1. /\ session[u] = "offline" /\ session' = [session EXCEPT ![u] = "loggingIn"]
      /\ refs' = [refs EXCEPT ![u] = {i \in Id : <<u, i>> \in persistentPlayers}]
      /\ UNCHANGED <<players, nextPlayerId, persistentPlayers, games, destroyed>>
  BY DEF Login, tableVars, closingVars
<1>2. \A v \in User \ {u} : session'[v] = session[v] /\ refs'[v] = refs[v]
  BY <1>1 DEF SeatInv, TypeOK
<1>3. session'[u] = "loggingIn" /\ refs'[u] = {i \in Id : <<u, i>> \in persistentPlayers}
  BY <1>1 DEF SeatInv, TypeOK
<1>4. \A j \in DOMAIN players : players[j].user \in User /\ j \in Id
  BY TypeTable DEF SeatInv, TypeOK, Player
<1>5. ~destroyed => SeatsOf(u) \subseteq refs'[u] /\ refs'[u] \cap DOMAIN players \subseteq SeatsOf(u)
  <2> SUFFICES ASSUME ~destroyed
               PROVE  \A j \in DOMAIN players : players[j].user = u <=> <<u, j>> \in persistentPlayers
    BY <1>3, <1>4 DEF SeatsOf
  <2> TAKE j \in DOMAIN players
  <2>1. <<u, j>> \in persistentPlayers
          <=> players[j].user = u /\ KeepsSeat(players[j].user, players[j].spectator)
    BY DEF SeatInv, KeptSeatsAreReferenced
  <2>2. players[j].user = u => KeepsSeat(players[j].user, players[j].spectator)
    BY <1>1 DEF SeatInv, AwaySeatsAreKept, InterfacesAreOnline
  <2> QED BY <2>1, <2>2
<1>6. SeatsOf(u) \subseteq refs'[u] /\ refs'[u] \cap DOMAIN players \subseteq SeatsOf(u)
  BY <1>5 DEF SeatInv, SeatsOf
<1>7. \A v \in User : SeatsOf(v)' = SeatsOf(v)
  BY <1>1 DEF SeatsOf
<1>8. RefsAreOwn' /\ RefsAreComplete'
  BY <1>1, <1>2, <1>6, <1>7 DEF SeatInv, RefsAreOwn, RefsAreComplete
<1>9. RefsAreOld'
  <2>1. refs'[u] \subseteq 0..(nextPlayerId - 1)
    BY <1>3 DEF SeatInv, RefsAreOld
  <2> QED BY <1>1, <1>2, <2>1 DEF SeatInv, RefsAreOld
<1>10. OnlineOwnersAttached' /\ InterfacesAreOnline'
  BY <1>1, <1>2, <1>3, <1>4 DEF SeatInv, OnlineOwnersAttached, InterfacesAreOnline
<1> QED
  BY <1>1, <1>8, <1>9, <1>10
  DEF SeatInv, OneSeatPerUser, SessionSeatAgree, KeptSeatsAreReferenced, AwaySeatsAreKept

\* What is left of the references when they are resolved is exactly the seat
\* of the user who logs in.
LEMMA RejoinSeats ==
  ASSUME SeatInv, TypeOK', NEW u \in User, Rejoin(u)
  PROVE  SeatInv'
<1>1. /\ session[u] = "loggingIn" /\ session' = [session EXCEPT ![u] = "online"]
      /\ refs' = [refs EXCEPT ![u] = {}]
      /\ UNCHANGED <<nextPlayerId, persistentPlayers, destroyed>>
      /\ games' = IF Resumed(u) = {} THEN games ELSE [games EXCEPT ![u] = Max(Resumed(u))]
  BY DEF Rejoin, closingVars
<1>2. Resumed(u) = SeatsOf(u)
  BY <1>1 DEF SeatInv, RefsAreOwn, RefsAreComplete, Resumed, SeatsOf
<1>3. /\ DOMAIN players' = DOMAIN players
      /\ \A j \in DOMAIN players : /\ players'[j].user = players[j].user
                                   /\ players'[j].spectator = players[j].spectator
                                   /\ players'[j].userInterface
                                        <=> players[j].userInterface \/ players[j].user = u
  <2>1. \A j \in DOMAIN players : players[j] \in Player
    BY DEF SeatInv, TypeOK
  <2>2. players' = [j \in DOMAIN players |->
                      IF j \in SeatsOf(u) THEN [players[j] EXCEPT !.userInterface = TRUE]
                                          ELSE players[j]]
    BY <1>2 DEF Rejoin
  <2> QED BY <2>1, <2>2 DEF Player, SeatsOf
<1>4. \A v \in User \ {u} : /\ session'[v] = session[v] /\ games'[v] = games[v]
                            /\ refs'[v] = refs[v]
  BY <1>1 DEF SeatInv, TypeOK
<1>5. session'[u] = "online" /\ refs'[u] = {}
  BY <1>1 DEF SeatInv, TypeOK
<1>6. \A j \in DOMAIN players : players[j].user \in User /\ j \in Id
  BY TypeTable DEF SeatInv, TypeOK, Player
<1>7. \A k \in Id : games'[u] = k <=> k \in SeatsOf(u)
  <2>1. CASE SeatsOf(u) = {}
    <3>1. games'[u] = games[u]
      BY <1>1, <1>2, <2>1
    <3> QED BY <2>1, <3>1 DEF SeatInv, SessionSeatAgree, SeatsOf
  <2>2. CASE SeatsOf(u) # {}
    <3>1. SeatsOf(u) \in SUBSET (0..MaxId) /\ MaxId \in Nat
      BY <1>6, SizesAssumption DEF SeatsOf, Id
    <3>2. Max(SeatsOf(u)) \in SeatsOf(u)
      BY <2>2, <3>1, MaxExists
    <3>3. games'[u] = Max(SeatsOf(u))
      BY <1>1, <1>2, <2>2 DEF SeatInv, TypeOK
    <3>4. \A j, k \in SeatsOf(u) : j = k
      BY DEF SeatInv, OneSeatPerUser, SeatsOf
    <3> QED BY <3>2, <3>3, <3>4
  <2> QED BY <2>1, <2>2
<1>8. SessionSeatAgree'
  <2> SUFFICES ASSUME NEW v \in User, NEW k \in Id
               PROVE  games'[v] = k <=> /\ k \in DOMAIN players'
                                        /\ players'[k].user = v /\ players'[k].userInterface
    BY DEF SessionSeatAgree
  <2>1. CASE v = u
    BY <1>3, <1>7, <2>1 DEF SeatsOf
  <2>2. CASE v # u
    BY <1>3, <1>4, <2>2 DEF SeatInv, SessionSeatAgree
  <2> QED BY <2>1, <2>2
<1>9. OneSeatPerUser' /\ AwaySeatsAreKept'
  BY <1>3 DEF SeatInv, OneSeatPerUser, AwaySeatsAreKept
<1>10. OnlineOwnersAttached' /\ InterfacesAreOnline'
  BY <1>3, <1>4, <1>5, <1>6 DEF SeatInv, OnlineOwnersAttached, InterfacesAreOnline
<1>11. KeptSeatsAreReferenced'
  <2>1. {j \in DOMAIN players' : KeepsSeat(players'[j].user, players'[j].spectator)}
          = {j \in DOMAIN players : KeepsSeat(players[j].user, players[j].spectator)}
    BY <1>3
  <2>2. {<<players'[k].user, k>> :
           k \in {j \in DOMAIN players' : KeepsSeat(players'[j].user, players'[j].spectator)}}
          = {<<players[k].user, k>> :
               k \in {j \in DOMAIN players : KeepsSeat(players[j].user, players[j].spectator)}}
    BY <1>3, <2>1
  <2> QED BY <1>1, <2>2 DEF SeatInv, KeptSeatsAreReferenced
<1>12. \A v \in User : SeatsOf(v)' = SeatsOf(v)
  BY <1>3 DEF SeatsOf
<1>13. RefsAreOwn' /\ RefsAreComplete' /\ RefsAreOld'
  BY <1>1, <1>3, <1>4, <1>5, <1>12 DEF SeatInv, RefsAreOwn, RefsAreComplete, RefsAreOld
<1> QED BY <1>1, <1>3, <1>8, <1>9, <1>10, <1>11, <1>13 DEF SeatInv

LEMMA CommandSeats ==
  ASSUME SeatInv, TypeOK', NEW i \in Id, Command(i)
  PROVE  SeatInv'
<1> USE DEF tableVars, matchVars, closingVars, sessionVars
<1>0. TypeOK /\ \A j \in DOMAIN players : players[j] \in Player
  BY DEF SeatInv, TypeOK
<1>1. CASE Leave(i)
  BY <1>1, RemovePlayerSeats DEF Leave, Acts, Usable
<1>2. CASE DeckSelect(i)
  BY <1>0, <1>2, SameSeats DEF DeckSelect, Badge, Player
<1>3. CASE ReadyStart(i)
  BY <1>0, <1>3, SameSeats DEF ReadyStart, Badge, Player
<1>4. CASE UnreadyStart(i)
  BY <1>0, <1>4, SameSeats DEF UnreadyStart, Badge, Player
<1>5. CASE Concede(i)
  <2> DEFINE out == [players EXCEPT ![i].conceded = TRUE, ![i].zones = FALSE]
  <2>1. players' = StopIfFinished(out) /\ nextPlayerId \in Nat /\ Table(players, nextPlayerId)
    BY <1>0, <1>5, TypeTable DEF Concede
  <2>2. /\ DOMAIN out = DOMAIN players /\ Table(out, nextPlayerId)
        /\ \A j \in DOMAIN players : Badge(out[j]) = Badge(players[j])
    BY <1>0, <2>1 DEF Badge, Table, Player
  <2> HIDE DEF out
  <2>3. /\ DOMAIN StopIfFinished(out) = DOMAIN out
        /\ \A j \in DOMAIN out : Badge(StopIfFinished(out)[j]) = Badge(out[j])
    BY <2>2 DEF StopIfFinished, Cleared, Badge, Table, Player
  <2> QED BY <1>5, <2>1, <2>2, <2>3, SameSeats DEF Concede
<1>6. CASE Unconcede(i)
  BY <1>0, <1>6, SameSeats DEF Unconcede, Badge, Player
<1>7. CASE CmdNextTurn(i)
  BY <1>7, SameSeats DEF CmdNextTurn
<1>8. CASE ReverseTurn(i)
  BY <1>8, SameSeats DEF ReverseTurn
<1>9. CASE \E k \in Id : Kick(k, i)
  BY <1>9, RemovePlayerSeats DEF Kick, Acts, Usable
<1> QED BY <1>1, <1>2, <1>3, <1>4, <1>5, <1>6, <1>7, <1>8, <1>9 DEF Command

\* The destructor detaches whoever is still there; the references it leaves
\* behind lead to nothing.
LEMMA DestroySeats ==
  ASSUME SeatInv, TypeOK', Destroy
  PROVE  SeatInv'
<1>1. DOMAIN players' = {} /\ destroyed'
      /\ UNCHANGED <<nextPlayerId, persistentPlayers, session, refs>>
  BY DEF Destroy, Restrict, sessionVars
<1>2. SessionSeatAgree'
  <2> SUFFICES ASSUME NEW u \in User, NEW k \in Id, games'[u] = k PROVE FALSE
    BY <1>1 DEF SessionSeatAgree
  <2>1. NoId # k
    BY DEF NoId, Id
  <2>2. games[u] = k /\ ~\E i \in DOMAIN players : players[i].user = u /\ players[i].userInterface
    BY <2>1 DEF Destroy
  <2> QED BY <2>2 DEF SeatInv, SessionSeatAgree
<1> QED
  BY <1>1, <1>2
  DEF SeatInv, OneSeatPerUser, KeptSeatsAreReferenced, OnlineOwnersAttached,
      AwaySeatsAreKept, InterfacesAreOnline, RefsAreOwn, RefsAreComplete,
      RefsAreOld, SeatsOf

LEMMA InitSeats == Init => SeatInv
<1> SUFFICES ASSUME Init PROVE SeatInv
  OBVIOUS
<1>1. PICK spectator \in BOOLEAN, judge \in BOOLEAN :
        /\ players = [i \in {0} |-> NewPlayer(Creator, spectator, judge)]
        /\ persistentPlayers = IF KeepsSeat(Creator, spectator)
                               THEN {<<Creator, 0>>} ELSE {}
  BY DEF Init
<1>2. /\ DOMAIN players = {0} /\ players[0].user = Creator
      /\ players[0].spectator = spectator /\ players[0].userInterface
  BY <1>1 DEF NewPlayer
<1>3. /\ nextPlayerId = 1 /\ ~destroyed
      /\ session = [u \in User |-> IF u = Creator THEN "online" ELSE "offline"]
      /\ games = [u \in User |-> IF u = Creator THEN 0 ELSE NoId]
      /\ refs = [u \in User |-> {}] /\ Creator \in User
  BY UsersAssumption DEF Init
<1>4. TypeOK
  BY InitType
<1>5. SessionSeatAgree
  BY <1>2, <1>3 DEF SessionSeatAgree, NoId, Id
<1>6. KeptSeatsAreReferenced
  <2>1. {j \in DOMAIN players : KeepsSeat(players[j].user, players[j].spectator)}
          = IF KeepsSeat(Creator, spectator) THEN {0} ELSE {}
    BY <1>2
  <2> QED BY <1>1, <1>2, <2>1 DEF KeptSeatsAreReferenced
<1>7. RefsAreOwn /\ RefsAreComplete /\ RefsAreOld
  BY <1>1, <1>2, <1>3 DEF RefsAreOwn, RefsAreComplete, RefsAreOld
<1>8. OneSeatPerUser /\ OnlineOwnersAttached /\ AwaySeatsAreKept /\ InterfacesAreOnline
  BY <1>2, <1>3
  DEF OneSeatPerUser, OnlineOwnersAttached, AwaySeatsAreKept, InterfacesAreOnline
<1> QED BY <1>3, <1>4, <1>5, <1>6, <1>7, <1>8 DEF SeatInv

\* Joins, lost connections, kicks and the two halves of joinPersistentGames()
\* keep the invariant in every order.
THEOREM SeatInvariant == Spec => []SeatInv
<1>1. SeatInv /\ TypeOK' /\ [Next]_vars => SeatInv'
  <2> SUFFICES ASSUME SeatInv, TypeOK', [Next]_vars PROVE SeatInv'
    OBVIOUS
  <2> USE DEF tableVars, matchVars, closingVars, sessionVars
  <2>1. CASE \E i \in Id : Command(i)
    BY <2>1, CommandSeats
  <2>2. CASE StartGame
    <3>1. \A j \in DOMAIN players : players[j] \in Player
      BY DEF SeatInv, TypeOK
    <3> QED BY <2>2, <3>1, SameSeats DEF StartGame, Started, Badge, Player
  <2>3. CASE IgnoreStart
    BY <2>3, SameSeats DEF IgnoreStart
  <2>4. CASE PingClockTimeout
    BY <2>4, SameSeats DEF PingClockTimeout
  <2>5. CASE Destroy
    BY <2>5, DestroySeats
  <2>6. ASSUME NEW u \in User, SessionStep(u) PROVE SeatInv'
    BY <2>6, JoinSeats, DisconnectSeatlessSeats, DisconnectKeptSeats,
       DisconnectRemovedSeats, LoginSeats, RejoinSeats
    DEF SessionStep, Disconnect
  <2>7. CASE UNCHANGED vars
    BY <2>7, SameSeats DEF vars
  <2> QED BY <2>1, <2>2, <2>3, <2>4, <2>5, <2>6, <2>7 DEF Next, DoStartGameIfReady
<1> QED BY InitSeats, <1>1, TypeCorrect, PTL DEF Spec

\* Nobody sits twice at a table, a session commands exactly the seat that is
\* its user's and sends its events to it, the server can find every kept seat
\* again, and a user whose login is over is attached to the seat he owns:
\* whatever joins, kicks, lost connections and logins interleave.
THEOREM SeatsAreKept ==
  Spec => [](OneSeatPerUser /\ SessionSeatAgree /\ KeptSeatsAreReferenced
             /\ OnlineOwnersAttached)
<1>1. SeatInv => OneSeatPerUser /\ SessionSeatAgree /\ KeptSeatsAreReferenced
                 /\ OnlineOwnersAttached
  BY DEF SeatInv
<1> QED BY <1>1, SeatInvariant, PTL

-----------------------------------------------------------------------------
(* The host's seat.                                                         *)

\* removePlayer() hands the host's seat on only when the host is the one who
\* is removed, and addPlayer() only to the creator of the game.
THEOREM HostIsHandedOver == Spec => HostHandover
<1> DEFINE Change == hostId' # hostId =>
                       hostId \notin DOMAIN players' \/ players'[hostId'].user = Creator
<1>1. TypeOK /\ [Next]_vars => [Change]_vars
  <2> SUFFICES ASSUME TypeOK, Next, hostId' # hostId
               PROVE  hostId \notin DOMAIN players' \/ players'[hostId'].user = Creator
    BY DEF vars, tableVars
  <2> USE DEF tableVars, matchVars, closingVars, sessionVars
  <2>1. ASSUME NEW i \in DOMAIN players, RemovePlayer(i)
        PROVE  hostId \notin DOMAIN players'
    <3>1. hostId = i
      BY <2>1 DEF RemovePlayer
    <3> QED BY <2>1, <3>1, RemovePlayerBadges
  <2>2. ASSUME NEW i \in Id, Command(i) PROVE hostId \notin DOMAIN players'
    BY <2>1, <2>2
    DEF Command, Leave, Kick, Acts, DeckSelect, ReadyStart, UnreadyStart, Concede,
        Unconcede, CmdNextTurn, ReverseTurn
  <2>3. CASE DoStartGameIfReady \/ PingClockTimeout \/ Destroy
    BY <2>3 DEF DoStartGameIfReady, StartGame, IgnoreStart, PingClockTimeout, Destroy
  <2>4. ASSUME NEW u \in User, NEW spectator \in BOOLEAN, NEW asJudge \in BOOLEAN,
               Join(u, spectator, asJudge)
        PROVE  players'[hostId'].user = Creator
    <3>1. hostId' = nextPlayerId /\ u = Creator
      BY <2>4 DEF Join, TakesHost
    <3>2. players'[nextPlayerId] = NewPlayer(u, spectator, asJudge)
      BY <2>4 DEF Join
    <3> QED BY <3>1, <3>2 DEF NewPlayer
  <2>5. ASSUME NEW u \in User, Disconnect(u) \/ Login(u) \/ Rejoin(u)
        PROVE  hostId \notin DOMAIN players'
    BY <2>1, <2>5
    DEF Disconnect, DisconnectSeatless, DisconnectKept, DisconnectRemoved, Login, Rejoin
  <2> QED BY <2>2, <2>3, <2>4, <2>5 DEF Next, SessionStep
<1> QED BY <1>1, TypeCorrect, PTL DEF Spec, HostHandover

-----------------------------------------------------------------------------
(* The start that is on its way.                                            *)

\* The inductive invariant.  A table is never overfull, so a departure from a
\* full one frees a seat; and no ready flag survives into a match, so a match
\* that ends leaves nobody ready whose start has already been consumed.
StartInv ==
  /\ TypeOK
  /\ DecksBeforeDeals
  /\ PlayerCount <= MaxPlayers
  /\ NoLostStart

LEMMA SeatsAreFinite ==
  ASSUME TypeOK
  PROVE  IsFiniteSet(Seats(players)) /\ PlayerCount \in Nat
<1>1. IsFiniteSet(Seats(players))
  BY TypeTable, InPlayIds
<1> QED BY <1>1, FS_CardinalityType DEF PlayerCount

LEMMA FullTableHasASeat ==
  ASSUME PlayerCount = MaxPlayers
  PROVE  Seats(players) # {}
<1>1. Cardinality({}) = 0
  BY FS_EmptySet
<1> QED BY <1>1, SizesAssumption DEF PlayerCount

\* A step that keeps the seats and their ready flags, and may end a match.
LEMMA SameStart ==
  ASSUME StartInv, TypeOK', DecksBeforeDeals', Seats(players') = Seats(players),
         \A j \in Seats(players) : players'[j].readyStart = players[j].readyStart,
         gameStarted' => gameStarted, deletePending => deletePending',
         pendingStarts' = pendingStarts
  PROVE  StartInv'
<1>1. PlayerCount' = PlayerCount /\ EverybodyReady' = EverybodyReady
  BY DEF PlayerCount, EverybodyReady
<1>2. CASE ~gameStarted
  BY <1>1, <1>2 DEF StartInv, NoLostStart
<1>3. CASE gameStarted
  <2>1. PlayerCount = MaxPlayers => ~EverybodyReady
    BY <1>3, FullTableHasASeat DEF StartInv, DecksBeforeDeals, EverybodyReady
  <2> QED BY <1>1, <2>1 DEF StartInv, NoLostStart
<1> QED BY <1>2, <1>3

LEMMA RemovePlayerStart ==
  ASSUME StartInv, TypeOK', DecksBeforeDeals', NEW i \in DOMAIN players, RemovePlayer(i)
  PROVE  StartInv'
<1> DEFINE left == Without(players, i)
<1>1. /\ TypeOK /\ nextPlayerId \in Nat /\ Table(left, nextPlayerId)
      /\ DOMAIN left = DOMAIN players \ {i}
      /\ \A j \in DOMAIN left : left[j] = players[j]
  BY TypeTable, WithoutTable DEF StartInv, Without, Restrict
<1>2. players' = left \/ players' = StopIfFinished(left)
  BY DEF RemovePlayer
<1>3. /\ DOMAIN players' = DOMAIN left
      /\ \A j \in DOMAIN left : /\ players'[j].spectator = players[j].spectator
                                /\ players'[j].readyStart = players[j].readyStart
  <2> HIDE DEF left
  <2> QED BY <1>1, <1>2, StopKeepsFlags, ClearedTable
<1> HIDE DEF left
<1>4. Seats(players') = Seats(players) \ {i}
  BY <1>1, <1>3 DEF Seats
<1>5. (gameStarted' => gameStarted) /\ (deletePending => deletePending')
      /\ pendingStarts' = pendingStarts
  BY DEF RemovePlayer, DeleteLater
<1>6. CASE i \notin Seats(players)
  <2>1. Seats(players') = Seats(players)
    BY <1>4, <1>6
  <2>2. \A j \in Seats(players) : players'[j].readyStart = players[j].readyStart
    BY <1>1, <1>3, <1>6 DEF Seats
  <2> QED BY <1>5, <2>1, <2>2, SameStart
<1>7. CASE i \in Seats(players)
  <2>1. PlayerCount' = PlayerCount - 1
    BY <1>1, <1>4, <1>7, SeatsAreFinite, FS_RemoveElement DEF PlayerCount
  <2>2. PlayerCount' < MaxPlayers
    BY <1>1, <2>1, SeatsAreFinite, SizesAssumption DEF StartInv
  <2> QED BY <2>2, SizesAssumption, SeatsAreFinite, <1>1, <2>1 DEF StartInv, NoLostStart
<1> QED BY <1>6, <1>7

LEMMA CommandStart ==
  ASSUME StartInv, TypeOK', DecksBeforeDeals', NEW i \in Id, Command(i)
  PROVE  StartInv'
<1> USE DEF tableVars, matchVars, closingVars
<1>0. TypeOK /\ \A j \in DOMAIN players : players[j] \in Player
  BY DEF StartInv, TypeOK
<1>1. CASE Leave(i)
  BY <1>1, RemovePlayerStart DEF Leave, Acts
<1>2. CASE DeckSelect(i)
  BY <1>0, <1>2, SameStart DEF DeckSelect, Seats, Player
<1>3. CASE ReadyStart(i)
  <2>1. Seats(players') = Seats(players)
    BY <1>0, <1>3 DEF ReadyStart, Seats, Player
  <2>2. deletePending' = deletePending /\ (~deletePending => pendingStarts' = pendingStarts + 1)
    BY <1>3 DEF ReadyStart, PostStart
  <2>3. pendingStarts \in Nat
    BY <1>0, SizesAssumption DEF TypeOK
  <2> QED BY <1>0, <2>1, <2>2, <2>3 DEF StartInv, NoLostStart, PlayerCount
<1>4. CASE UnreadyStart(i)
  <2>1. /\ Seats(players') = Seats(players) /\ i \in Seats(players)
        /\ ~players'[i].readyStart
    BY <1>0, <1>4 DEF UnreadyStart, Seats, Player, Acts
  <2> QED BY <2>1 DEF StartInv, NoLostStart, PlayerCount, EverybodyReady
<1>5. CASE Concede(i)
  <2> DEFINE out == [players EXCEPT ![i].conceded = TRUE, ![i].zones = FALSE]
  <2>1. /\ nextPlayerId \in Nat /\ Table(players, nextPlayerId)
        /\ players' = StopIfFinished(out) /\ gameStarted
        /\ UNCHANGED <<deletePending, pendingStarts>>
    BY <1>0, <1>5, TypeTable DEF Concede
  <2>2. /\ Table(out, nextPlayerId) /\ DOMAIN out = DOMAIN players
        /\ \A j \in DOMAIN players :
             /\ out[j].spectator = players[j].spectator
             /\ out[j].readyStart = players[j].readyStart
    BY <1>0, <2>1 DEF Table, Player
  <2> HIDE DEF out
  <2>3. /\ DOMAIN players' = DOMAIN players
        /\ \A j \in DOMAIN players :
             /\ players'[j].spectator = players[j].spectator
             /\ players'[j].readyStart = players[j].readyStart
    BY <2>1, <2>2, StopKeepsFlags, ClearedTable
  <2> QED BY <2>1, <2>3, SameStart DEF Seats
<1>6. CASE Unconcede(i)
  BY <1>0, <1>6, SameStart DEF Unconcede, Seats, Player
<1>7. CASE CmdNextTurn(i)
  BY <1>7, SameStart DEF CmdNextTurn
<1>8. CASE ReverseTurn(i)
  BY <1>8, SameStart DEF ReverseTurn
<1>9. CASE \E k \in Id : Kick(k, i)
  BY <1>9, RemovePlayerStart DEF Kick
<1> QED BY <1>1, <1>2, <1>3, <1>4, <1>5, <1>6, <1>7, <1>8, <1>9 DEF Command

LEMMA SessionStepStart ==
  ASSUME StartInv, TypeOK', DecksBeforeDeals', NEW u \in User, SessionStep(u)
  PROVE  StartInv'
<1> USE DEF tableVars, matchVars, closingVars
<1>0. TypeOK /\ \A j \in DOMAIN players : players[j] \in Player
  BY DEF StartInv, TypeOK
<1>1. ASSUME NEW spectator \in BOOLEAN, NEW asJudge \in BOOLEAN,
             Join(u, spectator, asJudge)
      PROVE  StartInv'
  <2>1. nextPlayerId \notin DOMAIN players
    BY <1>0 DEF TypeOK
  <2>2. /\ DOMAIN players' = DOMAIN players \cup {nextPlayerId}
        /\ \A j \in DOMAIN players : players'[j] = players[j]
        /\ players'[nextPlayerId] = NewPlayer(u, spectator, asJudge)
    BY <1>1, <2>1 DEF Join
  <2>3. UNCHANGED <<gameStarted, deletePending, pendingStarts>>
    BY <1>1 DEF Join
  <2>4. CASE spectator
    <3>1. Seats(players') = Seats(players)
      BY <2>1, <2>2, <2>4 DEF Seats, NewPlayer
    <3> QED BY <2>2, <2>3, <3>1, SameStart DEF Seats
  <2>5. CASE ~spectator
    <3>1. /\ Seats(players') = Seats(players) \cup {nextPlayerId}
          /\ ~players'[nextPlayerId].readyStart
      BY <2>2, <2>5 DEF Seats, NewPlayer
    <3>2. nextPlayerId \notin Seats(players)
      BY <2>1 DEF Seats
    <3>3. PlayerCount' = PlayerCount + 1
      BY <1>0, <3>1, <3>2, SeatsAreFinite, FS_AddElement DEF PlayerCount
    <3>4. PlayerCount < MaxPlayers
      BY <1>1, <2>5 DEF Join, CheckJoin
    <3>5. ~EverybodyReady'
      BY <3>1 DEF EverybodyReady
    <3> QED BY <1>0, <3>3, <3>4, <3>5, SeatsAreFinite, SizesAssumption
            DEF StartInv, NoLostStart
  <2> QED BY <2>4, <2>5
<1>2. CASE DisconnectSeatless(u)
  BY <1>2, SameStart DEF DisconnectSeatless
<1>3. CASE DisconnectKept(u)
  BY <1>0, <1>3, SameStart DEF DisconnectKept, Seats, Player
<1>4. CASE DisconnectRemoved(u)
  BY <1>4, RemovePlayerStart DEF DisconnectRemoved
<1>5. CASE Login(u)
  BY <1>5, SameStart DEF Login
<1>6. CASE Rejoin(u)
  BY <1>0, <1>6, SameStart DEF Rejoin, Seats, Player
<1> QED BY <1>1, <1>2, <1>3, <1>4, <1>5, <1>6 DEF SessionStep, Disconnect

LEMMA InitStart == Init => StartInv
<1> SUFFICES ASSUME Init PROVE StartInv
  OBVIOUS
<1>1. TypeOK /\ DecksBeforeDeals
  <2>1. DecksBeforeDeals
    BY DEF Init, DecksBeforeDeals, Seats, NewPlayer
  <2> QED BY <2>1, InitType
<1>2. Seats(players) \subseteq {0} /\ \A j \in Seats(players) : ~players[j].readyStart
  BY DEF Init, Seats, NewPlayer
<1>3. PlayerCount <= 1
  <2>1. IsFiniteSet({0}) /\ Cardinality({0}) = 1
    BY FS_Singleton
  <2> QED BY <1>2, <2>1, FS_Subset DEF PlayerCount
<1>4. PlayerCount = MaxPlayers => ~EverybodyReady
  BY <1>2, FullTableHasASeat DEF EverybodyReady
<1> QED BY <1>1, <1>3, <1>4, SeatsAreFinite, SizesAssumption DEF StartInv, NoLostStart

\* When every seat is taken and ready, a start event is still to come: although
\* doStartGameIfReady() reads the flags late, an event that finds the table not
\* ready is always made up for by the one that completes it.
THEOREM StartIsNotLost == Spec => []NoLostStart
<1>1. StartInv /\ TypeOK' /\ DecksBeforeDeals' /\ [Next]_vars => StartInv'
  <2> SUFFICES ASSUME StartInv, TypeOK', DecksBeforeDeals', [Next]_vars PROVE StartInv'
    OBVIOUS
  <2> USE DEF tableVars, matchVars, closingVars
  <2>1. CASE \E i \in Id : Command(i)
    BY <2>1, CommandStart
  <2>2. CASE StartGame
    <3>1. \A j \in DOMAIN players : players[j] \in Player
      BY DEF StartInv, TypeOK
    <3>2. Seats(players') = Seats(players) /\ gameStarted'
      BY <2>2, <3>1 DEF StartGame, Started, Seats, Player
    <3> QED BY <3>2 DEF StartInv, NoLostStart, PlayerCount
  <2>3. CASE IgnoreStart
    BY <2>3 DEF IgnoreStart, StartConditions, StartInv, NoLostStart, PlayerCount, EverybodyReady
  <2>4. CASE PingClockTimeout
    BY <2>4, SameStart DEF PingClockTimeout
  <2>5. CASE Destroy
    <3>1. Seats(players') = {}
      BY <2>5 DEF Destroy, Restrict, Seats
    <3>2. PlayerCount' = 0
      BY <3>1, FS_EmptySet DEF PlayerCount
    <3> QED BY <3>2, SizesAssumption DEF StartInv, NoLostStart
  <2>6. CASE \E u \in User : SessionStep(u)
    BY <2>6, SessionStepStart
  <2>7. CASE UNCHANGED vars
    BY <2>7, SameStart DEF vars
  <2> QED BY <2>1, <2>2, <2>3, <2>4, <2>5, <2>6, <2>7 DEF Next, DoStartGameIfReady
<1>2. Spec => []StartInv
  BY InitStart, <1>1, TypeCorrect, DecksAreThere, PTL DEF Spec
<1>3. StartInv => NoLostStart
  BY DEF StartInv
<1> QED BY <1>2, <1>3, PTL

-----------------------------------------------------------------------------
(* The round of turns.                                                      *)

\* nextTurn() takes the first contender after the holder, in the direction of
\* play, and starts over from the other end when there is none.
LEMMA TurnSkipsNobody ==
  ASSUME TypeOK, NEW ps, Table(ps, nextPlayerId), InPlay(ps) # {},
         activePlayer \in DOMAIN ps, NEW i \in InPlay(ps),
         TurnAfter(ps, activePlayer, turnOrderReversed) # activePlayer
  PROVE  ~SitsBetween(activePlayer, i,
                      TurnAfter(ps, activePlayer, turnOrderReversed))
<1> DEFINE ahead == {k \in InPlay(ps) : IF turnOrderReversed THEN k < activePlayer
                                                             ELSE k > activePlayer}
           pool  == IF ahead # {} THEN ahead ELSE InPlay(ps)
           t     == TurnAfter(ps, activePlayer, turnOrderReversed)
<1>1. nextPlayerId \in Nat /\ nextPlayerId - 1 \in Nat /\ turnOrderReversed \in BOOLEAN
  BY SizesAssumption DEF TypeOK
<1>2. InPlay(ps) \subseteq 0..(nextPlayerId - 1) /\ activePlayer \in Nat
  BY <1>1, InPlayIds DEF Table
<1>3. pool \in SUBSET (0..(nextPlayerId - 1)) /\ pool \in SUBSET Nat /\ pool # {}
  BY <1>1, <1>2
<1>4. t = IF turnOrderReversed THEN Max(pool) ELSE Min(pool)
  BY DEF TurnAfter
<1>5. /\ turnOrderReversed => t \in pool /\ \A k \in pool : t >= k
      /\ ~turnOrderReversed => t \in pool /\ \A k \in pool : t <= k
  <2> HIDE DEF pool, t
  <2> QED BY <1>1, <1>3, <1>4, MinExists, MaxExists
<1>6. t \in Nat /\ i \in Nat /\ t # activePlayer
  BY <1>2, <1>3, <1>5
<1> HIDE DEF t
<1>7. ~SitsBetween(activePlayer, i, t)
  <2>1. CASE turnOrderReversed
    BY <1>2, <1>5, <1>6, <2>1 DEF SitsBetween
  <2>2. CASE ~turnOrderReversed
    BY <1>2, <1>5, <1>6, <2>2 DEF SitsBetween
  <2> QED BY <2>1, <2>2
<1> QED BY <1>7 DEF t

\* When the turn moves while its old holder is still at the table, it skips no
\* contender in the direction of play.
THEOREM TurnGoesRound == Spec => NobodyIsSkipped
<1> DEFINE Fair ==
      gameStarted /\ gameStarted' /\ activePlayer \in DOMAIN players'
        /\ activePlayer' # activePlayer
      => ~\E i \in InPlay(players') : SitsBetween(activePlayer, i, activePlayer')
<1>1. TypeOK /\ DecksBeforeDeals /\ [Next]_vars => [Fair]_vars
  <2> SUFFICES ASSUME TypeOK, DecksBeforeDeals, Next, gameStarted, gameStarted',
                      activePlayer \in DOMAIN players', activePlayer' # activePlayer,
                      NEW k \in InPlay(players')
               PROVE  ~SitsBetween(activePlayer, k, activePlayer')
    BY DEF vars, matchVars
  <2> USE DEF tableVars, matchVars, closingVars
  <2>1. ASSUME Table(players', nextPlayerId), NextTurn(players')
        PROVE  ~SitsBetween(activePlayer, k, activePlayer')
    <3>1. /\ InPlay(players') # {}
          /\ activePlayer' = TurnAfter(players', activePlayer, turnOrderReversed)
      BY <2>1 DEF NextTurn
    <3> DEFINE ps == players'
    <3> HIDE DEF ps
    <3>2. /\ Table(ps, nextPlayerId) /\ InPlay(ps) # {} /\ activePlayer \in DOMAIN ps
          /\ k \in InPlay(ps)
          /\ TurnAfter(ps, activePlayer, turnOrderReversed) # activePlayer
      BY <2>1, <3>1 DEF ps
    <3>3. ~SitsBetween(activePlayer, k, TurnAfter(ps, activePlayer, turnOrderReversed))
      BY <3>2, TurnSkipsNobody
    <3> QED BY <3>1, <3>3 DEF ps
  <2>2. ASSUME NEW i \in DOMAIN players, RemovePlayer(i) PROVE FALSE
    <3>1. activePlayer = i
      BY <2>2 DEF RemovePlayer, PassTurnFrom
    <3> QED BY <2>2, <3>1, RemovePlayerBadges
  <2>3. CASE \E i \in Id : Concede(i)
    <3>1. PICK i \in Id : Concede(i)
      BY <2>3
    <3> DEFINE out == [players EXCEPT ![i].conceded = TRUE, ![i].zones = FALSE]
    <3>2. nextPlayerId \in Nat /\ Table(out, nextPlayerId)
      BY TypeTable DEF Table, Player
    <3>3. Table(StopIfFinished(out), nextPlayerId)
      <4> HIDE DEF out
      <4> QED BY <3>2, ClearedTable
    <3>4. players' = StopIfFinished(out) /\ NextTurn(StopIfFinished(out))
      BY <3>1 DEF Concede, PassTurnFrom
    <3> HIDE DEF out
    <3> QED BY <2>1, <3>3, <3>4
  <2>4. CASE \E i \in Id : CmdNextTurn(i)
    <3>1. players' = players /\ NextTurn(players) /\ Table(players, nextPlayerId)
      BY <2>4, TypeTable DEF CmdNextTurn
    <3> QED BY <2>1, <3>1
  <2>5. CASE \E i \in Id : Leave(i) \/ (\E j \in Id : Kick(j, i))
    BY <2>2, <2>5 DEF Leave, Kick, Acts
  <2>6. CASE \E i \in Id : DeckSelect(i) \/ ReadyStart(i) \/ UnreadyStart(i)
                           \/ Unconcede(i) \/ ReverseTurn(i)
    BY <2>6 DEF DeckSelect, ReadyStart, UnreadyStart, Unconcede, ReverseTurn
  <2>7. CASE StartGame
    <3>1. Seats(players) # {}
      <4>1. Cardinality({}) = 0
        BY FS_EmptySet
      <4> QED BY <2>7, <4>1, SizesAssumption DEF StartGame, StartConditions, PlayerCount
    <3> QED BY <2>7, <3>1
            DEF StartGame, StartConditions, EverybodyReady, DecksBeforeDeals
  <2>8. CASE IgnoreStart \/ PingClockTimeout \/ Destroy
    BY <2>8 DEF IgnoreStart, PingClockTimeout, Destroy
  <2>9. ASSUME NEW u \in User, SessionStep(u) PROVE FALSE
    BY <2>2, <2>9
    DEF SessionStep, Join, Disconnect, DisconnectSeatless, DisconnectKept,
        DisconnectRemoved, Login, Rejoin
  <2> QED BY <2>3, <2>4, <2>5, <2>6, <2>7, <2>8, <2>9 DEF Next, Command, DoStartGameIfReady
<1> QED BY <1>1, TypeCorrect, DecksAreThere, PTL DEF Spec, NobodyIsSkipped

=============================================================================
