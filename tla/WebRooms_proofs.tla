--------------------------- MODULE WebRooms_proofs ---------------------------
(***************************************************************************)
(* For any browser and desktop users, games and messages, any length of the *)
(* history and of the queues: what a browser client will show of a room and *)
(* of the server's users agrees with the server.                            *)
(***************************************************************************)
EXTENDS WebRooms, LeastElements_proofs, SequenceTheorems

-----------------------------------------------------------------------------
(* Types.                                                                   *)

Lists == [users : SUBSET User, games : SUBSET Game, said : Seq(Chat)]

Update == [game : Game, closed : BOOLEAN]

Shown == {"absent", "open", "closed"}

Msg ==
  [type : {"joinRoom", "leaveRoom", "userJoined", "userLeft"}, arg : User]
    \cup [type : {"left"}, arg : Web]
    \cup [type : {"roomInfo"}, arg : Lists]
    \cup [type : {"listGames"}, arg : Update]
    \cup [type : {"roomSay"}, arg : Chat]
    \cup [type : {"users"}, arg : SUBSET User]

\* A store, with counters in N.
Store(N) ==
  [loaded : BOOLEAN, joined : BOOLEAN, users : [User -> N], games : [Game -> Shown],
   said : [Chat -> N], lobby : [User -> N]]

Read(v, q) == FoldLeft(Apply, v, q)

\* What a client shows, now and after each message on its way.
Reads(v, q) == {Read(v, SubSeq(q, 1, i)) : i \in 0..Len(q)}

\* TypeOK, with the messages on their way, and stores that may count any far.
TypesInv ==
  /\ online \subseteq User /\ accepts \subseteq Web /\ members \subseteq User
  /\ games \subseteq Game
  /\ fresh \subseteq Game \cup Chat
  /\ history \in Seq(Chat)
  /\ posted \in Seq(Update)
  /\ pc \in [User -> {"offline", "idle", "joining", "inserted", "replying", "leaving", "left",
                      "quitting", "gone", "saying", "listing"}]
  /\ doing \in [User -> Lists]
  /\ queue \in [Web -> Seq(Msg)]
  /\ view \in [Web -> Store(Nat)]

\* No client counts further than three, whatever it has read.
BoundsInv == \A w \in Web : Reads(view[w], queue[w]) \subseteq Store(0..3)

-----------------------------------------------------------------------------
(* The sessions.                                                            *)

Coming == {"joining", "leaving", "quitting"}

\* Joined or leaving, as the others have been told.
Announced(u) == u \in members \/ pc[u] \in Coming

\* The command under way agrees with the lists it changes.
PcInv ==
  /\ \A w \in Web : w \in online /\ pc[w] \notin {"offline", "gone", "quitting"}
  /\ \A d \in Desk : /\ pc[d] \notin {"inserted", "replying", "left", "listing"}
                     /\ pc[d] = "offline" <=> d \notin online
  /\ \A u \in User :
       /\ pc[u] \in {"inserted", "replying", "saying"} => u \in members
       /\ pc[u] \in Coming \cup {"left", "gone", "offline"} => u \notin members
  /\ \A w \in Web : pc[w] = "listing" => w \in accepts
  /\ \A v, w \in Web : pc[v] # "idle" /\ pc[w] # "idle" => v = w

-----------------------------------------------------------------------------
(* The server's users.                                                      *)

LobbyInv ==
  /\ LobbyRight
  /\ \A w \in Web : pc[w] = "listing" =>
       \A u \in User \ missedLobby[w] : u \in doing[w].users <=> u \in online
  /\ \A w \in Web, u \in User :
       /\ Replay(w).lobby[u] <= IF u \in online THEN 2 ELSE 1
       /\ w \notin accepts => Replay(w).lobby[u] = 0

-----------------------------------------------------------------------------
(* The room's users.                                                        *)

UsersInv ==
  /\ \A w \in Web :
       /\ InRoom(w) => /\ Replay(w).loaded
                       /\ \A u \in User \ missed[w] :
                            Replay(w).users[u] = IF Announced(u) THEN 1 ELSE 0
       /\ MakesRoomList(w) =>
            \A u \in User \ (missed[w] \cup {w}) : pc[u] \notin Coming
       /\ pc[w] = "replying" =>
            \A u \in User \ missed[w] : u \in doing[w].users <=> u \in members

\* Why no user is ever listed four times.
CountsInv ==
  \A w \in Web, u \in User :
    /\ ~Replay(w).loaded => Replay(w).users[u] = 0
    /\ w \notin members => Replay(w).users[u] <= 2
    /\ pc[w] \in {"inserted", "replying"} =>
         Replay(w).users[u] <= IF Announced(u) THEN 3 ELSE 2
    /\ InRoom(w) => Replay(w).users[u] <= IF Announced(u) THEN 2 ELSE 1

-----------------------------------------------------------------------------
(* The games.                                                               *)

PostedOf(g) == {i \in DOMAIN posted : posted[i].game = g}

\* A list on which the announcements on their way will have put right what it
\* says of game g.
SoonRight(g, open) ==
  \/ PostedOf(g) # {}
  \/ open <=> g \in games

GamesInv ==
  /\ \A i \in DOMAIN posted :
       (\A j \in DOMAIN posted : j > i => posted[j].game # posted[i].game)
         => (posted[i].closed <=> posted[i].game \notin games)
  /\ \A w \in Web : InRoom(w) =>
       \A g \in Game : SoonRight(g, Replay(w).games[g] = "open")
  /\ \A w \in Web : pc[w] = "replying" =>
       \A g \in Game : SoonRight(g, g \in doing[w].games)

-----------------------------------------------------------------------------
(* Messages.                                                                *)

Says(u, m) == pc[u] = "saying" /\ doing[u].said = <<m>>

SaidInv ==
  /\ IsInjective(history) /\ ToSet(history) \cap fresh = {}
  /\ \A u \in User : pc[u] = "saying" =>
       \E m \in Chat \ (fresh \cup ToSet(history)) : doing[u].said = <<m>>
  /\ \A u, v \in User, m \in Chat : Says(u, m) /\ Says(v, m) => u = v
  /\ \A w \in Web : MakesRoomList(w) =>
       \A u \in User, m \in Chat : Says(u, m) => m \in missed[w]
  /\ \A w \in Web : pc[w] = "replying" => doing[w].said = history

HeardInv ==
  \A w \in Web, m \in Chat :
    /\ m \in fresh => Replay(w).said[m] = 0
    /\ Replay(w).said[m] <= 2
    /\ w \notin members /\ pc[w] \notin {"leaving", "left"} => Replay(w).said[m] = 0
    /\ pc[w] \in {"inserted", "replying"} =>
         Replay(w).said[m] <= 1 /\ (m \notin missed[w] => Replay(w).said[m] = 0)
    /\ InRoom(w) /\ m \notin missed[w] =>
         /\ Replay(w).said[m] <= 1
         /\ m \in ToSet(history) \/ (\E u \in User : Says(u, m)) => Replay(w).said[m] = 1

RoomInv ==
  /\ TypesInv /\ BoundsInv /\ PcInv /\ LobbyInv /\ UsersInv /\ CountsInv
  /\ GamesInv /\ SaidInv /\ HeardInv

-----------------------------------------------------------------------------
(* Folding a list from the left.                                            *)

\* The greatest of some numbers of 1..n.
LEMMA MaxOf ==
  ASSUME NEW n \in Nat, NEW S \in SUBSET (1..n), S # {}
  PROVE  Max(S) \in S /\ \A y \in S : Max(S) >= y
<1> DEFINE Gaps == {n - x : x \in S}
<1>1. Gaps \in SUBSET Nat /\ Gaps # {}
  <2>1. \A x \in 1..n : n - x \in Nat
    OBVIOUS
  <2> QED BY <2>1
<1>2. PICK g \in Gaps : \A h \in Gaps : g <= h
  <2> HIDE DEF Gaps
  <2> QED BY <1>1, LeastExists
<1>3. PICK x \in S : g = n - x
  OBVIOUS
<1>4. ASSUME NEW y \in S PROVE x >= y
  <2>1. n - x <= n - y
    BY <1>2, <1>3
  <2> QED BY <2>1
<1> QED BY <1>4 DEF Max

LEMMA MaxOfInterval ==
  ASSUME NEW k \in Nat, NEW s \in SUBSET (1..(k + 1)), k + 1 \in s
  PROVE  Max(s) = k + 1
<1>1. Max(s) \in s /\ \A y \in s : Max(s) >= y
  <2>1. k + 1 \in Nat /\ s # {}
    OBVIOUS
  <2> QED BY ONLY <2>1, s \in SUBSET (1..(k + 1)), MaxOf
<1>2. Max(s) \in 1..(k + 1) /\ Max(s) >= k + 1
  BY <1>1
<1> QED BY <1>2

\* FoldLeft is a fold over the set of the list's indexes that takes the
\* greatest index away: there is a function that does so, for every step.
SetFold(r, V, v, n, step) ==
  /\ r \in [SUBSET (1..n) -> V]
  /\ \A s \in SUBSET (1..n) :
       r[s] = IF s = {} THEN v ELSE step[<<r[s \ {Max(s)}], Max(s)>>]

LEMMA FoldExists ==
  ASSUME NEW V, NEW v \in V, NEW n \in Nat, NEW step \in [V \X (1..n) -> V]
  PROVE  \E r : SetFold(r, V, v, n, step)
<1> DEFINE Folds(r, k) == SetFold(r, V, v, k, step)
           T == {k \in 0..n : \E r : Folds(r, k)}
<1> USE DEF SetFold
<1>1. 0 \in T
  <2> DEFINE r == [s \in {{}} |-> v]
  <2>1. 1..0 = {}
    OBVIOUS
  <2>2. Folds(r, 0)
    BY <2>1
  <2>3. \E f : Folds(f, 0)
    BY <2>2
  <2> HIDE DEF Folds
  <2> QED BY <2>3
<1>2. ASSUME NEW k \in 0..(n - 1), k \in T
      PROVE  k + 1 \in T
  <2>1. PICK g : Folds(g, k)
    BY <1>2
  <2> DEFINE Below(s) == s \ {k + 1}
             r == [s \in SUBSET (1..(k + 1)) |->
                     IF k + 1 \in s THEN step[<<g[Below(s)], k + 1>>] ELSE g[s]]
  <2>2. ASSUME NEW s \in SUBSET (1..(k + 1))
        PROVE  Below(s) \in SUBSET (1..k) /\ k + 1 \in 1..n
    OBVIOUS
  <2>3. r \in [SUBSET (1..(k + 1)) -> V]
    <3> SUFFICES ASSUME NEW s \in SUBSET (1..(k + 1)) PROVE r[s] \in V
      OBVIOUS
    <3>1. g[Below(s)] \in V
      BY <2>1, <2>2
    <3>2. CASE k + 1 \in s
      BY <3>1, <3>2, <2>2
    <3>3. CASE k + 1 \notin s
      <4>1. s = Below(s)
        BY <3>3
      <4> QED BY <3>1, <3>3, <4>1
    <3> QED BY <3>2, <3>3
  <2>4. ASSUME NEW s \in SUBSET (1..(k + 1)), s # {}
        PROVE  r[s] = step[<<r[s \ {Max(s)}], Max(s)>>]
    <3>1. CASE k + 1 \in s
      <4>1. Max(s) = k + 1
        BY <3>1, MaxOfInterval
      <4>2. r[Below(s)] = g[Below(s)]
        BY <2>2
      <4> QED BY <3>1, <4>1, <4>2
    <3>2. CASE k + 1 \notin s
      <4>1. s \in SUBSET (1..k)
        BY <3>2, <2>2
      <4>2. s \ {Max(s)} \in SUBSET (1..k) /\ k + 1 \notin s \ {Max(s)}
        BY <3>2, <4>1
      <4>3. r[s] = g[s] /\ r[s \ {Max(s)}] = g[s \ {Max(s)}]
        BY <3>2, <4>2, <4>1
      <4> QED BY <2>1, <2>4, <4>1, <4>3
    <3> QED BY <3>1, <3>2
  <2>5. r[{}] = v
    BY <2>1
  <2> HIDE DEF r
  <2>6. Folds(r, k + 1)
    BY <2>3, <2>4, <2>5
  <2>7. \E f : Folds(f, k + 1)
    BY <2>6
  <2> HIDE DEF Folds
  <2> QED BY <2>7
<1>3. n \in T
  <2> HIDE DEF T
  <2>1. 0..n \subseteq T
    BY <1>1, <1>2, BoundedInduction
  <2> QED BY <2>1
<1> HIDE DEF SetFold
<1> QED BY <1>3

\* Two runs of the same steps from the same value agree.
Follows(r, step, n) == \A i \in 0..(n - 1) : r[i + 1] = step[<<r[i], i + 1>>]

LEMMA RunsAgree ==
  ASSUME NEW n \in Nat, NEW step, NEW r, NEW s, r[0] = s[0],
         Follows(r, step, n), Follows(s, step, n)
  PROVE  \A i \in 0..n : r[i] = s[i]
<1> DEFINE T == {i \in 0..n : r[i] = s[i]}
<1>1. 0 \in T
  OBVIOUS
<1>3. ASSUME NEW i \in 0..(n - 1), i \in T PROVE i + 1 \in T
  <2>1. i + 1 \in 0..n
    OBVIOUS
  <2> QED BY <1>3, <2>1 DEF Follows
<1>2. 0..n \subseteq T
  <2> HIDE DEF T
  <2> QED BY <1>1, <1>3, BoundedInduction
<1> QED BY <1>2

\* A fold over sets of indexes that follows the steps as long as it stays in V
\* stays there, read along the intervals 1..i.
FoldsWithin(f, V, v, n, step) ==
  /\ f[{}] = v
  /\ \A s \in SUBSET (1..n) :
       s # {} /\ f[s \ {Max(s)}] \in V => f[s] = step[<<f[s \ {Max(s)}], Max(s)>>]

RunOf(f, r, V, v, n, step) ==
  r \in [0..n -> V] /\ r[0] = v /\ r[n] = f[1..n] /\ Follows(r, step, n)

LEMMA FoldIsRun ==
  ASSUME NEW V, NEW v \in V, NEW n \in Nat, NEW step \in [V \X (1..n) -> V], NEW f,
         FoldsWithin(f, V, v, n, step)
  PROVE  \E r : RunOf(f, r, V, v, n, step)
<1> USE DEF FoldsWithin
<1> DEFINE T == {j \in 0..n : f[1..j] \in V}
           r == [i \in 0..n |-> f[1..i]]
<1>1. 1..0 = {} /\ f[1..0] = v
  OBVIOUS
<1>2. ASSUME NEW i \in 0..(n - 1), f[1..i] \in V
      PROVE  f[1..(i + 1)] = step[<<f[1..i], i + 1>>]
  <2>1. i \in Nat /\ 1..(i + 1) \in SUBSET (1..n) /\ i + 1 \in 1..(i + 1)
    OBVIOUS
  <2>2. Max(1..(i + 1)) = i + 1
    BY <2>1, MaxOfInterval
  <2>3. (1..(i + 1)) \ {i + 1} = 1..i
    OBVIOUS
  <2> QED BY <1>2, <2>1, <2>2, <2>3
<1>3. 0..n \subseteq T
  <2>1. 0 \in T
    BY <1>1
  <2>2. ASSUME NEW j \in 0..(n - 1), j \in T PROVE j + 1 \in T
    <3>1. j + 1 \in 0..n /\ j + 1 \in 1..n
      OBVIOUS
    <3> QED BY <1>2, <2>2, <3>1
  <2> HIDE DEF T
  <2> QED BY <2>1, <2>2, BoundedInduction
<1>4. r \in [0..n -> V] /\ r[0] = v /\ r[n] = f[1..n]
  BY <1>1, <1>3
<1>5. ASSUME NEW i \in 0..(n - 1) PROVE r[i + 1] = step[<<r[i], i + 1>>]
  <2>1. i \in 0..n /\ i + 1 \in 0..n
    OBVIOUS
  <2> QED BY <1>2, <1>3, <2>1
<1> HIDE DEF r
<1>6. Follows(r, step, n)
  BY <1>5 DEF Follows
<1> QED BY <1>4, <1>6 DEF RunOf

-----------------------------------------------------------------------------
(* One message.                                                             *)

LEMMA MsgKinds ==
  ASSUME NEW m \in Msg
  PROVE  /\ m.type \in {"joinRoom", "leaveRoom", "userJoined", "userLeft"} => m.arg \in User
         /\ m.type = "left" => m.arg \in Web
         /\ m.type = "roomInfo" => m.arg \in Lists
         /\ m.type = "listGames" => m.arg \in Update
         /\ m.type = "roomSay" => m.arg \in Chat
         /\ m.type = "users" => m.arg \in SUBSET User
         /\ m.type \in {"joinRoom", "leaveRoom", "userJoined", "userLeft", "left", "roomInfo",
                        "listGames", "roomSay", "users"}
<1>1. CASE m \in [type : {"joinRoom", "leaveRoom", "userJoined", "userLeft"}, arg : User]
  BY <1>1
<1>2. CASE m \in [type : {"left"}, arg : Web]
  BY <1>2
<1>3. CASE m \in [type : {"roomInfo"}, arg : Lists]
  BY <1>3
<1>4. CASE m \in [type : {"listGames"}, arg : Update]
  BY <1>4
<1>5. CASE m \in [type : {"roomSay"}, arg : Chat]
  BY <1>5
<1>6. CASE m \in [type : {"users"}, arg : SUBSET User]
  BY <1>6
<1> QED BY <1>1, <1>2, <1>3, <1>4, <1>5, <1>6 DEF Msg

\* What each kind of message does to a store.
LEMMA AppliedUsers ==
  ASSUME NEW v, NEW m \in Msg
  PROVE  /\ m.type = "joinRoom" =>
              Apply(v, m) = IF v.loaded THEN [v EXCEPT !.users[m.arg] = @ + 1] ELSE v
         /\ m.type = "leaveRoom" =>
              Apply(v, m) = IF v.loaded THEN [v EXCEPT !.users[m.arg] = 0] ELSE v
         /\ m.type = "userJoined" => Apply(v, m) = [v EXCEPT !.lobby[m.arg] = @ + 1]
         /\ m.type = "userLeft" => Apply(v, m) = [v EXCEPT !.lobby[m.arg] = 0]
         /\ m.type = "users" =>
              Apply(v, m) = [v EXCEPT !.lobby = [u \in User |-> IF u \in m.arg THEN 1 ELSE 0]]
BY DEF Apply

LEMMA AppliedRoom ==
  ASSUME NEW v, NEW m \in Msg
  PROVE  /\ m.type = "roomInfo" => Apply(v, m) = JoinRoom(v, m.arg)
         /\ m.type = "left" =>
              Apply(v, m) = [v EXCEPT !.joined = FALSE, !.said = [c \in Chat |-> 0]]
         /\ m.type = "listGames" =>
              Apply(v, m) = IF v.loaded THEN [v EXCEPT !.games = UpdateGames(@, m.arg)] ELSE v
         /\ m.type = "roomSay" => Apply(v, m) = [v EXCEPT !.said[m.arg] = @ + 1]
BY DEF Apply

LEMMA UpdateGamesType ==
  ASSUME NEW list \in [Game -> Shown], NEW update \in Update
  PROVE  UpdateGames(list, update) \in [Game -> Shown]
BY DEF UpdateGames, Update, Shown

LEMMA ApplyType ==
  ASSUME NEW v \in Store(Nat), NEW m \in Msg
  PROVE  Apply(v, m) \in Store(Nat)
<1> USE MsgKinds DEF Store
<1>1. CASE m.type \in {"joinRoom", "leaveRoom", "userJoined", "userLeft", "users"}
  BY <1>1, AppliedUsers
<1>2. CASE m.type = "roomInfo"
  <2>1. Apply(v, m) = [v EXCEPT !.loaded = TRUE, !.joined = TRUE,
                         !.users = [u \in User |-> IF u \in m.arg.users THEN 1 ELSE 0],
                         !.games = [g \in Game |-> IF g \in m.arg.games THEN "open" ELSE "absent"]]
    <3>1. Apply(v, m) = JoinRoom(v, m.arg)
      BY <1>2, AppliedRoom
    <3> QED BY ONLY <3>1, Zenon DEF JoinRoom
  <2>2. [u \in User |-> IF u \in m.arg.users THEN 1 ELSE 0] \in [User -> Nat]
    OBVIOUS
  <2>3. [g \in Game |-> IF g \in m.arg.games THEN "open" ELSE "absent"] \in [Game -> Shown]
    BY DEF Shown
  <2> QED BY <2>1, <2>2, <2>3
<1>3. CASE m.type = "left"
  <2>1. Apply(v, m) = [v EXCEPT !.joined = FALSE, !.said = [c \in Chat |-> 0]]
    BY <1>3, AppliedRoom
  <2>2. [c \in Chat |-> 0] \in [Chat -> Nat]
    OBVIOUS
  <2> QED BY <2>1, <2>2
<1>5. CASE m.type = "roomSay"
  <2>1. Apply(v, m) = [v EXCEPT !.said[m.arg] = @ + 1]
    BY <1>5, AppliedRoom
  <2> QED BY <1>5, <2>1
<1>4. CASE m.type = "listGames"
  <2>1. UpdateGames(v.games, m.arg) \in [Game -> Shown]
    BY <1>4, UpdateGamesType
  <2>2. Apply(v, m) = IF v.loaded THEN [v EXCEPT !.games = UpdateGames(v.games, m.arg)] ELSE v
    BY <1>4, AppliedRoom
  <2> QED BY <2>1, <2>2
<1> QED BY <1>1, <1>2, <1>3, <1>4, <1>5

-----------------------------------------------------------------------------
(* Reading a list of messages.                                              *)

\* Reading q from v passes through stores, one message at a time.
ReadRun(v, q, r) ==
  /\ r \in [0..Len(q) -> Store(Nat)]
  /\ r[0] = v
  /\ \A i \in 0..(Len(q) - 1) : r[i + 1] = Apply(r[i], q[i + 1])

LEMMA ReadRuns ==
  ASSUME NEW v \in Store(Nat), NEW q \in Seq(Msg)
  PROVE  \E r : ReadRun(v, q, r) /\ Read(v, q) = r[Len(q)]
<1> DEFINE n == Len(q)
           step == [p \in Store(Nat) \X (1..n) |-> Apply(p[1], q[p[2]])]
           Eqn(f) == f = [s \in SUBSET (DOMAIN q) |->
                            IF s = {} THEN v ELSE Apply(f[s \ {Max(s)}], q[Max(s)])]
           Fold == CHOOSE f : Eqn(f)
<1>1. n \in Nat /\ DOMAIN q = 1..n /\ \A i \in 1..n : q[i] \in Msg
  OBVIOUS
<1>2. step \in [Store(Nat) \X (1..n) -> Store(Nat)]
  BY <1>1, ApplyType
<1>3. ASSUME NEW x \in Store(Nat), NEW i \in 1..n PROVE step[<<x, i>>] = Apply(x, q[i])
  OBVIOUS
<1> HIDE DEF n, step
<1>4. \E f : Eqn(f)
  <2>1. PICK f : SetFold(f, Store(Nat), v, n, step)
    <3>1. n \in Nat
      BY <1>1
    <3> QED BY ONLY v \in Store(Nat), <3>1, <1>2, FoldExists
  <2>2. ASSUME NEW s \in SUBSET (1..n), s # {}
        PROVE  f[s] = Apply(f[s \ {Max(s)}], q[Max(s)])
    <3>1. Max(s) \in 1..n
      BY <1>1, <2>2, MaxOf
    <3>2. f[s \ {Max(s)}] \in Store(Nat)
      BY <2>1 DEF SetFold
    <3> QED BY <2>1, <2>2, <3>1, <3>2, <1>3 DEF SetFold
  <2>3. Eqn(f)
    BY <1>1, <2>1, <2>2 DEF SetFold
  <2> QED BY <2>3
<1>5. Eqn(Fold)
  <2> HIDE DEF Eqn
  <2> QED BY <1>4
<1>6. Read(v, q) = Fold[1..n]
  <2>1. Read(v, q) = Fold[DOMAIN q]
    BY DEF Read, FoldLeft, MapThenFoldSet
  <2> QED BY <2>1, <1>1
<1> HIDE DEF Fold
<1>7. PICK r : RunOf(Fold, r, Store(Nat), v, n, step)
  <2>1. Fold[{}] = v
    BY <1>5
  <2>2. ASSUME NEW s \in SUBSET (1..n), s # {}, Fold[s \ {Max(s)}] \in Store(Nat)
        PROVE  Fold[s] = step[<<Fold[s \ {Max(s)}], Max(s)>>]
    <3>1. Max(s) \in 1..n
      BY <1>1, <2>2, MaxOf
    <3>2. Fold[s] = Apply(Fold[s \ {Max(s)}], q[Max(s)])
      BY <1>1, <1>5, <2>2
    <3> QED BY <1>3, <2>2, <3>1, <3>2
  <2>3. n \in Nat
    BY <1>1
  <2>4. FoldsWithin(Fold, Store(Nat), v, n, step)
    BY <2>1, <2>2 DEF FoldsWithin
  <2> QED BY ONLY v \in Store(Nat), <1>2, <2>3, <2>4, FoldIsRun
<1>8. ASSUME NEW i \in 0..(n - 1) PROVE r[i + 1] = Apply(r[i], q[i + 1])
  <2>1. i \in 0..n /\ i + 1 \in 1..n
    BY <1>1
  <2>2. r[i] \in Store(Nat)
    BY <1>7, <2>1 DEF RunOf
  <2> QED BY <1>3, <1>7, <2>1, <2>2 DEF RunOf, Follows
<1>9. ReadRun(v, q, r)
  BY <1>7, <1>8 DEF ReadRun, RunOf, n
<1> QED BY <1>6, <1>7, <1>9 DEF n, RunOf

\* The run is unique: it is what reading any beginning of the list gives.
LEMMA ReadPrefixes ==
  ASSUME NEW v \in Store(Nat), NEW q \in Seq(Msg), NEW r, ReadRun(v, q, r)
  PROVE  \A i \in 0..Len(q) : Read(v, SubSeq(q, 1, i)) = r[i]
<1> SUFFICES ASSUME NEW i \in 0..Len(q) PROVE Read(v, SubSeq(q, 1, i)) = r[i]
  OBVIOUS
<1> DEFINE p == SubSeq(q, 1, i)
           step == [x \in Store(Nat) \X (1..i) |-> Apply(x[1], q[x[2]])]
<1>1. p \in Seq(Msg) /\ Len(p) = i /\ i \in Nat /\ \A j \in 1..i : p[j] = q[j]
  OBVIOUS
<1>2. PICK s : ReadRun(v, p, s) /\ Read(v, p) = s[Len(p)]
  <2> HIDE DEF p
  <2> QED BY <1>1, ReadRuns
<1>3. ASSUME NEW j \in 0..(i - 1)
      PROVE  /\ r[j + 1] = step[<<r[j], j + 1>>]
             /\ s[j + 1] = step[<<s[j], j + 1>>]
  <2>1. j + 1 \in 1..i /\ j \in 0..(Len(q) - 1) /\ j \in 0..(Len(p) - 1)
        /\ j \in 0..Len(q) /\ j \in 0..Len(p)
    BY <1>1
  <2>2. r[j] \in Store(Nat) /\ s[j] \in Store(Nat)
    BY <1>2, <2>1 DEF ReadRun
  <2>3. r[j + 1] = Apply(r[j], q[j + 1])
    BY <2>1 DEF ReadRun
  <2>4. s[j + 1] = Apply(s[j], p[j + 1])
    BY <1>2, <2>1 DEF ReadRun
  <2>5. p[j + 1] = q[j + 1]
    BY <1>1, <2>1
  <2> HIDE DEF p
  <2> QED BY <2>1, <2>2, <2>3, <2>4, <2>5
<1>4. r[0] = s[0]
  BY <1>2 DEF ReadRun
<1> HIDE DEF p, step
<1>5. r[i] = s[i]
  <2>1. i \in Nat /\ i \in 0..i
    BY <1>1
  <2>2. \A j \in 0..i : r[j] = s[j]
    <3>1. Follows(r, step, i) /\ Follows(s, step, i)
      BY <1>3 DEF Follows
    <3> QED BY ONLY <2>1, <1>4, <3>1, RunsAgree
  <2> QED BY <2>1, <2>2
<1> QED BY <1>1, <1>2, <1>5 DEF p

\* The list read one message at a time.
LEMMA ReadSteps ==
  ASSUME NEW v \in Store(Nat), NEW q \in Seq(Msg)
  PROVE  /\ Read(v, q) = Read(v, SubSeq(q, 1, Len(q))) /\ Read(v, q) \in Store(Nat)
         /\ Read(v, SubSeq(q, 1, 0)) = v
         /\ \A i \in 0..(Len(q) - 1) :
              Read(v, SubSeq(q, 1, i + 1)) = Apply(Read(v, SubSeq(q, 1, i)), q[i + 1])
<1>1. PICK r : ReadRun(v, q, r) /\ Read(v, q) = r[Len(q)]
  BY ReadRuns
<1>2. \A i \in 0..Len(q) : Read(v, SubSeq(q, 1, i)) = r[i]
  BY <1>1, ReadPrefixes
<1>3. Len(q) \in 0..Len(q) /\ 0 \in 0..Len(q)
  BY LenProperties
<1>4. ASSUME NEW i \in 0..(Len(q) - 1) PROVE i \in 0..Len(q) /\ i + 1 \in 0..Len(q)
  BY LenProperties
<1> QED BY <1>1, <1>2, <1>3, <1>4 DEF ReadRun

\* Sending: the new message is read last.
LEMMA ReadAppend ==
  ASSUME NEW v \in Store(Nat), NEW q \in Seq(Msg), NEW m \in Msg
  PROVE  /\ Append(q, m) \in Seq(Msg)
         /\ Read(v, Append(q, m)) = Apply(Read(v, q), m)
         /\ Reads(v, Append(q, m)) = Reads(v, q) \cup {Apply(Read(v, q), m)}
<1> DEFINE a == Append(q, m)
           n == Len(q)
<1>1. a \in Seq(Msg) /\ Len(a) = n + 1 /\ n \in Nat /\ a[n + 1] = m
  OBVIOUS
<1>2. ASSUME NEW i \in 0..n PROVE SubSeq(a, 1, i) = SubSeq(q, 1, i)
  OBVIOUS
<1> HIDE DEF a
<1>3. n \in 0..n /\ n \in 0..(Len(a) - 1)
  BY <1>1
<1>4. Read(v, SubSeq(a, 1, n + 1)) = Apply(Read(v, SubSeq(a, 1, n)), a[n + 1])
  BY <1>1, <1>3, ReadSteps
<1>5. Read(v, a) = Apply(Read(v, q), m)
  <2>1. Read(v, a) = Read(v, SubSeq(a, 1, n + 1))
    BY <1>1, ReadSteps
  <2>2. Read(v, q) = Read(v, SubSeq(q, 1, n))
    BY ReadSteps
  <2> QED BY <1>1, <1>2, <1>3, <1>4, <2>1, <2>2
<1>6. Reads(v, a) = Reads(v, q) \cup {Read(v, a)}
  <2>1. 0..(n + 1) = (0..n) \cup {n + 1}
    BY <1>1
  <2>2. Reads(v, a) = {Read(v, SubSeq(a, 1, i)) : i \in 0..(n + 1)}
    BY <1>1 DEF Reads
  <2>3. Read(v, SubSeq(a, 1, n + 1)) = Read(v, a)
    BY <1>1, ReadSteps
  <2>4. Reads(v, q) = {Read(v, SubSeq(a, 1, i)) : i \in 0..n}
    BY <1>2 DEF Reads
  <2> HIDE DEF n
  <2> QED BY <2>1, <2>2, <2>3, <2>4
<1> QED BY <1>1, <1>5, <1>6 DEF a

\* Receiving: what will be shown in the end stays the same.
LEMMA ReadTail ==
  ASSUME NEW v \in Store(Nat), NEW q \in Seq(Msg), q # <<>>
  PROVE  /\ Head(q) \in Msg /\ Tail(q) \in Seq(Msg)
         /\ Apply(v, Head(q)) \in Store(Nat)
         /\ Read(Apply(v, Head(q)), Tail(q)) = Read(v, q)
         /\ Reads(Apply(v, Head(q)), Tail(q)) \subseteq Reads(v, q)
<1> DEFINE t == Tail(q)
           n == Len(t)
           x == Apply(v, Head(q))
<1>1. Head(q) \in Msg /\ Head(q) = q[1] /\ t \in Seq(Msg) /\ Len(q) = n + 1 /\ n \in Nat
      /\ \A i \in 1..n : t[i] = q[i + 1]
  OBVIOUS
<1>2. x \in Store(Nat)
  BY <1>1, ApplyType
<1> HIDE DEF t, n, x
<1>3. PICK r : ReadRun(v, q, r) /\ Read(v, q) = r[Len(q)]
  BY ReadRuns
<1> DEFINE s == [i \in 0..n |-> r[i + 1]]
<1>4. ReadRun(x, t, s)
  <2>1. ASSUME NEW i \in 0..n PROVE i + 1 \in 0..Len(q)
    BY <1>1
  <2>2. s \in [0..n -> Store(Nat)]
    BY <1>3, <2>1 DEF ReadRun
  <2>3. s[0] = x
    <3>1. 0 \in 0..n /\ 0 \in 0..(Len(q) - 1)
      BY <1>1
    <3>2. r[0 + 1] = Apply(r[0], q[0 + 1])
      BY <1>3, <3>1 DEF ReadRun
    <3> QED BY <1>1, <1>3, <3>1, <3>2 DEF x, ReadRun
  <2>4. ASSUME NEW i \in 0..(n - 1) PROVE s[i + 1] = Apply(s[i], t[i + 1])
    <3>1. i \in 0..n /\ i + 1 \in 0..n /\ i + 1 \in 1..n /\ i + 1 \in 0..(Len(q) - 1)
      BY <1>1
    <3>2. r[(i + 1) + 1] = Apply(r[i + 1], q[(i + 1) + 1])
      BY <1>3, <3>1 DEF ReadRun
    <3> QED BY <1>1, <3>1, <3>2
  <2> HIDE DEF s
  <2> QED BY <1>1, <2>2, <2>3, <2>4 DEF ReadRun, n
<1>5. ASSUME NEW i \in 0..n
      PROVE  Read(x, SubSeq(t, 1, i)) = Read(v, SubSeq(q, 1, i + 1)) /\ i + 1 \in 0..Len(q)
  <2>1. i + 1 \in 0..Len(q)
    BY <1>1
  <2>2. Read(v, SubSeq(q, 1, i + 1)) = r[i + 1]
    BY <1>3, <2>1, ReadPrefixes
  <2>3. Read(x, SubSeq(t, 1, i)) = s[i]
    <3> HIDE DEF s
    <3> QED BY <1>1, <1>2, <1>4, ReadPrefixes DEF n
  <2> QED BY <2>1, <2>2, <2>3
<1>6. Read(x, t) = Read(v, q)
  <2>1. Read(x, t) = Read(x, SubSeq(t, 1, n))
    BY <1>1, <1>2, ReadSteps DEF n
  <2>2. Read(v, q) = Read(v, SubSeq(q, 1, n + 1))
    BY <1>1, ReadSteps
  <2>3. n \in 0..n
    BY <1>1
  <2> QED BY <1>5, <2>1, <2>2, <2>3
<1>7. Reads(x, t) \subseteq Reads(v, q)
  BY <1>5 DEF Reads, n
<1> QED BY <1>1, <1>2, <1>6, <1>7 DEF t, x

\* Two lists in a row: the second is a run of its own.
ReadOn(v, q, s, r) ==
  /\ ReadRun(Read(v, q), s, r)
  /\ Read(v, q \o s) = r[Len(s)]
  /\ Reads(v, q \o s) \subseteq Reads(v, q) \cup {r[i] : i \in 0..Len(s)}

LEMMA ReadConcat ==
  ASSUME NEW v \in Store(Nat), NEW q \in Seq(Msg), NEW s \in Seq(Msg)
  PROVE  \E r : ReadOn(v, q, s, r)
<1> DEFINE c == q \o s
           n == Len(q)
           k == Len(s)
           r == [i \in 0..k |-> Read(v, SubSeq(c, 1, n + i))]
<1>1. c \in Seq(Msg) /\ Len(c) = n + k /\ n \in Nat /\ k \in Nat
  OBVIOUS
<1>2. ASSUME NEW i \in 0..n PROVE SubSeq(c, 1, i) = SubSeq(q, 1, i)
  <2>1. SubSeq(c, 1, i) \in Seq(Msg) /\ Len(SubSeq(c, 1, i)) = i
    OBVIOUS
  <2> QED BY <2>1
<1>3. ASSUME NEW i \in 1..k PROVE c[n + i] = s[i]
  OBVIOUS
<1> HIDE DEF c
<1>4. ASSUME NEW i \in 0..k PROVE Read(v, SubSeq(c, 1, n + i)) \in Store(Nat)
  <2>1. SubSeq(c, 1, n + i) \in Seq(Msg)
    BY <1>1
  <2> QED BY <2>1, ReadSteps
<1>5. r[0] = Read(v, q)
  <2>1. n \in 0..n /\ 0 \in 0..k /\ n + 0 = n
    BY <1>1
  <2>2. Read(v, q) = Read(v, SubSeq(q, 1, n))
    BY ReadSteps
  <2> QED BY <1>2, <2>1, <2>2
<1>6. ASSUME NEW i \in 0..(k - 1) PROVE r[i + 1] = Apply(r[i], s[i + 1])
  <2>1. i \in 0..k /\ i + 1 \in 0..k /\ i + 1 \in 1..k /\ n + i \in 0..(Len(c) - 1)
        /\ (n + i) + 1 = n + (i + 1)
    BY <1>1
  <2>2. Read(v, SubSeq(c, 1, (n + i) + 1)) = Apply(Read(v, SubSeq(c, 1, n + i)), c[(n + i) + 1])
    BY <1>1, <2>1, ReadSteps
  <2> QED BY <1>3, <2>1, <2>2
<1>7. r \in [0..k -> Store(Nat)]
  BY <1>4
<1>8. Read(v, c) = r[k]
  <2>1. k \in 0..k
    BY <1>1
  <2>2. Read(v, c) = Read(v, SubSeq(c, 1, Len(c)))
    BY <1>1, ReadSteps
  <2> QED BY <1>1, <2>1, <2>2
<1>9. Reads(v, c) \subseteq Reads(v, q) \cup {r[i] : i \in 0..k}
  <2> SUFFICES ASSUME NEW j \in 0..(n + k)
               PROVE  Read(v, SubSeq(c, 1, j)) \in Reads(v, q) \cup {r[i] : i \in 0..k}
    BY <1>1 DEF Reads
  <2>1. CASE j \in 0..n
    BY <1>2, <2>1 DEF Reads
  <2>2. CASE j \notin 0..n
    <3>1. j - n \in 0..k /\ n + (j - n) = j
      BY <1>1, <2>2
    <3>2. r[j - n] = Read(v, SubSeq(c, 1, j))
      BY <3>1
    <3> QED BY <3>1, <3>2
  <2> QED BY <2>1, <2>2
<1> HIDE DEF r
<1>10. ReadRun(Read(v, q), s, r)
  BY <1>5, <1>6, <1>7 DEF ReadRun
<1> QED BY <1>8, <1>9, <1>10 DEF c, ReadOn

\* A history that names no message twice raises the count of each message in it
\* by one, and does nothing else.
Heard(v, h, k) ==
  [v EXCEPT !.said = [m \in Chat |-> IF \E i \in 1..k : h[i] = m THEN v.said[m] + 1 ELSE v.said[m]]]

LEMMA HistoryRun ==
  ASSUME NEW v \in Store(Nat), NEW h \in Seq(Chat), IsInjective(h), NEW r,
         ReadRun(v, [i \in 1..Len(h) |-> Message("roomSay", h[i])], r)
  PROVE  \A k \in 0..Len(h) : r[k] = Heard(v, h, k)
<1> DEFINE n == Len(h)
           s == [i \in 1..n |-> Message("roomSay", h[i])]
           T == {k \in 0..n : r[k] = Heard(v, h, k)}
<1>1. n \in Nat /\ Len(s) = n /\ \A i \in 1..n : h[i] \in Chat
  OBVIOUS
<1>2. \A i, j \in 1..n : h[i] = h[j] => i = j
  BY DEF IsInjective
<1>3. 0 \in T
  <2>1. r[0] = v
    BY DEF ReadRun
  <2>2. [m \in Chat |-> IF \E i \in 1..0 : h[i] = m THEN v.said[m] + 1 ELSE v.said[m]] = v.said
    BY DEF Store
  <2>3. Heard(v, h, 0) = v
    BY <2>2 DEF Heard, Store
  <2> QED BY <1>1, <2>1, <2>3
<1>4. ASSUME NEW k \in 0..(n - 1), k \in T PROVE k + 1 \in T
  <2> DEFINE c == h[k + 1]
             new == [m \in Chat |-> IF \E i \in 1..(k + 1) : h[i] = m
                                    THEN v.said[m] + 1 ELSE v.said[m]]
             old == [m \in Chat |-> IF \E i \in 1..k : h[i] = m
                                    THEN v.said[m] + 1 ELSE v.said[m]]
  <2>1. k + 1 \in 1..n /\ c \in Chat /\ k \in 0..(Len(s) - 1) /\ k + 1 \in 0..n
    BY <1>1
  <2>2. r[k + 1] = Apply(Heard(v, h, k), Message("roomSay", c))
    <3>1. r[k + 1] = Apply(r[k], s[k + 1])
      BY <2>1 DEF ReadRun
    <3> QED BY <3>1, <2>1, <1>4
  <2>3. Apply(Heard(v, h, k), Message("roomSay", c))
          = [Heard(v, h, k) EXCEPT !.said[c] = @ + 1]
    <3> DEFINE msg == Message("roomSay", c)
    <3>1. msg \in Msg /\ msg.type = "roomSay" /\ msg.arg = c
      BY <2>1 DEF Message, Msg
    <3>2. Apply(Heard(v, h, k), msg) = [Heard(v, h, k) EXCEPT !.said[c] = @ + 1]
      <4> HIDE DEF msg, c
      <4> QED BY <3>1, AppliedRoom
    <3> QED BY <3>2
  <2>4. Heard(v, h, k) = [v EXCEPT !.said = old] /\ Heard(v, h, k + 1) = [v EXCEPT !.said = new]
    BY DEF Heard
  <2>5. new = [old EXCEPT ![c] = @ + 1]
    <3>1. ASSUME NEW m \in Chat PROVE new[m] = [old EXCEPT ![c] = @ + 1][m]
      <4>1. CASE m = c
        <5>1. ~\E i \in 1..k : h[i] = m
          BY <1>1, <1>2, <2>1, <4>1
        <5>2. \E i \in 1..(k + 1) : h[i] = m
          BY <2>1, <4>1
        <5> QED BY <2>1, <4>1, <5>1, <5>2
      <4>2. CASE m # c
        <5>1. (\E i \in 1..(k + 1) : h[i] = m) <=> (\E i \in 1..k : h[i] = m)
          BY <1>1, <4>2
        <5> QED BY <4>2, <5>1
      <4> QED BY <4>1, <4>2
    <3> HIDE DEF c
    <3> QED BY <3>1
  <2>6. [[v EXCEPT !.said = old] EXCEPT !.said[c] = @ + 1]
          = [v EXCEPT !.said = [old EXCEPT ![c] = @ + 1]]
    <3> HIDE DEF old, c
    <3> QED BY DEF Store
  <2> HIDE DEF old, new, c
  <2> QED BY <2>1, <2>2, <2>3, <2>4, <2>5, <2>6
<1>5. 0..n \subseteq T
  <2> HIDE DEF T
  <2> QED BY <1>1, <1>3, <1>4, BoundedInduction
<1> QED BY <1>5

-----------------------------------------------------------------------------
(* Reading the announcements of games.                                      *)

Listed(list, p) == FoldLeft(UpdateGames, list, p)

LEMMA ListedRuns ==
  ASSUME NEW list \in [Game -> Shown], NEW p \in Seq(Update)
  PROVE  \E r : /\ r \in [0..Len(p) -> [Game -> Shown]] /\ r[0] = list
                /\ r[Len(p)] = Listed(list, p)
                /\ \A i \in 0..(Len(p) - 1) : r[i + 1] = UpdateGames(r[i], p[i + 1])
<1> DEFINE V == [Game -> Shown]
           n == Len(p)
           step == [x \in V \X (1..n) |-> UpdateGames(x[1], p[x[2]])]
           Eqn(f) == f = [s \in SUBSET (DOMAIN p) |->
                            IF s = {} THEN list ELSE UpdateGames(f[s \ {Max(s)}], p[Max(s)])]
           Fold == CHOOSE f : Eqn(f)
<1>1. n \in Nat /\ DOMAIN p = 1..n /\ \A i \in 1..n : p[i] \in Update
  OBVIOUS
<1> HIDE DEF n
<1>2. step \in [V \X (1..n) -> V]
  BY <1>1, UpdateGamesType
<1>3. ASSUME NEW x \in V, NEW i \in 1..n PROVE step[<<x, i>>] = UpdateGames(x, p[i])
  OBVIOUS
<1>0. list \in V
  OBVIOUS
<1> HIDE DEF step, V
<1>4. \E f : Eqn(f)
  <2>1. PICK f : SetFold(f, V, list, n, step)
    <3>1. n \in Nat
      BY <1>1
    <3> QED BY ONLY <1>0, <3>1, <1>2, FoldExists
  <2>2. ASSUME NEW s \in SUBSET (1..n), s # {}
        PROVE  f[s] = UpdateGames(f[s \ {Max(s)}], p[Max(s)])
    <3>1. Max(s) \in 1..n
      BY <1>1, <2>2, MaxOf
    <3>2. f[s \ {Max(s)}] \in V
      BY <2>1 DEF SetFold
    <3> QED BY <2>1, <2>2, <3>1, <3>2, <1>3 DEF SetFold
  <2>3. Eqn(f)
    BY <1>1, <2>1, <2>2 DEF SetFold
  <2> QED BY <2>3
<1>5. Eqn(Fold)
  <2> HIDE DEF Eqn
  <2> QED BY <1>4
<1>6. Listed(list, p) = Fold[1..n]
  <2>1. Listed(list, p) = Fold[DOMAIN p]
    BY DEF Listed, FoldLeft, MapThenFoldSet
  <2> QED BY <2>1, <1>1
<1> HIDE DEF Fold
<1>7. PICK r : RunOf(Fold, r, V, list, n, step)
  <2>1. Fold[{}] = list
    BY <1>5
  <2>2. ASSUME NEW s \in SUBSET (1..n), s # {}, Fold[s \ {Max(s)}] \in V
        PROVE  Fold[s] = step[<<Fold[s \ {Max(s)}], Max(s)>>]
    <3>1. Max(s) \in 1..n
      BY <1>1, <2>2, MaxOf
    <3>2. Fold[s] = UpdateGames(Fold[s \ {Max(s)}], p[Max(s)])
      BY <1>1, <1>5, <2>2
    <3> QED BY <1>3, <2>2, <3>1, <3>2
  <2>3. n \in Nat
    BY <1>1
  <2>4. FoldsWithin(Fold, V, list, n, step)
    BY <2>1, <2>2 DEF FoldsWithin
  <2> QED BY ONLY <1>0, <1>2, <2>3, <2>4, FoldIsRun
<1>8. ASSUME NEW i \in 0..(n - 1) PROVE r[i + 1] = UpdateGames(r[i], p[i + 1])
  <2>1. i \in 0..n /\ i + 1 \in 1..n
    BY <1>1
  <2>2. r[i] \in V
    BY <1>7, <2>1 DEF RunOf
  <2> QED BY <1>3, <1>7, <2>1, <2>2 DEF RunOf, Follows
<1> QED BY <1>6, <1>7, <1>8 DEF RunOf, n, V

\* What the list says of a game in the end is what the last announcement of it
\* says, or what it said before.
LEMMA LastDecides ==
  ASSUME NEW list \in [Game -> Shown], NEW p \in Seq(Update), NEW g \in Game
  PROVE  /\ (\A i \in DOMAIN p : p[i].game # g) => Listed(list, p)[g] = list[g]
         /\ \A i \in DOMAIN p :
              p[i].game = g /\ (\A j \in DOMAIN p : j > i => p[j].game # g)
                => (Listed(list, p)[g] = "open" <=> ~p[i].closed)
<1> DEFINE n == Len(p)
<1>1. n \in Nat /\ DOMAIN p = 1..n /\ \A i \in 1..n : p[i] \in Update
  OBVIOUS
<1>2. PICK r : /\ r \in [0..n -> [Game -> Shown]] /\ r[0] = list
               /\ r[n] = Listed(list, p)
               /\ \A i \in 0..(n - 1) : r[i + 1] = UpdateGames(r[i], p[i + 1])
  BY ListedRuns
<1> HIDE DEF n
<1> DEFINE ByTheLast(i, k) == p[i].game = g /\ \A j \in 1..k : j > i => p[j].game # g
           Untouched(k) == (\A i \in 1..k : p[i].game # g) => r[k][g] = list[g]
           Decided(k) == \A i \in 1..k : ByTheLast(i, k) => (r[k][g] = "open" <=> ~p[i].closed)
           T == {k \in 0..n : Untouched(k) /\ Decided(k)}
<1>3. 0 \in T
  BY <1>1, <1>2
<1>4. ASSUME NEW k \in 0..(n - 1), k \in T PROVE k + 1 \in T
  <2>1. k \in 0..n /\ k + 1 \in 1..n /\ k + 1 \in 0..n /\ 1..(k + 1) = (1..k) \cup {k + 1}
    BY <1>1
  <2>2. r[k + 1] = UpdateGames(r[k], p[k + 1]) /\ r[k] \in [Game -> Shown] /\ p[k + 1] \in Update
    BY <1>1, <1>2, <2>1
  <2>3. CASE p[k + 1].game # g
    <3>1. r[k + 1][g] = r[k][g]
      BY <2>2, <2>3 DEF UpdateGames
    <3>2. Untouched(k + 1)
      BY <1>4, <2>1, <3>1
    <3>3. ASSUME NEW i \in 1..(k + 1), ByTheLast(i, k + 1)
          PROVE  r[k + 1][g] = "open" <=> ~p[i].closed
      <4>1. i \in 1..k
        BY <2>1, <2>3, <3>3
      <4>2. ByTheLast(i, k)
        BY <2>1, <3>3
      <4> QED BY <1>4, <3>1, <4>1, <4>2
    <3> QED BY <2>1, <3>2, <3>3
  <2>4. CASE p[k + 1].game = g
    <3>1. r[k + 1][g] = "open" <=> ~p[k + 1].closed
      BY <2>2, <2>4 DEF UpdateGames, Update
    <3>2. ASSUME NEW i \in 1..(k + 1), ByTheLast(i, k + 1) PROVE i = k + 1
      <4>1. ~(k + 1 > i)
        BY <2>1, <2>4, <3>2
      <4> QED BY <4>1
    <3> QED BY <2>1, <2>4, <3>1, <3>2
  <2> QED BY <2>3, <2>4
<1>5. n \in T
  <2> HIDE DEF T
  <2>1. 0..n \subseteq T
    BY <1>1, <1>3, <1>4, BoundedInduction
  <2> QED BY <1>1, <2>1
<1> QED BY <1>1, <1>2, <1>5

-----------------------------------------------------------------------------
(* What each message does to what is shown.                                 *)

LEMMA NamedMessages ==
  /\ \A t \in {"joinRoom", "leaveRoom", "userJoined", "userLeft"}, u \in User : Message(t, u) \in Msg
  /\ \A w \in Web : Message("left", w) \in Msg
  /\ \A l \in Lists : Message("roomInfo", l) \in Msg
  /\ \A p \in Update : Message("listGames", p) \in Msg
  /\ \A c \in Chat : Message("roomSay", c) \in Msg
  /\ \A U \in SUBSET User : Message("users", U) \in Msg
  /\ \A t, x : Message(t, x).type = t /\ Message(t, x).arg = x
BY DEF Message, Msg

\* Somebody joins or leaves the room.
LEMMA RoomEntryFields ==
  ASSUME NEW v \in Store(Nat), NEW u \in User, NEW t \in {"joinRoom", "leaveRoom"}
  PROVE  LET a == Apply(v, Message(t, u))
         IN  /\ a.loaded = v.loaded /\ a.games = v.games /\ a.said = v.said /\ a.lobby = v.lobby
             /\ ~v.loaded => a.users = v.users
             /\ v.loaded /\ t = "joinRoom" => a.users = [v.users EXCEPT ![u] = @ + 1]
             /\ v.loaded /\ t = "leaveRoom" => a.users = [v.users EXCEPT ![u] = 0]
<1> DEFINE m == Message(t, u)
<1>1. m \in Msg /\ m.type = t /\ m.arg = u
  BY NamedMessages
<1> HIDE DEF m
<1>2. CASE t = "joinRoom"
  <2>1. Apply(v, m) = IF v.loaded THEN [v EXCEPT !.users[u] = @ + 1] ELSE v
    BY <1>1, <1>2, AppliedUsers
  <2> QED BY <1>1, <1>2, <2>1 DEF Store, m
<1>3. CASE t = "leaveRoom"
  <2>1. Apply(v, m) = IF v.loaded THEN [v EXCEPT !.users[u] = 0] ELSE v
    BY <1>1, <1>3, AppliedUsers
  <2> QED BY <1>1, <1>3, <2>1 DEF Store, m
<1> QED BY <1>2, <1>3 DEF m

\* Somebody comes to the server or leaves it.
LEMMA LobbyEntryFields ==
  ASSUME NEW v \in Store(Nat), NEW u \in User, NEW t \in {"userJoined", "userLeft"}
  PROVE  LET a == Apply(v, Message(t, u))
         IN  /\ a.loaded = v.loaded /\ a.games = v.games /\ a.said = v.said /\ a.users = v.users
             /\ t = "userJoined" => a.lobby = [v.lobby EXCEPT ![u] = @ + 1]
             /\ t = "userLeft" => a.lobby = [v.lobby EXCEPT ![u] = 0]
<1> DEFINE m == Message(t, u)
<1>1. m \in Msg /\ m.type = t /\ m.arg = u
  BY NamedMessages
<1> HIDE DEF m
<1>2. CASE t = "userJoined"
  <2>1. Apply(v, m) = [v EXCEPT !.lobby[u] = @ + 1]
    BY <1>1, <1>2, AppliedUsers
  <2> QED BY <1>1, <1>2, <2>1 DEF Store, m
<1>3. CASE t = "userLeft"
  <2>1. Apply(v, m) = [v EXCEPT !.lobby[u] = 0]
    BY <1>1, <1>3, AppliedUsers
  <2> QED BY <1>1, <1>3, <2>1 DEF Store, m
<1> QED BY <1>2, <1>3 DEF m

LEMMA UsersFields ==
  ASSUME NEW v \in Store(Nat), NEW U \in SUBSET User
  PROVE  LET a == Apply(v, Message("users", U))
         IN  /\ a.loaded = v.loaded /\ a.games = v.games /\ a.said = v.said /\ a.users = v.users
             /\ a.lobby = [u \in User |-> IF u \in U THEN 1 ELSE 0]
<1> DEFINE m == Message("users", U)
<1>1. m \in Msg /\ m.type = "users" /\ m.arg = U
  BY NamedMessages
<1> HIDE DEF m
<1>2. Apply(v, m) = [v EXCEPT !.lobby = [u \in User |-> IF u \in U THEN 1 ELSE 0]]
  BY <1>1, AppliedUsers
<1> QED BY <1>2 DEF m, Store

LEMMA LeftFields ==
  ASSUME NEW v \in Store(Nat), NEW w \in Web
  PROVE  LET a == Apply(v, Message("left", w))
         IN  /\ a.loaded = v.loaded /\ a.games = v.games /\ a.lobby = v.lobby /\ a.users = v.users
             /\ a.said = [c \in Chat |-> 0]
<1> DEFINE m == Message("left", w)
<1>1. m \in Msg /\ m.type = "left"
  BY NamedMessages
<1> HIDE DEF m
<1>2. Apply(v, m) = [v EXCEPT !.joined = FALSE, !.said = [c \in Chat |-> 0]]
  BY <1>1, AppliedRoom
<1> QED BY <1>2 DEF m, Store

LEMMA SaidFields ==
  ASSUME NEW v \in Store(Nat), NEW c \in Chat
  PROVE  LET a == Apply(v, Message("roomSay", c))
         IN  /\ a.loaded = v.loaded /\ a.games = v.games /\ a.lobby = v.lobby /\ a.users = v.users
             /\ a.said = [v.said EXCEPT ![c] = @ + 1]
<1> DEFINE m == Message("roomSay", c)
<1>1. m \in Msg /\ m.type = "roomSay" /\ m.arg = c
  BY NamedMessages
<1> HIDE DEF m
<1>2. Apply(v, m) = [v EXCEPT !.said[c] = @ + 1]
  BY <1>1, AppliedRoom
<1> QED BY <1>2 DEF m, Store

LEMMA GameFields ==
  ASSUME NEW v \in Store(Nat), NEW p \in Update
  PROVE  LET a == Apply(v, Message("listGames", p))
         IN  /\ a.loaded = v.loaded /\ a.said = v.said /\ a.lobby = v.lobby /\ a.users = v.users
             /\ v.loaded => a.games = UpdateGames(v.games, p)
<1> DEFINE m == Message("listGames", p)
<1>1. m \in Msg /\ m.type = "listGames" /\ m.arg = p
  BY NamedMessages
<1> HIDE DEF m
<1>2. Apply(v, m) = IF v.loaded THEN [v EXCEPT !.games = UpdateGames(v.games, p)] ELSE v
  BY <1>1, AppliedRoom
<1> QED BY <1>2 DEF m, Store

LEMMA RoomInfoFields ==
  ASSUME NEW v \in Store(Nat), NEW l \in Lists
  PROVE  LET a == Apply(v, Message("roomInfo", l))
         IN  /\ a.loaded = TRUE /\ a.said = v.said /\ a.lobby = v.lobby
             /\ a.users = [u \in User |-> IF u \in l.users THEN 1 ELSE 0]
             /\ a.games = [g \in Game |-> IF g \in l.games THEN "open" ELSE "absent"]
<1> DEFINE m == Message("roomInfo", l)
           us == [u \in User |-> IF u \in l.users THEN 1 ELSE 0]
           gs == [g \in Game |-> IF g \in l.games THEN "open" ELSE "absent"]
<1>1. m \in Msg /\ m.type = "roomInfo" /\ m.arg = l
  BY NamedMessages
<1>2. Apply(v, m) = JoinRoom(v, l)
  <2> HIDE DEF m
  <2> QED BY <1>1, AppliedRoom
<1>3. JoinRoom(v, l) = [v EXCEPT !.loaded = TRUE, !.joined = TRUE, !.users = us, !.games = gs]
  BY Zenon DEF JoinRoom
<1> HIDE DEF us, gs, m
<1>4. [v EXCEPT !.loaded = TRUE, !.joined = TRUE, !.users = us, !.games = gs].lobby = v.lobby
  BY DEF Store
<1>5. LET a == Apply(v, m)
      IN  a.loaded = TRUE /\ a.said = v.said /\ a.lobby = v.lobby /\ a.users = us /\ a.games = gs
  BY <1>2, <1>3 DEF Store
<1> QED BY <1>5 DEF m, us, gs

-----------------------------------------------------------------------------
(* What a step does to what a client will show.                             *)

LEMMA ReplayIsRead == \A w : Replay(w) = Read(view[w], queue[w])
BY DEF Replay, Read

LEMMA ReplayType ==
  ASSUME TypesInv, NEW w \in Web
  PROVE  /\ Replay(w) \in Store(Nat)
         /\ view[w] \in Store(Nat) /\ queue[w] \in Seq(Msg)
<1>1. view[w] \in Store(Nat) /\ queue[w] \in Seq(Msg)
  BY DEF TypesInv
<1> QED BY <1>1, ReplayIsRead, ReadSteps

\* Nothing is read in between but what was on its way and what is read last.
NewReads(w) ==
  /\ Replay(w)' \in Store(Nat)
  /\ Reads(view'[w], queue'[w]) \subseteq Reads(view[w], queue[w]) \cup {Replay(w)'}

LEMMA NothingSent ==
  ASSUME TypesInv, NEW w \in Web, view'[w] = view[w], queue'[w] = queue[w]
  PROVE  Replay(w)' = Replay(w) /\ NewReads(w)
<1>1. Replay(w)' = Replay(w)
  BY DEF Replay
<1>2. Replay(w) \in Store(Nat)
  BY ReplayType
<1> QED BY <1>1, <1>2 DEF NewReads

LEMMA OneSent ==
  ASSUME TypesInv, NEW w \in Web, NEW m \in Msg,
         view'[w] = view[w], queue'[w] = Append(queue[w], m)
  PROVE  Replay(w)' = Apply(Replay(w), m) /\ NewReads(w)
<1>1. view[w] \in Store(Nat) /\ queue[w] \in Seq(Msg) /\ Replay(w) \in Store(Nat)
  BY ReplayType
<1>2. Replay(w)' = Read(view[w], Append(queue[w], m))
  BY DEF Replay, Read
<1>3. Replay(w)' = Apply(Replay(w), m)
  BY <1>1, <1>2, ReadAppend, ReplayIsRead
<1>4. Apply(Replay(w), m) \in Store(Nat)
  BY <1>1, ApplyType
<1>5. Reads(view'[w], queue'[w]) = Reads(view[w], queue[w]) \cup {Replay(w)'}
  BY <1>1, <1>3, ReadAppend, ReplayIsRead
<1> QED BY <1>3, <1>4, <1>5 DEF NewReads

LEMMA OneReceived ==
  ASSUME TypesInv, NEW w \in Web, Receive(w), NEW x \in Web
  PROVE  Replay(x)' = Replay(x) /\ NewReads(x)
<1>1. view[x] \in Store(Nat) /\ queue[x] \in Seq(Msg) /\ Replay(x) \in Store(Nat)
  BY ReplayType
<1>2. CASE x = w
  <2>1. queue[x] # <<>> /\ view'[x] = Apply(view[x], Head(queue[x])) /\ queue'[x] = Tail(queue[x])
    BY <1>2 DEF Receive, TypesInv
  <2>2. Replay(x)' = Read(Apply(view[x], Head(queue[x])), Tail(queue[x]))
    BY <2>1 DEF Replay, Read
  <2>3. Replay(x)' = Replay(x)
    BY <1>1, <2>1, <2>2, ReadTail, ReplayIsRead
  <2>4. Reads(view'[x], queue'[x]) \subseteq Reads(view[x], queue[x])
    BY <1>1, <2>1, ReadTail
  <2> QED BY <1>1, <2>3, <2>4 DEF NewReads
<1>3. CASE x # w
  <2>1. view'[x] = view[x] /\ queue'[x] = queue[x]
    BY <1>3 DEF Receive, TypesInv
  <2> QED BY <2>1, NothingSent
<1> QED BY <1>2, <1>3

LEMMA RoomSent ==
  ASSUME TypesInv, NEW m \in Msg, ToRoom(m), view' = view, NEW w \in Web
  PROVE  /\ w \in members => Replay(w)' = Apply(Replay(w), m)
         /\ w \notin members => Replay(w)' = Replay(w)
         /\ NewReads(w)
<1>1. CASE w \in members
  <2>1. queue'[w] = Append(queue[w], m) /\ view'[w] = view[w]
    BY <1>1 DEF ToRoom
  <2> QED BY <1>1, <2>1, OneSent
<1>2. CASE w \notin members
  <2>1. queue'[w] = queue[w] /\ view'[w] = view[w]
    BY <1>2 DEF ToRoom
  <2> QED BY <1>2, <2>1, NothingSent
<1> QED BY <1>1, <1>2

LEMMA LobbySent ==
  ASSUME TypesInv, NEW m \in Msg, ToLobby(m), view' = view, NEW w \in Web
  PROVE  /\ w \in accepts => Replay(w)' = Apply(Replay(w), m)
         /\ w \notin accepts => Replay(w)' = Replay(w)
         /\ NewReads(w)
<1>1. CASE w \in accepts
  <2>1. queue'[w] = Append(queue[w], m) /\ view'[w] = view[w]
    BY <1>1 DEF ToLobby
  <2> QED BY <1>1, <2>1, OneSent
<1>2. CASE w \notin accepts
  <2>1. queue'[w] = queue[w] /\ view'[w] = view[w]
    BY <1>2 DEF ToLobby
  <2> QED BY <1>2, <2>1, NothingSent
<1> QED BY <1>1, <1>2

\* Only the queue of one session grows, by one message.
LEMMA AnswerSent ==
  ASSUME TypesInv, NEW x \in Web, NEW m \in Msg, view' = view,
         queue' = [queue EXCEPT ![x] = Append(@, m)], NEW w \in Web
  PROVE  /\ w = x => Replay(w)' = Apply(Replay(w), m)
         /\ w # x => Replay(w)' = Replay(w)
         /\ NewReads(w)
<1>1. CASE w = x
  <2>1. queue'[w] = Append(queue[w], m) /\ view'[w] = view[w]
    BY <1>1 DEF TypesInv
  <2> QED BY <1>1, <2>1, OneSent
<1>2. CASE w # x
  <2>1. queue'[w] = queue[w] /\ view'[w] = view[w]
    BY <1>2 DEF TypesInv
  <2> QED BY <1>2, <2>1, NothingSent
<1> QED BY <1>1, <1>2

-----------------------------------------------------------------------------
(* Types are kept.                                                          *)

LEMMA QueueKept ==
  ASSUME TypesInv, NEW m \in Msg, ToRoom(m) \/ ToLobby(m)
  PROVE  queue' \in [Web -> Seq(Msg)]
<1>1. \A w \in Web : queue[w] \in Seq(Msg) /\ Append(queue[w], m) \in Seq(Msg)
  BY DEF TypesInv
<1>2. CASE ToRoom(m)
  BY <1>1, <1>2 DEF ToRoom
<1>3. CASE ToLobby(m)
  BY <1>1, <1>3 DEF ToLobby
<1> QED BY <1>2, <1>3

LEMMA ListsKept ==
  ASSUME TypesInv, NEW u \in User
  PROVE  /\ Nothing \in Lists
         /\ \A l \in Lists : [doing EXCEPT ![u] = l] \in [User -> Lists]
         /\ \A m \in Chat : [Nothing EXCEPT !.said = <<m>>] \in Lists
         /\ \A U \in SUBSET User : [Nothing EXCEPT !.users = U] \in Lists
         /\ [users |-> members, games |-> games, said |-> history] \in Lists
         /\ doing[u] \in Lists
<1>1. Nothing = [users |-> {}, games |-> {}, said |-> <<>>] /\ <<>> \in Seq(Chat)
  BY DEF Nothing
<1>2. Nothing \in Lists
  BY <1>1 DEF Lists
<1>3. ASSUME NEW m \in Chat PROVE [Nothing EXCEPT !.said = <<m>>] \in Lists
  <2>1. <<m>> \in Seq(Chat)
    OBVIOUS
  <2> QED BY <1>2, <2>1 DEF Lists
<1>4. ASSUME NEW U \in SUBSET User PROVE [Nothing EXCEPT !.users = U] \in Lists
  BY <1>2 DEF Lists
<1>5. [users |-> members, games |-> games, said |-> history] \in Lists
  BY DEF Lists, TypesInv
<1>6. doing[u] \in Lists /\ \A l \in Lists : [doing EXCEPT ![u] = l] \in [User -> Lists]
  BY DEF TypesInv
<1> QED BY <1>2, <1>3, <1>4, <1>5, <1>6

\* The steps of the room's users.
LEMMA TypesRoom ==
  ASSUME TypesInv, NEW u \in User,
         \/ JoinAnnounce(u) \/ JoinInsert(u) \/ LeaveAnnounce(u)
         \/ \E how \in {"leaving", "quitting"} : LeaveRemove(u, how)
         \/ \E m \in Chat : Say(u, m)
         \/ KeepSaid(u)
  PROVE  TypesInv'
<1>1. \A t \in {"joinRoom", "leaveRoom"} : Message(t, u) \in Msg
  BY NamedMessages
<1>2. CASE JoinAnnounce(u)
  <2>1. queue' \in [Web -> Seq(Msg)]
    BY <1>1, <1>2, QueueKept DEF JoinAnnounce
  <2> QED BY <1>2, <2>1 DEF JoinAnnounce, TypesInv, roomVars, madeVars, lobbyVars
<1>3. CASE JoinInsert(u)
  BY <1>3 DEF JoinInsert, TypesInv, Step, madeVars, lobbyVars
<1>4. CASE LeaveAnnounce(u)
  <2>1. queue' \in [Web -> Seq(Msg)]
    BY <1>1, <1>4, QueueKept DEF LeaveAnnounce
  <2> QED BY <1>4, <2>1 DEF LeaveAnnounce, TypesInv, roomVars, madeVars, lobbyVars
<1>5. CASE \E how \in {"leaving", "quitting"} : LeaveRemove(u, how)
  BY <1>5 DEF LeaveRemove, TypesInv, madeVars, lobbyVars
<1>6. CASE \E m \in Chat : Say(u, m)
  <2>1. PICK m \in Chat : Say(u, m)
    BY <1>6
  <2>2. queue' \in [Web -> Seq(Msg)]
    BY <2>1, QueueKept, NamedMessages DEF Say
  <2>3. doing' \in [User -> Lists]
    BY <2>1, ListsKept DEF Say
  <2> QED BY <2>1, <2>2, <2>3 DEF Say, TypesInv, roomVars, lobbyVars
<1>7. CASE KeepSaid(u)
  <2>1. doing' \in [User -> Lists]
    BY <1>7, ListsKept DEF KeepSaid
  <2>2. history' \in Seq(Chat)
    <3>1. doing[u].said \in Seq(Chat) /\ history \in Seq(Chat)
      BY ListsKept DEF Lists, TypesInv
    <3>2. HistorySize # 0 /\ Len(history) >= HistorySize => Tail(history) \in Seq(Chat)
      <4>1. HistorySize \in Nat
        BY WebRoomsAssumption
      <4> QED BY <3>1, <4>1
    <3> QED BY <1>7, <3>1, <3>2 DEF KeepSaid
  <2> QED BY <1>7, <2>1, <2>2 DEF KeepSaid, TypesInv, Step, madeVars, lobbyVars
<1> QED BY <1>2, <1>3, <1>4, <1>5, <1>6, <1>7

\* The steps of the server's users.
LEMMA TypesLobby ==
  ASSUME TypesInv, NEW d \in Desk, Login(d) \/ SessionEnds(d)
  PROVE  TypesInv'
<1>1. \A t \in {"userJoined", "userLeft"} : Message(t, d) \in Msg
  BY NamedMessages DEF User
<1>2. CASE Login(d)
  <2>1. queue' \in [Web -> Seq(Msg)]
    BY <1>1, <1>2, QueueKept DEF Login
  <2> QED BY <1>2, <2>1 DEF Login, TypesInv, Step, roomVars, madeVars, User
<1>3. CASE SessionEnds(d)
  <2>1. queue' \in [Web -> Seq(Msg)]
    BY <1>1, <1>3, QueueKept DEF SessionEnds
  <2> QED BY <1>3, <2>1 DEF SessionEnds, TypesInv, roomVars, madeVars
<1> QED BY <1>2, <1>3

\* The history as it is sent.
Told(h) == [i \in 1..Len(h) |-> Message("roomSay", h[i])]

LEMMA ToldType ==
  ASSUME NEW h \in Seq(Chat)
  PROVE  Told(h) \in Seq(Msg) /\ Len(Told(h)) = Len(h)
<1>1. Len(h) \in Nat /\ \A i \in 1..Len(h) : Message("roomSay", h[i]) \in Msg
  BY NamedMessages
<1> QED BY <1>1 DEF Told

\* The answers browser sessions get.
LEMMA TypesAnswers ==
  ASSUME TypesInv, NEW w \in Web,
         \/ JoinSnapshot(w) \/ JoinReply(w) \/ LeaveReply(w)
         \/ ListUsers(w) \/ ListReply(w)
  PROVE  TypesInv'
<1>1. w \in User /\ doing[w] \in Lists /\ queue[w] \in Seq(Msg)
  BY DEF User, TypesInv
<1>2. CASE JoinSnapshot(w)
  <2>1. doing' \in [User -> Lists]
    BY <1>1, <1>2, ListsKept DEF JoinSnapshot
  <2> QED BY <1>2, <2>1 DEF JoinSnapshot, TypesInv, Step, roomVars, madeVars, lobbyVars
<1>3. CASE JoinReply(w)
  <2>1. doing' \in [User -> Lists]
    BY <1>1, <1>3, ListsKept DEF JoinReply
  <2>2. Append(queue[w], Message("roomInfo", doing[w])) \o Told(doing[w].said) \in Seq(Msg)
    <3>1. Message("roomInfo", doing[w]) \in Msg /\ doing[w].said \in Seq(Chat)
      BY <1>1, NamedMessages DEF Lists
    <3>2. Told(doing[w].said) \in Seq(Msg)
      BY <3>1, ToldType
    <3> QED BY <1>1, <3>1, <3>2
  <2>3. queue' \in [Web -> Seq(Msg)]
    BY <1>3, <2>2 DEF JoinReply, Told, TypesInv
  <2> QED BY <1>3, <2>1, <2>3 DEF JoinReply, TypesInv, Step, roomVars, madeVars, lobbyVars
<1>4. CASE LeaveReply(w)
  <2>1. Message("left", w) \in Msg
    BY NamedMessages
  <2>2. queue' \in [Web -> Seq(Msg)]
    BY <1>4, <2>1 DEF LeaveReply, TypesInv
  <2> QED BY <1>4, <2>2 DEF LeaveReply, TypesInv, Step, roomVars, madeVars, lobbyVars
<1>5. CASE ListUsers(w)
  <2>1. doing' \in [User -> Lists]
    <3>1. online \in SUBSET User
      BY DEF TypesInv
    <3> QED BY <1>1, <1>5, <3>1, ListsKept DEF ListUsers
  <2> QED BY <1>5, <2>1 DEF ListUsers, TypesInv, roomVars, madeVars
<1>6. CASE ListReply(w)
  <2>1. doing' \in [User -> Lists]
    BY <1>1, <1>6, ListsKept DEF ListReply
  <2>2. Message("users", doing[w].users) \in Msg
    BY <1>1, NamedMessages DEF Lists
  <2>3. queue' \in [Web -> Seq(Msg)]
    BY <1>6, <2>2 DEF ListReply, TypesInv
  <2> QED BY <1>6, <2>1, <2>3 DEF ListReply, TypesInv, Step, roomVars, madeVars, lobbyVars
<1> QED BY <1>2, <1>3, <1>4, <1>5, <1>6

\* Games, announcements and what clients receive.
LEMMA TypesGames ==
  ASSUME TypesInv,
         \/ \E g \in Game : AddGame(g) \/ ChangeGame(g) \/ RemoveGame(g)
         \/ BroadcastGame
         \/ \E w \in Web : Receive(w)
  PROVE  TypesInv'
<1>1. \A g \in Game, b \in BOOLEAN : Append(posted, [game |-> g, closed |-> b]) \in Seq(Update)
  BY DEF TypesInv, Update
<1>2. ASSUME NEW g \in Game, AddGame(g) \/ ChangeGame(g) \/ RemoveGame(g) PROVE TypesInv'
  <2>1. posted' \in Seq(Update)
    BY <1>1, <1>2 DEF AddGame, ChangeGame, RemoveGame, Post
  <2> QED BY <1>2, <2>1 DEF AddGame, ChangeGame, RemoveGame, TypesInv, roomVars, lobbyVars
<1>3. CASE BroadcastGame
  <2>1. Head(posted) \in Update /\ Tail(posted) \in Seq(Update)
    BY <1>3 DEF BroadcastGame, TypesInv
  <2>2. queue' \in [Web -> Seq(Msg)]
    BY <1>3, <2>1, QueueKept, NamedMessages DEF BroadcastGame
  <2> QED BY <1>3, <2>1, <2>2 DEF BroadcastGame, TypesInv, roomVars, lobbyVars
<1>4. ASSUME NEW w \in Web, Receive(w) PROVE TypesInv'
  <2>1. Head(queue[w]) \in Msg /\ Tail(queue[w]) \in Seq(Msg)
    BY <1>4 DEF Receive, TypesInv
  <2>2. Apply(view[w], Head(queue[w])) \in Store(Nat)
    BY <2>1, ApplyType DEF TypesInv
  <2> HIDE DEF Store
  <2>3. queue' \in [Web -> Seq(Msg)] /\ view' \in [Web -> Store(Nat)]
    BY <1>4, <2>1, <2>2 DEF Receive, TypesInv
  <2> QED BY <1>4, <2>3 DEF Receive, TypesInv, roomVars, madeVars, lobbyVars
<1> QED BY <1>2, <1>3, <1>4

-----------------------------------------------------------------------------
(* The sessions' commands.                                                  *)

\* Nobody else's command changes.
LEMMA PcRoom ==
  ASSUME TypesInv, PcInv, NEW u \in User,
         \/ JoinAnnounce(u) \/ JoinInsert(u) \/ LeaveAnnounce(u)
         \/ \E how \in {"leaving", "quitting"} : LeaveRemove(u, how)
         \/ \E m \in Chat : Say(u, m)
         \/ KeepSaid(u)
  PROVE  PcInv'
<1> USE WebRoomsAssumption DEF PcInv, Coming, User, TypesInv
<1>1. CASE JoinAnnounce(u)
  BY <1>1 DEF JoinAnnounce, MayBegin, MainIdle, roomVars, lobbyVars
<1>2. CASE JoinInsert(u)
  BY <1>2 DEF JoinInsert, Step, lobbyVars
<1>3. CASE LeaveAnnounce(u)
  BY <1>3 DEF LeaveAnnounce, roomVars, lobbyVars
<1>4. CASE \E how \in {"leaving", "quitting"} : LeaveRemove(u, how)
  BY <1>4 DEF LeaveRemove, MayBegin, MainIdle, lobbyVars
<1>5. CASE \E m \in Chat : Say(u, m)
  BY <1>5 DEF Say, MayBegin, MainIdle, roomVars, lobbyVars
<1>6. CASE KeepSaid(u)
  BY <1>6 DEF KeepSaid, Step, lobbyVars
<1> QED BY <1>1, <1>2, <1>3, <1>4, <1>5, <1>6

LEMMA PcOthers ==
  ASSUME TypesInv, PcInv,
         \/ \E d \in Desk : Login(d) \/ SessionEnds(d)
         \/ \E w \in Web : \/ JoinSnapshot(w) \/ JoinReply(w) \/ LeaveReply(w)
                            \/ ListUsers(w) \/ ListReply(w) \/ Receive(w)
         \/ \E g \in Game : AddGame(g) \/ ChangeGame(g) \/ RemoveGame(g)
         \/ BroadcastGame
  PROVE  PcInv'
<1> USE WebRoomsAssumption DEF PcInv, Coming, User, TypesInv
<1>1. ASSUME NEW d \in Desk, Login(d) PROVE PcInv'
  BY <1>1 DEF Login, Step, roomVars
<1>2. ASSUME NEW d \in Desk, SessionEnds(d) PROVE PcInv'
  BY <1>2 DEF SessionEnds, MayBegin, roomVars
<1>3. ASSUME NEW w \in Web, JoinSnapshot(w) PROVE PcInv'
  BY <1>3 DEF JoinSnapshot, Step, roomVars, lobbyVars
<1>4. ASSUME NEW w \in Web, JoinReply(w) PROVE PcInv'
  BY <1>4 DEF JoinReply, Step, roomVars, lobbyVars
<1>5. ASSUME NEW w \in Web, LeaveReply(w) PROVE PcInv'
  BY <1>5 DEF LeaveReply, Step, roomVars, lobbyVars
<1>6. ASSUME NEW w \in Web, ListUsers(w) PROVE PcInv'
  BY <1>6 DEF ListUsers, MayBegin, MainIdle, roomVars
<1>7. ASSUME NEW w \in Web, ListReply(w) PROVE PcInv'
  BY <1>7 DEF ListReply, Step, roomVars, lobbyVars
<1>8. ASSUME NEW w \in Web, Receive(w) PROVE PcInv'
  BY <1>8 DEF Receive, roomVars, lobbyVars
<1>9. ASSUME NEW g \in Game, AddGame(g) \/ ChangeGame(g) \/ RemoveGame(g) PROVE PcInv'
  BY <1>9 DEF AddGame, ChangeGame, RemoveGame, roomVars, lobbyVars
<1>10. CASE BroadcastGame
  BY <1>10 DEF BroadcastGame, roomVars, lobbyVars
<1> QED BY <1>1, <1>2, <1>3, <1>4, <1>5, <1>6, <1>7, <1>8, <1>9, <1>10

-----------------------------------------------------------------------------
(* The list of the server's users.                                          *)

\* Nothing the list depends on has changed.
LobbyFrame ==
  /\ online' = online /\ accepts' = accepts /\ missedLobby' = missedLobby
  /\ \A w \in Web : /\ Replay(w)'.lobby = Replay(w).lobby
                    /\ pc'[w] = "listing" <=> pc[w] = "listing"
                    /\ pc[w] = "listing" => doing'[w] = doing[w]

LEMMA LobbyKept ==
  ASSUME TypesInv, LobbyInv, LobbyFrame
  PROVE  LobbyInv'
<1>1. LobbyRight'
  <2> SUFFICES ASSUME NEW w \in accepts', pc'[w] # "listing", NEW u \in User \ missedLobby'[w]
               PROVE  Replay(w)'.lobby[u] = IF u \in online' THEN 1 ELSE 0
    BY DEF LobbyRight
  <2>1. w \in Web /\ w \in accepts
    BY DEF LobbyFrame, TypesInv
  <2>2. Replay(w)'.lobby = Replay(w).lobby /\ pc[w] # "listing" /\ u \in User \ missedLobby[w]
        /\ online' = online
    BY <2>1 DEF LobbyFrame
  <2> QED BY <2>1, <2>2 DEF LobbyInv, LobbyRight
<1>2. ASSUME NEW w \in Web, pc'[w] = "listing", NEW u \in User \ missedLobby'[w]
      PROVE  u \in doing'[w].users <=> u \in online'
  BY <1>2 DEF LobbyInv, LobbyFrame
<1>3. ASSUME NEW w \in Web, NEW u \in User
      PROVE  /\ Replay(w)'.lobby[u] <= IF u \in online' THEN 2 ELSE 1
             /\ w \notin accepts' => Replay(w)'.lobby[u] = 0
  BY DEF LobbyInv, LobbyFrame
<1> QED BY <1>1, <1>2, <1>3 DEF LobbyInv

\* Counters of a store are numbers.
LEMMA StoreFields ==
  ASSUME NEW v \in Store(Nat)
  PROVE  /\ v.loaded \in BOOLEAN
         /\ v.users \in [User -> Nat] /\ v.lobby \in [User -> Nat]
         /\ v.said \in [Chat -> Nat] /\ v.games \in [Game -> Shown]
BY DEF Store

LEMMA LobbyLogin ==
  ASSUME TypesInv, PcInv, LobbyInv, NEW d \in Desk, Login(d)
  PROVE  LobbyInv' /\ \A w \in Web : NewReads(w)
<1> DEFINE m == Message("userJoined", d)
<1>1. d \in User /\ d \notin Web /\ m \in Msg /\ ToLobby(m) /\ view' = view
  BY NamedMessages, WebRoomsAssumption DEF Login, User
<1> HIDE DEF m
<1>2. \A w \in Web : NewReads(w)
  BY <1>1, LobbySent
<1>3. ASSUME NEW w \in Web
      PROVE  /\ w \in accepts => Replay(w)'.lobby = [Replay(w).lobby EXCEPT ![d] = @ + 1]
             /\ w \notin accepts => Replay(w)'.lobby = Replay(w).lobby
             /\ Replay(w).lobby \in [User -> Nat]
  <2>1. Replay(w) \in Store(Nat)
    BY ReplayType
  <2>2. Apply(Replay(w), m).lobby = [Replay(w).lobby EXCEPT ![d] = @ + 1]
    BY <1>1, <2>1, LobbyEntryFields DEF m
  <2> QED BY <1>1, <2>1, <2>2, LobbySent, StoreFields
<1>4. d \notin online /\ online' = online \cup {d} /\ accepts' = accepts /\ doing' = doing
  BY <1>1 DEF Login, Step, PcInv
<1>5. ASSUME NEW w \in Web
      PROVE  /\ pc'[w] = pc[w]
             /\ missedLobby'[w] = IF pc[w] = "listing" THEN missedLobby[w] \cup {d} ELSE missedLobby[w]
  BY <1>1 DEF Login, Step, TypesInv, LobbyChanges
<1>6. accepts \subseteq Web
  BY DEF TypesInv
<1>7. LobbyRight'
  <2> SUFFICES ASSUME NEW w \in accepts, pc[w] # "listing",
                      NEW u \in User \ missedLobby[w]
               PROVE  Replay(w)'.lobby[u] = IF u \in online \cup {d} THEN 1 ELSE 0
    BY <1>4, <1>5, <1>6 DEF LobbyRight
  <2>1. Replay(w).lobby[u] = IF u \in online THEN 1 ELSE 0
    BY DEF LobbyInv, LobbyRight
  <2>2. Replay(w)'.lobby = [Replay(w).lobby EXCEPT ![d] = @ + 1] /\ Replay(w).lobby \in [User -> Nat]
    BY <1>3, <1>6
  <2>3. CASE u = d
    BY <1>1, <1>4, <2>1, <2>2, <2>3
  <2>4. CASE u # d
    BY <2>1, <2>2, <2>4
  <2> QED BY <2>3, <2>4
<1>8. ASSUME NEW w \in Web, pc[w] = "listing", NEW u \in User \ missedLobby'[w]
      PROVE  u \in doing'[w].users <=> u \in online'
  BY <1>4, <1>5, <1>8 DEF LobbyInv
<1>9. ASSUME NEW w \in Web, NEW u \in User
      PROVE  /\ Replay(w)'.lobby[u] <= IF u \in online' THEN 2 ELSE 1
             /\ w \notin accepts' => Replay(w)'.lobby[u] = 0
  <2>1. Replay(w).lobby[u] \in Nat /\ Replay(w).lobby[u] <= IF u \in online THEN 2 ELSE 1
    BY <1>3 DEF LobbyInv
  <2>2. w \notin accepts => Replay(w).lobby[u] = 0
    BY DEF LobbyInv
  <2>3. CASE w \in accepts
    <3>1. Replay(w)'.lobby = [Replay(w).lobby EXCEPT ![d] = @ + 1] /\ Replay(w).lobby \in [User -> Nat]
      BY <1>3, <2>3
    <3>2. CASE u = d
      BY <1>1, <1>4, <2>1, <2>3, <3>1, <3>2
    <3>3. CASE u # d
      BY <1>4, <2>1, <2>3, <3>1, <3>3
    <3> QED BY <3>2, <3>3
  <2>4. CASE w \notin accepts
    <3>1. Replay(w)'.lobby[u] = 0
      BY <1>3, <2>2, <2>4
    <3> QED BY <3>1, <1>4, <2>4
  <2> QED BY <2>3, <2>4
<1> QED BY <1>2, <1>5, <1>7, <1>8, <1>9 DEF LobbyInv

LEMMA LobbySessionEnds ==
  ASSUME TypesInv, PcInv, LobbyInv, NEW d \in Desk, SessionEnds(d)
  PROVE  LobbyInv' /\ \A w \in Web : NewReads(w)
<1> DEFINE m == Message("userLeft", d)
<1>1. d \in User /\ d \notin Web /\ m \in Msg /\ ToLobby(m) /\ view' = view
  BY NamedMessages, WebRoomsAssumption DEF SessionEnds, User
<1> HIDE DEF m
<1>2. \A w \in Web : NewReads(w)
  BY <1>1, LobbySent
<1>3. ASSUME NEW w \in Web
      PROVE  /\ w \in accepts => Replay(w)'.lobby = [Replay(w).lobby EXCEPT ![d] = 0]
             /\ w \notin accepts => Replay(w)'.lobby = Replay(w).lobby
             /\ Replay(w).lobby \in [User -> Nat]
  <2>1. Replay(w) \in Store(Nat)
    BY ReplayType
  <2>2. Apply(Replay(w), m).lobby = [Replay(w).lobby EXCEPT ![d] = 0]
    BY <1>1, <2>1, LobbyEntryFields DEF m
  <2> QED BY <1>1, <2>1, <2>2, LobbySent, StoreFields
<1>4. online' = online \ {d} /\ accepts' = accepts /\ doing' = doing
  BY <1>1 DEF SessionEnds
<1>5. ASSUME NEW w \in Web
      PROVE  /\ pc'[w] = pc[w]
             /\ missedLobby'[w] = IF pc[w] = "listing" THEN missedLobby[w] \cup {d} ELSE missedLobby[w]
  BY <1>1 DEF SessionEnds, TypesInv, LobbyChanges
<1>6. accepts \subseteq Web
  BY DEF TypesInv
<1>7. LobbyRight'
  <2> SUFFICES ASSUME NEW w \in accepts, pc[w] # "listing",
                      NEW u \in User \ missedLobby[w]
               PROVE  Replay(w)'.lobby[u] = IF u \in online \ {d} THEN 1 ELSE 0
    BY <1>4, <1>5, <1>6 DEF LobbyRight
  <2>1. Replay(w).lobby[u] = IF u \in online THEN 1 ELSE 0
    BY DEF LobbyInv, LobbyRight
  <2>2. Replay(w)'.lobby = [Replay(w).lobby EXCEPT ![d] = 0] /\ Replay(w).lobby \in [User -> Nat]
    BY <1>3, <1>6
  <2>3. CASE u = d
    BY <1>1, <1>4, <2>1, <2>2, <2>3
  <2>4. CASE u # d
    BY <2>1, <2>2, <2>4
  <2> QED BY <2>3, <2>4
<1>8. ASSUME NEW w \in Web, pc[w] = "listing", NEW u \in User \ missedLobby'[w]
      PROVE  u \in doing'[w].users <=> u \in online'
  BY <1>4, <1>5, <1>8 DEF LobbyInv
<1>9. ASSUME NEW w \in Web, NEW u \in User
      PROVE  /\ Replay(w)'.lobby[u] <= IF u \in online' THEN 2 ELSE 1
             /\ w \notin accepts' => Replay(w)'.lobby[u] = 0
  <2>1. Replay(w).lobby[u] \in Nat /\ Replay(w).lobby[u] <= IF u \in online THEN 2 ELSE 1
    BY <1>3 DEF LobbyInv
  <2>2. w \notin accepts => Replay(w).lobby[u] = 0
    BY DEF LobbyInv
  <2>3. CASE w \in accepts
    <3>1. Replay(w)'.lobby = [Replay(w).lobby EXCEPT ![d] = 0] /\ Replay(w).lobby \in [User -> Nat]
      BY <1>3, <2>3
    <3>2. CASE u = d
      BY <1>1, <1>4, <2>1, <2>3, <3>1, <3>2
    <3>3. CASE u # d
      BY <1>4, <2>1, <2>3, <3>1, <3>3
    <3> QED BY <3>2, <3>3
  <2>4. CASE w \notin accepts
    <3>1. Replay(w)'.lobby[u] = 0
      BY <1>3, <2>2, <2>4
    <3> QED BY <3>1, <1>4, <2>4
  <2> QED BY <2>3, <2>4
<1> QED BY <1>2, <1>5, <1>7, <1>8, <1>9 DEF LobbyInv

LEMMA LobbyListUsers ==
  ASSUME TypesInv, PcInv, LobbyInv, NEW w \in Web, ListUsers(w)
  PROVE  LobbyInv' /\ \A x \in Web : Replay(x)' = Replay(x) /\ NewReads(x)
<1>1. \A x \in Web : Replay(x)' = Replay(x) /\ NewReads(x)
  BY NothingSent DEF ListUsers
<1>2. w \in User /\ w \notin accepts /\ accepts' = accepts \cup {w}
      /\ online' = online /\ missedLobby' = missedLobby
  BY DEF ListUsers, User
<1>3. ASSUME NEW x \in Web
      PROVE  /\ x = w => pc'[x] = "listing" /\ doing'[x].users = online
             /\ x # w => pc'[x] = pc[x] /\ doing'[x] = doing[x]
  <2>1. Nothing = [users |-> {}, games |-> {}, said |-> <<>>]
    BY DEF Nothing
  <2>2. [Nothing EXCEPT !.users = online].users = online
    BY <2>1
  <2> QED BY <1>2, <2>2 DEF ListUsers, TypesInv, User
<1>4. LobbyRight'
  <2> SUFFICES ASSUME NEW x \in accepts', pc'[x] # "listing", NEW u \in User \ missedLobby[x]
               PROVE  Replay(x)'.lobby[u] = IF u \in online THEN 1 ELSE 0
    BY <1>2 DEF LobbyRight
  <2>1. x \in Web /\ x # w
    BY <1>2, <1>3 DEF TypesInv
  <2>2. x \in accepts /\ pc[x] # "listing" /\ Replay(x)' = Replay(x)
    BY <1>1, <1>2, <1>3, <2>1
  <2> QED BY <2>2 DEF LobbyInv, LobbyRight
<1>5. ASSUME NEW x \in Web, pc'[x] = "listing", NEW u \in User \ missedLobby'[x]
      PROVE  u \in doing'[x].users <=> u \in online'
  BY <1>2, <1>3, <1>5 DEF LobbyInv
<1>6. ASSUME NEW x \in Web, NEW u \in User
      PROVE  /\ Replay(x)'.lobby[u] <= IF u \in online' THEN 2 ELSE 1
             /\ x \notin accepts' => Replay(x)'.lobby[u] = 0
  BY <1>1, <1>2 DEF LobbyInv
<1> QED BY <1>1, <1>4, <1>5, <1>6 DEF LobbyInv

LEMMA LobbyListReply ==
  ASSUME TypesInv, PcInv, LobbyInv, NEW w \in Web, ListReply(w)
  PROVE  LobbyInv' /\ \A x \in Web : NewReads(x)
<1> DEFINE m == Message("users", doing[w].users)
<1>1. w \in User /\ doing[w].users \in SUBSET User /\ m \in Msg
  BY NamedMessages DEF TypesInv, Lists, User
<1>2. view' = view /\ queue' = [queue EXCEPT ![w] = Append(@, m)]
  BY DEF ListReply
<1> HIDE DEF m
<1>3. \A x \in Web : NewReads(x)
  BY <1>1, <1>2, AnswerSent
<1>4. Replay(w)'.lobby = [u \in User |-> IF u \in doing[w].users THEN 1 ELSE 0]
  <2>1. Replay(w) \in Store(Nat)
    BY ReplayType
  <2>2. Replay(w)' = Apply(Replay(w), m)
    BY <1>1, <1>2, AnswerSent
  <2> QED BY <1>1, <2>1, <2>2, UsersFields DEF m
<1>5. \A x \in Web : x # w => Replay(x)' = Replay(x)
  BY <1>1, <1>2, AnswerSent
<1>6. online' = online /\ accepts' = accepts /\ missedLobby' = missedLobby
      /\ pc[w] = "listing" /\ w \in accepts
  BY DEF ListReply, lobbyVars, Step, PcInv
<1>7. ASSUME NEW x \in Web
      PROVE  /\ x = w => pc'[x] = "idle"
             /\ x # w => pc'[x] = pc[x] /\ doing'[x] = doing[x]
  BY <1>1 DEF ListReply, TypesInv, Step
<1>8. LobbyRight'
  <2> SUFFICES ASSUME NEW x \in accepts, pc'[x] # "listing", NEW u \in User \ missedLobby[x]
               PROVE  Replay(x)'.lobby[u] = IF u \in online THEN 1 ELSE 0
    BY <1>6 DEF LobbyRight
  <2>1. x \in Web
    BY DEF TypesInv
  <2>2. CASE x = w
    BY <1>4, <1>6, <2>2 DEF LobbyInv
  <2>3. CASE x # w
    BY <1>5, <1>7, <2>1, <2>3 DEF LobbyInv, LobbyRight
  <2> QED BY <2>2, <2>3
<1>9. ASSUME NEW x \in Web, pc'[x] = "listing", NEW u \in User \ missedLobby'[x]
      PROVE  u \in doing'[x].users <=> u \in online'
  BY <1>6, <1>7, <1>9 DEF LobbyInv
<1>10. ASSUME NEW x \in Web, NEW u \in User
      PROVE  /\ Replay(x)'.lobby[u] <= IF u \in online' THEN 2 ELSE 1
             /\ x \notin accepts' => Replay(x)'.lobby[u] = 0
  BY <1>4, <1>5, <1>6 DEF LobbyInv
<1> QED BY <1>3, <1>8, <1>9, <1>10 DEF LobbyInv

-----------------------------------------------------------------------------
(* What the steps that send something do to what is shown.                  *)

LEMMA EntryShown ==
  ASSUME TypesInv, NEW u \in User, NEW t \in {"joinRoom", "leaveRoom"},
         ToRoom(Message(t, u)), view' = view, NEW w \in Web
  PROVE  /\ NewReads(w)
         /\ Replay(w)'.loaded = Replay(w).loaded /\ Replay(w)'.games = Replay(w).games
         /\ Replay(w)'.said = Replay(w).said /\ Replay(w)'.lobby = Replay(w).lobby
         /\ w \notin members \/ ~Replay(w).loaded => Replay(w)'.users = Replay(w).users
         /\ w \in members /\ Replay(w).loaded /\ t = "joinRoom" =>
              Replay(w)'.users = [Replay(w).users EXCEPT ![u] = @ + 1]
         /\ w \in members /\ Replay(w).loaded /\ t = "leaveRoom" =>
              Replay(w)'.users = [Replay(w).users EXCEPT ![u] = 0]
<1>1. Message(t, u) \in Msg /\ Replay(w) \in Store(Nat)
  BY NamedMessages, ReplayType
<1>2. CASE w \in members
  <2>1. Replay(w)' = Apply(Replay(w), Message(t, u)) /\ NewReads(w)
    BY <1>1, <1>2, RoomSent
  <2> QED BY <1>1, <1>2, <2>1, RoomEntryFields
<1>3. CASE w \notin members
  <2>1. Replay(w)' = Replay(w) /\ NewReads(w)
    BY <1>1, <1>3, RoomSent
  <2> QED BY <1>3, <2>1
<1> QED BY <1>2, <1>3

LEMMA LobbyEntryShown ==
  ASSUME TypesInv, NEW u \in User, NEW t \in {"userJoined", "userLeft"},
         ToLobby(Message(t, u)), view' = view, NEW w \in Web
  PROVE  /\ NewReads(w)
         /\ Replay(w)'.loaded = Replay(w).loaded /\ Replay(w)'.games = Replay(w).games
         /\ Replay(w)'.said = Replay(w).said /\ Replay(w)'.users = Replay(w).users
<1>1. Message(t, u) \in Msg /\ Replay(w) \in Store(Nat)
  BY NamedMessages, ReplayType
<1>2. Replay(w)' = Apply(Replay(w), Message(t, u)) \/ Replay(w)' = Replay(w)
  BY <1>1, LobbySent
<1>3. NewReads(w)
  BY <1>1, LobbySent
<1>4. LET a == Apply(Replay(w), Message(t, u))
      IN  a.loaded = Replay(w).loaded /\ a.games = Replay(w).games
          /\ a.said = Replay(w).said /\ a.users = Replay(w).users
  BY <1>1, LobbyEntryFields
<1> QED BY <1>2, <1>3, <1>4

LEMMA SayShown ==
  ASSUME TypesInv, NEW c \in Chat, ToRoom(Message("roomSay", c)), view' = view, NEW w \in Web
  PROVE  /\ NewReads(w)
         /\ Replay(w)'.loaded = Replay(w).loaded /\ Replay(w)'.games = Replay(w).games
         /\ Replay(w)'.users = Replay(w).users /\ Replay(w)'.lobby = Replay(w).lobby
         /\ w \in members => Replay(w)'.said = [Replay(w).said EXCEPT ![c] = @ + 1]
         /\ w \notin members => Replay(w)'.said = Replay(w).said
<1>1. Message("roomSay", c) \in Msg /\ Replay(w) \in Store(Nat)
  BY NamedMessages, ReplayType
<1>2. CASE w \in members
  <2>1. Replay(w)' = Apply(Replay(w), Message("roomSay", c)) /\ NewReads(w)
    BY <1>1, <1>2, RoomSent
  <2> QED BY <1>1, <1>2, <2>1, SaidFields
<1>3. CASE w \notin members
  <2>1. Replay(w)' = Replay(w) /\ NewReads(w)
    BY <1>1, <1>3, RoomSent
  <2> QED BY <1>3, <2>1
<1> QED BY <1>2, <1>3

LEMMA GameShown ==
  ASSUME TypesInv, NEW p \in Update, ToRoom(Message("listGames", p)), view' = view, NEW w \in Web
  PROVE  /\ NewReads(w)
         /\ Replay(w)'.loaded = Replay(w).loaded /\ Replay(w)'.said = Replay(w).said
         /\ Replay(w)'.users = Replay(w).users /\ Replay(w)'.lobby = Replay(w).lobby
         /\ w \in members /\ Replay(w).loaded =>
              Replay(w)'.games = UpdateGames(Replay(w).games, p)
<1>1. Message("listGames", p) \in Msg /\ Replay(w) \in Store(Nat)
  BY NamedMessages, ReplayType
<1>2. CASE w \in members
  <2>1. Replay(w)' = Apply(Replay(w), Message("listGames", p)) /\ NewReads(w)
    BY <1>1, <1>2, RoomSent
  <2> QED BY <1>1, <1>2, <2>1, GameFields
<1>3. CASE w \notin members
  <2>1. Replay(w)' = Replay(w) /\ NewReads(w)
    BY <1>1, <1>3, RoomSent
  <2> QED BY <1>3, <2>1
<1> QED BY <1>2, <1>3

LEMMA LeftShown ==
  ASSUME TypesInv, NEW x \in Web, LeaveReply(x), NEW w \in Web
  PROVE  /\ NewReads(w)
         /\ Replay(w)'.loaded = Replay(w).loaded /\ Replay(w)'.games = Replay(w).games
         /\ Replay(w)'.users = Replay(w).users /\ Replay(w)'.lobby = Replay(w).lobby
         /\ w = x => Replay(w)'.said = [c \in Chat |-> 0]
         /\ w # x => Replay(w)'.said = Replay(w).said
<1>1. Message("left", x) \in Msg /\ Replay(w) \in Store(Nat)
  BY NamedMessages, ReplayType
<1>2. view' = view /\ queue' = [queue EXCEPT ![x] = Append(@, Message("left", x))]
  BY DEF LeaveReply
<1>3. CASE w = x
  <2>1. Replay(w)' = Apply(Replay(w), Message("left", x)) /\ NewReads(w)
    BY <1>1, <1>2, <1>3, AnswerSent
  <2> QED BY <1>1, <1>3, <2>1, LeftFields
<1>4. CASE w # x
  <2>1. Replay(w)' = Replay(w) /\ NewReads(w)
    BY <1>1, <1>2, <1>4, AnswerSent
  <2> QED BY <1>4, <2>1
<1> QED BY <1>3, <1>4

LEMMA ListShown ==
  ASSUME TypesInv, NEW x \in Web, ListReply(x), NEW w \in Web
  PROVE  /\ NewReads(w)
         /\ Replay(w)'.loaded = Replay(w).loaded /\ Replay(w)'.games = Replay(w).games
         /\ Replay(w)'.users = Replay(w).users /\ Replay(w)'.said = Replay(w).said
<1>1. doing[x].users \in SUBSET User /\ Replay(w) \in Store(Nat)
  BY ReplayType DEF TypesInv, Lists, User
<1>2. Message("users", doing[x].users) \in Msg
  BY <1>1, NamedMessages
<1>3. view' = view /\ queue' = [queue EXCEPT ![x] = Append(@, Message("users", doing[x].users))]
  BY DEF ListReply
<1>4. CASE w = x
  <2>1. Replay(w)' = Apply(Replay(w), Message("users", doing[x].users)) /\ NewReads(w)
    BY <1>2, <1>3, <1>4, AnswerSent
  <2>2. LET a == Apply(Replay(w), Message("users", doing[x].users))
        IN  a.loaded = Replay(w).loaded /\ a.games = Replay(w).games
            /\ a.said = Replay(w).said /\ a.users = Replay(w).users
    BY <1>1, UsersFields
  <2> QED BY <2>1, <2>2
<1>5. CASE w # x
  <2>1. Replay(w)' = Replay(w) /\ NewReads(w)
    BY <1>2, <1>3, <1>5, AnswerSent
  <2> QED BY <1>5, <2>1
<1> QED BY <1>4, <1>5

\* The answer to a join and the history behind it.
Joined(w, k) == Heard(Apply(Replay(w), Message("roomInfo", doing[w])), doing[w].said, k)

LEMMA JoinReplyShown ==
  ASSUME TypesInv, NEW w \in Web, JoinReply(w), IsInjective(doing[w].said)
  PROVE  /\ Replay(w)' = Joined(w, Len(doing[w].said))
         /\ Replay(w)' \in Store(Nat)
         /\ Reads(view'[w], queue'[w])
              \subseteq Reads(view[w], queue[w])
                         \cup {Joined(w, k) : k \in 0..Len(doing[w].said)}
         /\ \A x \in Web : x # w => Replay(x)' = Replay(x) /\ NewReads(x)
<1> DEFINE h == doing[w].said
           m == Message("roomInfo", doing[w])
           q == Append(queue[w], m)
<1>1. /\ Replay(w) \in Store(Nat) /\ view[w] \in Store(Nat) /\ queue[w] \in Seq(Msg)
      /\ doing[w] \in Lists /\ h \in Seq(Chat) /\ m \in Msg
  <2>1. doing[w] \in Lists
    BY DEF TypesInv, User
  <2>2. h \in Seq(Chat)
    BY <2>1 DEF Lists
  <2>3. m \in Msg
    BY <2>1, NamedMessages
  <2> QED BY <2>1, <2>2, <2>3, ReplayType
<1>2. Told(h) \in Seq(Msg) /\ Len(Told(h)) = Len(h) /\ Len(h) \in Nat
  BY <1>1, ToldType
<1>3. view' = view /\ queue'[w] = q \o Told(h)
  BY DEF JoinReply, Told, TypesInv
<1> HIDE DEF h, m
<1>4. /\ q \in Seq(Msg) /\ Read(view[w], q) = Apply(Replay(w), m)
      /\ Reads(view[w], q) = Reads(view[w], queue[w]) \cup {Apply(Replay(w), m)}
      /\ Apply(Replay(w), m) \in Store(Nat)
  BY <1>1, ReadAppend, ReplayIsRead, ApplyType
<1> HIDE DEF q
<1>5. PICK r : ReadOn(view[w], q, Told(h), r)
  BY <1>1, <1>2, <1>4, ReadConcat
<1>6. \A k \in 0..Len(h) : r[k] = Heard(Apply(Replay(w), m), h, k)
  <2>1. IsInjective(h)
    BY DEF h
  <2>2. ReadRun(Apply(Replay(w), m), [i \in 1..Len(h) |-> Message("roomSay", h[i])], r)
    BY <1>4, <1>5 DEF Told, ReadOn
  <2> QED BY <1>1, <1>4, <2>1, <2>2, HistoryRun
<1>7. \A k \in 0..Len(h) : r[k] = Joined(w, k)
  BY <1>6 DEF Joined, h, m
<1>8. Len(h) \in 0..Len(h) /\ 0 \in 0..Len(h)
  BY <1>2
<1>9. Replay(w)' = r[Len(h)]
  BY <1>2, <1>3, <1>5 DEF Replay, Read, ReadOn
<1>10. r[Len(h)] \in Store(Nat) /\ r[0] = Apply(Replay(w), m)
  BY <1>2, <1>4, <1>5, <1>8 DEF ReadRun, ReadOn
<1>11. Reads(view'[w], queue'[w])
         \subseteq Reads(view[w], queue[w]) \cup {Joined(w, k) : k \in 0..Len(h)}
  <2>1. Apply(Replay(w), m) \in {Joined(w, k) : k \in 0..Len(h)}
    BY <1>7, <1>8, <1>10
  <2>2. {r[i] : i \in 0..Len(h)} = {Joined(w, k) : k \in 0..Len(h)}
    BY <1>7
  <2> QED BY <1>2, <1>3, <1>4, <1>5, <2>1, <2>2 DEF ReadOn
<1>12. ASSUME NEW x \in Web, x # w PROVE Replay(x)' = Replay(x) /\ NewReads(x)
  <2>1. view'[x] = view[x] /\ queue'[x] = queue[x]
    BY <1>3, <1>12 DEF JoinReply, TypesInv
  <2> QED BY <2>1, NothingSent
<1> QED BY <1>7, <1>8, <1>9, <1>10, <1>11, <1>12 DEF h

\* In fields.
LEMMA JoinedFields ==
  ASSUME TypesInv, NEW w \in Web, NEW k \in Nat
  PROVE  LET a == Joined(w, k)
         IN  /\ a.loaded = TRUE /\ a.lobby = Replay(w).lobby
             /\ a.users = [u \in User |-> IF u \in doing[w].users THEN 1 ELSE 0]
             /\ a.games = [g \in Game |-> IF g \in doing[w].games THEN "open" ELSE "absent"]
             /\ a.said = [m \in Chat |-> IF \E i \in 1..k : doing[w].said[i] = m
                                         THEN Replay(w).said[m] + 1 ELSE Replay(w).said[m]]
<1> DEFINE v == Apply(Replay(w), Message("roomInfo", doing[w]))
<1>1. Replay(w) \in Store(Nat) /\ doing[w] \in Lists
  BY ReplayType DEF TypesInv, User
<1>2. Message("roomInfo", doing[w]) \in Msg
  BY <1>1, NamedMessages
<1>3. v \in Store(Nat)
  BY <1>1, <1>2, ApplyType
<1>4. /\ v.loaded = TRUE /\ v.said = Replay(w).said /\ v.lobby = Replay(w).lobby
      /\ v.users = [u \in User |-> IF u \in doing[w].users THEN 1 ELSE 0]
      /\ v.games = [g \in Game |-> IF g \in doing[w].games THEN "open" ELSE "absent"]
  BY <1>1, RoomInfoFields
<1> HIDE DEF v
<1> DEFINE t == [m \in Chat |-> IF \E i \in 1..k : doing[w].said[i] = m THEN v.said[m] + 1 ELSE v.said[m]]
<1>5. Joined(w, k) = [v EXCEPT !.said = t]
  BY DEF Joined, Heard, v
<1>6. t = [m \in Chat |-> IF \E i \in 1..k : doing[w].said[i] = m
                           THEN Replay(w).said[m] + 1 ELSE Replay(w).said[m]]
  BY <1>4
<1> HIDE DEF t
<1>7. Joined(w, k).said = t /\ Joined(w, k).loaded = v.loaded /\ Joined(w, k).users = v.users
      /\ Joined(w, k).games = v.games /\ Joined(w, k).lobby = v.lobby
  BY <1>3, <1>5 DEF Store
<1> QED BY <1>4, <1>6, <1>7

-----------------------------------------------------------------------------
(* The list of the room's users.                                            *)

\* Nothing the list depends on has changed, but what a client may have missed
\* and what the answer to a join will say.
UsersFrame ==
  /\ members' = members
  /\ \A u \in User : pc'[u] \in Coming <=> pc[u] \in Coming
  /\ \A w \in Web :
       /\ missed[w] \subseteq missed'[w]
       /\ Replay(w)'.users = Replay(w).users /\ Replay(w)'.loaded = Replay(w).loaded
       /\ pc'[w] = "joining" <=> pc[w] = "joining"
       /\ pc'[w] \in {"inserted", "replying"} <=> pc[w] \in {"inserted", "replying"}
       /\ pc'[w] = "replying" =>
            \A u \in User \ missed'[w] : u \in doing'[w].users <=> u \in members

LEMMA UsersKept ==
  ASSUME TypesInv, UsersInv, CountsInv, UsersFrame
  PROVE  UsersInv' /\ CountsInv'
<1>1. \A u \in User : Announced(u)' <=> Announced(u)
  BY DEF Announced, UsersFrame
<1>2. ASSUME NEW w \in Web
      PROVE  (InRoom(w)' <=> InRoom(w)) /\ (MakesRoomList(w)' <=> MakesRoomList(w))
  BY DEF InRoom, MakesRoomList, UsersFrame
<1>3. UsersInv'
  <2> SUFFICES ASSUME NEW w \in Web
               PROVE  /\ InRoom(w)' => /\ Replay(w)'.loaded
                                      /\ \A u \in User \ missed'[w] :
                                           Replay(w)'.users[u] = IF Announced(u)' THEN 1 ELSE 0
                      /\ MakesRoomList(w)' =>
                           \A u \in User \ (missed'[w] \cup {w}) : pc'[u] \notin Coming
                      /\ pc'[w] = "replying" =>
                           \A u \in User \ missed'[w] : u \in doing'[w].users <=> u \in members'
    BY DEF UsersInv
  <2>1. ASSUME InRoom(w)'
        PROVE  /\ Replay(w)'.loaded
               /\ \A u \in User \ missed'[w] :
                    Replay(w)'.users[u] = IF Announced(u)' THEN 1 ELSE 0
    BY <1>1, <1>2, <2>1 DEF UsersInv, UsersFrame
  <2>2. ASSUME MakesRoomList(w)', NEW u \in User \ (missed'[w] \cup {w})
        PROVE  pc'[u] \notin Coming
    BY <1>2, <2>2 DEF UsersInv, UsersFrame
  <2> QED BY <2>1, <2>2 DEF UsersFrame
<1>4. CountsInv'
  <2> SUFFICES ASSUME NEW w \in Web, NEW u \in User
               PROVE  /\ ~Replay(w)'.loaded => Replay(w)'.users[u] = 0
                      /\ w \notin members' => Replay(w)'.users[u] <= 2
                      /\ pc'[w] \in {"inserted", "replying"} =>
                           Replay(w)'.users[u] <= IF Announced(u)' THEN 3 ELSE 2
                      /\ InRoom(w)' => Replay(w)'.users[u] <= IF Announced(u)' THEN 2 ELSE 1
    BY DEF CountsInv
  <2>1. /\ ~Replay(w).loaded => Replay(w).users[u] = 0
        /\ w \notin members => Replay(w).users[u] <= 2
        /\ pc[w] \in {"inserted", "replying"} =>
             Replay(w).users[u] <= IF Announced(u) THEN 3 ELSE 2
        /\ InRoom(w) => Replay(w).users[u] <= IF Announced(u) THEN 2 ELSE 1
    BY DEF CountsInv
  <2>2. /\ Replay(w)'.users = Replay(w).users /\ Replay(w)'.loaded = Replay(w).loaded
        /\ pc'[w] \in {"inserted", "replying"} <=> pc[w] \in {"inserted", "replying"}
        /\ members' = members
    BY DEF UsersFrame
  <2> QED BY <1>1, <1>2, <2>1, <2>2
<1> QED BY <1>3, <1>4

\* The number of times a user is shown is a number.
LEMMA Shows ==
  ASSUME TypesInv, NEW w \in Web
  PROVE  /\ Replay(w).users \in [User -> Nat] /\ Replay(w).said \in [Chat -> Nat]
         /\ Replay(w).games \in [Game -> Shown] /\ Replay(w).loaded \in BOOLEAN
BY ReplayType, StoreFields

LEMMA UsersJoinAnnounce ==
  ASSUME TypesInv, PcInv, UsersInv, CountsInv, NEW u \in User, JoinAnnounce(u)
  PROVE  UsersInv' /\ CountsInv'
<1>1. /\ ToRoom(Message("joinRoom", u)) /\ view' = view /\ doing' = doing /\ members' = members
      /\ u \notin members /\ pc[u] = "idle" /\ pc'[u] = "joining"
      /\ \A x \in User : x # u => pc'[x] = pc[x]
      /\ missed' = [w \in Web |-> IF w = u THEN UnderWay
                                 ELSE IF MakesRoomList(w) THEN missed[w] \cup {u} ELSE missed[w]]
  BY DEF JoinAnnounce, MayBegin, roomVars, TypesInv
<1>2. ~Announced(u) /\ Announced(u)' /\ \A x \in User : x # u => (Announced(x)' <=> Announced(x))
  BY <1>1 DEF Announced, Coming
<1>3. ASSUME NEW w \in Web, w # u
      PROVE  /\ pc'[w] = pc[w] /\ (InRoom(w)' <=> InRoom(w))
             /\ (MakesRoomList(w)' <=> MakesRoomList(w))
             /\ missed'[w] = IF MakesRoomList(w) THEN missed[w] \cup {u} ELSE missed[w]
  BY <1>1, <1>3 DEF InRoom, MakesRoomList, User
<1>4. ASSUME NEW w \in Web, w = u
      PROVE  ~InRoom(w)' /\ pc'[w] = "joining" /\ missed'[w] = UnderWay
  BY <1>1, <1>4 DEF InRoom
<1>5. ASSUME NEW w \in Web
      PROVE  /\ Replay(w)'.loaded = Replay(w).loaded /\ Replay(w).users \in [User -> Nat]
             /\ w \notin members \/ ~Replay(w).loaded => Replay(w)'.users = Replay(w).users
             /\ w \in members /\ Replay(w).loaded =>
                  Replay(w)'.users = [Replay(w).users EXCEPT ![u] = @ + 1]
             /\ Replay(w).loaded \in BOOLEAN
  BY <1>1, EntryShown, Shows
<1>6. UsersInv'
  <2>1. ASSUME NEW w \in Web, InRoom(w)'
        PROVE  /\ Replay(w)'.loaded
               /\ \A x \in User \ missed'[w] :
                    Replay(w)'.users[x] = IF Announced(x)' THEN 1 ELSE 0
    <3>1. w # u /\ InRoom(w) /\ missed'[w] = missed[w] /\ w \in members
      BY <1>3, <1>4, <2>1 DEF InRoom
    <3>2. Replay(w)'.loaded /\ Replay(w).loaded
      BY <1>5, <3>1 DEF UsersInv
    <3>3. Replay(w)'.users = [Replay(w).users EXCEPT ![u] = @ + 1]
      BY <1>5, <3>1, <3>2
    <3>4. ASSUME NEW x \in User \ missed'[w]
          PROVE  Replay(w)'.users[x] = IF Announced(x)' THEN 1 ELSE 0
      <4>1. Replay(w).users[x] = IF Announced(x) THEN 1 ELSE 0
        BY <3>1 DEF UsersInv
      <4>2. CASE x = u
        BY <1>2, <1>5, <3>3, <4>1, <4>2
      <4>3. CASE x # u
        BY <1>2, <1>5, <3>3, <4>1, <4>3
      <4> QED BY <4>2, <4>3
    <3> QED BY <3>2, <3>4
  <2>2. ASSUME NEW w \in Web, MakesRoomList(w)', NEW x \in User \ (missed'[w] \cup {w})
        PROVE  pc'[x] \notin Coming
    <3>1. CASE w = u
      <4>1. x \notin UnderWay /\ x # u
        BY <1>4, <3>1
      <4> QED BY <1>1, <4>1 DEF UnderWay, Coming
    <3>2. CASE w # u
      <4>1. MakesRoomList(w) /\ x \notin missed[w] /\ x # u
        BY <1>3, <2>2, <3>2
      <4> QED BY <1>1, <4>1 DEF UsersInv
    <3> QED BY <3>1, <3>2
  <2>3. ASSUME NEW w \in Web, pc'[w] = "replying", NEW x \in User \ missed'[w]
        PROVE  x \in doing'[w].users <=> x \in members'
    <3>1. w # u /\ pc[w] = "replying" /\ x \notin missed[w]
      BY <1>3, <1>4, <2>3
    <3> QED BY <1>1, <3>1 DEF UsersInv
  <2> QED BY <2>1, <2>2, <2>3 DEF UsersInv
<1>7. CountsInv'
  <2> SUFFICES ASSUME NEW w \in Web, NEW x \in User
               PROVE  /\ ~Replay(w)'.loaded => Replay(w)'.users[x] = 0
                      /\ w \notin members => Replay(w)'.users[x] <= 2
                      /\ pc'[w] \in {"inserted", "replying"} =>
                           Replay(w)'.users[x] <= IF Announced(x)' THEN 3 ELSE 2
                      /\ InRoom(w)' => Replay(w)'.users[x] <= IF Announced(x)' THEN 2 ELSE 1
    BY <1>1 DEF CountsInv
  <2>1. /\ ~Replay(w).loaded => Replay(w).users[x] = 0
        /\ w \notin members => Replay(w).users[x] <= 2
        /\ pc[w] \in {"inserted", "replying"} =>
             Replay(w).users[x] <= IF Announced(x) THEN 3 ELSE 2
        /\ InRoom(w) => Replay(w).users[x] <= IF Announced(x) THEN 2 ELSE 1
        /\ Replay(w).users[x] \in Nat
    BY <1>5 DEF CountsInv
  <2>2. Replay(w)'.users[x] = Replay(w).users[x] \/ (x = u /\ Replay(w)'.users[x] = Replay(w).users[x] + 1)
    <3>1. CASE w \notin members \/ ~Replay(w).loaded
      BY <1>5, <3>1
    <3>2. CASE w \in members /\ Replay(w).loaded
      <4>1. CASE x = u
        BY <1>5, <3>2, <4>1
      <4>2. CASE x # u
        BY <1>5, <3>2, <4>2
      <4> QED BY <4>1, <4>2
    <3> QED BY <3>1, <3>2
  <2>3. /\ ~Replay(w)'.loaded => Replay(w)'.users[x] = 0
        /\ w \notin members => Replay(w)'.users[x] <= 2
    BY <1>5, <2>1
  <2>4. CASE w = u
    BY <1>4, <2>3, <2>4
  <2>5. CASE w # u
    <3>1. pc'[w] = pc[w] /\ (InRoom(w)' <=> InRoom(w))
      BY <1>3, <2>5
    <3>2. CASE x = u
      BY <1>2, <2>1, <2>2, <2>3, <3>1, <3>2
    <3>3. CASE x # u
      BY <1>2, <2>1, <2>2, <2>3, <3>1, <3>3
    <3> QED BY <3>2, <3>3
  <2> QED BY <2>4, <2>5
<1> QED BY <1>6, <1>7

LEMMA UsersJoinInsert ==
  ASSUME TypesInv, PcInv, UsersInv, CountsInv, NEW u \in User, JoinInsert(u)
  PROVE  UsersInv' /\ CountsInv'
<1>1. /\ doing' = doing /\ members' = members \cup {u} /\ missed' = missed
      /\ pc[u] = "joining" /\ u \notin members
      /\ pc'[u] = IF u \in Web THEN "inserted" ELSE "idle"
      /\ \A x \in User : x # u => pc'[x] = pc[x]
  BY DEF JoinInsert, Step, TypesInv, PcInv, Coming
<1>2. \A w \in Web : Replay(w)' = Replay(w)
  BY NothingSent DEF JoinInsert
<1>3. \A x \in User : Announced(x)' <=> Announced(x)
  BY <1>1 DEF Announced, Coming
<1>4. ASSUME NEW w \in Web
      PROVE  /\ w # u => pc'[w] = pc[w]
             /\ InRoom(w)' => InRoom(w) /\ w # u
             /\ MakesRoomList(w)' => MakesRoomList(w)
             /\ w = u => pc[w] = "joining" /\ pc'[w] = "inserted"
  BY <1>1 DEF InRoom, MakesRoomList, User
<1>5. UsersInv'
  <2>1. ASSUME NEW w \in Web, InRoom(w)'
        PROVE  /\ Replay(w)'.loaded
               /\ \A x \in User \ missed'[w] :
                    Replay(w)'.users[x] = IF Announced(x)' THEN 1 ELSE 0
    BY <1>1, <1>2, <1>3, <1>4, <2>1 DEF UsersInv
  <2>2. ASSUME NEW w \in Web, MakesRoomList(w)', NEW x \in User \ (missed'[w] \cup {w})
        PROVE  pc'[x] \notin Coming
    <3>1. pc[x] \notin Coming
      BY <1>1, <1>4, <2>2 DEF UsersInv
    <3> QED BY <1>1, <3>1 DEF Coming
  <2>3. ASSUME NEW w \in Web, pc'[w] = "replying", NEW x \in User \ missed'[w]
        PROVE  x \in doing'[w].users <=> x \in members'
    <3>1. w # u /\ pc[w] = "replying" /\ MakesRoomList(w)
      BY <1>4, <2>3 DEF MakesRoomList
    <3>2. u \in missed[w]
      BY <1>1, <3>1 DEF UsersInv, Coming
    <3> QED BY <1>1, <3>1, <3>2 DEF UsersInv
  <2> QED BY <2>1, <2>2, <2>3 DEF UsersInv
<1>6. CountsInv'
  <2> SUFFICES ASSUME NEW w \in Web, NEW x \in User
               PROVE  /\ ~Replay(w).loaded => Replay(w).users[x] = 0
                      /\ w \notin members' => Replay(w).users[x] <= 2
                      /\ pc'[w] \in {"inserted", "replying"} =>
                           Replay(w).users[x] <= IF Announced(x)' THEN 3 ELSE 2
                      /\ InRoom(w)' => Replay(w).users[x] <= IF Announced(x)' THEN 2 ELSE 1
    BY <1>2 DEF CountsInv
  <2>1. /\ ~Replay(w).loaded => Replay(w).users[x] = 0
        /\ w \notin members => Replay(w).users[x] <= 2
        /\ pc[w] \in {"inserted", "replying"} =>
             Replay(w).users[x] <= IF Announced(x) THEN 3 ELSE 2
        /\ InRoom(w) => Replay(w).users[x] <= IF Announced(x) THEN 2 ELSE 1
        /\ Replay(w).users[x] \in Nat
    BY Shows DEF CountsInv
  <2>2. CASE w = u
    <3>1. Replay(w).users[x] <= 2 /\ ~InRoom(w)'
      BY <1>1, <1>4, <2>1, <2>2
    <3> QED BY <2>1, <3>1
  <2>3. CASE w # u
    <3>1. pc'[w] = pc[w] /\ (InRoom(w)' => InRoom(w)) /\ (w \notin members' => w \notin members)
      BY <1>1, <1>4, <2>3
    <3> QED BY <1>3, <2>1, <3>1
  <2> QED BY <2>2, <2>3
<1> QED BY <1>5, <1>6

LEMMA UsersLeaveRemove ==
  ASSUME TypesInv, PcInv, UsersInv, CountsInv, NEW u \in User,
         NEW how \in {"leaving", "quitting"}, LeaveRemove(u, how)
  PROVE  UsersInv' /\ CountsInv'
<1>1. /\ doing' = doing /\ members' = members \ {u} /\ u \in members
      /\ pc[u] = "idle" /\ pc'[u] \in {"leaving", "quitting"}
      /\ \A x \in User : x # u => pc'[x] = pc[x]
      /\ missed' = [w \in Web |-> IF MakesRoomList(w) THEN missed[w] \cup {u} ELSE missed[w]]
  BY DEF LeaveRemove, MayBegin, BeginsNow, TypesInv
<1>2. \A w \in Web : Replay(w)' = Replay(w)
  BY NothingSent DEF LeaveRemove
<1>3. \A x \in User : Announced(x)' <=> Announced(x)
  BY <1>1 DEF Announced, Coming
<1>4. ASSUME NEW w \in Web
      PROVE  /\ w # u => pc'[w] = pc[w]
             /\ InRoom(w)' => InRoom(w) /\ ~MakesRoomList(w)
             /\ MakesRoomList(w)' => MakesRoomList(w) /\ w # u
             /\ w = u => InRoom(w)
             /\ missed'[w] = IF MakesRoomList(w) THEN missed[w] \cup {u} ELSE missed[w]
  BY <1>1 DEF InRoom, MakesRoomList, User
<1>5. UsersInv'
  <2>1. ASSUME NEW w \in Web, InRoom(w)'
        PROVE  /\ Replay(w)'.loaded
               /\ \A x \in User \ missed'[w] :
                    Replay(w)'.users[x] = IF Announced(x)' THEN 1 ELSE 0
    <3>1. InRoom(w) /\ missed'[w] = missed[w] /\ Replay(w)' = Replay(w)
      BY <1>2, <1>4, <2>1
    <3> QED BY <1>3, <3>1 DEF UsersInv
  <2>2. ASSUME NEW w \in Web, MakesRoomList(w)', NEW x \in User \ (missed'[w] \cup {w})
        PROVE  pc'[x] \notin Coming
    <3>1. pc[x] \notin Coming /\ x # u
      BY <1>4, <2>2 DEF UsersInv
    <3> QED BY <1>1, <3>1
  <2>3. ASSUME NEW w \in Web, pc'[w] = "replying", NEW x \in User \ missed'[w]
        PROVE  x \in doing'[w].users <=> x \in members'
    <3>1. w # u /\ pc[w] = "replying" /\ MakesRoomList(w)
      BY <1>1, <1>4, <2>3 DEF MakesRoomList
    <3>2. x # u /\ x \notin missed[w]
      BY <1>4, <3>1
    <3> QED BY <1>1, <3>1, <3>2 DEF UsersInv
  <2> QED BY <2>1, <2>2, <2>3 DEF UsersInv
<1>6. CountsInv'
  <2> SUFFICES ASSUME NEW w \in Web, NEW x \in User
               PROVE  /\ ~Replay(w).loaded => Replay(w).users[x] = 0
                      /\ w \notin members' => Replay(w).users[x] <= 2
                      /\ pc'[w] \in {"inserted", "replying"} =>
                           Replay(w).users[x] <= IF Announced(x)' THEN 3 ELSE 2
                      /\ InRoom(w)' => Replay(w).users[x] <= IF Announced(x)' THEN 2 ELSE 1
    BY <1>2 DEF CountsInv
  <2>1. /\ ~Replay(w).loaded => Replay(w).users[x] = 0
        /\ w \notin members => Replay(w).users[x] <= 2
        /\ pc[w] \in {"inserted", "replying"} =>
             Replay(w).users[x] <= IF Announced(x) THEN 3 ELSE 2
        /\ InRoom(w) => Replay(w).users[x] <= IF Announced(x) THEN 2 ELSE 1
        /\ Replay(w).users[x] \in Nat
    BY Shows DEF CountsInv
  <2>2. CASE w = u
    <3>1. Replay(w).users[x] <= 2 /\ ~InRoom(w)'
      BY <1>1, <1>4, <2>1, <2>2 DEF InRoom
    <3> QED BY <1>1, <2>1, <2>2, <3>1
  <2>3. CASE w # u
    <3>1. pc'[w] = pc[w] /\ (InRoom(w)' => InRoom(w)) /\ (w \notin members' => w \notin members)
      BY <1>1, <1>4, <2>3
    <3> QED BY <1>3, <2>1, <3>1
  <2> QED BY <2>2, <2>3
<1> QED BY <1>5, <1>6

LEMMA UsersLeaveAnnounce ==
  ASSUME TypesInv, PcInv, UsersInv, CountsInv, NEW u \in User, LeaveAnnounce(u)
  PROVE  UsersInv' /\ CountsInv'
<1>1. /\ ToRoom(Message("leaveRoom", u)) /\ view' = view /\ doing' = doing /\ members' = members
      /\ missed' = missed /\ u \notin members
      /\ pc[u] \in {"leaving", "quitting"} /\ pc'[u] \in {"gone", "left", "idle"}
      /\ \A x \in User : x # u => pc'[x] = pc[x]
  BY DEF LeaveAnnounce, roomVars, TypesInv, PcInv, Coming
<1>2. ~Announced(u)' /\ \A x \in User : x # u => (Announced(x)' <=> Announced(x))
  BY <1>1 DEF Announced, Coming
<1>3. ASSUME NEW w \in Web
      PROVE  /\ InRoom(w)' => InRoom(w)
             /\ MakesRoomList(w)' => MakesRoomList(w)
             /\ pc'[w] \in {"inserted", "replying"} => pc'[w] = pc[w]
  BY <1>1 DEF InRoom, MakesRoomList, User
<1>4. ASSUME NEW w \in Web
      PROVE  /\ Replay(w)'.loaded = Replay(w).loaded /\ Replay(w).users \in [User -> Nat]
             /\ w \notin members \/ ~Replay(w).loaded => Replay(w)'.users = Replay(w).users
             /\ w \in members /\ Replay(w).loaded =>
                  Replay(w)'.users = [Replay(w).users EXCEPT ![u] = 0]
             /\ Replay(w).loaded \in BOOLEAN
  BY <1>1, EntryShown, Shows
<1>5. UsersInv'
  <2>1. ASSUME NEW w \in Web, InRoom(w)'
        PROVE  /\ Replay(w)'.loaded
               /\ \A x \in User \ missed'[w] :
                    Replay(w)'.users[x] = IF Announced(x)' THEN 1 ELSE 0
    <3>1. InRoom(w) /\ w \in members
      BY <1>3, <2>1 DEF InRoom
    <3>2. Replay(w)'.loaded /\ Replay(w).loaded
      BY <1>4, <3>1 DEF UsersInv
    <3>3. Replay(w)'.users = [Replay(w).users EXCEPT ![u] = 0]
      BY <1>4, <3>1, <3>2
    <3>4. ASSUME NEW x \in User \ missed'[w]
          PROVE  Replay(w)'.users[x] = IF Announced(x)' THEN 1 ELSE 0
      <4>1. Replay(w).users[x] = IF Announced(x) THEN 1 ELSE 0
        BY <1>1, <3>1 DEF UsersInv
      <4>2. CASE x = u
        BY <1>2, <1>4, <3>3, <4>2
      <4>3. CASE x # u
        BY <1>2, <1>4, <3>3, <4>1, <4>3
      <4> QED BY <4>2, <4>3
    <3> QED BY <3>2, <3>4
  <2>2. ASSUME NEW w \in Web, MakesRoomList(w)', NEW x \in User \ (missed'[w] \cup {w})
        PROVE  pc'[x] \notin Coming
    <3>1. pc[x] \notin Coming
      BY <1>1, <1>3, <2>2 DEF UsersInv
    <3> QED BY <1>1, <3>1 DEF Coming
  <2>3. ASSUME NEW w \in Web, pc'[w] = "replying", NEW x \in User \ missed'[w]
        PROVE  x \in doing'[w].users <=> x \in members'
    BY <1>1, <1>3, <2>3 DEF UsersInv
  <2> QED BY <2>1, <2>2, <2>3 DEF UsersInv
<1>6. CountsInv'
  <2> SUFFICES ASSUME NEW w \in Web, NEW x \in User
               PROVE  /\ ~Replay(w)'.loaded => Replay(w)'.users[x] = 0
                      /\ w \notin members => Replay(w)'.users[x] <= 2
                      /\ pc'[w] \in {"inserted", "replying"} =>
                           Replay(w)'.users[x] <= IF Announced(x)' THEN 3 ELSE 2
                      /\ InRoom(w)' => Replay(w)'.users[x] <= IF Announced(x)' THEN 2 ELSE 1
    BY <1>1 DEF CountsInv
  <2>1. /\ ~Replay(w).loaded => Replay(w).users[x] = 0
        /\ w \notin members => Replay(w).users[x] <= 2
        /\ pc[w] \in {"inserted", "replying"} =>
             Replay(w).users[x] <= IF Announced(x) THEN 3 ELSE 2
        /\ InRoom(w) => Replay(w).users[x] <= IF Announced(x) THEN 2 ELSE 1
        /\ Replay(w).users[x] \in Nat
    BY <1>4 DEF CountsInv
  <2>2. CASE w \notin members \/ ~Replay(w).loaded
    <3>1. Replay(w)'.users[x] = Replay(w).users[x] /\ Replay(w)'.loaded = Replay(w).loaded
      BY <1>4, <2>2
    <3>2. CASE w \notin members
      <4>1. ~InRoom(w)' /\ pc'[w] \notin {"inserted", "replying"}
        BY <1>1, <1>3, <3>2 DEF InRoom, PcInv, User
      <4> QED BY <2>1, <3>1, <3>2, <4>1
    <3>3. CASE w \in members
      BY <2>1, <2>2, <3>1, <3>3
    <3> QED BY <3>2, <3>3
  <2>3. CASE w \in members /\ Replay(w).loaded
    <3>1. Replay(w)'.users = [Replay(w).users EXCEPT ![u] = 0] /\ Replay(w)'.loaded
      BY <1>4, <2>3
    <3>2. CASE x = u
      <4>1. Replay(w)'.users[x] = 0
        BY <1>4, <3>1, <3>2
      <4> QED BY <2>3, <3>1, <4>1
    <3>3. CASE x # u
      <4>1. Replay(w)'.users[x] = Replay(w).users[x] /\ (Announced(x)' <=> Announced(x))
        BY <1>2, <1>4, <3>1, <3>3
      <4> QED BY <1>3, <2>1, <2>3, <3>1, <4>1
    <3> QED BY <3>2, <3>3
  <2> QED BY <2>2, <2>3
<1> QED BY <1>5, <1>6

LEMMA UsersJoinReply ==
  ASSUME TypesInv, PcInv, UsersInv, CountsInv, SaidInv, NEW w \in Web, JoinReply(w)
  PROVE  UsersInv' /\ CountsInv'
<1>1. /\ members' = members /\ missed' = missed /\ w \in members /\ w \in User
      /\ pc[w] = "replying" /\ pc'[w] = "idle"
      /\ \A x \in User : x # w => pc'[x] = pc[x] /\ doing'[x] = doing[x]
  BY DEF JoinReply, Step, roomVars, TypesInv, PcInv, User
<1>2. \A x \in User : Announced(x)' <=> Announced(x)
  BY <1>1 DEF Announced, Coming
<1>3. \A x \in Web : x # w => Replay(x)' = Replay(x)
  BY JoinReplyShown DEF SaidInv, JoinReply, Step
<1>4. Replay(w)'.loaded = TRUE
      /\ Replay(w)'.users = [u \in User |-> IF u \in doing[w].users THEN 1 ELSE 0]
  <2>1. IsInjective(doing[w].said)
    BY <1>1 DEF SaidInv
  <2>2. Len(doing[w].said) \in Nat
    <3>1. doing[w].said \in Seq(Chat)
      BY <1>1 DEF TypesInv, Lists
    <3> QED BY <3>1
  <2>3. Replay(w)' = Joined(w, Len(doing[w].said))
    BY <2>1, JoinReplyShown
  <2> QED BY <2>2, <2>3, JoinedFields
<1>5. ASSUME NEW x \in Web, x # w
      PROVE  /\ pc'[x] = pc[x] /\ doing'[x] = doing[x] /\ Replay(x)' = Replay(x)
             /\ (InRoom(x)' <=> InRoom(x)) /\ (MakesRoomList(x)' <=> MakesRoomList(x))
  BY <1>1, <1>3, <1>5 DEF InRoom, MakesRoomList, User
<1>6. MakesRoomList(w) /\ ~MakesRoomList(w)'
  BY <1>1 DEF MakesRoomList
<1>7. UsersInv'
  <2>1. ASSUME NEW x \in Web, InRoom(x)', x # w
        PROVE  /\ Replay(x)'.loaded
               /\ \A u \in User \ missed'[x] :
                    Replay(x)'.users[u] = IF Announced(u)' THEN 1 ELSE 0
    BY <1>1, <1>2, <1>5, <2>1 DEF UsersInv
  <2>2. ASSUME NEW u \in User \ missed[w]
        PROVE  Replay(w)'.users[u] = IF Announced(u)' THEN 1 ELSE 0
    <3>1. u \in doing[w].users <=> u \in members
      BY <1>1 DEF UsersInv
    <3>2. Announced(u) <=> u \in members
      <4>1. CASE u = w
        BY <1>1, <4>1 DEF Announced
      <4>2. CASE u # w
        BY <1>6, <4>2 DEF UsersInv, Announced
      <4> QED BY <4>1, <4>2
    <3> QED BY <1>2, <1>4, <3>1, <3>2
  <2>3. ASSUME NEW x \in Web, MakesRoomList(x)', NEW u \in User \ (missed'[x] \cup {x})
        PROVE  pc'[u] \notin Coming
    <3>1. x # w /\ pc[u] \notin Coming
      BY <1>1, <1>5, <1>6, <2>3 DEF UsersInv
    <3> QED BY <1>1, <3>1 DEF Coming
  <2>4. ASSUME NEW x \in Web, pc'[x] = "replying", NEW u \in User \ missed'[x]
        PROVE  u \in doing'[x].users <=> u \in members'
    <3>1. x # w
      BY <1>1, <2>4
    <3> QED BY <1>1, <1>5, <2>4, <3>1 DEF UsersInv
  <2> QED BY <1>1, <1>4, <2>1, <2>2, <2>3, <2>4 DEF UsersInv
<1>8. CountsInv'
  <2>1. ASSUME NEW x \in Web, NEW u \in User, x # w
        PROVE  /\ ~Replay(x)'.loaded => Replay(x)'.users[u] = 0
               /\ x \notin members' => Replay(x)'.users[u] <= 2
               /\ pc'[x] \in {"inserted", "replying"} =>
                    Replay(x)'.users[u] <= IF Announced(u)' THEN 3 ELSE 2
               /\ InRoom(x)' => Replay(x)'.users[u] <= IF Announced(u)' THEN 2 ELSE 1
    BY <1>1, <1>2, <1>5, <2>1 DEF CountsInv
  <2>2. ASSUME NEW u \in User
        PROVE  Replay(w)'.users[u] <= 1 /\ Replay(w)'.users[u] \in Nat
    BY <1>4
  <2>3. pc'[w] = "idle" /\ w \in members' /\ Replay(w)'.loaded
    BY <1>1, <1>4
  <2>4. ASSUME NEW u \in User
        PROVE  /\ ~Replay(w)'.loaded => Replay(w)'.users[u] = 0
               /\ w \notin members' => Replay(w)'.users[u] <= 2
               /\ pc'[w] \in {"inserted", "replying"} =>
                    Replay(w)'.users[u] <= IF Announced(u)' THEN 3 ELSE 2
               /\ InRoom(w)' => Replay(w)'.users[u] <= IF Announced(u)' THEN 2 ELSE 1
    BY <2>2, <2>3
  <2> QED BY <2>1, <2>4 DEF CountsInv
<1> QED BY <1>7, <1>8

-----------------------------------------------------------------------------
(* The list of games.                                                       *)

\* Nothing the list depends on has changed, but for an answer made just now.
GamesFrame ==
  /\ posted' = posted /\ games' = games
  /\ \A w \in Web :
       /\ InRoom(w)' => InRoom(w) /\ Replay(w)'.games = Replay(w).games
       /\ pc'[w] = "replying" => \/ pc[w] = "replying" /\ doing'[w] = doing[w]
                                \/ doing'[w].games = games

LEMMA GamesKept ==
  ASSUME GamesInv, GamesFrame
  PROVE  GamesInv'
<1>1. /\ posted' = posted /\ games' = games
      /\ \A g : PostedOf(g)' = PostedOf(g)
  BY DEF GamesFrame, PostedOf
<1>2. ASSUME NEW w \in Web, InRoom(w)', NEW g \in Game
      PROVE  PostedOf(g)' # {} \/ (Replay(w)'.games[g] = "open" <=> g \in games')
  <2>1. InRoom(w) /\ Replay(w)'.games = Replay(w).games
    BY <1>2 DEF GamesFrame
  <2>2. PostedOf(g) # {} \/ (Replay(w).games[g] = "open" <=> g \in games)
    BY <2>1 DEF GamesInv, SoonRight
  <2> QED BY <1>1, <2>1, <2>2
<1>3. ASSUME NEW w \in Web, pc'[w] = "replying", NEW g \in Game
      PROVE  PostedOf(g)' # {} \/ (g \in doing'[w].games <=> g \in games')
  <2>1. CASE pc[w] = "replying" /\ doing'[w] = doing[w]
    BY <1>1, <2>1 DEF GamesInv, SoonRight
  <2>2. CASE doing'[w].games = games
    BY <1>1, <2>2
  <2> QED BY <1>3, <2>1, <2>2 DEF GamesFrame
<1> QED BY <1>1, <1>2, <1>3 DEF GamesInv, SoonRight

\* An announcement is queued that says what is now true of a game.
LEMMA GamesPosting ==
  ASSUME TypesInv, GamesInv, NEW g \in Game, NEW closed \in BOOLEAN, Post(g, closed),
         closed <=> g \notin games', \A h \in Game \ {g} : h \in games' <=> h \in games,
         pc' = pc, doing' = doing, queue' = queue, view' = view, members' = members
  PROVE  GamesInv'
<1> DEFINE n == Len(posted)
<1>1. /\ posted \in Seq(Update) /\ n \in Nat /\ DOMAIN posted = 1..n
      /\ DOMAIN posted' = 1..(n + 1) /\ posted'[n + 1] = [game |-> g, closed |-> closed]
      /\ \A i \in 1..n : posted'[i] = posted[i] /\ posted[i] \in Update
  BY DEF Post, TypesInv
<1>2. \A w \in Web : Replay(w)' = Replay(w)
  BY NothingSent
<1>3. ASSUME NEW w \in Web PROVE (InRoom(w)' <=> InRoom(w))
  BY DEF InRoom, MakesRoomList
<1> HIDE DEF n
<1>4. ASSUME NEW i \in DOMAIN posted',
             \A j \in DOMAIN posted' : j > i => posted'[j].game # posted'[i].game
      PROVE  posted'[i].closed <=> posted'[i].game \notin games'
  <2>1. CASE i = n + 1
    BY <1>1, <2>1
  <2>2. CASE i # n + 1
    <3>1. i \in 1..n /\ n + 1 > i /\ n + 1 \in DOMAIN posted'
      BY <1>1, <2>2
    <3>2. posted'[i] = posted[i] /\ posted[i].game # g /\ posted[i].game \in Game
      BY <1>1, <1>4, <3>1 DEF Update
    <3>3. \A j \in 1..n : j > i => posted[j].game # posted[i].game
      BY <1>1, <1>4, <3>1
    <3>4. posted[i].closed <=> posted[i].game \notin games
      BY <1>1, <3>1, <3>3 DEF GamesInv
    <3> QED BY <3>2, <3>4
  <2> QED BY <2>1, <2>2
<1>5. ASSUME NEW h \in Game
      PROVE  PostedOf(h)' # {} \/ (PostedOf(h) = {} /\ (h \in games' <=> h \in games))
  <2>1. CASE h = g
    <3>1. n + 1 \in PostedOf(h)'
      BY <1>1, <2>1 DEF PostedOf
    <3> QED BY <3>1
  <2>2. CASE h # g
    <3>1. PostedOf(h) \subseteq PostedOf(h)'
      BY <1>1 DEF PostedOf
    <3> QED BY <2>2, <3>1
  <2> QED BY <2>1, <2>2
<1>6. ASSUME NEW w \in Web, InRoom(w)', NEW h \in Game
      PROVE  PostedOf(h)' # {} \/ (Replay(w)'.games[h] = "open" <=> h \in games')
  BY <1>2, <1>3, <1>5, <1>6 DEF GamesInv, SoonRight
<1>7. ASSUME NEW w \in Web, pc'[w] = "replying", NEW h \in Game
      PROVE  PostedOf(h)' # {} \/ (h \in doing'[w].games <=> h \in games')
  BY <1>5, <1>7 DEF GamesInv, SoonRight
<1> QED BY <1>4, <1>6, <1>7 DEF GamesInv, SoonRight

LEMMA GamesBroadcast ==
  ASSUME TypesInv, UsersInv, GamesInv, BroadcastGame
  PROVE  GamesInv'
<1> DEFINE n == Len(Tail(posted))
           p == Head(posted)
<1>1. /\ posted \in Seq(Update) /\ n \in Nat /\ p = posted[1]
      /\ DOMAIN posted = 1..(n + 1) /\ DOMAIN posted' = 1..n
      /\ \A i \in 1..n : posted'[i] = posted[i + 1] /\ i + 1 \in 1..(n + 1)
      /\ p \in Update /\ 1 \in 1..(n + 1)
  BY DEF BroadcastGame, TypesInv
<1>2. /\ ToRoom(Message("listGames", p)) /\ view' = view /\ pc' = pc /\ doing' = doing
      /\ games' = games /\ members' = members /\ MainIdle
  BY DEF BroadcastGame, roomVars
<1> HIDE DEF n, p
<1>3. ASSUME NEW i \in DOMAIN posted',
             \A j \in DOMAIN posted' : j > i => posted'[j].game # posted'[i].game
      PROVE  posted'[i].closed <=> posted'[i].game \notin games'
  <2>1. i \in 1..n /\ i + 1 \in 1..(n + 1) /\ posted'[i] = posted[i + 1]
    BY <1>1
  <2>2. ASSUME NEW j \in 1..(n + 1), j > i + 1 PROVE posted[j].game # posted[i + 1].game
    <3>1. j - 1 \in 1..n /\ j - 1 > i /\ (j - 1) + 1 = j
      BY <1>1, <2>1, <2>2
    <3>2. posted'[j - 1] = posted[j]
      BY <1>1, <3>1
    <3> QED BY <1>1, <1>3, <2>1, <3>1, <3>2
  <2>3. posted[i + 1].closed <=> posted[i + 1].game \notin games
    BY <1>1, <2>1, <2>2 DEF GamesInv
  <2> QED BY <1>2, <2>1, <2>3
<1>4. ASSUME NEW g \in Game, PostedOf(g)' = {}
      PROVE  PostedOf(g) \subseteq {1}
  <2>1. ASSUME NEW i \in PostedOf(g), i # 1 PROVE FALSE
    <3>1. i - 1 \in 1..n /\ (i - 1) + 1 = i /\ posted[i].game = g
      BY <1>1, <2>1 DEF PostedOf
    <3>2. i - 1 \in PostedOf(g)'
      BY <1>1, <3>1 DEF PostedOf
    <3> QED BY <1>4, <3>2
  <2> QED BY <2>1
<1>5. ASSUME NEW w \in Web, InRoom(w)', NEW g \in Game, PostedOf(g)' = {}
      PROVE  Replay(w)'.games[g] = "open" <=> g \in games'
  <2>1. InRoom(w) /\ w \in members
    BY <1>2, <1>5 DEF InRoom, MakesRoomList
  <2>2. Replay(w).loaded
    BY <2>1 DEF UsersInv
  <2>3. Replay(w)'.games = UpdateGames(Replay(w).games, p) /\ Replay(w).games \in [Game -> Shown]
    BY <1>1, <1>2, <2>1, <2>2, GameShown, Shows
  <2>4. CASE p.game = g
    <3>1. ASSUME NEW j \in DOMAIN posted, j > 1 PROVE posted[j].game # posted[1].game
      <4>1. j \notin PostedOf(g)
        BY <1>4, <1>5, <3>1
      <4> QED BY <1>1, <2>4, <4>1 DEF PostedOf
    <3>2. p.closed <=> g \notin games
      BY <1>1, <2>4, <3>1 DEF GamesInv
    <3>3. Replay(w)'.games[g] = "open" <=> ~p.closed
      BY <1>1, <2>3, <2>4 DEF UpdateGames, Update
    <3> QED BY <1>1, <1>2, <3>2, <3>3 DEF Update
  <2>5. CASE p.game # g
    <3>1. PostedOf(g) = {}
      <4>1. 1 \notin PostedOf(g)
        BY <1>1, <2>5 DEF PostedOf
      <4> QED BY <1>4, <1>5, <4>1
    <3>2. Replay(w).games[g] = "open" <=> g \in games
      BY <2>1, <3>1 DEF GamesInv, SoonRight
    <3>3. Replay(w)'.games[g] = Replay(w).games[g]
      BY <2>3, <2>5 DEF UpdateGames
    <3> QED BY <1>2, <3>2, <3>3
  <2> QED BY <2>4, <2>5
<1>6. \A w \in Web : pc'[w] # "replying"
  BY <1>2 DEF MainIdle
<1> QED BY <1>3, <1>5, <1>6 DEF GamesInv, SoonRight

LEMMA GamesJoinReply ==
  ASSUME TypesInv, PcInv, GamesInv, SaidInv, NEW w \in Web, JoinReply(w)
  PROVE  GamesInv'
<1>1. /\ members' = members /\ games' = games /\ posted' = posted /\ w \in User
      /\ pc[w] = "replying" /\ pc'[w] = "idle"
      /\ \A x \in User : x # w => pc'[x] = pc[x] /\ doing'[x] = doing[x]
      /\ IsInjective(doing[w].said)
  BY DEF JoinReply, Step, roomVars, madeVars, TypesInv, User, SaidInv
<1>2. \A g : PostedOf(g)' = PostedOf(g)
  BY <1>1 DEF PostedOf
<1>3. \A x \in Web : x # w => Replay(x)' = Replay(x)
  BY <1>1, JoinReplyShown
<1>4. Replay(w)'.games = [g \in Game |-> IF g \in doing[w].games THEN "open" ELSE "absent"]
  <2>1. Len(doing[w].said) \in Nat
    <3>1. doing[w].said \in Seq(Chat)
      BY <1>1 DEF TypesInv, Lists
    <3> QED BY <3>1
  <2>2. Replay(w)' = Joined(w, Len(doing[w].said))
    BY <1>1, JoinReplyShown
  <2>3. Joined(w, Len(doing[w].said)).games
          = [g \in Game |-> IF g \in doing[w].games THEN "open" ELSE "absent"]
    BY <2>1, JoinedFields
  <2> QED BY <2>2, <2>3
<1>5. ASSUME NEW x \in Web, InRoom(x)', NEW g \in Game
      PROVE  PostedOf(g)' # {} \/ (Replay(x)'.games[g] = "open" <=> g \in games')
  <2>1. CASE x = w
    <3>1. PostedOf(g) # {} \/ (g \in doing[w].games <=> g \in games)
      BY <1>1 DEF GamesInv, SoonRight
    <3> QED BY <1>1, <1>2, <1>4, <2>1, <3>1
  <2>2. CASE x # w
    <3>1. InRoom(x)
      BY <1>1, <1>5, <2>2 DEF InRoom, MakesRoomList, User
    <3>2. PostedOf(g) # {} \/ (Replay(x).games[g] = "open" <=> g \in games)
      BY <3>1 DEF GamesInv, SoonRight
    <3> QED BY <1>1, <1>2, <1>3, <2>2, <3>2
  <2> QED BY <2>1, <2>2
<1>6. ASSUME NEW x \in Web, pc'[x] = "replying", NEW g \in Game
      PROVE  PostedOf(g)' # {} \/ (g \in doing'[x].games <=> g \in games')
  <2>1. x # w /\ x \in User
    BY <1>1, <1>6 DEF User
  <2>2. pc[x] = "replying" /\ doing'[x] = doing[x]
    BY <1>1, <1>6, <2>1
  <2> QED BY <1>1, <1>2, <2>2 DEF GamesInv, SoonRight
<1>7. \A i \in DOMAIN posted' :
        (\A j \in DOMAIN posted' : j > i => posted'[j].game # posted'[i].game)
          => (posted'[i].closed <=> posted'[i].game \notin games')
  BY <1>1 DEF GamesInv
<1> QED BY <1>5, <1>6, <1>7 DEF GamesInv, SoonRight

-----------------------------------------------------------------------------
(* Messages being said and kept.                                            *)

SaidFrame ==
  /\ history' = history /\ fresh' \subseteq fresh
  /\ \A u \in User : pc'[u] = "saying" => pc[u] = "saying" /\ doing'[u] = doing[u]
  /\ \A w \in Web :
       /\ MakesRoomList(w)' => \/ MakesRoomList(w) /\ missed[w] \subseteq missed'[w]
                               \/ missed'[w] = UnderWay
       /\ pc'[w] = "replying" => \/ pc[w] = "replying" /\ doing'[w] = doing[w]
                                \/ doing'[w].said = history

LEMMA SaidKept ==
  ASSUME TypesInv, SaidInv, SaidFrame
  PROVE  SaidInv'
<1>1. history' = history /\ fresh' \subseteq fresh
  BY DEF SaidFrame
<1>2. ASSUME NEW u \in User, NEW m \in Chat, Says(u, m)'
      PROVE  Says(u, m)
  BY <1>2 DEF Says, SaidFrame
<1>3. IsInjective(history') /\ ToSet(history') \cap fresh' = {}
  BY <1>1 DEF SaidInv
<1>4. ASSUME NEW u \in User, pc'[u] = "saying"
      PROVE  \E m \in Chat \ (fresh' \cup ToSet(history')) : doing'[u].said = <<m>>
  <2>1. pc[u] = "saying" /\ doing'[u] = doing[u]
    BY <1>4 DEF SaidFrame
  <2>2. PICK m \in Chat \ (fresh \cup ToSet(history)) : doing[u].said = <<m>>
    BY <2>1 DEF SaidInv
  <2> QED BY <1>1, <2>1, <2>2
<1>5. ASSUME NEW u \in User, NEW v \in User, NEW m \in Chat, Says(u, m)', Says(v, m)'
      PROVE  u = v
  BY <1>2, <1>5 DEF SaidInv
<1>6. ASSUME NEW w \in Web, MakesRoomList(w)', NEW u \in User, NEW m \in Chat, Says(u, m)'
      PROVE  m \in missed'[w]
  <2>1. Says(u, m)
    BY <1>2, <1>6
  <2>2. CASE MakesRoomList(w) /\ missed[w] \subseteq missed'[w]
    BY <2>1, <2>2 DEF SaidInv
  <2>3. CASE missed'[w] = UnderWay
    <3>1. m \in ToSet(doing[u].said)
      BY <2>1 DEF Says, ToSet
    <3>2. m \in UnderWay
      BY <2>1, <3>1 DEF UnderWay, Says
    <3> QED BY <2>3, <3>2
  <2> QED BY <1>6, <2>2, <2>3 DEF SaidFrame
<1>7. ASSUME NEW w \in Web, pc'[w] = "replying"
      PROVE  doing'[w].said = history'
  <2>1. CASE pc[w] = "replying" /\ doing'[w] = doing[w]
    BY <1>1, <2>1 DEF SaidInv
  <2>2. CASE doing'[w].said = history
    BY <1>1, <2>2
  <2> QED BY <1>7, <2>1, <2>2 DEF SaidFrame
<1> QED BY <1>3, <1>4, <1>5, <1>6, <1>7 DEF SaidInv

LEMMA SaidSay ==
  ASSUME TypesInv, SaidInv, NEW u \in User, NEW m \in Chat, Say(u, m)
  PROVE  SaidInv'
<1>1. /\ history' = history /\ fresh' = fresh \ {m} /\ m \in fresh
      /\ pc[u] = "idle" /\ pc'[u] = "saying"
      /\ \A x \in User : x # u => pc'[x] = pc[x] /\ doing'[x] = doing[x]
      /\ missed' = [w \in Web |-> IF MakesRoomList(w) THEN missed[w] \cup {m} ELSE missed[w]]
  BY DEF Say, MayBegin, BeginsNow, roomVars, TypesInv
<1>2. doing'[u].said = <<m>>
  <2>1. Nothing = [users |-> {}, games |-> {}, said |-> <<>>]
    BY DEF Nothing
  <2>2. [Nothing EXCEPT !.said = <<m>>].said = <<m>>
    BY <2>1
  <2> QED BY <2>2 DEF Say, TypesInv
<1>3. m \notin ToSet(history)
  BY <1>1 DEF SaidInv
<1>4. IsInjective(history') /\ ToSet(history') \cap fresh' = {}
  BY <1>1 DEF SaidInv
<1>5. ASSUME NEW x \in User, pc'[x] = "saying"
      PROVE  \E c \in Chat \ (fresh' \cup ToSet(history')) : doing'[x].said = <<c>>
  <2>1. CASE x = u
    BY <1>1, <1>2, <1>3, <2>1
  <2>2. CASE x # u
    <3>1. PICK c \in Chat \ (fresh \cup ToSet(history)) : doing[x].said = <<c>>
      BY <1>1, <1>5, <2>2 DEF SaidInv
    <3> QED BY <1>1, <2>2, <3>1
  <2> QED BY <2>1, <2>2
<1>6. ASSUME NEW x \in User, NEW c \in Chat, Says(x, c)'
      PROVE  (x = u /\ c = m) \/ (x # u /\ c # m /\ Says(x, c))
  <2>1. CASE x = u
    <3>1. <<c>> = <<m>>
      BY <1>2, <1>6, <2>1 DEF Says
    <3>2. c = m
      BY <3>1
    <3> QED BY <2>1, <3>2
  <2>2. CASE x # u
    <3>1. Says(x, c)
      BY <1>1, <1>6, <2>2 DEF Says
    <3>2. PICK k \in Chat \ (fresh \cup ToSet(history)) : doing[x].said = <<k>>
      BY <3>1 DEF SaidInv, Says
    <3>3. <<k>> = <<c>>
      BY <3>1, <3>2 DEF Says
    <3>4. k = c
      BY <3>3
    <3> QED BY <1>1, <2>2, <3>1, <3>2, <3>4
  <2> QED BY <2>1, <2>2
<1>7. ASSUME NEW x \in User, NEW y \in User, NEW c \in Chat, Says(x, c)', Says(y, c)'
      PROVE  x = y
  BY <1>6, <1>7 DEF SaidInv
<1>8. ASSUME NEW w \in Web, MakesRoomList(w)', NEW x \in User, NEW c \in Chat, Says(x, c)'
      PROVE  c \in missed'[w]
  <2>1. MakesRoomList(w)
    BY <1>1, <1>8 DEF MakesRoomList, User
  <2> QED BY <1>1, <1>6, <1>8, <2>1 DEF SaidInv
<1>9. ASSUME NEW w \in Web, pc'[w] = "replying"
      PROVE  doing'[w].said = history'
  BY <1>1, <1>9 DEF SaidInv, User
<1> QED BY <1>4, <1>5, <1>7, <1>8, <1>9 DEF SaidInv

\* The history with a message that is not in it put behind it, whether or not
\* the first one had to go.
LEMMA HistoryGrows ==
  ASSUME NEW h \in Seq(Chat), IsInjective(h), NEW m \in Chat \ ToSet(h),
         NEW k, k = h \o <<m>> \/ (h # <<>> /\ k = Tail(h) \o <<m>>)
  PROVE  IsInjective(k) /\ ToSet(k) \subseteq ToSet(h) \cup {m}
<1>1. \A i, j \in 1..Len(h) : h[i] = h[j] => i = j
  BY DEF IsInjective
<1>2. \A i \in 1..Len(h) : h[i] # m
  BY DEF ToSet
<1>3. CASE k = h \o <<m>>
  <2>1. /\ DOMAIN k = 1..(Len(h) + 1) /\ k[Len(h) + 1] = m /\ Len(h) \in Nat
        /\ \A i \in 1..Len(h) : k[i] = h[i]
    BY <1>3
  <2>2. ToSet(k) \subseteq ToSet(h) \cup {m}
    BY <2>1 DEF ToSet
  <2>3. \A i, j \in DOMAIN k : k[i] = k[j] => i = j
    BY <1>1, <1>2, <2>1
  <2> QED BY <2>2, <2>3 DEF IsInjective
<1>4. CASE h # <<>> /\ k = Tail(h) \o <<m>>
  <2> DEFINE n == Len(h) - 1
  <2>1. /\ n \in Nat /\ DOMAIN k = 1..(n + 1) /\ k[n + 1] = m
        /\ \A i \in 1..n : k[i] = h[i + 1] /\ i + 1 \in 1..Len(h)
    <3>1. Tail(h) \in Seq(Chat) /\ Len(Tail(h)) = n /\ n \in Nat
          /\ \A i \in 1..n : Tail(h)[i] = h[i + 1] /\ i + 1 \in 1..Len(h)
      BY <1>4
    <3>2. ASSUME NEW t \in Seq(Chat), k = t \o <<m>>
          PROVE  /\ DOMAIN k = 1..(Len(t) + 1) /\ k[Len(t) + 1] = m
                 /\ \A i \in 1..Len(t) : k[i] = t[i]
      BY <3>2
    <3>3. /\ DOMAIN k = 1..(n + 1) /\ k[n + 1] = m
          /\ \A i \in 1..n : k[i] = Tail(h)[i]
      BY <1>4, <3>1, <3>2
    <3> QED BY <3>1, <3>3
  <2>2. ToSet(k) \subseteq ToSet(h) \cup {m}
    BY <2>1 DEF ToSet
  <2> HIDE DEF n
  <2>3. \A i, j \in DOMAIN k : k[i] = k[j] => i = j
    <3> SUFFICES ASSUME NEW i \in 1..(n + 1), NEW j \in 1..(n + 1), k[i] = k[j] PROVE i = j
      BY <2>1
    <3>1. CASE i \in 1..n /\ j \in 1..n
      <4>1. i + 1 = j + 1
        BY <1>1, <2>1, <3>1
      <4> QED BY <4>1
    <3>2. CASE i = n + 1 /\ j \in 1..n
      BY <1>2, <2>1, <3>2
    <3>3. CASE j = n + 1 /\ i \in 1..n
      BY <1>2, <2>1, <3>3
    <3>4. CASE i = n + 1 /\ j = n + 1
      BY <3>4
    <3> QED BY <2>1, <3>1, <3>2, <3>3, <3>4
  <2> QED BY <2>2, <2>3 DEF IsInjective
<1> QED BY <1>3, <1>4

LEMMA KeptHistory ==
  ASSUME TypesInv, SaidInv, NEW u \in User, KeepSaid(u)
  PROVE  \E m \in Chat \ (fresh \cup ToSet(history)) :
           Says(u, m) /\ IsInjective(history') /\ ToSet(history') \subseteq ToSet(history) \cup {m}
<1>1. pc[u] = "saying"
  BY DEF KeepSaid, Step
<1>2. PICK m \in Chat \ (fresh \cup ToSet(history)) : doing[u].said = <<m>>
  BY <1>1 DEF SaidInv
<1>3. history \in Seq(Chat) /\ IsInjective(history) /\ HistorySize \in Nat
  BY WebRoomsAssumption DEF TypesInv, SaidInv
<1>4. CASE HistorySize = 0
  BY <1>1, <1>2, <1>3, <1>4 DEF KeepSaid, Says
<1>5. CASE HistorySize # 0
  <2>1. history' = history \o <<m>> \/ (history # <<>> /\ history' = Tail(history) \o <<m>>)
    <3>1. CASE Len(history) >= HistorySize
      <4>1. history # <<>>
        BY <1>3, <1>5, <3>1
      <4> QED BY <1>2, <1>5, <3>1, <4>1 DEF KeepSaid
    <3>2. CASE ~(Len(history) >= HistorySize)
      BY <1>2, <1>5, <3>2 DEF KeepSaid
    <3> QED BY <3>1, <3>2
  <2>2. IsInjective(history') /\ ToSet(history') \subseteq ToSet(history) \cup {m}
    BY <1>2, <1>3, <2>1, HistoryGrows
  <2> QED BY <1>1, <1>2, <2>2 DEF Says
<1> QED BY <1>4, <1>5

LEMMA SaidKeepSaid ==
  ASSUME TypesInv, SaidInv, NEW u \in User, KeepSaid(u)
  PROVE  SaidInv'
<1>1. PICK m \in Chat \ (fresh \cup ToSet(history)) :
        Says(u, m) /\ IsInjective(history') /\ ToSet(history') \subseteq ToSet(history) \cup {m}
  BY KeptHistory
<1>2. /\ fresh' = fresh /\ pc'[u] = "idle" /\ missed' = missed
      /\ \A x \in User : x # u => pc'[x] = pc[x] /\ doing'[x] = doing[x]
      /\ \A w \in Web : pc[w] # "replying"
  BY DEF KeepSaid, Step, madeVars, TypesInv
<1>3. ASSUME NEW x \in User, NEW c \in Chat, Says(x, c)'
      PROVE  Says(x, c) /\ x # u
  BY <1>2, <1>3 DEF Says
<1>4. ToSet(history') \cap fresh' = {}
  BY <1>1, <1>2 DEF SaidInv
<1>5. ASSUME NEW x \in User, pc'[x] = "saying"
      PROVE  \E c \in Chat \ (fresh' \cup ToSet(history')) : doing'[x].said = <<c>>
  <2>1. x # u /\ pc[x] = "saying" /\ doing'[x] = doing[x]
    BY <1>2, <1>5
  <2>2. PICK c \in Chat \ (fresh \cup ToSet(history)) : doing[x].said = <<c>>
    BY <2>1 DEF SaidInv
  <2>3. c # m
    <3>1. Says(x, c)
      BY <2>1, <2>2 DEF Says
    <3> QED BY <1>1, <2>1, <3>1 DEF SaidInv
  <2> QED BY <1>1, <1>2, <2>1, <2>2, <2>3
<1>6. ASSUME NEW x \in User, NEW y \in User, NEW c \in Chat, Says(x, c)', Says(y, c)'
      PROVE  x = y
  BY <1>3, <1>6 DEF SaidInv
<1>7. ASSUME NEW w \in Web, MakesRoomList(w)', NEW x \in User, NEW c \in Chat, Says(x, c)'
      PROVE  c \in missed'[w]
  <2>1. MakesRoomList(w)
    BY <1>2, <1>7 DEF MakesRoomList, User
  <2> QED BY <1>2, <1>3, <1>7, <2>1 DEF SaidInv
<1>8. \A w \in Web : pc'[w] # "replying"
  BY <1>2 DEF User
<1> QED BY <1>1, <1>4, <1>5, <1>6, <1>7, <1>8 DEF SaidInv

-----------------------------------------------------------------------------
(* Messages shown.                                                          *)

\* What is heard of a message now, was heard before.
HeardFrame ==
  /\ fresh' \subseteq fresh
  /\ \A m \in Chat : m \in ToSet(history') \/ (\E u \in User : Says(u, m)')
                      => m \in ToSet(history) \/ (\E u \in User : Says(u, m))
  /\ \A w \in Web :
       /\ Replay(w)'.said = Replay(w).said
       /\ w \notin members' /\ pc'[w] \notin {"leaving", "left"} =>
            w \notin members /\ pc[w] \notin {"leaving", "left"}
       /\ pc'[w] \in {"inserted", "replying"} =>
            \/ pc[w] \in {"inserted", "replying"} /\ missed[w] \subseteq missed'[w]
            \/ w \notin members /\ pc[w] \notin {"leaving", "left"}
       /\ InRoom(w)' => InRoom(w) /\ missed[w] \subseteq missed'[w]

LEMMA HeardKept ==
  ASSUME TypesInv, HeardInv, HeardFrame
  PROVE  HeardInv'
<1> SUFFICES ASSUME NEW w \in Web, NEW m \in Chat
             PROVE  /\ m \in fresh' => Replay(w)'.said[m] = 0
                    /\ Replay(w)'.said[m] <= 2
                    /\ w \notin members' /\ pc'[w] \notin {"leaving", "left"} => Replay(w)'.said[m] = 0
                    /\ pc'[w] \in {"inserted", "replying"} =>
                         Replay(w)'.said[m] <= 1 /\ (m \notin missed'[w] => Replay(w)'.said[m] = 0)
                    /\ InRoom(w)' /\ m \notin missed'[w] =>
                         /\ Replay(w)'.said[m] <= 1
                         /\ m \in ToSet(history') \/ (\E u \in User : Says(u, m)')
                              => Replay(w)'.said[m] = 1
  BY DEF HeardInv
<1>1. /\ m \in fresh => Replay(w).said[m] = 0
      /\ Replay(w).said[m] <= 2
      /\ w \notin members /\ pc[w] \notin {"leaving", "left"} => Replay(w).said[m] = 0
      /\ pc[w] \in {"inserted", "replying"} =>
           Replay(w).said[m] <= 1 /\ (m \notin missed[w] => Replay(w).said[m] = 0)
      /\ InRoom(w) /\ m \notin missed[w] =>
           /\ Replay(w).said[m] <= 1
           /\ m \in ToSet(history) \/ (\E u \in User : Says(u, m)) => Replay(w).said[m] = 1
  BY DEF HeardInv
<1>2. /\ fresh' \subseteq fresh /\ Replay(w)'.said = Replay(w).said
      /\ m \in ToSet(history') \/ (\E u \in User : Says(u, m)')
           => m \in ToSet(history) \/ (\E u \in User : Says(u, m))
      /\ w \notin members' /\ pc'[w] \notin {"leaving", "left"} =>
           w \notin members /\ pc[w] \notin {"leaving", "left"}
      /\ pc'[w] \in {"inserted", "replying"} =>
           \/ pc[w] \in {"inserted", "replying"} /\ missed[w] \subseteq missed'[w]
           \/ w \notin members /\ pc[w] \notin {"leaving", "left"}
      /\ InRoom(w)' => InRoom(w) /\ missed[w] \subseteq missed'[w]
  BY DEF HeardFrame
<1>3. pc'[w] \in {"inserted", "replying"} =>
        Replay(w)'.said[m] <= 1 /\ (m \notin missed'[w] => Replay(w)'.said[m] = 0)
  <2>1. ASSUME pc[w] \in {"inserted", "replying"}, missed[w] \subseteq missed'[w]
        PROVE  Replay(w)'.said[m] <= 1 /\ (m \notin missed'[w] => Replay(w)'.said[m] = 0)
    BY <1>1, <1>2, <2>1
  <2>2. ASSUME w \notin members, pc[w] \notin {"leaving", "left"}
        PROVE  Replay(w)'.said[m] <= 1 /\ (m \notin missed'[w] => Replay(w)'.said[m] = 0)
    BY <1>1, <1>2, <2>2
  <2> QED BY <1>2, <2>1, <2>2
<1> QED BY <1>1, <1>2, <1>3

LEMMA HeardLeaveReply ==
  ASSUME TypesInv, PcInv, HeardInv, NEW x \in Web, LeaveReply(x)
  PROVE  HeardInv'
<1>1. /\ fresh' = fresh /\ history' = history /\ members' = members /\ missed' = missed
      /\ x \in User /\ pc[x] = "left" /\ pc'[x] = "idle" /\ doing' = doing
      /\ \A y \in User : y # x => pc'[y] = pc[y]
  BY DEF LeaveReply, Step, roomVars, madeVars, TypesInv, User
<1>2. \A u \in User, m \in Chat : Says(u, m)' => Says(u, m)
  BY <1>1 DEF Says
<1>3. ASSUME NEW w \in Web, NEW m \in Chat
      PROVE  /\ m \in fresh' => Replay(w)'.said[m] = 0
             /\ Replay(w)'.said[m] <= 2
             /\ w \notin members' /\ pc'[w] \notin {"leaving", "left"} => Replay(w)'.said[m] = 0
             /\ pc'[w] \in {"inserted", "replying"} =>
                  Replay(w)'.said[m] <= 1 /\ (m \notin missed'[w] => Replay(w)'.said[m] = 0)
             /\ InRoom(w)' /\ m \notin missed'[w] =>
                  /\ Replay(w)'.said[m] <= 1
                  /\ m \in ToSet(history') \/ (\E u \in User : Says(u, m)')
                       => Replay(w)'.said[m] = 1
  <2>1. CASE w = x
    <3>1. Replay(w)'.said[m] = 0
      <4>1. Replay(w)'.said = [c \in Chat |-> 0]
        BY <2>1, LeftShown
      <4> QED BY <4>1
    <3>2. ~InRoom(w)'
      BY <1>1, <2>1 DEF InRoom, PcInv
    <3> QED BY <3>1, <3>2
  <2>2. CASE w # x
    <3>1. Replay(w)'.said = Replay(w).said /\ pc'[w] = pc[w]
      BY <1>1, <2>2, LeftShown DEF User
    <3>2. InRoom(w)' <=> InRoom(w)
      BY <1>1, <3>1 DEF InRoom, MakesRoomList
    <3> QED BY <1>1, <1>2, <3>1, <3>2 DEF HeardInv
  <2> QED BY <2>1, <2>2
<1> QED BY <1>3 DEF HeardInv

LEMMA HeardSay ==
  ASSUME TypesInv, PcInv, SaidInv, HeardInv, NEW u \in User, NEW c \in Chat, Say(u, c)
  PROVE  HeardInv'
<1>1. /\ ToRoom(Message("roomSay", c)) /\ view' = view /\ history' = history /\ members' = members
      /\ c \in fresh /\ fresh' = fresh \ {c} /\ pc[u] = "idle" /\ pc'[u] = "saying"
      /\ \A x \in User : x # u => pc'[x] = pc[x] /\ doing'[x] = doing[x]
      /\ missed' = [w \in Web |-> IF MakesRoomList(w) THEN missed[w] \cup {c} ELSE missed[w]]
  BY DEF Say, MayBegin, BeginsNow, roomVars, TypesInv
<1>2. doing'[u].said = <<c>>
  <2>1. Nothing = [users |-> {}, games |-> {}, said |-> <<>>]
    BY DEF Nothing
  <2>2. [Nothing EXCEPT !.said = <<c>>].said = <<c>>
    BY <2>1
  <2> QED BY <2>2 DEF Say, TypesInv
<1>3. ASSUME NEW x \in User, NEW m \in Chat, m # c, Says(x, m)' PROVE Says(x, m)
  <2>1. x # u
    <3>1. <<m>> # <<c>>
      BY <1>3
    <3> QED BY <1>2, <1>3, <3>1 DEF Says
  <2> QED BY <1>1, <1>3, <2>1 DEF Says
<1>4. ASSUME NEW w \in Web
      PROVE  /\ InRoom(w)' <=> InRoom(w)
             /\ pc'[w] \in {"inserted", "replying"} <=> pc[w] \in {"inserted", "replying"}
             /\ pc'[w] \in {"leaving", "left"} <=> pc[w] \in {"leaving", "left"}
             /\ missed'[w] = IF MakesRoomList(w) THEN missed[w] \cup {c} ELSE missed[w]
             /\ Replay(w).said \in [Chat -> Nat]
             /\ w \in members => Replay(w)'.said = [Replay(w).said EXCEPT ![c] = @ + 1]
             /\ w \notin members => Replay(w)'.said = Replay(w).said
  <2>1. w \in User
    BY DEF User
  <2>2. /\ Replay(w).said \in [Chat -> Nat]
        /\ w \in members => Replay(w)'.said = [Replay(w).said EXCEPT ![c] = @ + 1]
        /\ w \notin members => Replay(w)'.said = Replay(w).said
    BY <1>1, SayShown, Shows
  <2> QED BY <1>1, <2>1, <2>2 DEF InRoom, MakesRoomList
<1>5. ASSUME NEW w \in Web, NEW m \in Chat
      PROVE  /\ m \in fresh' => Replay(w)'.said[m] = 0
             /\ Replay(w)'.said[m] <= 2
             /\ w \notin members' /\ pc'[w] \notin {"leaving", "left"} => Replay(w)'.said[m] = 0
             /\ pc'[w] \in {"inserted", "replying"} =>
                  Replay(w)'.said[m] <= 1 /\ (m \notin missed'[w] => Replay(w)'.said[m] = 0)
             /\ InRoom(w)' /\ m \notin missed'[w] =>
                  /\ Replay(w)'.said[m] <= 1
                  /\ m \in ToSet(history') \/ (\E x \in User : Says(x, m)')
                       => Replay(w)'.said[m] = 1
  <2>1. /\ m \in fresh => Replay(w).said[m] = 0
        /\ Replay(w).said[m] <= 2
        /\ w \notin members /\ pc[w] \notin {"leaving", "left"} => Replay(w).said[m] = 0
        /\ pc[w] \in {"inserted", "replying"} =>
             Replay(w).said[m] <= 1 /\ (m \notin missed[w] => Replay(w).said[m] = 0)
        /\ InRoom(w) /\ m \notin missed[w] =>
             /\ Replay(w).said[m] <= 1
             /\ m \in ToSet(history) \/ (\E x \in User : Says(x, m)) => Replay(w).said[m] = 1
    BY DEF HeardInv
  <2>2. CASE m = c
    <3>1. Replay(w).said[m] = 0 /\ m \notin fresh'
      BY <1>1, <2>1, <2>2
    <3>2. CASE w \in members
      <4>1. Replay(w)'.said[m] = 1
        <5>1. /\ Replay(w)'.said = [Replay(w).said EXCEPT ![c] = @ + 1]
              /\ Replay(w).said \in [Chat -> Nat]
          BY <1>4, <3>2
        <5> QED BY <2>2, <3>1, <5>1
      <4>2. pc'[w] \in {"inserted", "replying"} => m \in missed'[w]
        BY <1>4, <2>2 DEF MakesRoomList
      <4>3. w \in members'
        BY <1>1, <3>2
      <4> QED BY <3>1, <4>1, <4>2, <4>3
    <3>3. CASE w \notin members
      <4>1. Replay(w)'.said[m] = 0 /\ ~InRoom(w)'
        BY <1>1, <1>4, <3>1, <3>3 DEF InRoom
      <4> QED BY <4>1
    <3> QED BY <3>2, <3>3
  <2>3. CASE m # c
    <3>1. Replay(w)'.said[m] = Replay(w).said[m]
      BY <1>4, <2>3
    <3>2. m \in fresh' => m \in fresh
      BY <1>1
    <3>3. m \notin missed'[w] => m \notin missed[w]
      BY <1>4
    <3>4. (\E x \in User : Says(x, m)') => (\E x \in User : Says(x, m))
      BY <1>3, <2>3
    <3> QED BY <1>1, <1>4, <2>1, <3>1, <3>2, <3>3, <3>4
  <2> QED BY <2>2, <2>3
<1> QED BY <1>5 DEF HeardInv

LEMMA HeardJoinReply ==
  ASSUME TypesInv, PcInv, SaidInv, HeardInv, NEW w \in Web, JoinReply(w)
  PROVE  HeardInv'
<1>1. /\ members' = members /\ fresh' = fresh /\ history' = history /\ missed' = missed
      /\ w \in User /\ w \in members /\ pc[w] = "replying" /\ pc'[w] = "idle"
      /\ \A x \in User : x # w => pc'[x] = pc[x] /\ doing'[x] = doing[x]
      /\ doing[w].said = history /\ IsInjective(history) /\ history \in Seq(Chat)
  BY DEF JoinReply, Step, roomVars, madeVars, TypesInv, User, SaidInv, PcInv
<1>2. \A x \in Web : x # w => Replay(x)' = Replay(x)
  BY <1>1, JoinReplyShown
<1>3. ASSUME NEW m \in Chat
      PROVE  /\ m \in ToSet(history) => Replay(w)'.said[m] = Replay(w).said[m] + 1
             /\ m \notin ToSet(history) => Replay(w)'.said[m] = Replay(w).said[m]
  <2> DEFINE n == Len(history)
  <2>1. n \in Nat /\ DOMAIN history = 1..n
    BY <1>1
  <2>2. Replay(w)' = Joined(w, n)
    BY <1>1, JoinReplyShown
  <2>3. Joined(w, n).said = [c \in Chat |-> IF \E i \in 1..n : doing[w].said[i] = c
                                         THEN Replay(w).said[c] + 1 ELSE Replay(w).said[c]]
    <3> HIDE DEF n
    <3> QED BY <2>1, JoinedFields
  <2>4. m \in ToSet(history) <=> \E i \in 1..n : history[i] = m
    BY <2>1 DEF ToSet
  <2> HIDE DEF n
  <2> QED BY <1>1, <2>2, <2>3, <2>4
<1>4. ASSUME NEW x \in User, NEW m \in Chat, Says(x, m)' PROVE Says(x, m)
  BY <1>1, <1>4 DEF Says
<1>5. MakesRoomList(w)
  BY <1>1 DEF MakesRoomList
<1>6. ASSUME NEW x \in Web, NEW m \in Chat
      PROVE  /\ m \in fresh' => Replay(x)'.said[m] = 0
             /\ Replay(x)'.said[m] <= 2
             /\ x \notin members' /\ pc'[x] \notin {"leaving", "left"} => Replay(x)'.said[m] = 0
             /\ pc'[x] \in {"inserted", "replying"} =>
                  Replay(x)'.said[m] <= 1 /\ (m \notin missed'[x] => Replay(x)'.said[m] = 0)
             /\ InRoom(x)' /\ m \notin missed'[x] =>
                  /\ Replay(x)'.said[m] <= 1
                  /\ m \in ToSet(history') \/ (\E u \in User : Says(u, m)')
                       => Replay(x)'.said[m] = 1
  <2>1. CASE x = w
    <3>1. Replay(w).said[m] \in Nat /\ Replay(w).said[m] <= 1
          /\ (m \notin missed[w] => Replay(w).said[m] = 0)
          /\ (m \in fresh => Replay(w).said[m] = 0)
      BY <1>1, Shows DEF HeardInv
    <3>2. m \in fresh => m \notin ToSet(history)
      BY DEF SaidInv
    <3>3. m \notin missed[w] => ~\E u \in User : Says(u, m)'
      BY <1>4, <1>5 DEF SaidInv
    <3> QED BY <1>1, <1>3, <2>1, <3>1, <3>2, <3>3
  <2>2. CASE x # w
    <3>1. Replay(x)' = Replay(x) /\ pc'[x] = pc[x]
      BY <1>1, <1>2, <2>2 DEF User
    <3>2. InRoom(x)' <=> InRoom(x)
      BY <1>1, <3>1 DEF InRoom, MakesRoomList
    <3> QED BY <1>1, <1>4, <3>1, <3>2 DEF HeardInv
  <2> QED BY <2>1, <2>2
<1> QED BY <1>6 DEF HeardInv

-----------------------------------------------------------------------------
(* Bounds.                                                                  *)

LEMMA InStore ==
  ASSUME NEW v \in Store(Nat),
         \A u \in User : v.users[u] <= 3 /\ v.lobby[u] <= 3,
         \A m \in Chat : v.said[m] <= 3
  PROVE  v \in Store(0..3)
<1>1. v.users \in [User -> 0..3] /\ v.lobby \in [User -> 0..3] /\ v.said \in [Chat -> 0..3]
  BY StoreFields
<1> QED BY <1>1 DEF Store

\* After a step that keeps the counts, what is shown in the end is bounded.
LEMMA BoundedNow ==
  ASSUME NEW w \in Web, Replay(w)' \in Store(Nat), PcInv', LobbyInv', CountsInv', HeardInv'
  PROVE  Replay(w)' \in Store(0..3)
<1>1. ASSUME NEW u \in User PROVE Replay(w)'.users[u] <= 3 /\ Replay(w)'.lobby[u] <= 3
  <2>1. Replay(w)'.users[u] \in Nat /\ Replay(w)'.lobby[u] \in Nat
    BY StoreFields
  <2>2. /\ w \notin members' => Replay(w)'.users[u] <= 2
        /\ pc'[w] \in {"inserted", "replying"} => Replay(w)'.users[u] <= 3
        /\ InRoom(w)' => Replay(w)'.users[u] <= 2
    BY <2>1 DEF CountsInv
  <2>3. w \in members' /\ ~InRoom(w)' => pc'[w] \in {"inserted", "replying"}
    BY DEF InRoom, MakesRoomList, PcInv, Coming, User
  <2>4. Replay(w)'.lobby[u] <= 2
    BY <2>1 DEF LobbyInv
  <2> QED BY <2>1, <2>2, <2>3, <2>4
<1>2. ASSUME NEW m \in Chat PROVE Replay(w)'.said[m] <= 3
  <2>1. Replay(w)'.said[m] \in Nat /\ Replay(w)'.said[m] <= 2
    BY StoreFields DEF HeardInv
  <2> QED BY <2>1
<1> QED BY <1>1, <1>2, InStore

LEMMA BoundsKept ==
  ASSUME BoundsInv, \A w \in Web : NewReads(w), PcInv', LobbyInv', CountsInv', HeardInv'
  PROVE  BoundsInv'
<1> SUFFICES ASSUME NEW w \in Web
             PROVE  Reads(view'[w], queue'[w]) \subseteq Store(0..3)
  BY DEF BoundsInv
<1>1. Replay(w)' \in Store(0..3)
  BY BoundedNow DEF NewReads
<1> QED BY <1>1 DEF NewReads, BoundsInv

LEMMA BoundsJoinReply ==
  ASSUME TypesInv, BoundsInv, LobbyInv, SaidInv, HeardInv, NEW w \in Web, JoinReply(w),
         PcInv', LobbyInv', CountsInv', HeardInv'
  PROVE  BoundsInv'
<1>1. pc[w] = "replying" /\ IsInjective(doing[w].said) /\ doing[w].said \in Seq(Chat)
      /\ doing[w] \in Lists
  BY DEF JoinReply, Step, SaidInv, TypesInv, Lists, User
<1> DEFINE n == Len(doing[w].said)
<1>2. n \in Nat
  BY <1>1
<1> HIDE DEF n
<1>3. ASSUME NEW k \in 0..n PROVE Joined(w, k) \in Store(0..3)
  <2>1. k \in Nat
    BY <1>2
  <2>2. Joined(w, k) \in Store(Nat)
    <3> DEFINE v == Apply(Replay(w), Message("roomInfo", doing[w]))
               t == [m \in Chat |-> IF \E i \in 1..k : doing[w].said[i] = m
                                    THEN v.said[m] + 1 ELSE v.said[m]]
    <3>1. v \in Store(Nat)
      BY <1>1, ReplayType, ApplyType, NamedMessages
    <3> HIDE DEF v
    <3>2. t \in [Chat -> Nat]
      BY <3>1, StoreFields
    <3>3. Joined(w, k) = [v EXCEPT !.said = t]
      BY DEF Joined, Heard, v
    <3> HIDE DEF t
    <3> QED BY <3>1, <3>2, <3>3 DEF Store
  <2>3. /\ Joined(w, k).lobby = Replay(w).lobby
        /\ Joined(w, k).users = [u \in User |-> IF u \in doing[w].users THEN 1 ELSE 0]
        /\ Joined(w, k).said = [m \in Chat |-> IF \E i \in 1..k : doing[w].said[i] = m
                                         THEN Replay(w).said[m] + 1 ELSE Replay(w).said[m]]
    BY <2>1, JoinedFields
  <2>4. ASSUME NEW u \in User PROVE Joined(w, k).users[u] <= 3 /\ Joined(w, k).lobby[u] <= 3
    <3>1. Replay(w).lobby[u] \in Nat /\ Replay(w).lobby[u] <= 2
      <4>1. Replay(w).lobby[u] \in Nat
        BY ReplayType, StoreFields
      <4> QED BY <4>1 DEF LobbyInv
    <3> QED BY <2>3, <3>1
  <2>5. ASSUME NEW m \in Chat PROVE Joined(w, k).said[m] <= 3
    <3>1. Replay(w).said[m] \in Nat /\ Replay(w).said[m] <= 2
      BY Shows DEF HeardInv
    <3> QED BY <2>3, <3>1
  <2> QED BY <2>2, <2>4, <2>5, InStore
<1>4. Reads(view'[w], queue'[w]) \subseteq Store(0..3)
  <2>1. Reads(view'[w], queue'[w])
          \subseteq Reads(view[w], queue[w]) \cup {Joined(w, k) : k \in 0..n}
    BY <1>1, JoinReplyShown DEF n
  <2> QED BY <1>3, <2>1 DEF BoundsInv
<1>5. ASSUME NEW x \in Web, x # w PROVE Reads(view'[x], queue'[x]) \subseteq Store(0..3)
  <2>1. NewReads(x)
    BY <1>1, <1>5, JoinReplyShown
  <2>2. Replay(x)' \in Store(0..3)
    BY <2>1, BoundedNow DEF NewReads
  <2> QED BY <2>1, <2>2 DEF NewReads, BoundsInv
<1> QED BY <1>4, <1>5 DEF BoundsInv

-----------------------------------------------------------------------------
(* Each step keeps the invariant.                                           *)

LEMMA StepJoinAnnounce ==
  ASSUME RoomInv, NEW u \in User, JoinAnnounce(u)
  PROVE  RoomInv'
<1> USE DEF RoomInv
<1>1. TypesInv' /\ PcInv'
  BY TypesRoom, PcRoom
<1>2. /\ ToRoom(Message("joinRoom", u)) /\ view' = view /\ doing' = doing /\ members' = members
      /\ online' = online /\ accepts' = accepts /\ missedLobby' = missedLobby
      /\ games' = games /\ history' = history /\ posted' = posted /\ fresh' = fresh
      /\ u \notin members /\ pc[u] = "idle" /\ pc'[u] = "joining"
      /\ \A x \in User : x # u => pc'[x] = pc[x]
      /\ missed' = [w \in Web |-> IF w = u THEN UnderWay
                                 ELSE IF MakesRoomList(w) THEN missed[w] \cup {u} ELSE missed[w]]
  BY DEF JoinAnnounce, MayBegin, roomVars, madeVars, lobbyVars, TypesInv
<1>3. ASSUME NEW w \in Web
      PROVE  /\ NewReads(w) /\ w \in User
             /\ Replay(w)'.games = Replay(w).games
             /\ Replay(w)'.said = Replay(w).said /\ Replay(w)'.lobby = Replay(w).lobby
  BY <1>2, EntryShown DEF User
<1>4. ASSUME NEW w \in Web
      PROVE  /\ InRoom(w)' => InRoom(w) /\ missed'[w] = missed[w]
             /\ MakesRoomList(w)' => \/ MakesRoomList(w) /\ missed[w] \subseteq missed'[w]
                                     \/ missed'[w] = UnderWay
             /\ pc'[w] \in {"inserted", "replying"} => MakesRoomList(w) /\ pc'[w] = pc[w]
                                                       /\ missed[w] \subseteq missed'[w]
  BY <1>2, <1>3 DEF InRoom, MakesRoomList
<1>5. LobbyInv'
  <2>1. LobbyFrame
    BY <1>2, <1>3 DEF LobbyFrame
  <2> QED BY <2>1, LobbyKept
<1>6. UsersInv' /\ CountsInv'
  BY UsersJoinAnnounce
<1>7. GamesInv'
  <2>1. GamesFrame
    BY <1>2, <1>3, <1>4 DEF GamesFrame
  <2> QED BY <2>1, GamesKept
<1>8. SaidInv'
  <2>1. SaidFrame
    BY <1>2, <1>3, <1>4 DEF SaidFrame
  <2> QED BY <2>1, SaidKept
<1>9. HeardInv'
  <2>1. \A x \in User, m \in Chat : Says(x, m)' => Says(x, m)
    BY <1>2 DEF Says
  <2>2. ASSUME NEW w \in Web, w \notin members', pc'[w] \notin {"leaving", "left"}
        PROVE  w \notin members /\ pc[w] \notin {"leaving", "left"}
    BY <1>2, <1>3, <2>2
  <2>3. HeardFrame
    BY <1>2, <1>3, <1>4, <2>1, <2>2 DEF HeardFrame
  <2> QED BY <2>3, HeardKept
<1>10. BoundsInv'
  BY <1>1, <1>3, <1>5, <1>6, <1>9, BoundsKept
<1> QED BY <1>1, <1>5, <1>6, <1>7, <1>8, <1>9, <1>10

LEMMA StepJoinInsert ==
  ASSUME RoomInv, NEW u \in User, JoinInsert(u)
  PROVE  RoomInv'
<1> USE DEF RoomInv
<1>1. TypesInv' /\ PcInv'
  BY TypesRoom, PcRoom
<1>2. /\ doing' = doing /\ members' = members \cup {u} /\ missed' = missed
      /\ online' = online /\ accepts' = accepts /\ missedLobby' = missedLobby
      /\ games' = games /\ history' = history /\ posted' = posted /\ fresh' = fresh
      /\ pc[u] = "joining" /\ u \notin members
      /\ pc'[u] = IF u \in Web THEN "inserted" ELSE "idle"
      /\ \A x \in User : x # u => pc'[x] = pc[x]
  BY DEF JoinInsert, Step, madeVars, lobbyVars, TypesInv, PcInv, Coming
<1>3. ASSUME NEW w \in Web PROVE Replay(w)' = Replay(w) /\ NewReads(w) /\ w \in User
  BY NothingSent DEF JoinInsert, User
<1>4. ASSUME NEW w \in Web
      PROVE  /\ InRoom(w)' => InRoom(w)
             /\ MakesRoomList(w)' => MakesRoomList(w)
  BY <1>2, <1>3 DEF InRoom, MakesRoomList
<1>5. LobbyInv'
  <2>1. LobbyFrame
    BY <1>2, <1>3 DEF LobbyFrame
  <2> QED BY <2>1, LobbyKept
<1>6. UsersInv' /\ CountsInv'
  BY UsersJoinInsert
<1>7. GamesInv'
  <2>1. GamesFrame
    BY <1>2, <1>3, <1>4 DEF GamesFrame
  <2> QED BY <2>1, GamesKept
<1>8. SaidInv'
  <2>1. SaidFrame
    BY <1>2, <1>3, <1>4 DEF SaidFrame
  <2> QED BY <2>1, SaidKept
<1>9. HeardInv'
  <2>1. \A x \in User, m \in Chat : Says(x, m)' => Says(x, m)
    BY <1>2 DEF Says
  <2>2. ASSUME NEW w \in Web
        PROVE  /\ w \notin members' /\ pc'[w] \notin {"leaving", "left"} =>
                    w \notin members /\ pc[w] \notin {"leaving", "left"}
               /\ pc'[w] \in {"inserted", "replying"} =>
                    \/ pc[w] \in {"inserted", "replying"}
                    \/ w \notin members /\ pc[w] \notin {"leaving", "left"}
    BY <1>2, <1>3
  <2>3. HeardFrame
    BY <1>2, <1>3, <1>4, <2>1, <2>2 DEF HeardFrame
  <2> QED BY <2>3, HeardKept
<1>10. BoundsInv'
  BY <1>1, <1>3, <1>5, <1>6, <1>9, BoundsKept
<1> QED BY <1>1, <1>5, <1>6, <1>7, <1>8, <1>9, <1>10

LEMMA StepLeaveRemove ==
  ASSUME RoomInv, NEW u \in User, NEW how \in {"leaving", "quitting"}, LeaveRemove(u, how)
  PROVE  RoomInv'
<1> USE DEF RoomInv
<1>1. TypesInv' /\ PcInv'
  BY TypesRoom, PcRoom
<1>2. /\ doing' = doing /\ members' = members \ {u} /\ u \in members
      /\ online' = online /\ accepts' = accepts /\ missedLobby' = missedLobby
      /\ games' = games /\ history' = history /\ posted' = posted /\ fresh' = fresh
      /\ pc[u] = "idle" /\ pc'[u] = how /\ (how = "quitting" => u \in Desk)
      /\ \A x \in User : x # u => pc'[x] = pc[x]
      /\ missed' = [w \in Web |-> IF MakesRoomList(w) THEN missed[w] \cup {u} ELSE missed[w]]
  BY DEF LeaveRemove, MayBegin, BeginsNow, madeVars, lobbyVars, TypesInv
<1>3. ASSUME NEW w \in Web PROVE Replay(w)' = Replay(w) /\ NewReads(w) /\ w \in User /\ w \notin Desk
  BY NothingSent, WebRoomsAssumption DEF LeaveRemove, User
<1>4. ASSUME NEW w \in Web
      PROVE  /\ InRoom(w)' => InRoom(w)
             /\ MakesRoomList(w)' => MakesRoomList(w)
             /\ missed[w] \subseteq missed'[w]
  BY <1>2, <1>3 DEF InRoom, MakesRoomList
<1>5. LobbyInv'
  <2>1. LobbyFrame
    BY <1>2, <1>3 DEF LobbyFrame
  <2> QED BY <2>1, LobbyKept
<1>6. UsersInv' /\ CountsInv'
  BY UsersLeaveRemove
<1>7. GamesInv'
  <2>1. GamesFrame
    BY <1>2, <1>3, <1>4 DEF GamesFrame
  <2> QED BY <2>1, GamesKept
<1>8. SaidInv'
  <2>1. SaidFrame
    BY <1>2, <1>3, <1>4 DEF SaidFrame
  <2> QED BY <2>1, SaidKept
<1>9. HeardInv'
  <2>1. \A x \in User, m \in Chat : Says(x, m)' => Says(x, m)
    BY <1>2 DEF Says
  <2>2. ASSUME NEW w \in Web
        PROVE  /\ w \notin members' /\ pc'[w] \notin {"leaving", "left"} =>
                    w \notin members /\ pc[w] \notin {"leaving", "left"}
               /\ pc'[w] \in {"inserted", "replying"} => pc[w] \in {"inserted", "replying"}
    BY <1>2, <1>3
  <2>3. HeardFrame
    BY <1>2, <1>3, <1>4, <2>1, <2>2 DEF HeardFrame
  <2> QED BY <2>3, HeardKept
<1>10. BoundsInv'
  BY <1>1, <1>3, <1>5, <1>6, <1>9, BoundsKept
<1> QED BY <1>1, <1>5, <1>6, <1>7, <1>8, <1>9, <1>10

LEMMA StepLeaveAnnounce ==
  ASSUME RoomInv, NEW u \in User, LeaveAnnounce(u)
  PROVE  RoomInv'
<1> USE DEF RoomInv
<1>1. TypesInv' /\ PcInv'
  BY TypesRoom, PcRoom
<1>2. /\ ToRoom(Message("leaveRoom", u)) /\ view' = view /\ doing' = doing /\ members' = members
      /\ online' = online /\ accepts' = accepts /\ missedLobby' = missedLobby
      /\ games' = games /\ history' = history /\ posted' = posted /\ fresh' = fresh
      /\ missed' = missed /\ u \notin members
      /\ pc[u] \in {"leaving", "quitting"} /\ (u \in Web => pc[u] = "leaving")
      /\ pc'[u] = (IF pc[u] = "quitting" THEN "gone" ELSE IF u \in Web THEN "left" ELSE "idle")
      /\ \A x \in User : x # u => pc'[x] = pc[x]
  BY DEF LeaveAnnounce, roomVars, madeVars, lobbyVars, TypesInv, PcInv, Coming
<1>3. ASSUME NEW w \in Web
      PROVE  /\ NewReads(w) /\ w \in User
             /\ Replay(w)'.games = Replay(w).games
             /\ Replay(w)'.said = Replay(w).said /\ Replay(w)'.lobby = Replay(w).lobby
  BY <1>2, EntryShown DEF User
<1>4. ASSUME NEW w \in Web
      PROVE  /\ InRoom(w)' => InRoom(w)
             /\ MakesRoomList(w)' => MakesRoomList(w)
  BY <1>2, <1>3 DEF InRoom, MakesRoomList
<1>5. LobbyInv'
  <2>1. LobbyFrame
    BY <1>2, <1>3 DEF LobbyFrame
  <2> QED BY <2>1, LobbyKept
<1>6. UsersInv' /\ CountsInv'
  BY UsersLeaveAnnounce
<1>7. GamesInv'
  <2>1. GamesFrame
    BY <1>2, <1>3, <1>4 DEF GamesFrame
  <2> QED BY <2>1, GamesKept
<1>8. SaidInv'
  <2>1. SaidFrame
    BY <1>2, <1>3, <1>4 DEF SaidFrame
  <2> QED BY <2>1, SaidKept
<1>9. HeardInv'
  <2>1. \A x \in User, m \in Chat : Says(x, m)' => Says(x, m)
    BY <1>2 DEF Says
  <2>2. ASSUME NEW w \in Web
        PROVE  /\ w \notin members' /\ pc'[w] \notin {"leaving", "left"} =>
                    w \notin members /\ pc[w] \notin {"leaving", "left"}
               /\ pc'[w] \in {"inserted", "replying"} => pc[w] \in {"inserted", "replying"}
    BY <1>2, <1>3
  <2>3. HeardFrame
    BY <1>2, <1>3, <1>4, <2>1, <2>2 DEF HeardFrame
  <2> QED BY <2>3, HeardKept
<1>10. BoundsInv'
  BY <1>1, <1>3, <1>5, <1>6, <1>9, BoundsKept
<1> QED BY <1>1, <1>5, <1>6, <1>7, <1>8, <1>9, <1>10

LEMMA StepJoinSnapshot ==
  ASSUME RoomInv, NEW x \in Web, JoinSnapshot(x)
  PROVE  RoomInv'
<1> USE DEF RoomInv
<1>1. TypesInv' /\ PcInv'
  BY TypesAnswers, PcOthers
<1>2. /\ doing'[x] = [users |-> members, games |-> games, said |-> history]
      /\ members' = members /\ missed' = missed /\ x \in User
      /\ online' = online /\ accepts' = accepts /\ missedLobby' = missedLobby
      /\ games' = games /\ history' = history /\ posted' = posted /\ fresh' = fresh
      /\ pc[x] = "inserted" /\ pc'[x] = "replying"
      /\ \A y \in User : y # x => pc'[y] = pc[y] /\ doing'[y] = doing[y]
  BY DEF JoinSnapshot, Step, roomVars, madeVars, lobbyVars, TypesInv, User
<1>3. ASSUME NEW w \in Web PROVE Replay(w)' = Replay(w) /\ NewReads(w) /\ w \in User
  BY NothingSent DEF JoinSnapshot, User
<1>4. ASSUME NEW w \in Web
      PROVE  /\ InRoom(w)' => InRoom(w)
             /\ MakesRoomList(w)' => MakesRoomList(w)
  BY <1>2, <1>3 DEF InRoom, MakesRoomList
<1>5. LobbyInv'
  <2>1. LobbyFrame
    BY <1>2, <1>3 DEF LobbyFrame
  <2> QED BY <2>1, LobbyKept
<1>6. UsersInv' /\ CountsInv'
  <2>1. ASSUME NEW w \in Web, pc'[w] = "replying", NEW u \in User \ missed'[w]
        PROVE  u \in doing'[w].users <=> u \in members
    <3>1. CASE w = x
      BY <1>2, <3>1
    <3>2. CASE w # x
      BY <1>2, <1>3, <2>1, <3>2 DEF UsersInv
    <3> QED BY <3>1, <3>2
  <2>2. \A u \in User : pc'[u] \in Coming <=> pc[u] \in Coming
    BY <1>2 DEF Coming
  <2>3. UsersFrame
    BY <1>2, <1>3, <2>1, <2>2 DEF UsersFrame
  <2> QED BY <2>3, UsersKept
<1>7. GamesInv'
  <2>1. GamesFrame
    BY <1>2, <1>3, <1>4 DEF GamesFrame
  <2> QED BY <2>1, GamesKept
<1>8. SaidInv'
  <2>1. SaidFrame
    BY <1>2, <1>3, <1>4 DEF SaidFrame
  <2> QED BY <2>1, SaidKept
<1>9. HeardInv'
  <2>1. \A y \in User, m \in Chat : Says(y, m)' => Says(y, m)
    BY <1>2 DEF Says
  <2>2. ASSUME NEW w \in Web
        PROVE  /\ w \notin members' /\ pc'[w] \notin {"leaving", "left"} =>
                    w \notin members /\ pc[w] \notin {"leaving", "left"}
               /\ pc'[w] \in {"inserted", "replying"} => pc[w] \in {"inserted", "replying"}
    BY <1>2, <1>3
  <2>3. HeardFrame
    BY <1>2, <1>3, <1>4, <2>1, <2>2 DEF HeardFrame
  <2> QED BY <2>3, HeardKept
<1>10. BoundsInv'
  BY <1>1, <1>3, <1>5, <1>6, <1>9, BoundsKept
<1> QED BY <1>1, <1>5, <1>6, <1>7, <1>8, <1>9, <1>10

LEMMA StepJoinReply ==
  ASSUME RoomInv, NEW x \in Web, JoinReply(x)
  PROVE  RoomInv'
<1> USE DEF RoomInv
<1>1. TypesInv' /\ PcInv'
  BY TypesAnswers, PcOthers
<1>2. /\ members' = members /\ missed' = missed /\ x \in User
      /\ online' = online /\ accepts' = accepts /\ missedLobby' = missedLobby
      /\ games' = games /\ history' = history /\ posted' = posted /\ fresh' = fresh
      /\ pc[x] = "replying" /\ pc'[x] = "idle"
      /\ \A y \in User : y # x => pc'[y] = pc[y] /\ doing'[y] = doing[y]
      /\ IsInjective(doing[x].said) /\ doing[x].said \in Seq(Chat)
  BY DEF JoinReply, Step, roomVars, madeVars, lobbyVars, TypesInv, User, SaidInv, Lists
<1>3. ASSUME NEW w \in Web
      PROVE  Replay(w)'.lobby = Replay(w).lobby /\ w \in User
  <2>1. CASE w = x
    <3>1. Len(doing[x].said) \in Nat
      BY <1>2
    <3>2. Replay(x)' = Joined(x, Len(doing[x].said))
      BY <1>2, JoinReplyShown
    <3>3. Joined(x, Len(doing[x].said)).lobby = Replay(x).lobby
      BY <3>1, JoinedFields
    <3> QED BY <1>2, <2>1, <3>2, <3>3
  <2>2. CASE w # x
    BY <1>2, <2>2, JoinReplyShown DEF User
  <2> QED BY <2>1, <2>2
<1>4. \A w \in Web : MakesRoomList(w)' => MakesRoomList(w)
  BY <1>2, <1>3 DEF MakesRoomList
<1>5. LobbyInv'
  <2>1. LobbyFrame
    BY <1>2, <1>3 DEF LobbyFrame
  <2> QED BY <2>1, LobbyKept
<1>6. UsersInv' /\ CountsInv'
  BY UsersJoinReply
<1>7. GamesInv'
  BY GamesJoinReply
<1>8. SaidInv'
  <2>1. SaidFrame
    BY <1>2, <1>3, <1>4 DEF SaidFrame
  <2> QED BY <2>1, SaidKept
<1>9. HeardInv'
  BY HeardJoinReply
<1>10. BoundsInv'
  BY <1>1, <1>5, <1>6, <1>9, BoundsJoinReply
<1> QED BY <1>1, <1>5, <1>6, <1>7, <1>8, <1>9, <1>10

LEMMA StepLeaveReply ==
  ASSUME RoomInv, NEW x \in Web, LeaveReply(x)
  PROVE  RoomInv'
<1> USE DEF RoomInv
<1>1. TypesInv' /\ PcInv'
  BY TypesAnswers, PcOthers
<1>2. /\ members' = members /\ missed' = missed /\ x \in User /\ doing' = doing
      /\ online' = online /\ accepts' = accepts /\ missedLobby' = missedLobby
      /\ games' = games /\ history' = history /\ posted' = posted /\ fresh' = fresh
      /\ pc[x] = "left" /\ pc'[x] = "idle" /\ x \notin members
      /\ \A y \in User : y # x => pc'[y] = pc[y]
  BY DEF LeaveReply, Step, roomVars, madeVars, lobbyVars, TypesInv, User, PcInv
<1>3. ASSUME NEW w \in Web
      PROVE  /\ NewReads(w) /\ w \in User
             /\ Replay(w)'.loaded = Replay(w).loaded /\ Replay(w)'.games = Replay(w).games
             /\ Replay(w)'.users = Replay(w).users /\ Replay(w)'.lobby = Replay(w).lobby
  BY LeftShown DEF User
<1>4. ASSUME NEW w \in Web
      PROVE  /\ InRoom(w)' => InRoom(w)
             /\ MakesRoomList(w)' => MakesRoomList(w)
  BY <1>2, <1>3 DEF InRoom, MakesRoomList
<1>5. LobbyInv'
  <2>1. LobbyFrame
    BY <1>2, <1>3 DEF LobbyFrame
  <2> QED BY <2>1, LobbyKept
<1>6. UsersInv' /\ CountsInv'
  <2>1. \A u \in User : pc'[u] \in Coming <=> pc[u] \in Coming
    BY <1>2 DEF Coming
  <2>2. ASSUME NEW w \in Web, pc'[w] = "replying", NEW u \in User \ missed'[w]
        PROVE  u \in doing'[w].users <=> u \in members
    BY <1>2, <1>3, <2>2 DEF UsersInv
  <2>3. UsersFrame
    BY <1>2, <1>3, <2>1, <2>2 DEF UsersFrame
  <2> QED BY <2>3, UsersKept
<1>7. GamesInv'
  <2>1. GamesFrame
    BY <1>2, <1>3, <1>4 DEF GamesFrame
  <2> QED BY <2>1, GamesKept
<1>8. SaidInv'
  <2>1. SaidFrame
    BY <1>2, <1>3, <1>4 DEF SaidFrame
  <2> QED BY <2>1, SaidKept
<1>9. HeardInv'
  BY HeardLeaveReply
<1>10. BoundsInv'
  BY <1>1, <1>3, <1>5, <1>6, <1>9, BoundsKept
<1> QED BY <1>1, <1>5, <1>6, <1>7, <1>8, <1>9, <1>10

\* Steps that have nothing to do with the room: nothing of it changes, no
\* command of the room begins or ends, and the room is shown as before.
Elsewhere == {"offline", "gone", "idle", "listing"}

RoomUntouched ==
  /\ members' = members /\ games' = games /\ history' = history
  /\ posted' = posted /\ fresh' = fresh /\ missed' = missed
  /\ \A u \in User : \/ pc'[u] = pc[u] /\ doing'[u] = doing[u]
                     \/ pc[u] \in Elsewhere /\ pc'[u] \in Elsewhere
  /\ \A w \in Web :
       /\ NewReads(w)
       /\ Replay(w)'.loaded = Replay(w).loaded /\ Replay(w)'.games = Replay(w).games
       /\ Replay(w)'.users = Replay(w).users /\ Replay(w)'.said = Replay(w).said

LEMMA StepElsewhere ==
  ASSUME RoomInv, RoomUntouched, TypesInv', PcInv', LobbyInv'
  PROVE  RoomInv'
<1> USE DEF RoomInv
<1>1. /\ members' = members /\ games' = games /\ history' = history
      /\ posted' = posted /\ fresh' = fresh /\ missed' = missed
  BY DEF RoomUntouched
<1>2. ASSUME NEW u \in User
      PROVE  /\ pc'[u] \in Coming <=> pc[u] \in Coming
             /\ pc'[u] = "joining" <=> pc[u] = "joining"
             /\ pc'[u] \in {"inserted", "replying"} <=> pc[u] \in {"inserted", "replying"}
             /\ pc'[u] \in {"leaving", "left"} <=> pc[u] \in {"leaving", "left"}
             /\ pc'[u] \in {"saying", "replying"} => pc[u] = pc'[u] /\ doing'[u] = doing[u]
  BY DEF RoomUntouched, Elsewhere, Coming
<1>3. ASSUME NEW w \in Web
      PROVE  /\ NewReads(w) /\ w \in User
             /\ Replay(w)'.loaded = Replay(w).loaded /\ Replay(w)'.games = Replay(w).games
             /\ Replay(w)'.users = Replay(w).users /\ Replay(w)'.said = Replay(w).said
  BY DEF RoomUntouched, User
<1>4. ASSUME NEW w \in Web
      PROVE  /\ InRoom(w)' => InRoom(w)
             /\ MakesRoomList(w)' => MakesRoomList(w)
  BY <1>1, <1>2, <1>3 DEF InRoom, MakesRoomList
<1>5. UsersInv' /\ CountsInv'
  <2>1. ASSUME NEW w \in Web, pc'[w] = "replying", NEW u \in User \ missed'[w]
        PROVE  u \in doing'[w].users <=> u \in members
    BY <1>1, <1>2, <1>3, <2>1 DEF UsersInv
  <2>2. UsersFrame
    BY <1>1, <1>2, <1>3, <2>1 DEF UsersFrame
  <2> QED BY <2>2, UsersKept
<1>6. GamesInv'
  <2>1. GamesFrame
    BY <1>1, <1>2, <1>3, <1>4 DEF GamesFrame
  <2> QED BY <2>1, GamesKept
<1>7. SaidInv'
  <2>1. SaidFrame
    BY <1>1, <1>2, <1>3, <1>4 DEF SaidFrame
  <2> QED BY <2>1, SaidKept
<1>8. HeardInv'
  <2>1. \A u \in User, m \in Chat : Says(u, m)' => Says(u, m)
    BY <1>2 DEF Says
  <2>2. HeardFrame
    BY <1>1, <1>2, <1>3, <1>4, <2>1 DEF HeardFrame
  <2> QED BY <2>2, HeardKept
<1>9. BoundsInv'
  BY <1>3, <1>5, <1>8, BoundsKept
<1> QED BY <1>5, <1>6, <1>7, <1>8, <1>9

LEMMA StepLogin ==
  ASSUME RoomInv, NEW d \in Desk, Login(d)
  PROVE  RoomInv'
<1> USE DEF RoomInv
<1>1. TypesInv' /\ PcInv'
  BY TypesLobby, PcOthers
<1>2. LobbyInv'
  BY LobbyLogin
<1>3. d \in User /\ ToLobby(Message("userJoined", d)) /\ view' = view
  BY DEF Login, User
<1>4. /\ members' = members /\ games' = games /\ history' = history
      /\ posted' = posted /\ fresh' = fresh /\ missed' = missed /\ doing' = doing
      /\ pc[d] \in Elsewhere /\ pc'[d] \in Elsewhere
      /\ \A u \in User : u # d => pc'[u] = pc[u]
  BY <1>3 DEF Login, Step, Elsewhere, TypesInv, roomVars, madeVars
<1>5. RoomUntouched
  BY <1>3, <1>4, LobbyEntryShown DEF RoomUntouched
<1> QED BY <1>1, <1>2, <1>5, StepElsewhere

LEMMA StepSessionEnds ==
  ASSUME RoomInv, NEW d \in Desk, SessionEnds(d)
  PROVE  RoomInv'
<1> USE DEF RoomInv
<1>1. TypesInv' /\ PcInv'
  BY TypesLobby, PcOthers
<1>2. LobbyInv'
  BY LobbySessionEnds
<1>3. d \in User /\ ToLobby(Message("userLeft", d)) /\ view' = view
  BY DEF SessionEnds, User
<1>4. /\ members' = members /\ games' = games /\ history' = history
      /\ posted' = posted /\ fresh' = fresh /\ missed' = missed /\ doing' = doing
      /\ pc[d] \in Elsewhere /\ pc'[d] \in Elsewhere
      /\ \A u \in User : u # d => pc'[u] = pc[u]
  BY <1>3 DEF SessionEnds, MayBegin, Elsewhere, TypesInv, roomVars, madeVars
<1>5. RoomUntouched
  BY <1>3, <1>4, LobbyEntryShown DEF RoomUntouched
<1> QED BY <1>1, <1>2, <1>5, StepElsewhere

LEMMA StepListUsers ==
  ASSUME RoomInv, NEW x \in Web, ListUsers(x)
  PROVE  RoomInv'
<1> USE DEF RoomInv
<1>1. TypesInv' /\ PcInv'
  BY TypesAnswers, PcOthers
<1>2. LobbyInv' /\ \A w \in Web : Replay(w)' = Replay(w) /\ NewReads(w)
  BY LobbyListUsers
<1>3. /\ members' = members /\ games' = games /\ history' = history
      /\ posted' = posted /\ fresh' = fresh /\ missed' = missed
      /\ pc[x] \in Elsewhere /\ pc'[x] \in Elsewhere
      /\ \A u \in User : u # x => pc'[u] = pc[u] /\ doing'[u] = doing[u]
  BY DEF ListUsers, MayBegin, Elsewhere, TypesInv, roomVars, madeVars, User
<1>4. RoomUntouched
  BY <1>2, <1>3 DEF RoomUntouched
<1> QED BY <1>1, <1>2, <1>4, StepElsewhere

LEMMA StepListReply ==
  ASSUME RoomInv, NEW x \in Web, ListReply(x)
  PROVE  RoomInv'
<1> USE DEF RoomInv
<1>1. TypesInv' /\ PcInv'
  BY TypesAnswers, PcOthers
<1>2. LobbyInv'
  BY LobbyListReply
<1>3. /\ members' = members /\ games' = games /\ history' = history
      /\ posted' = posted /\ fresh' = fresh /\ missed' = missed
      /\ pc[x] \in Elsewhere /\ pc'[x] \in Elsewhere
      /\ \A u \in User : u # x => pc'[u] = pc[u] /\ doing'[u] = doing[u]
  BY DEF ListReply, Step, Elsewhere, TypesInv, roomVars, madeVars, User
<1>4. RoomUntouched
  BY <1>3, ListShown DEF RoomUntouched
<1> QED BY <1>1, <1>2, <1>4, StepElsewhere

LEMMA StepReceive ==
  ASSUME RoomInv, NEW x \in Web, Receive(x)
  PROVE  RoomInv'
<1> USE DEF RoomInv
<1>1. TypesInv' /\ PcInv'
  BY TypesGames, PcOthers
<1>2. \A w \in Web : Replay(w)' = Replay(w) /\ NewReads(w)
  BY OneReceived
<1>3. /\ members' = members /\ games' = games /\ history' = history
      /\ posted' = posted /\ fresh' = fresh /\ missed' = missed
      /\ pc' = pc /\ doing' = doing
      /\ online' = online /\ accepts' = accepts /\ missedLobby' = missedLobby
  BY DEF Receive, roomVars, madeVars, lobbyVars
<1>4. LobbyInv'
  <2>1. LobbyFrame
    BY <1>2, <1>3 DEF LobbyFrame
  <2> QED BY <2>1, LobbyKept
<1>5. RoomUntouched
  BY <1>2, <1>3 DEF RoomUntouched
<1> QED BY <1>1, <1>4, <1>5, StepElsewhere

LEMMA StepGames ==
  ASSUME RoomInv, NEW g \in Game, AddGame(g) \/ ChangeGame(g) \/ RemoveGame(g)
  PROVE  RoomInv'
<1> USE DEF RoomInv
<1>1. TypesInv' /\ PcInv'
  BY TypesGames, PcOthers
<1>2. /\ members' = members /\ history' = history /\ missed' = missed
      /\ pc' = pc /\ doing' = doing /\ view' = view /\ queue' = queue /\ fresh' \subseteq fresh
      /\ online' = online /\ accepts' = accepts /\ missedLobby' = missedLobby
  BY DEF AddGame, ChangeGame, RemoveGame, roomVars, lobbyVars
<1>3. ASSUME NEW w \in Web PROVE Replay(w)' = Replay(w) /\ NewReads(w) /\ w \in User
  BY <1>2, NothingSent DEF User
<1>4. ASSUME NEW w \in Web
      PROVE  /\ InRoom(w)' => InRoom(w)
             /\ MakesRoomList(w)' => MakesRoomList(w)
  BY <1>2 DEF InRoom, MakesRoomList
<1>5. LobbyInv'
  <2>1. LobbyFrame
    BY <1>2, <1>3 DEF LobbyFrame
  <2> QED BY <2>1, LobbyKept
<1>6. UsersInv' /\ CountsInv'
  <2>1. ASSUME NEW w \in Web, pc'[w] = "replying", NEW u \in User \ missed'[w]
        PROVE  u \in doing'[w].users <=> u \in members
    BY <1>2, <2>1 DEF UsersInv
  <2>2. UsersFrame
    BY <1>2, <1>3, <2>1 DEF UsersFrame
  <2> QED BY <2>2, UsersKept
<1>7. GamesInv'
  <2>1. CASE AddGame(g)
    <3>1. Post(g, FALSE) /\ games' = games \cup {g}
      BY <2>1 DEF AddGame
    <3> QED BY <1>2, <3>1, GamesPosting
  <2>2. CASE ChangeGame(g)
    <3>1. Post(g, FALSE) /\ games' = games /\ g \in games
      BY <2>2 DEF ChangeGame, roomVars
    <3> QED BY <1>2, <3>1, GamesPosting
  <2>3. CASE RemoveGame(g)
    <3>1. Post(g, TRUE) /\ games' = games \ {g}
      BY <2>3 DEF RemoveGame
    <3> QED BY <1>2, <3>1, GamesPosting
  <2> QED BY <2>1, <2>2, <2>3
<1>8. SaidInv'
  <2>1. SaidFrame
    BY <1>2, <1>3, <1>4 DEF SaidFrame
  <2> QED BY <2>1, SaidKept
<1>9. HeardInv'
  <2>1. \A u \in User, m \in Chat : Says(u, m)' => Says(u, m)
    BY <1>2 DEF Says
  <2>2. HeardFrame
    BY <1>2, <1>3, <1>4, <2>1 DEF HeardFrame
  <2> QED BY <2>2, HeardKept
<1>10. BoundsInv'
  BY <1>1, <1>3, <1>5, <1>6, <1>9, BoundsKept
<1> QED BY <1>1, <1>5, <1>6, <1>7, <1>8, <1>9, <1>10

LEMMA StepBroadcastGame ==
  ASSUME RoomInv, BroadcastGame
  PROVE  RoomInv'
<1> USE DEF RoomInv
<1>1. TypesInv' /\ PcInv'
  BY TypesGames, PcOthers
<1>2. /\ members' = members /\ history' = history /\ missed' = missed
      /\ pc' = pc /\ doing' = doing /\ view' = view /\ fresh' = fresh
      /\ online' = online /\ accepts' = accepts /\ missedLobby' = missedLobby
      /\ Head(posted) \in Update /\ ToRoom(Message("listGames", Head(posted)))
  BY DEF BroadcastGame, roomVars, lobbyVars, TypesInv
<1>3. ASSUME NEW w \in Web
      PROVE  /\ NewReads(w) /\ w \in User
             /\ Replay(w)'.loaded = Replay(w).loaded /\ Replay(w)'.said = Replay(w).said
             /\ Replay(w)'.users = Replay(w).users /\ Replay(w)'.lobby = Replay(w).lobby
  BY <1>2, GameShown DEF User
<1>4. ASSUME NEW w \in Web
      PROVE  /\ InRoom(w)' => InRoom(w)
             /\ MakesRoomList(w)' => MakesRoomList(w)
  BY <1>2 DEF InRoom, MakesRoomList
<1>5. LobbyInv'
  <2>1. LobbyFrame
    BY <1>2, <1>3 DEF LobbyFrame
  <2> QED BY <2>1, LobbyKept
<1>6. UsersInv' /\ CountsInv'
  <2>1. ASSUME NEW w \in Web, pc'[w] = "replying", NEW u \in User \ missed'[w]
        PROVE  u \in doing'[w].users <=> u \in members
    BY <1>2, <2>1 DEF UsersInv
  <2>2. UsersFrame
    BY <1>2, <1>3, <2>1 DEF UsersFrame
  <2> QED BY <2>2, UsersKept
<1>7. GamesInv'
  BY GamesBroadcast
<1>8. SaidInv'
  <2>1. SaidFrame
    BY <1>2, <1>3, <1>4 DEF SaidFrame
  <2> QED BY <2>1, SaidKept
<1>9. HeardInv'
  <2>1. \A u \in User, m \in Chat : Says(u, m)' => Says(u, m)
    BY <1>2 DEF Says
  <2>2. HeardFrame
    BY <1>2, <1>3, <1>4, <2>1 DEF HeardFrame
  <2> QED BY <2>2, HeardKept
<1>10. BoundsInv'
  BY <1>1, <1>3, <1>5, <1>6, <1>9, BoundsKept
<1> QED BY <1>1, <1>5, <1>6, <1>7, <1>8, <1>9, <1>10

LEMMA StepSay ==
  ASSUME RoomInv, NEW u \in User, NEW m \in Chat, Say(u, m)
  PROVE  RoomInv'
<1> USE DEF RoomInv
<1>1. TypesInv' /\ PcInv'
  BY TypesRoom, PcRoom
<1>2. /\ ToRoom(Message("roomSay", m)) /\ view' = view /\ members' = members
      /\ online' = online /\ accepts' = accepts /\ missedLobby' = missedLobby
      /\ games' = games /\ posted' = posted
      /\ pc[u] = "idle" /\ pc'[u] = "saying"
      /\ \A x \in User : x # u => pc'[x] = pc[x] /\ doing'[x] = doing[x]
      /\ missed' = [w \in Web |-> IF MakesRoomList(w) THEN missed[w] \cup {m} ELSE missed[w]]
  BY DEF Say, MayBegin, BeginsNow, roomVars, lobbyVars, TypesInv
<1>3. ASSUME NEW w \in Web
      PROVE  /\ NewReads(w) /\ w \in User
             /\ Replay(w)'.loaded = Replay(w).loaded /\ Replay(w)'.games = Replay(w).games
             /\ Replay(w)'.users = Replay(w).users /\ Replay(w)'.lobby = Replay(w).lobby
  BY <1>2, SayShown DEF User
<1>4. ASSUME NEW w \in Web
      PROVE  /\ InRoom(w)' => InRoom(w)
             /\ MakesRoomList(w)' => MakesRoomList(w)
             /\ missed[w] \subseteq missed'[w]
  BY <1>2, <1>3 DEF InRoom, MakesRoomList
<1>5. LobbyInv'
  <2>1. LobbyFrame
    BY <1>2, <1>3 DEF LobbyFrame
  <2> QED BY <2>1, LobbyKept
<1>6. UsersInv' /\ CountsInv'
  <2>1. \A x \in User : pc'[x] \in Coming <=> pc[x] \in Coming
    BY <1>2 DEF Coming
  <2>2. ASSUME NEW w \in Web, pc'[w] = "replying", NEW x \in User \ missed'[w]
        PROVE  x \in doing'[w].users <=> x \in members
    <3>1. w # u /\ pc[w] = "replying" /\ doing'[w] = doing[w] /\ x \in User \ missed[w]
      BY <1>2, <1>3, <1>4, <2>2
    <3> QED BY <3>1 DEF UsersInv
  <2>3. UsersFrame
    BY <1>2, <1>3, <1>4, <2>1, <2>2 DEF UsersFrame
  <2> QED BY <2>3, UsersKept
<1>7. GamesInv'
  <2>1. GamesFrame
    BY <1>2, <1>3, <1>4 DEF GamesFrame
  <2> QED BY <2>1, GamesKept
<1>8. SaidInv' /\ HeardInv'
  BY SaidSay, HeardSay
<1>9. BoundsInv'
  BY <1>1, <1>3, <1>5, <1>6, <1>8, BoundsKept
<1> QED BY <1>1, <1>5, <1>6, <1>7, <1>8, <1>9

LEMMA StepKeepSaid ==
  ASSUME RoomInv, NEW u \in User, KeepSaid(u)
  PROVE  RoomInv'
<1> USE DEF RoomInv
<1>1. TypesInv' /\ PcInv'
  BY TypesRoom, PcRoom
<1>2. /\ view' = view /\ queue' = queue /\ members' = members /\ missed' = missed
      /\ online' = online /\ accepts' = accepts /\ missedLobby' = missedLobby
      /\ games' = games /\ posted' = posted /\ fresh' = fresh
      /\ pc[u] = "saying" /\ pc'[u] = "idle"
      /\ \A x \in User : x # u => pc'[x] = pc[x] /\ doing'[x] = doing[x]
  BY DEF KeepSaid, Step, madeVars, lobbyVars, TypesInv
<1>3. ASSUME NEW w \in Web PROVE Replay(w)' = Replay(w) /\ NewReads(w) /\ w \in User
  BY <1>2, NothingSent DEF User
<1>4. ASSUME NEW w \in Web
      PROVE  /\ InRoom(w)' => InRoom(w)
             /\ MakesRoomList(w)' => MakesRoomList(w)
  BY <1>2, <1>3 DEF InRoom, MakesRoomList
<1>5. LobbyInv'
  <2>1. LobbyFrame
    BY <1>2, <1>3 DEF LobbyFrame
  <2> QED BY <2>1, LobbyKept
<1>6. UsersInv' /\ CountsInv'
  <2>1. \A x \in User : pc'[x] \in Coming <=> pc[x] \in Coming
    BY <1>2 DEF Coming
  <2>2. ASSUME NEW w \in Web, pc'[w] = "replying", NEW x \in User \ missed'[w]
        PROVE  x \in doing'[w].users <=> x \in members
    BY <1>2, <1>3, <2>2 DEF UsersInv
  <2>3. UsersFrame
    BY <1>2, <1>3, <2>1, <2>2 DEF UsersFrame
  <2> QED BY <2>3, UsersKept
<1>7. GamesInv'
  <2>1. GamesFrame
    BY <1>2, <1>3, <1>4 DEF GamesFrame
  <2> QED BY <2>1, GamesKept
<1>8. SaidInv'
  BY SaidKeepSaid
<1>9. HeardInv'
  <2>1. PICK m \in Chat \ (fresh \cup ToSet(history)) :
          Says(u, m) /\ ToSet(history') \subseteq ToSet(history) \cup {m}
    BY KeptHistory
  <2>2. \A x \in User, c \in Chat : Says(x, c)' => Says(x, c)
    BY <1>2 DEF Says
  <2>3. ASSUME NEW c \in Chat, c \in ToSet(history') \/ (\E x \in User : Says(x, c)')
        PROVE  c \in ToSet(history) \/ (\E x \in User : Says(x, c))
    BY <2>1, <2>2, <2>3
  <2>4. HeardFrame
    BY <1>2, <1>3, <1>4, <2>3 DEF HeardFrame
  <2> QED BY <2>4, HeardKept
<1>10. BoundsInv'
  BY <1>1, <1>3, <1>5, <1>6, <1>9, BoundsKept
<1> QED BY <1>1, <1>5, <1>6, <1>7, <1>8, <1>9, <1>10

-----------------------------------------------------------------------------
(* The theorems.                                                            *)

LEMMA InitRoom ==
  ASSUME Init
  PROVE  RoomInv
<1>1. /\ online = Web /\ accepts = {} /\ members = {} /\ games = {} /\ fresh = Game \cup Chat
      /\ history = <<>> /\ posted = <<>>
      /\ pc = [u \in User |-> IF u \in Web THEN "idle" ELSE "offline"]
      /\ doing = [u \in User |-> Nothing]
      /\ queue = [w \in Web |-> <<>>] /\ view = [w \in Web |-> NewView]
      /\ missedLobby = [w \in Web |-> {}]
  BY DEF Init
<1>2. NewView \in Store(0..3) /\ NewView \in Store(Nat)
  BY DEF NewView, Store, Shown
<1>3. TypesInv
  <2>1. /\ doing \in [User -> Lists]
        /\ queue \in [Web -> Seq(Msg)]
    <3>1. Nothing \in Lists
      BY DEF Nothing, Lists
    <3> QED BY <1>1, <3>1
  <2>2. view \in [Web -> Store(Nat)]
    BY <1>1, <1>2
  <2> QED BY <1>1, <2>1, <2>2 DEF TypesInv, User
<1>4. ASSUME NEW w \in Web
      PROVE  /\ view[w] = NewView /\ queue[w] = <<>> /\ Replay(w) = NewView
             /\ w \in User /\ pc[w] = "idle" /\ w \notin members /\ w \notin accepts
  <2>1. view[w] = NewView /\ queue[w] = <<>>
    BY <1>1
  <2>2. <<>> \in Seq(Msg) /\ Len(<<>>) = 0
    OBVIOUS
  <2>3. Read(NewView, <<>>) = NewView
    <3>1. /\ Read(NewView, <<>>) = Read(NewView, SubSeq(<<>>, 1, Len(<<>>)))
          /\ Read(NewView, SubSeq(<<>>, 1, 0)) = NewView
      BY ONLY <1>2, <2>2, ReadSteps
    <3> QED BY <2>2, <3>1
  <2> QED BY <1>1, <2>1, <2>3, ReplayIsRead DEF User
<1>5. BoundsInv
  <2> SUFFICES ASSUME NEW w \in Web, NEW i \in 0..Len(queue[w])
               PROVE  Read(view[w], SubSeq(queue[w], 1, i)) \in Store(0..3)
    BY DEF BoundsInv, Reads
  <2>1. <<>> \in Seq(Msg) /\ Len(<<>>) = 0
    OBVIOUS
  <2>2. Read(NewView, SubSeq(<<>>, 1, 0)) = NewView
    BY <1>2, <2>1, ReadSteps
  <2>3. i = 0
    BY <1>4, <2>1
  <2> QED BY <1>2, <1>4, <2>2, <2>3
<1>6. PcInv
  BY <1>1, WebRoomsAssumption DEF PcInv, User, Coming
<1>7. LobbyInv
  <2>1. \A u \in User : NewView.lobby[u] = 0
    BY DEF NewView
  <2>2. LobbyRight
    BY <1>1 DEF LobbyRight
  <2>3. ASSUME NEW w \in Web, NEW u \in User
        PROVE  Replay(w).lobby[u] = 0 /\ pc[w] # "listing"
    BY <1>4, <2>1
  <2> QED BY <2>2, <2>3 DEF LobbyInv
<1>8. UsersInv /\ CountsInv
  <2>1. \A u \in User : NewView.users[u] = 0
    BY DEF NewView
  <2> QED BY <1>4, <2>1 DEF UsersInv, CountsInv, InRoom, MakesRoomList
<1>9. GamesInv
  BY <1>1, <1>4 DEF GamesInv, InRoom
<1>10. SaidInv
  <2>1. ToSet(history) = {} /\ IsInjective(history)
    BY <1>1 DEF ToSet, IsInjective
  <2>2. \A u \in User : pc[u] \notin {"saying", "inserted", "replying", "joining"}
    BY <1>1
  <2> QED BY <2>1, <2>2, <1>4 DEF SaidInv, Says, MakesRoomList
<1>11. HeardInv
  <2>1. \A m \in Chat : NewView.said[m] = 0
    BY DEF NewView
  <2> QED BY <1>4, <2>1 DEF HeardInv, InRoom
<1> QED BY <1>3, <1>5, <1>6, <1>7, <1>8, <1>9, <1>10, <1>11 DEF RoomInv

LEMMA RoomStep ==
  ASSUME RoomInv, [Next]_vars
  PROVE  RoomInv'
<1>1. ASSUME NEW u \in User,
             \/ JoinAnnounce(u) \/ JoinInsert(u)
             \/ \E how \in {"leaving", "quitting"} : LeaveRemove(u, how)
             \/ LeaveAnnounce(u) \/ KeepSaid(u)
             \/ \E m \in Chat : Say(u, m)
      PROVE  RoomInv'
  BY <1>1, StepJoinAnnounce, StepJoinInsert, StepLeaveRemove, StepLeaveAnnounce,
     StepKeepSaid, StepSay
<1>2. ASSUME NEW d \in Desk, Login(d) \/ SessionEnds(d) PROVE RoomInv'
  BY <1>2, StepLogin, StepSessionEnds
<1>3. ASSUME NEW w \in Web,
             \/ JoinSnapshot(w) \/ JoinReply(w) \/ LeaveReply(w)
             \/ ListUsers(w) \/ ListReply(w) \/ Receive(w)
      PROVE  RoomInv'
  BY <1>3, StepJoinSnapshot, StepJoinReply, StepLeaveReply, StepListUsers, StepListReply,
     StepReceive
<1>4. ASSUME NEW g \in Game, AddGame(g) \/ ChangeGame(g) \/ RemoveGame(g) PROVE RoomInv'
  BY <1>4, StepGames
<1>5. CASE BroadcastGame
  BY <1>5, StepBroadcastGame
<1>6. CASE UNCHANGED vars
  <2>1. /\ online' = online /\ accepts' = accepts /\ members' = members /\ games' = games
        /\ fresh' = fresh /\ history' = history /\ posted' = posted /\ pc' = pc /\ doing' = doing
        /\ queue' = queue /\ view' = view /\ missed' = missed /\ missedLobby' = missedLobby
    BY <1>6 DEF vars
  <2>2. TypesInv' /\ PcInv'
    BY <2>1 DEF RoomInv, TypesInv, PcInv
  <2>3. \A w \in Web : Replay(w)' = Replay(w) /\ NewReads(w)
    BY <2>1, NothingSent DEF RoomInv
  <2>4. LobbyFrame /\ RoomUntouched
    BY <2>1, <2>3 DEF LobbyFrame, RoomUntouched
  <2> QED BY <2>2, <2>4, LobbyKept, StepElsewhere DEF RoomInv
<1> QED BY <1>1, <1>2, <1>3, <1>4, <1>5, <1>6 DEF Next

\* When what is posted has been read too, the last announcement of a game has
\* said whether it is open.
LEMMA GamesRead ==
  ASSUME TypesInv, GamesInv
  PROVE  GamesAgree
<1> SUFFICES ASSUME NEW w \in Web, InRoom(w), NEW g \in Game
             PROVE  Listed(Replay(w).games, posted)[g] = "open" <=> g \in games
  BY DEF GamesAgree, Listed
<1>1. Replay(w).games \in [Game -> Shown] /\ posted \in Seq(Update)
      /\ Len(posted) \in Nat /\ DOMAIN posted = 1..Len(posted)
  BY Shows DEF TypesInv
<1>2. CASE PostedOf(g) = {}
  <2>1. \A i \in DOMAIN posted : posted[i].game # g
    BY <1>2 DEF PostedOf
  <2>2. Listed(Replay(w).games, posted)[g] = Replay(w).games[g]
    BY <1>1, <2>1, LastDecides
  <2> QED BY <1>2, <2>2 DEF GamesInv, SoonRight
<1>3. CASE PostedOf(g) # {}
  <2>1. PICK i \in PostedOf(g) : \A j \in PostedOf(g) : i >= j
    <3>1. PostedOf(g) \in SUBSET (1..Len(posted))
      BY <1>1 DEF PostedOf
    <3> QED BY ONLY <1>1, <1>3, <3>1, MaxOf
  <2>2. i \in DOMAIN posted /\ posted[i].game = g /\ posted[i] \in Update
    BY <1>1, <2>1 DEF PostedOf
  <2>3. ASSUME NEW j \in DOMAIN posted, j > i PROVE posted[j].game # g
    <3>1. j \notin PostedOf(g)
      BY <1>1, <2>1, <2>2, <2>3
    <3> QED BY <3>1 DEF PostedOf
  <2>4. Listed(Replay(w).games, posted)[g] = "open" <=> ~posted[i].closed
    BY <1>1, <2>2, <2>3, LastDecides
  <2>5. posted[i].closed <=> g \notin games
    BY <2>2, <2>3 DEF GamesInv
  <2> QED BY <2>4, <2>5
<1> QED BY <1>2, <1>3

(* The invariant of the whole room: what is under way in each session, what  *)
(* each client will show, and what it has been told, agree with the server.  *)
THEOREM RoomInvariant == Spec => []RoomInv
<1> QED BY InitRoom, RoomStep, PTL DEF Spec

(* The room, the queues and the stores of the clients stay in their types:   *)
(* for any number of users no store ever counts a user or a message more     *)
(* than three times, however joins, answers and events overtake each other.  *)
THEOREM TypeCorrect == Spec => []TypeOK
<1>1. RoomInv => TypeOK
  <2> SUFFICES ASSUME RoomInv PROVE TypeOK
    OBVIOUS
  <2>1. ASSUME NEW w \in Web PROVE view[w] \in Store(0..3)
    <3>1. view[w] \in Store(Nat) /\ queue[w] \in Seq(Msg)
      BY ReplayType DEF RoomInv
    <3>2. Read(view[w], SubSeq(queue[w], 1, 0)) = view[w] /\ 0 \in 0..Len(queue[w])
      BY <3>1, ReadSteps, LenProperties
    <3>3. view[w] \in Reads(view[w], queue[w])
      BY <3>2 DEF Reads
    <3> QED BY <3>3 DEF RoomInv, BoundsInv
  <2>2. \A w \in Web : /\ view[w].users \in [User -> 0..3]
                       /\ view[w].lobby \in [User -> 0..3]
                       /\ view[w].said \in [Chat -> 0..3]
                       /\ view[w].games \in [Game -> {"absent", "open", "closed"}]
    BY <2>1 DEF Store, Shown
  <2> QED BY <2>2 DEF RoomInv, TypesInv, TypeOK, Lists, Update
<1> QED BY <1>1, RoomInvariant, PTL

(* A client in the room will list every member once and nobody else, but for *)
(* the users that were joining or leaving while its list was made: for any   *)
(* number of sessions, whatever they join, leave and say in between.        *)
THEOREM UsersAreRight == Spec => []RoomUsersRight
<1>1. RoomInv => RoomUsersRight
  BY DEF RoomInv, UsersInv, RoomUsersRight, Announced, Coming
<1> QED BY <1>1, RoomInvariant, PTL

(* The same of the list of the server's users, for any number of logins and  *)
(* ended sessions while the list is under way.                              *)
THEOREM LobbyIsRight == Spec => []LobbyRight
<1>1. RoomInv => LobbyRight
  BY DEF RoomInv, LobbyInv
<1> QED BY <1>1, RoomInvariant, PTL

(* Every game of the room, and no other, will be listed as open when the     *)
(* announcements queued for the main thread have been read: for any number   *)
(* of games, changes and announcements on their way.                        *)
THEOREM GameListsAgree == Spec => []GamesAgree
<1>1. RoomInv => GamesAgree
  BY GamesRead DEF RoomInv
<1> QED BY <1>1, RoomInvariant, PTL

(* No message is shown twice and none of the history is missing, but for one *)
(* that was being said while the client joined: for histories of any length  *)
(* and any number of speakers.                                              *)
THEOREM ShownOnce == Spec => []ChatOnce
<1>1. RoomInv => ChatOnce
  BY DEF RoomInv, HeardInv, ChatOnce
<1> QED BY <1>1, RoomInvariant, PTL

=============================================================================
