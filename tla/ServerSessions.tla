--------------------------- MODULE ServerSessions ---------------------------
(***************************************************************************)
(* Sessions of one server: connecting, logging in under a name, taking over *)
(* from an older session of the same account, and ending.  A session's      *)
(* commands run in the thread of its connection pool, and a login may end   *)
(* another session, whose own thread may be busy with it at that moment.    *)
(* Server::clientsLock protects single statements, not whole logins, so a   *)
(* login and an ending are modelled as the steps between the locks.         *)
(*                                                                          *)
(* Names are pairs of a base name and the number loginUser() appends to a   *)
(* guest's name.  Every account has one seat kept for it at some table.     *)
(***************************************************************************)
EXTENDS Integers, Sequences, FiniteSets, SequencesExt

CONSTANTS
  Session,        \* connections, each used once
  Thread,         \* threads of the connection pools
  ThreadOf,       \* the thread a session lives in
  BaseOf,         \* the name a session asks for
  Account,        \* names of accounts; whoever asks for one has its password
  MaxUsersTotal,  \* max_users_total, 0 when the limit is not enabled
  NoSession

ASSUME SessionsAssumption ==
  /\ ThreadOf \in [Session -> Thread]
  /\ MaxUsersTotal \in Nat
  /\ NoSession \notin Session
  /\ IsFiniteSet(Session)

Base   == {BaseOf[s] : s \in Session}
Number == 0..Cardinality(Session)
Name   == Base \X Number
NoName == <<>>

\* The code's search for a free guest name is unbounded; the numbers of the
\* model suffice for it: every base leaves one for each session.
ASSUME AccountAssumption ==
  /\ Account \subseteq Name
  /\ \A b \in Base :
       Cardinality({k \in Number : <<b, k>> \notin Account}) >= Cardinality(Session)

\* The name a session asks for, and whether it is an account's.
Wish(s)       == <<BaseOf[s], 0>>
HasAccount(s) == Wish(s) \in Account

VARIABLES
  arrived,           \* the sessions that have connected
  clients,           \* Server::clients, a list
  users,             \* Server::users, session by name
  usersBySessionId,  \* the sessions found in Server::usersBySessionId
  userInfo,          \* each session's name, NoName before the login
  authState,         \* whether the session counts as logged in
  deleted,           \* the flag prepareDestroy() sets first
  doomed,            \* sessions whose deleteLater() has been called
  freed,             \* ... and carried out
  openRows,          \* rows of the sessions table without an end time
  ending,            \* posted endSession() calls
  seat,              \* the interface of each account's kept seat
  games,             \* sessions whose own map of games holds that seat
  task,              \* what each thread is doing
  crashed            \* a null session has been dereferenced

serverVars  == <<clients, users, usersBySessionId>>
sessionVars == <<userInfo, authState, deleted, doomed, freed>>
rowVars     == <<openRows, ending>>
seatVars    == <<seat, games>>
vars == <<arrived, serverVars, sessionVars, rowVars, seatVars, task, crashed>>

-----------------------------------------------------------------------------
(* What a thread is doing: the command or event of session self, for which  *)
(* it may be ending session target.                                         *)

Task(pc, self, target, name, index) ==
  [pc |-> pc, self |-> self, target |-> target, name |-> name, index |-> index]

Idle == Task("idle", NoSession, NoSession, NoName, 0)

IsIdle(t) == task[t].pc = "idle"

At(t, pc) == ~crashed /\ task[t].pc = pc

Start(s, pc, target) ==
  /\ ~crashed /\ IsIdle(ThreadOf[s])
  /\ s \in arrived \ freed
  /\ task' = [task EXCEPT ![ThreadOf[s]] = Task(pc, s, target, NoName, 0)]

Continue(t, pc, target, name, index) ==
  task' = [task EXCEPT ![t] = Task(pc, task[t].self, target, name, index)]

Goto(t, pc) == Continue(t, pc, task[t].target, task[t].name, task[t].index)

\* Back to the login that called prepareDestroy(), or done.
Return(t) ==
  IF task[t].self = task[t].target
  THEN task' = [task EXCEPT ![t] = Idle]
  ELSE Goto(t, "insert")

-----------------------------------------------------------------------------
(* Connections.                                                             *)

\* addClient()
Connect(s) ==
  /\ ~crashed /\ IsIdle(ThreadOf[s]) /\ s \notin arrived
  /\ arrived' = arrived \cup {s}
  /\ clients' = Append(clients, s)
  /\ UNCHANGED <<users, usersBySessionId, sessionVars, rowVars, seatVars, task, crashed>>

\* The socket reports an error or its end, often both in a row, or the session
\* has been idle for too long.
Disconnect(s) ==
  /\ Start(s, "end", s)
  /\ UNCHANGED <<arrived, serverVars, sessionVars, rowVars, seatVars, crashed>>

-----------------------------------------------------------------------------
(* cmdLogin() and loginUser().                                              *)

Login(s) ==
  /\ ~deleted[s] /\ userInfo[s] = NoName
  /\ Start(s, "admit", NoSession)
  /\ UNCHANGED <<arrived, serverVars, sessionVars, rowVars, seatVars, crashed>>

\* The first of name, name_1, name_2, ... that no user, no open row of the
\* sessions table and no account has.
NameTaken(n) ==
  \/ n \in DOMAIN users
  \/ n \in Account
  \/ n \in {userInfo[s] : s \in openRows}

FreeNumber(b) ==
  CHOOSE k \in Number : /\ ~NameTaken(<<b, k>>)
                        /\ \A j \in Number : j < k => NameTaken(<<b, j>>)

\* The checks on the name, made before clientsLock is taken.
MustLogOut_Never(n)  == FALSE
MustLogOut(n) == n \in DOMAIN users

AdmitAccount(t) ==
  LET name == Wish(task[t].self)
  IN  /\ At(t, "admit") /\ HasAccount(task[t].self)
      /\ Continue(t, IF MustLogOut(name) THEN "logOut" ELSE "insert", NoSession, name, 0)
      /\ UNCHANGED <<arrived, serverVars, sessionVars, rowVars, seatVars, crashed>>

AdmitGuest(t) ==
  LET b == BaseOf[task[t].self]
  IN  /\ At(t, "admit") /\ ~HasAccount(task[t].self)
      /\ Continue(t, "insert", NoSession, <<b, FreeNumber(b)>>, 0)
      /\ UNCHANGED <<arrived, serverVars, sessionVars, rowVars, seatVars, crashed>>

\* "Session already logged in, logging old session out": users is read again.
LogOut(t) ==
  /\ At(t, "logOut")
  /\ IF task[t].name \in DOMAIN users
     THEN Continue(t, "end", users[task[t].name], task[t].name, 0) /\ UNCHANGED crashed
     ELSE crashed' = TRUE /\ UNCHANGED task
  /\ UNCHANGED <<arrived, serverVars, sessionVars, rowVars, seatVars>>

\* The part of loginUser() under clientsLock.
Insert(t) ==
  LET s == task[t].self
      n == task[t].name
  IN  /\ At(t, "insert")
      /\ users' = [m \in DOMAIN users \cup {n} |-> IF m = n THEN s ELSE users[m]]
      /\ openRows' = openRows \cup {s}
      /\ usersBySessionId' = usersBySessionId \cup {s}
      /\ userInfo' = [userInfo EXCEPT ![s] = n]
      /\ Goto(t, "resume")
      /\ UNCHANGED <<arrived, clients, authState, deleted, doomed, freed, ending,
                     seatVars, crashed>>

\* The rest of cmdLogin(): a server that is full answers so and leaves the
\* session as it is; otherwise joinPersistentGames() takes the kept seat.
ServerFull == MaxUsersTotal > 0 /\ Cardinality(DOMAIN users) > MaxUsersTotal

Attach(s) == HasAccount(s) /\ ~ServerFull

Resume(t) ==
  LET s == task[t].self
  IN  /\ At(t, "resume")
      /\ authState' = [authState EXCEPT ![s] = TRUE]
      /\ seat' = IF Attach(s) THEN [seat EXCEPT ![Wish(s)] = s] ELSE seat
      /\ games' = IF Attach(s) THEN games \cup {s} ELSE games
      /\ task' = [task EXCEPT ![t] = Idle]
      /\ UNCHANGED <<arrived, serverVars, userInfo, deleted, doomed, freed, rowVars, crashed>>

-----------------------------------------------------------------------------
(* prepareDestroy() of session target, in thread t.                         *)

EndedAlready_Never(s) == FALSE
EndedAlready(s) == deleted[s]

EndAgain(t) ==
  /\ At(t, "end") /\ EndedAlready(task[t].target)
  /\ Return(t)
  /\ UNCHANGED <<arrived, serverVars, sessionVars, rowVars, seatVars, crashed>>

End(t) ==
  /\ At(t, "end") /\ ~EndedAlready(task[t].target)
  /\ Goto(t, "mark")
  /\ UNCHANGED <<arrived, serverVars, sessionVars, rowVars, seatVars, crashed>>

Mark(t) ==
  /\ At(t, "mark")
  /\ deleted' = [deleted EXCEPT ![task[t].target] = TRUE]
  /\ Goto(t, "leaveGames")
  /\ UNCHANGED <<arrived, serverVars, userInfo, authState, doomed, freed, rowVars,
                 seatVars, crashed>>

\* disconnectClient() of the session's player: the seat is kept with no
\* interface, whichever session has it by now.
Detach_Removes(s) ==
  seat' = [n \in DOMAIN seat \ {Wish(s)} |-> seat[n]]
Detach(s) ==
  seat' = IF s \in games THEN [seat EXCEPT ![Wish(s)] = NoSession] ELSE seat

LeaveGames(t) ==
  LET s == task[t].target
  IN  /\ At(t, "leaveGames")
      /\ Detach(s)
      /\ Goto(t, "find")
      /\ UNCHANGED <<arrived, serverVars, sessionVars, rowVars, games, crashed>>

\* removeClient() looks the session up before it takes clientsLock ...
Find(t) ==
  LET s == task[t].target
  IN  /\ At(t, "find")
      /\ IF s \in ToSet(clients)
         THEN Continue(t, "drop", s, task[t].name,
                       CHOOSE i \in DOMAIN clients : clients[i] = s)
         ELSE Return(t)
      /\ doomed' = IF s \in ToSet(clients) THEN doomed ELSE doomed \cup {s}
      /\ UNCHANGED <<arrived, serverVars, userInfo, authState, deleted, freed,
                     rowVars, seatVars, crashed>>

\* ... and removes what it finds at that place and under that name.
DropName_Kept(s) == UNCHANGED users
DropName(s) == users' = [n \in DOMAIN users \ {userInfo[s]} |-> users[n]]

DropAt_First(i) == clients' = Tail(clients)
DropAt(i) == clients' = IF i \in DOMAIN clients THEN RemoveAt(clients, i) ELSE clients

PostEndSession_Forgotten(s) == UNCHANGED ending
PostEndSession(s) ==
  ending' = IF userInfo[s] # NoName THEN ending \cup {s} ELSE ending

Drop(t) ==
  LET s == task[t].target
  IN  /\ At(t, "drop")
      /\ DropAt(task[t].index)
      /\ DropName(s)
      /\ usersBySessionId' = usersBySessionId \ {s}
      /\ PostEndSession(s)
      /\ doomed' = doomed \cup {s}
      /\ Return(t)
      /\ UNCHANGED <<arrived, userInfo, authState, deleted, freed, openRows,
                     seatVars, crashed>>

\* The deletion called for at the end of prepareDestroy() reaches the session's own
\* event loop.
Free(s) ==
  /\ ~crashed /\ IsIdle(ThreadOf[s])
  /\ s \in doomed \ freed
  /\ freed' = freed \cup {s}
  /\ UNCHANGED <<arrived, serverVars, userInfo, authState, deleted, doomed, rowVars,
                 seatVars, task, crashed>>

\* The main thread's database interface gets to the posted endSession().
EndSession(s) ==
  /\ ~crashed /\ s \in ending
  /\ ending' = ending \ {s}
  /\ openRows' = openRows \ {s}
  /\ UNCHANGED <<arrived, serverVars, sessionVars, seatVars, task, crashed>>

-----------------------------------------------------------------------------
Init ==
  /\ arrived = {} /\ clients = <<>>
  /\ users = [n \in {} |-> NoSession] /\ usersBySessionId = {}
  /\ userInfo = [s \in Session |-> NoName]
  /\ authState = [s \in Session |-> FALSE]
  /\ deleted = [s \in Session |-> FALSE] /\ doomed = {} /\ freed = {}
  /\ openRows = {} /\ ending = {}
  /\ seat = [n \in Account |-> NoSession] /\ games = {}
  /\ task = [t \in Thread |-> Idle]
  /\ crashed = FALSE

LoginStep(t) ==
  AdmitAccount(t) \/ AdmitGuest(t) \/ LogOut(t) \/ Insert(t) \/ Resume(t)

EndStep(t) ==
  EndAgain(t) \/ End(t) \/ Mark(t) \/ LeaveGames(t) \/ Find(t) \/ Drop(t)

Next ==
  \/ \E s \in Session : 
       Connect(s) \/ Disconnect(s) \/ Login(s) \/ Free(s) \/ EndSession(s)
  \/ \E t \in Thread : LoginStep(t) \/ EndStep(t)

Spec == Init /\ [][Next]_vars

(* Threads run on and the posted calls are delivered; users promise nothing. *)
Fairness ==
  /\ \A t \in Thread : WF_vars(LoginStep(t) \/ EndStep(t))
  /\ \A s \in Session : WF_vars(EndSession(s))
FairSpec == Spec /\ Fairness

-----------------------------------------------------------------------------
(* Properties.                                                              *)

TypeOK ==
  /\ arrived \subseteq Session
  /\ clients \in Seq(Session)
  /\ DOMAIN users \subseteq Name /\ users \in [DOMAIN users -> Session]
  /\ usersBySessionId \subseteq Session
  /\ userInfo \in [Session -> Name \cup {NoName}]
  /\ authState \in [Session -> BOOLEAN] /\ deleted \in [Session -> BOOLEAN]
  /\ freed \subseteq doomed /\ doomed \subseteq Session
  /\ openRows \subseteq Session /\ ending \subseteq Session
  /\ seat \in [Account -> Session \cup {NoSession}] /\ games \subseteq Session
  /\ task \in [Thread -> [pc : {"idle", "admit", "logOut", "insert", "resume",
                                "end", "mark", "leaveGames", "find", "drop"},
                          self : Session \cup {NoSession},
                          target : Session \cup {NoSession},
                          name : Name \cup {NoName}, index : Nat]]
  /\ crashed \in BOOLEAN

Live(s) == userInfo[s] # NoName /\ ~deleted[s]

Quiet == \A t \in Thread : IsIdle(t)

\* A name means one session: whoever is logged in is who users finds, so a
\* message, a kick or a ban reaches the session it names.
NameMeansSession ==
  \A s \in Session : Live(s) => /\ userInfo[s] \in DOMAIN users
                                /\ users[userInfo[s]] = s

\* Between commands the list of clients holds exactly the sessions that have
\* connected and not ended: nobody is sent events after the end, nobody alive
\* is left out.
ClientsAreAlive ==
  Quiet => /\ ToSet(clients) = {s \in arrived : ~deleted[s]}
           /\ IsInjective(clients)

\* A session that has resumed its seat keeps getting the table's events until
\* it ends, also when it has just taken over from another session.
SeatFollowsSession ==
  \A s \in games : ~deleted[s] => seat[Wish(s)] = s

\* The sessions table and the server agree on who is logged in, but for the
\* ends that are still on their way to the database.
RowsFollowSessions ==
  openRows \ ending = usersBySessionId

\* When one thread runs all sessions, a name leads to a session that has been
\* given it and has not been destroyed: nobody sends to freed memory.
FoundIsAlive ==
  \A n \in DOMAIN users : users[n] \notin doomed /\ userInfo[users[n]] = n

\* loginUser() never finds the old session gone between two looks at users.
\* ("Session already logged in, logging old session out")
NoNullSession == ~crashed

\* What removeClient() says it has "removed" is what it took out of the list:
\* a session that goes on is not lost with the end of another.
RemovedIsTheClient ==
  [][\A t \in Thread : Drop(t) =>
       ToSet(clients) \ ToSet(clients') \subseteq {task[t].target}]_vars

\* Guests never share a name, and no guest has an account's name.
\* ("Change user name so that no two users have the same names, don't
\* interfere with registered user names though.")
NoTwoUsersSameName ==
  /\ \A r, s \in Session : r # s /\ Live(r) /\ Live(s) => userInfo[r] # userInfo[s]
  /\ \A s \in Session : Live(s) /\ ~HasAccount(s) => userInfo[s] \notin Account

\* "Command processing must be disabled after prepareDestroy() has been
\* called": no seat goes to a session that has ended.
NothingAfterTheEnd ==
  [][\A n \in Account : seat'[n] \notin {seat[n], NoSession} => ~deleted[seat'[n]]]_vars

\* When one thread runs all sessions, the name of a guest who has gone is free
\* for another in the end: users gives it up and the posted end closes the row.
NameComesFree ==
  \A s \in Session :
    (deleted[s] /\ ~HasAccount(s) /\ s \in openRows) ~> ~NameTaken(userInfo[s])

=============================================================================
