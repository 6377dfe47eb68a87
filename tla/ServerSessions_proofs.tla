------------------------ MODULE ServerSessions_proofs ------------------------
(***************************************************************************)
(* For any number of sessions, pools and accounts: the sessions table        *)
(* follows usersBySessionId.                                                 *)
(***************************************************************************)
EXTENDS ServerSessions, TLAPS

Ending == {"end", "mark", "leaveGames", "find", "drop"}

\* The steps of a login that come before the session has a name, the end of
\* another session included.
NotYetIn(t) ==
  \/ task[t].pc \in {"admit", "logOut", "insert"}
  \/ /\ task[t].pc \in Ending
     /\ task[t].self # task[t].target

TasksAreRecords ==
  /\ DOMAIN userInfo = Session /\ userInfo = [s \in Session |-> userInfo[s]]
  /\ task = [t \in Thread |-> Task(task[t].pc, task[t].self, task[t].target,
                                     task[t].name, task[t].index)]

\* A thread runs the commands of its own sessions only, and ends a session.
TasksAreOwn ==
  \A t \in Thread : task[t].pc # "idle" =>
    /\ task[t].self \in Session /\ ThreadOf[task[t].self] = t
    /\ task[t].pc \in Ending => task[t].target \in Session

\* A session gets its name in one step, at the end of a login that has chosen
\* a real one.
NamesComeLate ==
  \A t \in Thread : NotYetIn(t) =>
    /\ userInfo[task[t].self] = NoName
    /\ task[t].pc # "admit" => task[t].name # NoName

\* Whoever has a row, an end under way or a session id has a name.
KnownHaveNames ==
  \A s \in openRows \cup ending \cup usersBySessionId :
    s \in Session /\ userInfo[s] # NoName

\* users and usersBySessionId are changed together, and a name is given once.
FoundHaveIds ==
  \A n \in DOMAIN users : /\ users[n] \in usersBySessionId
                          /\ userInfo[users[n]] = n

\* RowsFollowSessions and FoundHaveIds are not inductive by themselves: a
\* session inserted a second time while its end is under way would break the
\* first, and a renamed one the second.
SessionInv ==
  /\ TasksAreRecords /\ TasksAreOwn /\ NamesComeLate /\ KnownHaveNames
  /\ RowsFollowSessions /\ FoundHaveIds

LEMMA PairsAreNames == ASSUME NEW a, NEW b PROVE <<a, b>> # NoName
BY DEF NoName

LEMMA InitSession == Init => SessionInv
BY DEF Init, SessionInv, TasksAreRecords, TasksAreOwn, NamesComeLate, NotYetIn, Ending,
       KnownHaveNames, RowsFollowSessions, FoundHaveIds, Idle, Task

\* What Continue() does to the tasks.
LEMMA ContinueTask ==
  ASSUME TasksAreRecords, NEW t \in Thread, NEW pc, NEW target, NEW name, NEW index,
         Continue(t, pc, target, name, index)
  PROVE  /\ task' = [u \in Thread |->
               Task(task'[u].pc, task'[u].self, task'[u].target,
                    task'[u].name, task'[u].index)]
         /\ task'[t] = Task(pc, task[t].self, target, name, index)
         /\ \A u \in Thread \ {t} : task'[u] = task[u]
BY DEF TasksAreRecords, Continue, Task

\* A step of thread t that leaves the names alone disturbs no other thread.
LEMMA OneTask ==
  ASSUME TasksAreRecords, TasksAreOwn, NamesComeLate,
         NEW t \in Thread, UNCHANGED userInfo,
         task' = [u \in Thread |-> Task(task'[u].pc, task'[u].self, task'[u].target,
                                          task'[u].name, task'[u].index)],
         \A u \in Thread \ {t} : task'[u] = task[u],
         task'[t].pc # "idle" =>
           /\ task'[t].self \in Session /\ ThreadOf[task'[t].self] = t
           /\ task'[t].pc \in Ending => task'[t].target \in Session,
         NotYetIn(t)' => /\ userInfo[task'[t].self] = NoName
                         /\ task'[t].pc # "admit" => task'[t].name # NoName
  PROVE  TasksAreRecords' /\ TasksAreOwn' /\ NamesComeLate'
<1>1. TasksAreRecords'
  BY DEF TasksAreRecords
<1>2. TasksAreOwn'
  <2> SUFFICES ASSUME NEW u \in Thread, task'[u].pc # "idle"
               PROVE  /\ task'[u].self \in Session /\ ThreadOf[task'[u].self] = u
                      /\ task'[u].pc \in Ending => task'[u].target \in Session
    BY DEF TasksAreOwn, Ending
  <2> QED BY DEF TasksAreOwn, Ending
<1>3. NamesComeLate'
  <2> SUFFICES ASSUME NEW u \in Thread, NotYetIn(u)'
               PROVE  /\ userInfo'[task'[u].self] = NoName
                      /\ task'[u].pc # "admit" => task'[u].name # NoName
    BY DEF NamesComeLate, Ending
  <2>1. CASE u = t
    BY <2>1
  <2>2. CASE u # t
    <3>1. task'[u] = task[u]
      BY <2>2
    <3>2. NotYetIn(u)
      BY <3>1 DEF NotYetIn, Ending
    <3> QED BY <3>1, <3>2 DEF NamesComeLate, Ending
  <2> QED BY <2>1, <2>2
<1> QED BY <1>1, <1>2, <1>3

\* Start() sets up the task of a session in the session's own, idle thread.
LEMMA StartTask ==
  ASSUME TasksAreRecords, TasksAreOwn, NamesComeLate, UNCHANGED userInfo,
         SessionsAssumption, NEW s \in Session, NEW pc, NEW target, Start(s, pc, target),
         (pc = "admit" /\ userInfo[s] = NoName) \/ (pc = "end" /\ target = s)
  PROVE  TasksAreRecords' /\ TasksAreOwn' /\ NamesComeLate'
<1>1. ThreadOf[s] \in Thread
  BY DEF SessionsAssumption
<1>2. /\ task' = [u \in Thread |-> Task(task'[u].pc, task'[u].self, task'[u].target,
                                          task'[u].name, task'[u].index)]
      /\ task'[ThreadOf[s]] = Task(pc, s, target, NoName, 0)
      /\ \A u \in Thread \ {ThreadOf[s]} : task'[u] = task[u]
  BY <1>1 DEF Start, TasksAreRecords, Task
<1>3. NotYetIn(ThreadOf[s])' => pc = "admit" /\ userInfo[s] = NoName
  BY <1>2 DEF NotYetIn, Ending, Task
<1>4. /\ task'[ThreadOf[s]].self = s /\ task'[ThreadOf[s]].pc = pc
      /\ pc \in Ending => task'[ThreadOf[s]].target \in Session
  BY <1>2 DEF Task, Ending
<1> QED BY <1>1, <1>2, <1>3, <1>4, OneTask DEF Ending

\* Goto() keeps a task in the same part of its login.
LEMMA GotoKeeps ==
  ASSUME TasksAreRecords, TasksAreOwn, NamesComeLate, UNCHANGED userInfo,
         NEW t \in Thread, NEW pc, Goto(t, pc), task[t].pc # "idle",
         pc \in {"mark", "leaveGames", "find", "drop", "insert"},
         task[t].pc \in Ending,
         pc = "insert" => task[t].self # task[t].target
  PROVE  TasksAreRecords' /\ TasksAreOwn' /\ NamesComeLate'
<1>1. /\ task' = [u \in Thread |-> Task(task'[u].pc, task'[u].self, task'[u].target,
                                          task'[u].name, task'[u].index)]
      /\ task'[t] = Task(pc, task[t].self, task[t].target, task[t].name, task[t].index)
      /\ \A u \in Thread \ {t} : task'[u] = task[u]
  BY ContinueTask DEF Goto
<1>2. /\ task'[t].pc = pc /\ task'[t].self = task[t].self
      /\ task'[t].target = task[t].target /\ task'[t].name = task[t].name
  BY <1>1 DEF Task
<1>3. NotYetIn(t)' => NotYetIn(t)
  BY <1>2 DEF NotYetIn, Ending
<1>4. NotYetIn(t)' => /\ userInfo[task'[t].self] = NoName
                      /\ task'[t].pc # "admit" => task'[t].name # NoName
  BY <1>2, <1>3 DEF NamesComeLate, Ending
<1>5. /\ task'[t].self \in Session /\ ThreadOf[task'[t].self] = t
      /\ task'[t].target \in Session
  BY <1>2 DEF TasksAreOwn, Ending
<1> QED BY <1>1, <1>4, <1>5, OneTask DEF Ending

\* The thread is done.
LEMMA IdleKeeps ==
  ASSUME TasksAreRecords, TasksAreOwn, NamesComeLate, UNCHANGED userInfo,
         NEW t \in Thread, task' = [task EXCEPT ![t] = Idle]
  PROVE  TasksAreRecords' /\ TasksAreOwn' /\ NamesComeLate'
<1>1. /\ task' = [u \in Thread |-> Task(task'[u].pc, task'[u].self, task'[u].target,
                                          task'[u].name, task'[u].index)]
      /\ task'[t] = Idle
      /\ \A u \in Thread \ {t} : task'[u] = task[u]
  BY DEF TasksAreRecords, Task, Idle
<1>2. task'[t].pc = "idle" /\ ~NotYetIn(t)'
  BY <1>1 DEF NotYetIn, Ending, Idle, Task
<1> QED BY <1>1, <1>2, OneTask DEF Ending

LEMMA ReturnKeeps ==
  ASSUME TasksAreRecords, TasksAreOwn, NamesComeLate, UNCHANGED userInfo,
         NEW t \in Thread, Return(t),
         task[t].pc \in Ending
  PROVE  TasksAreRecords' /\ TasksAreOwn' /\ NamesComeLate'
<1>1. CASE task[t].self = task[t].target
  BY <1>1, IdleKeeps DEF Return, Ending
<1>2. CASE task[t].self # task[t].target
  BY <1>2, GotoKeeps DEF Return, Ending
<1> QED BY <1>1, <1>2

\* The three facts about sessions need only the variables they are about.
LEMMA SameSessions ==
  ASSUME KnownHaveNames, RowsFollowSessions, FoundHaveIds,
         UNCHANGED <<users, usersBySessionId, userInfo, openRows, ending>>
  PROVE  KnownHaveNames' /\ RowsFollowSessions' /\ FoundHaveIds'
BY DEF KnownHaveNames, RowsFollowSessions, FoundHaveIds

\* A login has chosen the name <<b, k>>.
LEMMA NamedSession ==
  ASSUME SessionInv, NEW t \in Thread, NEW pc \in {"logOut", "insert"}, NEW b, NEW k,
         task[t].pc = "admit", Continue(t, pc, NoSession, <<b, k>>, 0),
         UNCHANGED <<users, usersBySessionId, userInfo, openRows, ending>>
  PROVE  SessionInv'
<1>1. /\ task' = [u \in Thread |-> Task(task'[u].pc, task'[u].self, task'[u].target,
                                        task'[u].name, task'[u].index)]
      /\ task'[t] = Task(pc, task[t].self, NoSession, <<b, k>>, 0)
      /\ \A u \in Thread \ {t} : task'[u] = task[u]
  BY ContinueTask DEF SessionInv
<1>2. task'[t].pc = pc /\ task'[t].self = task[t].self /\ task'[t].name = <<b, k>>
  BY <1>1 DEF Task
<1>3. /\ task'[t].self \in Session /\ ThreadOf[task'[t].self] = t
      /\ task'[t].pc \notin Ending
  BY <1>2 DEF SessionInv, TasksAreOwn, Ending
<1>4. userInfo[task'[t].self] = NoName /\ task'[t].name # NoName
  BY <1>2, PairsAreNames DEF SessionInv, NamesComeLate, NotYetIn, Ending
<1>5. TasksAreRecords' /\ TasksAreOwn' /\ NamesComeLate'
  BY <1>1, <1>3, <1>4, OneTask DEF SessionInv, Ending
<1> QED BY <1>5, SameSessions DEF SessionInv

LEMMA AdmitSession ==
  ASSUME SessionInv, NEW t \in Thread, AdmitAccount(t) \/ AdmitGuest(t)
  PROVE  SessionInv'
<1>1. task[t].pc = "admit" /\ UNCHANGED <<users, usersBySessionId, userInfo, openRows, ending>>
  BY DEF AdmitAccount, AdmitGuest, At, serverVars, sessionVars, rowVars
<1>2. CASE AdmitAccount(t)
  <2>1. CASE MustLogOut(Wish(task[t].self))
    <3>1. Continue(t, "logOut", NoSession, <<BaseOf[task[t].self], 0>>, 0)
      BY <1>2, <2>1 DEF AdmitAccount, Wish
    <3> QED BY <1>1, <3>1, NamedSession
  <2>2. CASE ~MustLogOut(Wish(task[t].self))
    <3>1. Continue(t, "insert", NoSession, <<BaseOf[task[t].self], 0>>, 0)
      BY <1>2, <2>2 DEF AdmitAccount, Wish
    <3> QED BY <1>1, <3>1, NamedSession
  <2> QED BY <2>1, <2>2
<1>3. CASE AdmitGuest(t)
  <2>1. Continue(t, "insert", NoSession,
                 <<BaseOf[task[t].self], FreeNumber(BaseOf[task[t].self])>>, 0)
    BY <1>3 DEF AdmitGuest
  <2> QED BY <1>1, <2>1, NamedSession
<1> QED BY <1>2, <1>3

LEMMA LogOutSession ==
  ASSUME SessionInv, NEW t \in Thread, LogOut(t)
  PROVE  SessionInv'
<1>1. task[t].pc = "logOut" /\ UNCHANGED <<users, usersBySessionId, userInfo, openRows, ending>>
  BY DEF LogOut, At, serverVars, sessionVars, rowVars
<1>2. CASE task[t].name \in DOMAIN users
  <2> DEFINE old == users[task[t].name]
  <2>1. /\ task' = [u \in Thread |-> Task(task'[u].pc, task'[u].self, task'[u].target,
                                          task'[u].name, task'[u].index)]
        /\ task'[t] = Task("end", task[t].self, old, task[t].name, 0)
        /\ \A u \in Thread \ {t} : task'[u] = task[u]
    BY <1>2, ContinueTask DEF SessionInv, LogOut
  <2>2. task'[t].self = task[t].self /\ task'[t].name = task[t].name
    BY <2>1 DEF Task
  <2>3. /\ task'[t].self \in Session /\ ThreadOf[task'[t].self] = t
        /\ userInfo[task'[t].self] = NoName /\ task'[t].name # NoName
    BY <1>1, <2>2 DEF SessionInv, TasksAreOwn, NamesComeLate, NotYetIn, Ending
  <2>5. task'[t].target \in Session
    BY <1>2, <2>1 DEF Task, SessionInv, FoundHaveIds, KnownHaveNames
  <2>4. TasksAreRecords' /\ TasksAreOwn' /\ NamesComeLate'
    BY <1>1, <2>1, <2>3, <2>5, OneTask DEF SessionInv, Ending
  <2> QED BY <1>1, <2>4, SameSessions DEF SessionInv
<1>3. CASE task[t].name \notin DOMAIN users
  <2>1. UNCHANGED task
    BY <1>3 DEF LogOut
  <2>2. TasksAreRecords' /\ TasksAreOwn' /\ NamesComeLate'
    BY <1>1, <2>1 DEF SessionInv, TasksAreRecords, TasksAreOwn, NamesComeLate, NotYetIn, Ending
  <2> QED BY <1>1, <2>2, SameSessions DEF SessionInv
<1> QED BY <1>2, <1>3

\* The one step that gives a name: the session had none, so it has no row, no
\* end under way and no session id either.
LEMMA InsertSession ==
  ASSUME SessionInv, NEW t \in Thread, Insert(t)
  PROVE  SessionInv'
<1> DEFINE s == task[t].self
           n == task[t].name
<1>1. task[t].pc = "insert"
  BY DEF Insert, At
<1>2. /\ s \in Session /\ ThreadOf[s] = t
      /\ userInfo[s] = NoName /\ n # NoName
  BY <1>1 DEF SessionInv, TasksAreOwn, NamesComeLate, NotYetIn, Ending
<1>3. s \notin openRows \cup ending \cup usersBySessionId
  BY <1>2 DEF SessionInv, KnownHaveNames
<1>4. /\ users' = [m \in DOMAIN users \cup {n} |-> IF m = n THEN s ELSE users[m]]
      /\ openRows' = openRows \cup {s}
      /\ usersBySessionId' = usersBySessionId \cup {s}
      /\ userInfo' = [userInfo EXCEPT ![s] = n]
      /\ UNCHANGED ending
      /\ Goto(t, "resume")
  BY DEF Insert
<1>5. /\ userInfo' = [r \in Session |-> userInfo'[r]]
      /\ userInfo'[s] = n
      /\ \A r \in Session \ {s} : userInfo'[r] = userInfo[r]
  BY <1>2, <1>4 DEF SessionInv, TasksAreRecords
<1>6. /\ task' = [u \in Thread |-> Task(task'[u].pc, task'[u].self, task'[u].target,
                                        task'[u].name, task'[u].index)]
      /\ task'[t] = Task("resume", s, task[t].target, n, task[t].index)
      /\ \A u \in Thread \ {t} : task'[u] = task[u]
  BY <1>4, ContinueTask DEF SessionInv, Goto
<1>7. task'[t].pc = "resume" /\ task'[t].self = s
  BY <1>6 DEF Task
<1>8. TasksAreRecords'
  BY <1>5, <1>6 DEF TasksAreRecords
<1>9. TasksAreOwn'
  <2> SUFFICES ASSUME NEW u \in Thread, task'[u].pc # "idle"
               PROVE  /\ task'[u].self \in Session /\ ThreadOf[task'[u].self] = u
                      /\ task'[u].pc \in Ending => task'[u].target \in Session
    BY DEF TasksAreOwn, Ending
  <2>1. CASE u = t
    BY <1>2, <1>7, <2>1 DEF Ending
  <2>2. CASE u # t
    BY <1>6, <2>2 DEF SessionInv, TasksAreOwn, Ending
  <2> QED BY <2>1, <2>2
<1>10. NamesComeLate'
  <2> SUFFICES ASSUME NEW u \in Thread, NotYetIn(u)'
               PROVE  /\ userInfo'[task'[u].self] = NoName
                      /\ task'[u].pc # "admit" => task'[u].name # NoName
    BY DEF NamesComeLate, Ending
  <2>1. u # t
    BY <1>7 DEF NotYetIn, Ending
  <2>2. task'[u] = task[u]
    BY <1>6, <2>1
  <2>3. NotYetIn(u)
    BY <2>2 DEF NotYetIn, Ending
  <2>4. task[u].self \in Session /\ ThreadOf[task[u].self] = u
    BY <2>3 DEF SessionInv, TasksAreOwn, NotYetIn, Ending
  <2>5. userInfo'[task[u].self] = userInfo[task[u].self]
    BY <1>2, <1>5, <2>1, <2>4
  <2> QED BY <2>2, <2>3, <2>5 DEF SessionInv, NamesComeLate, Ending
<1>11. KnownHaveNames'
  BY <1>2, <1>4, <1>5 DEF SessionInv, KnownHaveNames
<1>12. RowsFollowSessions'
  BY <1>3, <1>4 DEF SessionInv, RowsFollowSessions
<1>13. FoundHaveIds'
  <2> SUFFICES ASSUME NEW m \in DOMAIN users'
               PROVE  users'[m] \in usersBySessionId' /\ userInfo'[users'[m]] = m
    BY DEF FoundHaveIds
  <2>1. CASE m = n
    BY <1>4, <1>5, <2>1
  <2>2. CASE m # n
    <3>1. m \in DOMAIN users /\ users'[m] = users[m]
      BY <1>4, <2>2
    <3>2. users[m] \in usersBySessionId /\ userInfo[users[m]] = m
      BY <3>1 DEF SessionInv, FoundHaveIds
    <3>3. users[m] # s /\ users[m] \in Session
      BY <1>3, <3>2 DEF SessionInv, KnownHaveNames
    <3> QED BY <1>4, <1>5, <3>1, <3>2, <3>3
  <2> QED BY <2>1, <2>2
<1> QED BY <1>8, <1>9, <1>10, <1>11, <1>12, <1>13 DEF SessionInv

LEMMA ResumeSession ==
  ASSUME SessionInv, NEW t \in Thread, Resume(t)
  PROVE  SessionInv'
<1>1. /\ task' = [task EXCEPT ![t] = Idle]
      /\ UNCHANGED <<users, usersBySessionId, userInfo, openRows, ending>>
  BY DEF Resume, serverVars, rowVars
<1>2. TasksAreRecords' /\ TasksAreOwn' /\ NamesComeLate'
  BY <1>1, IdleKeeps DEF SessionInv, Ending
<1> QED BY <1>1, <1>2, SameSessions DEF SessionInv

\* The end of a session, up to the lock of removeClient().
LEMMA EndSteps ==
  ASSUME SessionInv, NEW t \in Thread,
         EndAgain(t) \/ End(t) \/ Mark(t) \/ LeaveGames(t) \/ Find(t)
  PROVE  SessionInv'
<1>1. /\ task[t].pc \in {"end", "mark", "leaveGames", "find"}
      /\ UNCHANGED <<users, usersBySessionId, userInfo, openRows, ending>>
  BY DEF EndAgain, End, Mark, LeaveGames, Find, At, serverVars, sessionVars, rowVars
<1>2. TasksAreRecords' /\ TasksAreOwn' /\ NamesComeLate'
  <2>1. CASE EndAgain(t) \/ (Find(t) /\ Return(t))
    BY <1>1, <2>1, ReturnKeeps DEF SessionInv, EndAgain, Ending
  <2>2. CASE End(t)
    BY <1>1, <2>2, GotoKeeps DEF SessionInv, End, Ending
  <2>3. CASE Mark(t)
    BY <1>1, <2>3, GotoKeeps DEF SessionInv, Mark, Ending
  <2>4. CASE LeaveGames(t)
    BY <1>1, <2>4, GotoKeeps DEF SessionInv, LeaveGames, Ending
  <2>5. CASE Find(t) /\ ~Return(t)
    <3> DEFINE i == CHOOSE i \in DOMAIN clients : clients[i] = task[t].target
    <3>1. Continue(t, "drop", task[t].target, task[t].name, i)
      BY <2>5 DEF Find
    <3> HIDE DEF i
    <3>2. /\ task' = [u \in Thread |-> Task(task'[u].pc, task'[u].self, task'[u].target,
                                            task'[u].name, task'[u].index)]
          /\ task'[t] = Task("drop", task[t].self, task[t].target, task[t].name, i)
          /\ \A u \in Thread \ {t} : task'[u] = task[u]
      BY <3>1, ContinueTask DEF SessionInv
    <3>3. /\ task'[t].pc = "drop" /\ task'[t].self = task[t].self
          /\ task'[t].target = task[t].target /\ task'[t].name = task[t].name
      BY <3>2 DEF Task
    <3>4. /\ task'[t].self \in Session /\ ThreadOf[task'[t].self] = t
          /\ task'[t].target \in Session
      BY <1>1, <3>3 DEF SessionInv, TasksAreOwn, Ending
    <3>5. NotYetIn(t)' => /\ userInfo[task'[t].self] = NoName
                          /\ task'[t].pc # "admit" => task'[t].name # NoName
      BY <1>1, <3>3 DEF SessionInv, NamesComeLate, NotYetIn, Ending
    <3> QED BY <1>1, <3>2, <3>4, <3>5, OneTask DEF SessionInv, Ending
  <2> QED BY <2>1, <2>2, <2>3, <2>4, <2>5
<1> QED BY <1>1, <1>2, SameSessions DEF SessionInv

\* removeClient() under the lock: the name, the session id and the row go
\* together, also when another thread has already ended the session.
LEMMA DropSession ==
  ASSUME SessionInv, NEW t \in Thread, Drop(t)
  PROVE  SessionInv'
<1> DEFINE s == task[t].target
<1>1. /\ task[t].pc = "drop"
      /\ users' = [n \in DOMAIN users \ {userInfo[s]} |-> users[n]]
      /\ usersBySessionId' = usersBySessionId \ {s}
      /\ ending' = IF userInfo[s] # NoName THEN ending \cup {s} ELSE ending
      /\ UNCHANGED <<userInfo, openRows>>
      /\ Return(t)
  BY DEF Drop, At, DropName, PostEndSession
<1>2. TasksAreRecords' /\ TasksAreOwn' /\ NamesComeLate'
  BY <1>1, ReturnKeeps DEF SessionInv, Ending
<1>3. s \in usersBySessionId \cup openRows => userInfo[s] # NoName
  BY DEF SessionInv, KnownHaveNames
<1>4. KnownHaveNames'
  <2>1. s \in Session
    BY <1>1 DEF SessionInv, TasksAreOwn, Ending
  <2> QED BY <1>1, <2>1 DEF SessionInv, KnownHaveNames
<1>5. RowsFollowSessions'
  BY <1>1, <1>3 DEF SessionInv, RowsFollowSessions
<1>6. FoundHaveIds'
  BY <1>1 DEF SessionInv, FoundHaveIds
<1> QED BY <1>2, <1>4, <1>5, <1>6 DEF SessionInv

LEMMA SessionStepInv ==
  ASSUME SessionsAssumption, SessionInv, NEW s \in Session,
         Connect(s) \/ Disconnect(s) \/ Login(s) \/ Free(s) \/ EndSession(s)
  PROVE  SessionInv'
<1>1. CASE Connect(s) \/ Free(s)
  <2>1. UNCHANGED <<users, usersBySessionId, userInfo, openRows, ending, task>>
    BY <1>1 DEF Connect, Free, serverVars, sessionVars, rowVars
  <2>2. TasksAreRecords' /\ TasksAreOwn' /\ NamesComeLate'
    BY <2>1 DEF SessionInv, TasksAreRecords, TasksAreOwn, NamesComeLate, NotYetIn, Ending
  <2> QED BY <2>1, <2>2, SameSessions DEF SessionInv
<1>2. CASE Disconnect(s)
  <2>1. /\ Start(s, "end", s)
        /\ UNCHANGED <<users, usersBySessionId, userInfo, openRows, ending>>
    BY <1>2 DEF Disconnect, serverVars, sessionVars, rowVars
  <2>2. TasksAreRecords' /\ TasksAreOwn' /\ NamesComeLate'
    BY <2>1, StartTask DEF SessionInv
  <2> QED BY <2>1, <2>2, SameSessions DEF SessionInv
<1>3. CASE Login(s)
  <2>1. /\ Start(s, "admit", NoSession) /\ userInfo[s] = NoName
        /\ UNCHANGED <<users, usersBySessionId, userInfo, openRows, ending>>
    BY <1>3 DEF Login, serverVars, sessionVars, rowVars
  <2>2. TasksAreRecords' /\ TasksAreOwn' /\ NamesComeLate'
    BY <2>1, StartTask DEF SessionInv
  <2> QED BY <2>1, <2>2, SameSessions DEF SessionInv
<1>4. CASE EndSession(s)
  <2>1. /\ UNCHANGED <<users, usersBySessionId, userInfo, task>>
        /\ s \in ending
        /\ ending' = ending \ {s} /\ openRows' = openRows \ {s}
    BY <1>4 DEF EndSession, serverVars, sessionVars
  <2>2. TasksAreRecords' /\ TasksAreOwn' /\ NamesComeLate'
    BY <2>1 DEF SessionInv, TasksAreRecords, TasksAreOwn, NamesComeLate, NotYetIn, Ending
  <2>3. KnownHaveNames' /\ RowsFollowSessions' /\ FoundHaveIds'
    BY <2>1 DEF SessionInv, KnownHaveNames, RowsFollowSessions, FoundHaveIds
  <2> QED BY <2>2, <2>3 DEF SessionInv
<1> QED BY <1>1, <1>2, <1>3, <1>4

\* For any sessions, threads and accounts, whatever the interleaving of logins
\* and ends: the inductive invariant holds.
THEOREM SessionInvariant == Spec => []SessionInv
<1>1. Init => SessionInv
  BY InitSession
<1>2. SessionInv /\ [Next]_vars => SessionInv'
  <2> SUFFICES ASSUME SessionInv, [Next]_vars PROVE SessionInv'
    OBVIOUS
  <2>1. CASE UNCHANGED vars
    <3>1. UNCHANGED <<users, usersBySessionId, userInfo, openRows, ending, task>>
      BY <2>1 DEF vars, serverVars, sessionVars, rowVars
    <3>2. TasksAreRecords' /\ TasksAreOwn' /\ NamesComeLate'
      BY <3>1 DEF SessionInv, TasksAreRecords, TasksAreOwn, NamesComeLate, NotYetIn, Ending
    <3> QED BY <3>1, <3>2, SameSessions DEF SessionInv
  <2>2. CASE \E s \in Session :
               Connect(s) \/ Disconnect(s) \/ Login(s) \/ Free(s) \/ EndSession(s)
    BY <2>2, SessionStepInv, SessionsAssumption
  <2>3. CASE \E t \in Thread : LoginStep(t) \/ EndStep(t)
    <3> PICK t \in Thread : LoginStep(t) \/ EndStep(t)
      BY <2>3
    <3>1. CASE AdmitAccount(t) \/ AdmitGuest(t)
      BY <3>1, AdmitSession
    <3>2. CASE LogOut(t)
      BY <3>2, LogOutSession
    <3>3. CASE Insert(t)
      BY <3>3, InsertSession
    <3>4. CASE Resume(t)
      BY <3>4, ResumeSession
    <3>5. CASE EndAgain(t) \/ End(t) \/ Mark(t) \/ LeaveGames(t) \/ Find(t)
      BY <3>5, EndSteps
    <3>6. CASE Drop(t)
      BY <3>6, DropSession
    <3> QED BY <3>1, <3>2, <3>3, <3>4, <3>5, <3>6 DEF LoginStep, EndStep
  <2> QED BY <2>1, <2>2, <2>3 DEF Next
<1> QED BY <1>1, <1>2, PTL DEF Spec

\* The sessions table agrees with usersBySessionId but for the ends that are on
\* their way, with any number of pools (removeClient() and loginUser()).
THEOREM RowsAreKept == Spec => []RowsFollowSessions
<1>1. SessionInv => RowsFollowSessions
  BY DEF SessionInv
<1> QED BY <1>1, SessionInvariant, PTL

=============================================================================
