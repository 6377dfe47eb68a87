---------------------- MODULE ServerSessionsPool_proofs ----------------------
(***************************************************************************)
(* The types of ServerSessions for any number of pools, and what holds when  *)
(* all sessions share the thread of one pool: a name means one session that  *)
(* is still there, and a kept seat follows the session that took it.         *)
(***************************************************************************)
EXTENDS ServerSessions_proofs, LeastElements_proofs, FiniteSetTheorems,
        SequenceTheorems

-----------------------------------------------------------------------------
(* The search for a free name.                                              *)

LEMMA NumbersAreNaturals ==
  /\ Cardinality(Session) \in Nat
  /\ IsFiniteSet(Number) /\ Number \in SUBSET Nat
<1>1. Cardinality(Session) \in Nat
  BY SessionsAssumption, FS_CardinalityType
<1> QED BY <1>1, FS_Interval DEF Number

\* Each of the other sessions takes one name at most, so that the numbers that
\* no account takes leave one for a session without a name.
LEMMA SomeNumberIsFree ==
  ASSUME SessionInv, NEW s \in Session, userInfo[s] = NoName
  PROVE  \E k \in Number : ~NameTaken(<<BaseOf[s], k>>)
<1> DEFINE b      == BaseOf[s]
           K      == {k \in Number : <<b, k>> \notin Account}
           Others == Session \ {s}
<1>1. SUFFICES ASSUME \A k \in Number : NameTaken(<<b, k>>) PROVE FALSE
  OBVIOUS
<1>2. \A k \in K : \E r \in Others : userInfo[r] = <<b, k>>
  <2> SUFFICES ASSUME NEW k \in K PROVE \E r \in Others : userInfo[r] = <<b, k>>
    OBVIOUS
  <2>1. userInfo[s] # <<b, k>>
    BY PairsAreNames
  <2>2. \E r \in Session : userInfo[r] = <<b, k>>
    BY <1>1 DEF NameTaken, SessionInv, FoundHaveIds, KnownHaveNames
  <2> QED BY <2>1, <2>2
<1> DEFINE holder == [k \in K |-> CHOOSE r \in Others : userInfo[r] = <<b, k>>]
<1>3. holder \in [K -> Others] /\ \A k \in K : userInfo[holder[k]] = <<b, k>>
  BY <1>2
<1>4. IsFiniteSet(K) /\ IsFiniteSet(Others)
  <2>1. IsFiniteSet(K)
    BY NumbersAreNaturals, FS_Subset
  <2>2. IsFiniteSet(Others)
    BY SessionsAssumption, FS_RemoveElement
  <2> QED BY <2>1, <2>2
<1>5. Cardinality(Others) < Cardinality(K)
  <2>1. Cardinality(Others) = Cardinality(Session) - 1
    BY SessionsAssumption, FS_RemoveElement
  <2>2. Cardinality(K) >= Cardinality(Session)
    BY AccountAssumption DEF Base
  <2>3. Cardinality(K) \in Nat
    BY <1>4, FS_CardinalityType
  <2> QED BY <2>1, <2>2, <2>3, NumbersAreNaturals
<1> HIDE DEF K, Others, holder
<1>6. PICK j, k \in K : j # k /\ holder[j] = holder[k]
  BY <1>3, <1>4, <1>5, FS_PigeonHole
<1> QED BY <1>3, <1>6

LEMMA FreeNumberIsFree ==
  ASSUME SessionInv, NEW s \in Session, userInfo[s] = NoName
  PROVE  /\ FreeNumber(BaseOf[s]) \in Number
         /\ ~NameTaken(<<BaseOf[s], FreeNumber(BaseOf[s])>>)
<1> DEFINE b    == BaseOf[s]
           Free1 == {k \in Number : ~NameTaken(<<b, k>>)}
<1>1. Free1 # {} /\ Free1 \in SUBSET Nat
  BY SomeNumberIsFree, NumbersAreNaturals
<1>2. PICK k \in Free1 : \A j \in Free1 : k <= j
  <2> HIDE DEF Free1
  <2> QED BY <1>1, LeastExists
<1>3. /\ k \in Number /\ ~NameTaken(<<b, k>>)
      /\ \A j \in Number : j < k => NameTaken(<<b, j>>)
  BY <1>2, NumbersAreNaturals
<1> QED BY <1>3 DEF FreeNumber

-----------------------------------------------------------------------------
(* Type correctness.                                                        *)

Pc == {"idle", "admit", "logOut", "insert", "resume",
       "end", "mark", "leaveGames", "find", "drop"}

LEMMA RemoveAtSeq ==
  ASSUME NEW S, NEW list \in Seq(S), NEW i \in DOMAIN list
  PROVE  /\ RemoveAt(list, i) \in Seq(S)
         /\ Len(RemoveAt(list, i)) = Len(list) - 1
         /\ \A j \in 1..(Len(list) - 1) :
              RemoveAt(list, i)[j] = IF j < i THEN list[j] ELSE list[j + 1]
<1>1. i \in 1..Len(list) /\ Len(list) \in Nat
  OBVIOUS
<1>2. /\ SubSeq(list, 1, i - 1) \in Seq(S) /\ Len(SubSeq(list, 1, i - 1)) = i - 1
      /\ \A j \in 1..(i - 1) : SubSeq(list, 1, i - 1)[j] = list[j]
  BY <1>1
<1>3. /\ SubSeq(list, i + 1, Len(list)) \in Seq(S)
      /\ Len(SubSeq(list, i + 1, Len(list))) = Len(list) - i
      /\ \A j \in 1..(Len(list) - i) : SubSeq(list, i + 1, Len(list))[j] = list[i + j]
  BY <1>1
<1> DEFINE before == SubSeq(list, 1, i - 1)
           after  == SubSeq(list, i + 1, Len(list))
<1>4. RemoveAt(list, i) = before \o after
  BY DEF RemoveAt
<1>5. /\ before \in Seq(S) /\ Len(before) = i - 1
      /\ \A j \in 1..(i - 1) : before[j] = list[j]
      /\ after \in Seq(S) /\ Len(after) = Len(list) - i
      /\ \A j \in 1..(Len(list) - i) : after[j] = list[i + j]
  BY <1>2, <1>3
<1> HIDE DEF before, after
<1>6. before \o after \in Seq(S) /\ Len(before \o after) = Len(list) - 1
  BY <1>1, <1>5
<1>7. ASSUME NEW j \in 1..(Len(list) - 1)
      PROVE  (before \o after)[j] = IF j < i THEN list[j] ELSE list[j + 1]
  <2>0. j \in 1..(Len(before) + Len(after)) /\ j \in Nat /\ i \in Nat
    BY <1>1, <1>5
  <2>1. CASE j < i
    <3>1. j \in 1..(i - 1) /\ j <= Len(before)
      BY <1>1, <1>5, <2>0, <2>1
    <3>2. (before \o after)[j] = before[j]
      BY <1>5, <2>0, <3>1
    <3> QED BY <1>5, <2>1, <3>1, <3>2
  <2>2. CASE ~(j < i)
    <3> DEFINE k == j - (i - 1)
    <3>1. k \in 1..(Len(list) - i) /\ i + k = j + 1
      BY <1>1, <2>0, <2>2
    <3>2. (before \o after)[j] = after[k]
      <4>1. ~(j <= Len(before)) /\ j - Len(before) = k
        BY <1>5, <2>0, <2>2
      <4>2. (before \o after)[j] = IF j <= Len(before) THEN before[j] ELSE after[j - Len(before)]
        BY <1>5, <2>0, ConcatProperties
      <4> QED BY <4>1, <4>2
    <3>3. after[k] = list[i + k]
      <4> HIDE DEF k
      <4> QED BY <1>5, <3>1
    <3> QED BY <2>2, <3>1, <3>2, <3>3
  <2> QED BY <2>1, <2>2
<1> QED BY <1>4, <1>6, <1>7

\* The step of a thread keeps the types of the tasks.
LEMMA ContinueType ==
  ASSUME TypeOK, NEW t \in Thread, NEW pc \in Pc, NEW target \in Session \cup {NoSession},
         NEW name \in Name \cup {NoName}, NEW index \in Nat,
         Continue(t, pc, target, name, index)
  PROVE  task' \in [Thread -> [pc : Pc, self : Session \cup {NoSession},
                               target : Session \cup {NoSession},
                               name : Name \cup {NoName}, index : Nat]]
BY DEF TypeOK, Continue, Task, Pc

LEMMA GotoType ==
  ASSUME TypeOK, NEW t \in Thread, NEW pc \in Pc, Goto(t, pc)
  PROVE  task' \in [Thread -> [pc : Pc, self : Session \cup {NoSession},
                               target : Session \cup {NoSession},
                               name : Name \cup {NoName}, index : Nat]]
<1>1. /\ task[t].target \in Session \cup {NoSession}
      /\ task[t].name \in Name \cup {NoName} /\ task[t].index \in Nat
  BY DEF TypeOK
<1> QED BY <1>1, ContinueType DEF Goto

LEMMA IdleType ==
  ASSUME TypeOK, NEW t \in Thread, task' = [task EXCEPT ![t] = Idle]
  PROVE  task' \in [Thread -> [pc : Pc, self : Session \cup {NoSession},
                               target : Session \cup {NoSession},
                               name : Name \cup {NoName}, index : Nat]]
BY DEF TypeOK, Idle, Task, Pc

LEMMA ReturnType ==
  ASSUME TypeOK, NEW t \in Thread, Return(t)
  PROVE  task' \in [Thread -> [pc : Pc, self : Session \cup {NoSession},
                               target : Session \cup {NoSession},
                               name : Name \cup {NoName}, index : Nat]]
<1>1. "insert" \in Pc
  BY DEF Pc
<1> QED BY <1>1, GotoType, IdleType DEF Return

LEMMA StartType ==
  ASSUME TypeOK, NEW s \in Session, NEW pc \in Pc, NEW target \in Session \cup {NoSession},
         Start(s, pc, target)
  PROVE  task' \in [Thread -> [pc : Pc, self : Session \cup {NoSession},
                               target : Session \cup {NoSession},
                               name : Name \cup {NoName}, index : Nat]]
BY DEF TypeOK, Start, Task, Pc

LEMMA LoginStepType ==
  ASSUME TypeOK, SessionInv, NEW t \in Thread, LoginStep(t)
  PROVE  TypeOK'
<1> USE DEF serverVars, sessionVars, rowVars, seatVars
<1>0. "logOut" \in Pc /\ "insert" \in Pc /\ "end" \in Pc /\ "resume" \in Pc /\ 0 \in Nat
  BY DEF Pc
<1>1. ASSUME task[t].pc = "admit"
      PROVE  task[t].self \in Session /\ userInfo[task[t].self] = NoName
  BY <1>1 DEF SessionInv, TasksAreOwn, NamesComeLate, NotYetIn, Ending
<1>2. CASE AdmitAccount(t)
  <2>1. Wish(task[t].self) \in Name
    BY <1>2, AccountAssumption DEF AdmitAccount, HasAccount
  <2>2. /\ Continue(t, IF MustLogOut(Wish(task[t].self)) THEN "logOut" ELSE "insert",
                    NoSession, Wish(task[t].self), 0)
        /\ UNCHANGED <<arrived, serverVars, sessionVars, rowVars, seatVars, crashed>>
    BY <1>2 DEF AdmitAccount
  <2> QED BY <1>0, <2>1, <2>2, ContinueType DEF TypeOK, Pc
<1>3. CASE AdmitGuest(t)
  <2> DEFINE b == BaseOf[task[t].self]
  <2>1. task[t].self \in Session /\ FreeNumber(b) \in Number
    BY <1>1, <1>3, FreeNumberIsFree DEF AdmitGuest, At
  <2>2. <<b, FreeNumber(b)>> \in Name
    BY <2>1 DEF Name, Base
  <2>3. /\ Continue(t, "insert", NoSession, <<b, FreeNumber(b)>>, 0)
        /\ UNCHANGED <<arrived, serverVars, sessionVars, rowVars, seatVars, crashed>>
    BY <1>3 DEF AdmitGuest
  <2> QED BY <1>0, <2>2, <2>3, ContinueType DEF TypeOK, Pc
<1>4. CASE LogOut(t)
  <2>1. UNCHANGED <<arrived, serverVars, sessionVars, rowVars, seatVars>>
    BY <1>4 DEF LogOut
  <2>2. CASE task[t].name \in DOMAIN users
    <3>1. users[task[t].name] \in Session /\ task[t].name \in Name \cup {NoName}
      BY <2>2 DEF TypeOK
    <3>2. Continue(t, "end", users[task[t].name], task[t].name, 0) /\ UNCHANGED crashed
      BY <1>4, <2>2 DEF LogOut
    <3> QED BY <1>0, <2>1, <3>1, <3>2, ContinueType DEF TypeOK, Pc
  <2>3. CASE task[t].name \notin DOMAIN users
    BY <1>4, <2>1, <2>3 DEF LogOut, TypeOK
  <2> QED BY <2>2, <2>3
<1>5. CASE Insert(t)
  <2> DEFINE s == task[t].self
             n == task[t].name
  <2>1. s \in Session /\ n # NoName
    BY <1>5 DEF Insert, At, SessionInv, TasksAreOwn, NamesComeLate, NotYetIn, Ending
  <2>2. n \in Name
    BY <2>1 DEF TypeOK
  <2>3. /\ users' = [m \in DOMAIN users \cup {n} |-> IF m = n THEN s ELSE users[m]]
        /\ openRows' = openRows \cup {s}
        /\ usersBySessionId' = usersBySessionId \cup {s}
        /\ userInfo' = [userInfo EXCEPT ![s] = n]
        /\ Goto(t, "resume")
        /\ UNCHANGED <<arrived, clients, authState, deleted, doomed, freed, ending,
                       seatVars, crashed>>
    BY <1>5 DEF Insert
  <2> HIDE DEF s, n
  <2>4. DOMAIN users' \subseteq Name /\ users' \in [DOMAIN users' -> Session]
    BY <2>1, <2>2, <2>3 DEF TypeOK
  <2>5. userInfo' \in [Session -> Name \cup {NoName}]
    BY <2>2, <2>3 DEF TypeOK
  <2> QED BY <1>0, <2>1, <2>3, <2>4, <2>5, GotoType DEF TypeOK, Pc
<1>6. CASE Resume(t)
  <2> DEFINE s == task[t].self
  <2>1. s \in Session
    BY <1>6 DEF Resume, At, SessionInv, TasksAreOwn, Ending
  <2>2. /\ authState' = [authState EXCEPT ![s] = TRUE]
        /\ seat' = IF Attach(s) THEN [seat EXCEPT ![Wish(s)] = s] ELSE seat
        /\ games' = IF Attach(s) THEN games \cup {s} ELSE games
        /\ task' = [task EXCEPT ![t] = Idle]
        /\ UNCHANGED <<arrived, serverVars, userInfo, deleted, doomed, freed, rowVars, crashed>>
    BY <1>6 DEF Resume
  <2> HIDE DEF s
  <2>3. seat' \in [Account -> Session \cup {NoSession}] /\ games' \subseteq Session
    BY <2>1, <2>2 DEF TypeOK
  <2>4. authState' \in [Session -> BOOLEAN]
    BY <2>2 DEF TypeOK
  <2> QED BY <2>2, <2>3, <2>4, IdleType DEF TypeOK, Pc
<1> QED BY <1>2, <1>3, <1>4, <1>5, <1>6 DEF LoginStep

LEMMA EndStepType ==
  ASSUME TypeOK, SessionInv, NEW t \in Thread, EndStep(t)
  PROVE  TypeOK'
<1> USE DEF serverVars, sessionVars, rowVars, seatVars
<1>0. "mark" \in Pc /\ "leaveGames" \in Pc /\ "find" \in Pc /\ "drop" \in Pc
  BY DEF Pc
<1>1. task[t].target \in Session
  BY DEF EndStep, EndAgain, End, Mark, LeaveGames, Find, Drop, At, SessionInv,
         TasksAreOwn, Ending
<1>2. CASE EndAgain(t)
  BY <1>2, ReturnType DEF EndAgain, TypeOK, Pc
<1>3. CASE End(t)
  BY <1>0, <1>3, GotoType DEF End, TypeOK, Pc
<1>4. CASE Mark(t)
  <2>1. deleted' \in [Session -> BOOLEAN]
    BY <1>4 DEF Mark, TypeOK
  <2> QED BY <1>0, <1>4, <2>1, GotoType DEF Mark, TypeOK, Pc
<1>5. CASE LeaveGames(t)
  <2>1. seat' \in [Account -> Session \cup {NoSession}]
    BY <1>5 DEF LeaveGames, Detach, TypeOK
  <2> QED BY <1>0, <1>5, <2>1, GotoType DEF LeaveGames, TypeOK, Pc
<1>6. CASE Find(t)
  <2> DEFINE s == task[t].target
             i == CHOOSE i \in DOMAIN clients : clients[i] = s
  <2>1. UNCHANGED <<arrived, serverVars, userInfo, authState, deleted, freed,
                    rowVars, seatVars, crashed>>
        /\ doomed' \subseteq Session /\ freed \subseteq doomed'
    BY <1>1, <1>6 DEF Find, TypeOK
  <2>2. CASE s \in ToSet(clients)
    <3>1. \E j \in DOMAIN clients : clients[j] = s
      BY <2>2 DEF ToSet
    <3>2. i \in DOMAIN clients /\ clients \in Seq(Session)
      BY <3>1 DEF TypeOK
    <3>3. i \in Nat /\ task[t].name \in Name \cup {NoName}
      BY <3>2 DEF TypeOK
    <3>4. Continue(t, "drop", s, task[t].name, i)
      BY <1>6, <2>2 DEF Find
    <3> HIDE DEF i
    <3> QED BY <1>0, <1>1, <2>1, <3>3, <3>4, ContinueType DEF TypeOK, Pc
  <2>3. CASE s \notin ToSet(clients)
    BY <1>6, <2>1, <2>3, ReturnType DEF Find, TypeOK, Pc
  <2> QED BY <2>2, <2>3
<1>7. CASE Drop(t)
  <2>1. clients' \in Seq(Session)
    BY <1>7, RemoveAtSeq DEF Drop, DropAt, TypeOK
  <2>2. DOMAIN users' \subseteq Name /\ users' \in [DOMAIN users' -> Session]
    BY <1>7 DEF Drop, DropName, TypeOK
  <2>3. ending' \subseteq Session /\ doomed' \subseteq Session /\ freed \subseteq doomed'
    BY <1>1, <1>7 DEF Drop, PostEndSession, TypeOK
  <2> QED BY <1>7, <2>1, <2>2, <2>3, ReturnType DEF Drop, TypeOK, Pc
<1> QED BY <1>2, <1>3, <1>4, <1>5, <1>6, <1>7 DEF EndStep

LEMMA SessionActionType ==
  ASSUME TypeOK, NEW s \in Session,
         Connect(s) \/ Disconnect(s) \/ Login(s) \/ Free(s) \/ EndSession(s)
  PROVE  TypeOK'
<1> USE DEF serverVars, sessionVars, rowVars, seatVars
<1>0. "end" \in Pc /\ "admit" \in Pc
  BY DEF Pc
<1>1. CASE Connect(s)
  BY <1>1 DEF Connect, TypeOK
<1>2. CASE Disconnect(s)
  BY <1>0, <1>2, StartType DEF Disconnect, TypeOK, Pc
<1>3. CASE Login(s)
  BY <1>0, <1>3, StartType DEF Login, TypeOK, Pc
<1>4. CASE Free(s)
  BY <1>4 DEF Free, TypeOK
<1>5. CASE EndSession(s)
  BY <1>5 DEF EndSession, TypeOK
<1> QED BY <1>1, <1>2, <1>3, <1>4, <1>5

\* The variables keep their types with any number of pools; that the search for
\* a guest's name always finds one is part of it.
THEOREM TypeCorrect == Spec => []TypeOK
<1>1. Init => TypeOK
  <2> SUFFICES ASSUME Init PROVE TypeOK
    OBVIOUS
  <2>1. clients \in Seq(Session) /\ users \in [DOMAIN users -> Session] /\ DOMAIN users = {}
    BY DEF Init
  <2> QED BY <2>1 DEF Init, TypeOK, Idle, Task
<1>2. TypeOK /\ SessionInv /\ [Next]_vars => TypeOK'
  <2> SUFFICES ASSUME TypeOK, SessionInv, [Next]_vars PROVE TypeOK'
    OBVIOUS
  <2>1. CASE UNCHANGED vars
    BY <2>1 DEF vars, serverVars, sessionVars, rowVars, seatVars, TypeOK
  <2>2. CASE Next
    BY <2>2, LoginStepType, EndStepType, SessionActionType DEF Next
  <2> QED BY <2>1, <2>2
<1> QED BY <1>1, <1>2, SessionInvariant, PTL DEF Spec

-----------------------------------------------------------------------------
(* Lists without repetitions.                                               *)

LEMMA RemoveAtSet ==
  ASSUME NEW S, NEW list \in Seq(S), IsInjective(list), NEW i \in DOMAIN list
  PROVE  /\ ToSet(RemoveAt(list, i)) = ToSet(list) \ {list[i]}
         /\ IsInjective(RemoveAt(list, i))
<1> DEFINE rest == RemoveAt(list, i)
<1>1. /\ rest \in Seq(S) /\ Len(rest) = Len(list) - 1
      /\ \A j \in 1..(Len(list) - 1) : rest[j] = IF j < i THEN list[j] ELSE list[j + 1]
  BY RemoveAtSeq
<1> HIDE DEF rest
<1>2. /\ Len(list) \in Nat /\ i \in 1..Len(list) /\ DOMAIN list = 1..Len(list)
      /\ DOMAIN rest = 1..(Len(list) - 1)
  BY <1>1
<1>3. \A j \in DOMAIN rest : \E k \in DOMAIN list : k # i /\ rest[j] = list[k]
                                                    /\ k = IF j < i THEN j ELSE j + 1
  BY <1>1, <1>2
<1>4. ASSUME NEW k \in DOMAIN list, k # i
      PROVE  \E j \in DOMAIN rest : rest[j] = list[k]
  <2>1. CASE k < i
    <3>1. k \in 1..(Len(list) - 1)
      BY <1>2, <2>1
    <3> QED BY <1>1, <1>2, <2>1, <3>1
  <2>2. CASE ~(k < i)
    <3>1. k - 1 \in 1..(Len(list) - 1) /\ ~(k - 1 < i) /\ (k - 1) + 1 = k
      BY <1>2, <1>4, <2>2
    <3> QED BY <1>1, <1>2, <3>1
  <2> QED BY <2>1, <2>2
<1>5. ToSet(rest) = ToSet(list) \ {list[i]}
  BY <1>2, <1>3, <1>4 DEF ToSet, IsInjective
<1>6. IsInjective(rest)
  <2> SUFFICES ASSUME NEW a \in DOMAIN rest, NEW b \in DOMAIN rest, rest[a] = rest[b]
               PROVE  a = b
    BY DEF IsInjective
  <2>1. (IF a < i THEN a ELSE a + 1) = (IF b < i THEN b ELSE b + 1)
    BY <1>3 DEF IsInjective
  <2> QED BY <1>2, <2>1
<1> QED BY <1>5, <1>6 DEF rest

LEMMA AppendSet ==
  ASSUME NEW S, NEW list \in Seq(S), IsInjective(list), NEW s \in S, s \notin ToSet(list)
  PROVE  ToSet(Append(list, s)) = ToSet(list) \cup {s} /\ IsInjective(Append(list, s))
<1> DEFINE longer == Append(list, s)
<1>1. /\ DOMAIN longer = 1..(Len(list) + 1) /\ DOMAIN list = 1..Len(list) /\ Len(list) \in Nat
      /\ \A j \in 1..Len(list) : longer[j] = list[j]
      /\ longer[Len(list) + 1] = s
  OBVIOUS
<1> HIDE DEF longer
<1>2. \A j \in DOMAIN longer : j \in DOMAIN list \/ j = Len(list) + 1
  BY <1>1
<1>3. ToSet(longer) = ToSet(list) \cup {s}
  BY <1>1, <1>2 DEF ToSet
<1>4. IsInjective(longer)
  BY <1>1, <1>2 DEF IsInjective, ToSet
<1> QED BY <1>3, <1>4 DEF longer

-----------------------------------------------------------------------------
(* One pool: a server without web sockets and with one pool, or one with web *)
(* sockets only (number_pools = 0), whose sessions all share a thread.       *)

OneThread == \A r, s \in Session : ThreadOf[r] = ThreadOf[s]

\* The part of an end that comes after the session has been marked as deleted.
Closing == {"leaveGames", "find", "drop"}

BeingEnded(s) == \E t \in Thread : task[t].pc \in Closing /\ task[t].target = s

\* Connected, and not yet taken out of the lists.
Present(s) == s \in arrived /\ (~deleted[s] \/ BeingEnded(s))

InLogin(t) == NotYetIn(t) \/ task[t].pc = "resume"

\* An account is logged in under its own name, a guest under no account's.
OwnName(s, n) == IF HasAccount(s) THEN n = Wish(s) ELSE n \notin Account

ArrivedFirst ==
  \A s \in Session : userInfo[s] # NoName \/ deleted[s] => s \in arrived

ClientsArePresent ==
  /\ \A s \in Session : s \in ToSet(clients) <=> Present(s)
  /\ IsInjective(clients)

UsersArePresent == \A n \in DOMAIN users : Present(users[n])

PresentAreFound ==
  \A s \in Session : Present(s) /\ userInfo[s] # NoName =>
    userInfo[s] \in DOMAIN users /\ users[userInfo[s]] = s

NamesAreOwn == \A s \in Session : userInfo[s] # NoName => OwnName(s, userInfo[s])

GamesAreOwn == \A s \in games : HasAccount(s) /\ userInfo[s] # NoName

\* What a thread knows while it is between two locks: a name found stays found
\* until the takeover has ended its session, one found free stays free, the
\* place in the list stays the session's, and nobody ends the session itself.
Fits(t) ==
  LET self   == task[t].self
      target == task[t].target
      name   == task[t].name
      pc     == task[t].pc
  IN  /\ self \in arrived
      /\ pc \in Ending => target \in arrived
      /\ pc = "mark" => ~deleted[target]
      /\ pc \in Closing => deleted[target]
      /\ InLogin(t) => ~deleted[self]
      /\ NotYetIn(t) /\ pc # "admit" => OwnName(self, name)
      /\ pc = "logOut" => name \in DOMAIN users
      /\ pc = "insert" => name \notin DOMAIN users
      /\ pc \in Ending /\ self # target => name \in DOMAIN users /\ users[name] = target
      /\ pc = "drop" => task[t].index \in DOMAIN clients
                        /\ clients[task[t].index] = target
      /\ pc = "resume" => userInfo[self] # NoName

TasksFit == \A t \in Thread : task[t].pc # "idle" => Fits(t)

\* The lists, names and seats of the server.
WorldInv ==
  /\ ArrivedFirst /\ ClientsArePresent /\ UsersArePresent /\ PresentAreFound
  /\ NamesAreOwn /\ GamesAreOwn /\ SeatFollowsSession /\ ~crashed

PoolInv == TypeOK /\ SessionInv /\ WorldInv /\ TasksFit

\* With one pool, a thread at work is alone, before its step and after it.
LEMMA Alone ==
  ASSUME OneThread, TypeOK, TypeOK', SessionInv, SessionInv', NEW t \in Thread,
         task[t].pc # "idle" \/ (\E s \in Session : ThreadOf[s] = t),
         \A u \in Thread \ {t} : task'[u] = task[u]
  PROVE  /\ \A u \in Thread \ {t} : task[u].pc = "idle" /\ task'[u].pc = "idle"
         /\ \A s : BeingEnded(s) <=> task[t].pc \in Closing /\ task[t].target = s
         /\ \A s : BeingEnded(s)' <=> task'[t].pc \in Closing /\ task'[t].target = s
<1>1. PICK s \in Session : ThreadOf[s] = t
  BY DEF SessionInv, TasksAreOwn
<1>2. \A u \in Thread \ {t} : task[u].pc = "idle" /\ task'[u].pc = "idle"
  BY <1>1 DEF SessionInv, TasksAreOwn, OneThread
<1> QED BY <1>2 DEF BeingEnded, Closing

LEMMA AloneNow ==
  ASSUME OneThread, SessionInv, NEW t \in Thread, task[t].pc # "idle"
  PROVE  \A s : BeingEnded(s) <=> task[t].pc \in Closing /\ task[t].target = s
<1>1. \A u \in Thread \ {t} : task[u].pc = "idle"
  BY DEF SessionInv, TasksAreOwn, OneThread
<1> QED BY <1>1 DEF BeingEnded, Closing

\* A step that changes none of the lists, names and seats.
LEMMA SameWorld ==
  ASSUME WorldInv, UNCHANGED <<arrived, clients, users, userInfo, seat, games, crashed>>,
         \A s \in Session : deleted[s] => deleted'[s],
         \A s \in Session : deleted'[s] => deleted[s] \/ s \in arrived,
         \A s \in Session : Present(s)' <=> Present(s),
         users \in [DOMAIN users -> Session], games \subseteq Session
  PROVE  WorldInv'
<1>1. ArrivedFirst'
  BY DEF WorldInv, ArrivedFirst
<1>2. ClientsArePresent' /\ UsersArePresent' /\ PresentAreFound'
  BY DEF WorldInv, ClientsArePresent, UsersArePresent, PresentAreFound
<1>3. NamesAreOwn' /\ GamesAreOwn' /\ SeatFollowsSession' /\ ~crashed'
  BY DEF WorldInv, NamesAreOwn, GamesAreOwn, SeatFollowsSession
<1> QED BY <1>1, <1>2, <1>3 DEF WorldInv

\* Only the thread that takes the step has to fit again.
LEMMA OneFits ==
  ASSUME NEW t \in Thread, \A u \in Thread \ {t} : task'[u].pc = "idle",
         task'[t].pc # "idle" => Fits(t)'
  PROVE  TasksFit'
<1> SUFFICES ASSUME NEW u \in Thread, task'[u].pc # "idle" PROVE Fits(u)'
  BY DEF TasksFit
<1>1. u = t
  OBVIOUS
<1> QED BY <1>1

\* A step within a task, and who is being ended before it and after it.
LEMMA Moved ==
  ASSUME OneThread, TypeOK, TypeOK', SessionInv, SessionInv', NEW t \in Thread,
         task[t].pc # "idle",
         NEW pc, NEW target, NEW name, NEW index, Continue(t, pc, target, name, index)
  PROVE  /\ task'[t].pc = pc /\ task'[t].self = task[t].self
         /\ task'[t].target = target /\ task'[t].name = name /\ task'[t].index = index
         /\ \A u \in Thread \ {t} : task'[u].pc = "idle"
         /\ \A s : BeingEnded(s) <=> task[t].pc \in Closing /\ task[t].target = s
         /\ \A s : BeingEnded(s)' <=> pc \in Closing /\ target = s
<1>1. /\ task'[t] = Task(pc, task[t].self, target, name, index)
      /\ \A u \in Thread \ {t} : task'[u] = task[u]
  BY ContinueTask DEF SessionInv
<1>2. /\ task'[t].pc = pc /\ task'[t].self = task[t].self
      /\ task'[t].target = target /\ task'[t].name = name /\ task'[t].index = index
  BY <1>1 DEF Task
<1>3. /\ \A u \in Thread \ {t} : task[u].pc = "idle" /\ task'[u].pc = "idle"
      /\ \A s : BeingEnded(s) <=> task[t].pc \in Closing /\ task[t].target = s
      /\ \A s : BeingEnded(s)' <=> task'[t].pc \in Closing /\ task'[t].target = s
  BY <1>1, Alone
<1> QED BY <1>2, <1>3

\* The end of a task.
LEMMA Done ==
  ASSUME OneThread, TypeOK, TypeOK', SessionInv, SessionInv', NEW t \in Thread,
         task[t].pc # "idle", task' = [task EXCEPT ![t] = Idle]
  PROVE  /\ \A u \in Thread : task'[u].pc = "idle"
         /\ TasksFit'
         /\ \A s : BeingEnded(s) <=> task[t].pc \in Closing /\ task[t].target = s
         /\ \A s : ~BeingEnded(s)'
<1>1. task'[t].pc = "idle" /\ \A u \in Thread \ {t} : task'[u] = task[u]
  BY DEF TypeOK, Idle, Task
<1>2. /\ \A u \in Thread \ {t} : task'[u].pc = "idle"
      /\ \A s : BeingEnded(s) <=> task[t].pc \in Closing /\ task[t].target = s
      /\ \A s : BeingEnded(s)' <=> task'[t].pc \in Closing /\ task'[t].target = s
  BY <1>1, Alone
<1>3. "idle" \notin Closing
  BY DEF Closing
<1> QED BY <1>1, <1>2, <1>3 DEF TasksFit

\* A session whose thread is idle finds all threads idle.
LEMMA AllIdle ==
  ASSUME OneThread, SessionInv, NEW s \in Session, IsIdle(ThreadOf[s])
  PROVE  (\A u \in Thread : task[u].pc = "idle") /\ \A r : ~BeingEnded(r)
<1>1. \A u \in Thread : task[u].pc = "idle"
  BY DEF SessionInv, TasksAreOwn, OneThread, IsIdle
<1> QED BY <1>1 DEF BeingEnded, Closing

LEMMA InitPool == Init => WorldInv /\ TasksFit
<1> SUFFICES ASSUME Init PROVE WorldInv /\ TasksFit
  OBVIOUS
<1>1. \A u \in Thread : task[u].pc = "idle"
  BY DEF Init, Idle, Task
<1>2. clients = <<>> /\ DOMAIN clients = {}
  BY DEF Init
<1>3. ClientsArePresent
  BY <1>1, <1>2 DEF Init, ClientsArePresent, ToSet, IsInjective, Present
<1> QED BY <1>1, <1>3 DEF Init, WorldInv, TasksFit, ArrivedFirst, UsersArePresent,
        PresentAreFound, NamesAreOwn, GamesAreOwn, SeatFollowsSession

LEMMA ConnectPool ==
  ASSUME OneThread, PoolInv, NEW s \in Session, Connect(s)
  PROVE  WorldInv' /\ TasksFit'
<1>1. /\ s \notin arrived /\ arrived' = arrived \cup {s} /\ clients' = Append(clients, s)
      /\ UNCHANGED <<users, userInfo, deleted, seat, games, task, crashed>>
      /\ IsIdle(ThreadOf[s])
  BY DEF Connect, sessionVars, seatVars
<1>2. /\ \A u \in Thread : task[u].pc = "idle" /\ task'[u].pc = "idle"
      /\ \A r : ~BeingEnded(r) /\ ~BeingEnded(r)'
  <2>1. /\ \A u \in Thread : task[u].pc = "idle"
        /\ \A r : ~BeingEnded(r)
    BY <1>1, AllIdle DEF PoolInv
  <2> QED BY <1>1, <2>1 DEF BeingEnded
<1>3. ~deleted[s] /\ userInfo[s] = NoName
  BY <1>1 DEF PoolInv, WorldInv, ArrivedFirst
<1>4. \A r \in Session : Present(r)' <=> Present(r) \/ r = s
  BY <1>1, <1>2, <1>3 DEF Present
<1>5. ~Present(s)
  BY <1>1 DEF Present
<1>6. ClientsArePresent'
  <2>1. /\ clients \in Seq(Session) /\ IsInjective(clients) /\ s \notin ToSet(clients)
    BY <1>5 DEF PoolInv, TypeOK, WorldInv, ClientsArePresent
  <2>2. ToSet(clients') = ToSet(clients) \cup {s} /\ IsInjective(clients')
    BY <1>1, <2>1, AppendSet
  <2>3. \A r \in Session : r \in ToSet(clients) <=> Present(r)
    BY DEF PoolInv, WorldInv, ClientsArePresent
  <2> QED BY <1>4, <2>2, <2>3 DEF ClientsArePresent
<1>7. ArrivedFirst' /\ UsersArePresent' /\ PresentAreFound'
  BY <1>1, <1>3, <1>4 DEF PoolInv, TypeOK, WorldInv, ArrivedFirst, UsersArePresent, PresentAreFound
<1>8. NamesAreOwn' /\ GamesAreOwn' /\ SeatFollowsSession' /\ ~crashed'
  BY <1>1 DEF PoolInv, WorldInv, NamesAreOwn, GamesAreOwn, SeatFollowsSession
<1> QED BY <1>2, <1>6, <1>7, <1>8 DEF WorldInv, TasksFit

\* What the other steps of connections leave alone.
LEMMA QuietPool ==
  ASSUME PoolInv, UNCHANGED <<arrived, clients, users, userInfo, deleted, seat, games,
                              task, crashed>>
  PROVE  WorldInv' /\ TasksFit'
<1>1. \A s \in Session : Present(s)' <=> Present(s)
  BY DEF Present, BeingEnded
<1>2. WorldInv'
  BY <1>1, SameWorld DEF PoolInv, TypeOK
<1>3. TasksFit'
  <2> SUFFICES ASSUME NEW u \in Thread, task'[u].pc # "idle" PROVE Fits(u)'
    BY DEF TasksFit
  <2>1. Fits(u)
    BY DEF PoolInv, TasksFit
  <2> QED BY <2>1 DEF Fits, InLogin, NotYetIn
<1> QED BY <1>2, <1>3

\* A command or an error of a socket starts a task.
LEMMA StartPool ==
  ASSUME OneThread, PoolInv, NEW s \in Session, NEW pc, NEW target, Start(s, pc, target),
         UNCHANGED <<arrived, clients, users, userInfo, deleted, seat, games, crashed>>,
         (pc = "admit" /\ ~deleted[s]) \/ (pc = "end" /\ target = s)
  PROVE  WorldInv' /\ TasksFit'
<1> DEFINE t == ThreadOf[s]
<1>1. /\ t \in Thread /\ IsIdle(t) /\ s \in arrived
      /\ task' = [task EXCEPT ![t] = Task(pc, s, target, NoName, 0)]
  BY SessionsAssumption DEF Start
<1>2. (\A u \in Thread : task[u].pc = "idle") /\ \A r : ~BeingEnded(r)
  BY <1>1, AllIdle DEF PoolInv
<1>3. /\ task'[t].pc = pc /\ task'[t].self = s /\ task'[t].target = target
      /\ \A u \in Thread \ {t} : task'[u].pc = "idle"
  BY <1>1, <1>2 DEF PoolInv, TypeOK, Task
<1>4. \A r : ~BeingEnded(r)'
  BY <1>3 DEF BeingEnded, Closing
<1>5. WorldInv'
  <2>1. \A r \in Session : Present(r)' <=> Present(r)
    BY <1>2, <1>4 DEF Present
  <2> QED BY <2>1, SameWorld DEF PoolInv, TypeOK
<1>6. TasksFit'
  <2>1. Fits(t)'
    BY <1>1, <1>3 DEF Fits, InLogin, NotYetIn, Ending, Closing
  <2> HIDE DEF t
  <2> QED BY <1>1, <1>3, <2>1, OneFits
<1> QED BY <1>5, <1>6

\* The checks on the name: what they find is still so when it is used.
LEMMA AdmitPool ==
  ASSUME OneThread, PoolInv, TypeOK', SessionInv', NEW t \in Thread,
         AdmitAccount(t) \/ AdmitGuest(t)
  PROVE  WorldInv' /\ TasksFit'
<1> DEFINE s == task[t].self
<1>1. /\ task[t].pc = "admit"
      /\ UNCHANGED <<arrived, clients, users, userInfo, deleted, seat, games, crashed>>
  BY DEF AdmitAccount, AdmitGuest, At, serverVars, sessionVars, seatVars
<1>2. s \in Session /\ s \in arrived /\ ~deleted[s] /\ userInfo[s] = NoName
  BY <1>1 DEF PoolInv, TasksFit, Fits, InLogin, NotYetIn, SessionInv, TasksAreOwn, NamesComeLate
<1>3. PICK pc, n :
        /\ pc \in {"logOut", "insert"}
        /\ Continue(t, pc, NoSession, n, 0)
        /\ OwnName(s, n)
        /\ pc = "logOut" => n \in DOMAIN users
        /\ pc = "insert" => n \notin DOMAIN users
  <2>1. CASE AdmitAccount(t)
    <3> DEFINE p == IF MustLogOut(Wish(s)) THEN "logOut" ELSE "insert"
    <3>1. HasAccount(s) /\ Continue(t, p, NoSession, Wish(s), 0)
      BY <2>1 DEF AdmitAccount
    <3>2. /\ p \in {"logOut", "insert"} /\ OwnName(s, Wish(s))
          /\ p = "logOut" => Wish(s) \in DOMAIN users
          /\ p = "insert" => Wish(s) \notin DOMAIN users
      BY <3>1 DEF OwnName, MustLogOut
    <3> HIDE DEF p
    <3> QED BY <3>1, <3>2
  <2>2. CASE AdmitGuest(t)
    <3> DEFINE n == <<BaseOf[s], FreeNumber(BaseOf[s])>>
    <3>1. ~HasAccount(s) /\ Continue(t, "insert", NoSession, n, 0)
      BY <2>2 DEF AdmitGuest
    <3>2. ~NameTaken(n)
      BY <1>2, FreeNumberIsFree DEF PoolInv
    <3>3. OwnName(s, n) /\ n \notin DOMAIN users
      BY <3>1, <3>2 DEF NameTaken, OwnName
    <3> HIDE DEF n
    <3> QED BY <3>1, <3>3
  <2> QED BY <2>1, <2>2
<1>4. /\ task'[t].pc = pc /\ task'[t].self = s
      /\ task'[t].target = NoSession /\ task'[t].name = n
      /\ \A u \in Thread \ {t} : task'[u].pc = "idle"
      /\ \A r : ~BeingEnded(r) /\ ~BeingEnded(r)'
  <2>1. task[t].pc # "idle" /\ task[t].pc \notin Closing /\ pc \notin Closing
    BY <1>1, <1>3 DEF Closing
  <2> QED BY <1>3, <2>1, Moved DEF PoolInv
<1>5. WorldInv'
  <2>1. \A r \in Session : Present(r)' <=> Present(r)
    BY <1>1, <1>4 DEF Present
  <2> QED BY <1>1, <2>1, SameWorld DEF PoolInv, TypeOK
<1>6. Fits(t)'
  BY <1>1, <1>2, <1>3, <1>4 DEF Fits, InLogin, NotYetIn, Ending, Closing, OwnName, HasAccount
<1> QED BY <1>4, <1>5, <1>6, OneFits

\* The old session is still there, and it is another one.
LEMMA LogOutPool ==
  ASSUME OneThread, PoolInv, TypeOK', SessionInv', NEW t \in Thread, LogOut(t)
  PROVE  WorldInv' /\ TasksFit'
<1> DEFINE s == task[t].self
           n == task[t].name
           old == users[n]
<1>1. /\ task[t].pc = "logOut"
      /\ UNCHANGED <<arrived, clients, users, userInfo, deleted, seat, games>>
  BY DEF LogOut, At, serverVars, sessionVars, seatVars
<1>2. /\ s \in arrived /\ ~deleted[s] /\ userInfo[s] = NoName
      /\ n # NoName /\ n \in DOMAIN users /\ OwnName(s, n)
  BY <1>1 DEF PoolInv, TasksFit, Fits, InLogin, NotYetIn, SessionInv, NamesComeLate
<1>3. Continue(t, "end", old, n, 0) /\ UNCHANGED crashed
  BY <1>2 DEF LogOut
<1>4. old # s /\ old \in arrived
  BY <1>2 DEF PoolInv, SessionInv, FoundHaveIds, WorldInv, UsersArePresent, Present
<1>5. /\ task'[t].pc = "end" /\ task'[t].self = s
      /\ task'[t].target = old /\ task'[t].name = n
      /\ \A u \in Thread \ {t} : task'[u].pc = "idle"
      /\ \A r : ~BeingEnded(r) /\ ~BeingEnded(r)'
  <2>1. task[t].pc # "idle" /\ task[t].pc \notin Closing /\ "end" \notin Closing
    BY <1>1 DEF Closing
  <2> HIDE DEF s, n, old
  <2> QED BY <1>3, <2>1, Moved DEF PoolInv, s
<1>6. WorldInv'
  <2>1. \A r \in Session : Present(r)' <=> Present(r)
    BY <1>1, <1>5 DEF Present
  <2> QED BY <1>1, <1>3, <2>1, SameWorld DEF PoolInv, TypeOK
<1>7. Fits(t)'
  BY <1>1, <1>2, <1>4, <1>5 DEF Fits, InLogin, NotYetIn, Ending, Closing, OwnName, HasAccount
<1> QED BY <1>5, <1>6, <1>7, OneFits

\* The name is free, so nobody else's entry goes.
LEMMA InsertPool ==
  ASSUME OneThread, PoolInv, TypeOK', SessionInv', NEW t \in Thread, Insert(t)
  PROVE  WorldInv' /\ TasksFit'
<1> DEFINE s == task[t].self
           n == task[t].name
<1>1. /\ task[t].pc = "insert"
      /\ users' = [m \in DOMAIN users \cup {n} |-> IF m = n THEN s ELSE users[m]]
      /\ userInfo' = [userInfo EXCEPT ![s] = n]
      /\ UNCHANGED <<arrived, clients, deleted, seat, games, crashed>>
      /\ Continue(t, "resume", task[t].target, n, task[t].index)
  BY DEF Insert, At, seatVars, Goto
<1>2. /\ s \in Session /\ s \in arrived /\ ~deleted[s] /\ userInfo[s] = NoName
      /\ n # NoName /\ n \notin DOMAIN users /\ OwnName(s, n)
  BY <1>1 DEF PoolInv, TasksFit, Fits, InLogin, NotYetIn, SessionInv, TasksAreOwn, NamesComeLate
<1>3. /\ task'[t].pc = "resume" /\ task'[t].self = s
      /\ \A u \in Thread \ {t} : task'[u].pc = "idle"
      /\ \A r : ~BeingEnded(r) /\ ~BeingEnded(r)'
  <2>1. task[t].pc # "idle" /\ task[t].pc \notin Closing /\ "resume" \notin Closing
    BY <1>1 DEF Closing
  <2> QED BY <1>1, <2>1, Moved DEF PoolInv
<1>4. \A r : Present(r)' <=> Present(r)
  BY <1>1, <1>3 DEF Present
<1>5. /\ DOMAIN users' = DOMAIN users \cup {n} /\ users'[n] = s
      /\ \A m \in DOMAIN users : m # n /\ users'[m] = users[m]
      /\ userInfo'[s] = n /\ \A r \in Session \ {s} : userInfo'[r] = userInfo[r]
  BY <1>1, <1>2 DEF PoolInv, TypeOK
<1>6. Present(s)
  BY <1>2 DEF Present
<1> HIDE DEF s, n
<1>7. ArrivedFirst' /\ ClientsArePresent' /\ UsersArePresent'
  BY <1>1, <1>2, <1>4, <1>5, <1>6 DEF PoolInv, WorldInv, ArrivedFirst, ClientsArePresent,
     UsersArePresent
<1>8. PresentAreFound' /\ NamesAreOwn'
  <2>1. PresentAreFound'
    BY <1>4, <1>5 DEF PoolInv, WorldInv, PresentAreFound
  <2>2. NamesAreOwn'
    BY <1>2, <1>5 DEF PoolInv, WorldInv, NamesAreOwn, OwnName, HasAccount
  <2> QED BY <2>1, <2>2
<1>9. GamesAreOwn' /\ SeatFollowsSession' /\ ~crashed'
  BY <1>1, <1>2, <1>5 DEF PoolInv, TypeOK, WorldInv, GamesAreOwn, SeatFollowsSession
<1>10. Fits(t)'
  BY <1>1, <1>2, <1>3, <1>5 DEF Fits, InLogin, NotYetIn, Ending, Closing
<1> QED BY <1>3, <1>7, <1>8, <1>9, <1>10, OneFits DEF WorldInv

\* Nobody else who is logged in has the account, so nobody else loses the seat.
LEMMA ResumePool ==
  ASSUME OneThread, PoolInv, TypeOK', SessionInv', NEW t \in Thread, Resume(t)
  PROVE  WorldInv' /\ TasksFit'
<1> DEFINE s == task[t].self
<1>1. /\ task[t].pc = "resume"
      /\ seat' = IF Attach(s) THEN [seat EXCEPT ![Wish(s)] = s] ELSE seat
      /\ games' = IF Attach(s) THEN games \cup {s} ELSE games
      /\ task' = [task EXCEPT ![t] = Idle]
      /\ UNCHANGED <<arrived, clients, users, userInfo, deleted, crashed>>
  BY DEF Resume, At, serverVars
<1>2. s \in Session /\ s \in arrived /\ ~deleted[s] /\ userInfo[s] # NoName
  BY <1>1 DEF PoolInv, TasksFit, Fits, InLogin, SessionInv, TasksAreOwn
<1>3. TasksFit' /\ \A r : ~BeingEnded(r) /\ ~BeingEnded(r)'
  BY <1>1, Done DEF PoolInv, Closing
<1>4. \A r : Present(r)' <=> Present(r)
  BY <1>1, <1>3 DEF Present
<1> HIDE DEF s
<1>5. ArrivedFirst' /\ ClientsArePresent' /\ UsersArePresent' /\ PresentAreFound' /\ ~crashed'
  BY <1>1, <1>4 DEF PoolInv, WorldInv, ArrivedFirst, ClientsArePresent, UsersArePresent,
     PresentAreFound
<1>6. NamesAreOwn'
  BY <1>1 DEF PoolInv, WorldInv, NamesAreOwn
<1>7. GamesAreOwn' /\ SeatFollowsSession'
  <2>1. CASE ~Attach(s)
    BY <1>1, <2>1 DEF PoolInv, WorldInv, GamesAreOwn, SeatFollowsSession
  <2>2. CASE Attach(s)
    <3>1. HasAccount(s) /\ Wish(s) \in Account
      BY <2>2 DEF Attach, HasAccount
    <3>2. /\ games' = games \cup {s}
          /\ seat'[Wish(s)] = s
          /\ \A n \in Account \ {Wish(s)} : seat'[n] = seat[n]
      BY <1>1, <2>2, <3>1 DEF PoolInv, TypeOK
    <3>3. GamesAreOwn'
      BY <1>1, <1>2, <3>1, <3>2 DEF PoolInv, WorldInv, GamesAreOwn
    <3>4. ASSUME NEW r \in games, ~deleted[r], r # s
          PROVE  HasAccount(r) /\ Wish(r) # Wish(s)
      <4>1. r \in Session /\ HasAccount(r) /\ userInfo[r] # NoName
        BY DEF PoolInv, TypeOK, WorldInv, GamesAreOwn
      <4>2. Present(r) /\ Present(s)
        BY <1>2, <3>4, <4>1 DEF Present, PoolInv, WorldInv, ArrivedFirst
      <4>3. userInfo[r] = Wish(r) /\ userInfo[s] = Wish(s)
        BY <1>2, <3>1, <4>1 DEF PoolInv, WorldInv, NamesAreOwn, OwnName
      <4>4. users[userInfo[r]] = r /\ users[userInfo[s]] = s
        BY <1>2, <4>1, <4>2 DEF PoolInv, WorldInv, PresentAreFound
      <4> QED BY <3>4, <4>1, <4>3, <4>4
    <3>5. SeatFollowsSession'
      <4> SUFFICES ASSUME NEW r \in games', ~deleted[r] PROVE seat'[Wish(r)] = r
        BY <1>1 DEF SeatFollowsSession, Wish
      <4>1. CASE r = s
        BY <3>2, <4>1
      <4>2. CASE r # s
        <5>1. r \in games
          BY <3>2, <4>2
        <5> QED BY <3>2, <3>4, <4>2, <5>1 DEF PoolInv, WorldInv, SeatFollowsSession, HasAccount
      <4> QED BY <4>1, <4>2
    <3> QED BY <3>3, <3>5
  <2> QED BY <2>1, <2>2
<1> QED BY <1>3, <1>5, <1>6, <1>7 DEF WorldInv

\* What a thread knows that is ending a session, its own or the one that has the
\* name its own session wants.
LEMMA AtEnd ==
  ASSUME PoolInv, NEW t \in Thread, task[t].pc \in Ending
  PROVE  LET self   == task[t].self
             target == task[t].target
         IN  /\ self \in Session /\ target \in Session
             /\ self \in arrived /\ target \in arrived
             /\ self # target =>
                  /\ ~deleted[self] /\ userInfo[self] = NoName
                  /\ OwnName(self, task[t].name) /\ task[t].name # NoName
                  /\ task[t].name \in DOMAIN users /\ users[task[t].name] = target
<1>1. task[t].pc # "idle"
  BY DEF Ending
<1>2. Fits(t)
  BY <1>1 DEF PoolInv, TasksFit
<1>3. task[t].self # task[t].target => NotYetIn(t) /\ InLogin(t) /\ task[t].pc # "admit"
  BY DEF NotYetIn, InLogin, Ending
<1> QED BY <1>1, <1>2, <1>3 DEF Fits, PoolInv, SessionInv, TasksAreOwn, NamesComeLate

\* An end that goes on knows what it knew.
LEMMA EndFits ==
  ASSUME OneThread, PoolInv, TypeOK', SessionInv', NEW t \in Thread, task[t].pc \in Ending,
         NEW pc \in Ending, NEW index,
         Continue(t, pc, task[t].target, task[t].name, index),
         UNCHANGED <<arrived, clients, users>>,
         \A r \in Session : r # task[t].target => deleted'[r] = deleted[r],
         pc = "mark" => ~deleted'[task[t].target],
         pc \in Closing => deleted'[task[t].target],
         pc = "drop" => index \in DOMAIN clients /\ clients[index] = task[t].target
  PROVE  TasksFit'
<1>1. task[t].pc # "idle"
  BY DEF Ending
<1>2. /\ task'[t].pc = pc /\ task'[t].self = task[t].self
      /\ task'[t].target = task[t].target /\ task'[t].name = task[t].name
      /\ task'[t].index = index
      /\ \A u \in Thread \ {t} : task'[u].pc = "idle"
  BY <1>1, Moved DEF PoolInv
<1>3. Fits(t)'
  BY <1>2, AtEnd DEF Fits, InLogin, NotYetIn, Ending, Closing, OwnName, HasAccount
<1> QED BY <1>2, <1>3, OneFits

LEMMA EndPool ==
  ASSUME OneThread, PoolInv, TypeOK', SessionInv', NEW t \in Thread, EndAgain(t) \/ End(t)
  PROVE  WorldInv' /\ TasksFit'
<1> DEFINE x == task[t].target
<1>1. /\ task[t].pc = "end" /\ "end" \in Ending /\ task[t].pc # "idle"
      /\ task[t].pc \notin Closing
      /\ UNCHANGED <<arrived, clients, users, userInfo, deleted, seat, games, crashed>>
  BY DEF EndAgain, End, At, serverVars, sessionVars, seatVars, Ending, Closing
<1>2. CASE End(t)
  <2>1. Continue(t, "mark", x, task[t].name, task[t].index) /\ ~deleted[x]
    BY <1>2 DEF End, Goto, EndedAlready
  <2>2. TasksFit'
    BY <1>1, <2>1, EndFits DEF Ending, Closing
  <2>3. \A r : ~BeingEnded(r) /\ ~BeingEnded(r)'
    <3>1. "mark" \notin Closing
      BY DEF Closing
    <3> QED BY <1>1, <2>1, <3>1, Moved DEF PoolInv
  <2>4. WorldInv'
    <3>1. \A r \in Session : Present(r)' <=> Present(r)
      BY <1>1, <2>3 DEF Present
    <3> QED BY <1>1, <3>1, SameWorld DEF PoolInv, TypeOK
  <2> QED BY <2>2, <2>4
\* A login never meets an older session that has ended already.
<1>3. CASE EndAgain(t)
  <2>1. Return(t) /\ deleted[x]
    BY <1>3 DEF EndAgain, EndedAlready
  <2>2. \A r : ~BeingEnded(r)
    BY <1>1, AloneNow DEF PoolInv
  <2>3. task[t].self = x
    <3> SUFFICES ASSUME task[t].self # x PROVE FALSE
      OBVIOUS
    <3>1. Present(x)
      BY <1>1, AtEnd DEF PoolInv, WorldInv, UsersArePresent
    <3> QED BY <2>1, <2>2, <3>1 DEF Present
  <2>4. task' = [task EXCEPT ![t] = Idle]
    BY <2>1, <2>3 DEF Return
  <2>5. TasksFit' /\ \A r : ~BeingEnded(r)'
    BY <1>1, <2>4, Done DEF PoolInv
  <2>6. WorldInv'
    <3>1. \A r \in Session : Present(r)' <=> Present(r)
      BY <1>1, <2>2, <2>5 DEF Present
    <3> QED BY <1>1, <3>1, SameWorld DEF PoolInv, TypeOK
  <2> QED BY <2>5, <2>6
<1> QED BY <1>2, <1>3

\* A session that is marked stays in the lists until it is dropped.
LEMMA MarkPool ==
  ASSUME OneThread, PoolInv, TypeOK', SessionInv', NEW t \in Thread, Mark(t)
  PROVE  WorldInv' /\ TasksFit'
<1> DEFINE x == task[t].target
<1>1. /\ task[t].pc = "mark" /\ task[t].pc \in Ending /\ task[t].pc # "idle"
      /\ task[t].pc \notin Closing
      /\ deleted' = [deleted EXCEPT ![x] = TRUE]
      /\ Continue(t, "leaveGames", x, task[t].name, task[t].index)
      /\ UNCHANGED <<arrived, clients, users, userInfo, seat, games, crashed>>
  BY DEF Mark, At, serverVars, seatVars, Goto, Ending, Closing
<1>2. x \in Session /\ x \in arrived /\ ~deleted[x]
  BY <1>1, AtEnd DEF PoolInv, TasksFit, Fits
<1>3. deleted'[x] /\ \A r \in Session : r # x => deleted'[r] = deleted[r]
  BY <1>1, <1>2 DEF PoolInv, TypeOK
<1>4. TasksFit'
  BY <1>1, <1>3, EndFits DEF Ending, Closing
<1>5. \A r : ~BeingEnded(r) /\ (BeingEnded(r)' <=> r = x)
  <2>1. "leaveGames" \in Closing
    BY DEF Closing
  <2> QED BY <1>1, <2>1, Moved DEF PoolInv
<1>6. WorldInv'
  <2>1. \A r \in Session : Present(r)' <=> Present(r)
    BY <1>1, <1>2, <1>3, <1>5 DEF Present
  <2>2. /\ \A r \in Session : deleted[r] => deleted'[r]
        /\ \A r \in Session : deleted'[r] => deleted[r] \/ r \in arrived
    BY <1>2, <1>3
  <2> QED BY <1>1, <2>1, <2>2, SameWorld DEF PoolInv, TypeOK
<1> QED BY <1>4, <1>6

\* The seat that is given up is not a newer session's: there is none yet.
LEMMA LeavePool ==
  ASSUME OneThread, PoolInv, TypeOK', SessionInv', NEW t \in Thread, LeaveGames(t)
  PROVE  WorldInv' /\ TasksFit'
<1> DEFINE x == task[t].target
<1>1. /\ task[t].pc = "leaveGames" /\ task[t].pc \in Ending /\ task[t].pc # "idle"
      /\ task[t].pc \in Closing
      /\ seat' = IF x \in games THEN [seat EXCEPT ![Wish(x)] = NoSession] ELSE seat
      /\ Continue(t, "find", x, task[t].name, task[t].index)
      /\ UNCHANGED <<arrived, clients, users, userInfo, deleted, games, crashed>>
  BY DEF LeaveGames, At, serverVars, sessionVars, Goto, Detach, Ending, Closing
<1>2. x \in Session /\ x \in arrived /\ deleted[x]
  BY <1>1, AtEnd DEF PoolInv, TasksFit, Fits
<1>3. TasksFit'
  BY <1>1, <1>2, EndFits DEF Ending, Closing
<1>4. \A r : (BeingEnded(r) <=> r = x) /\ (BeingEnded(r)' <=> r = x)
  <2>1. "find" \in Closing
    BY DEF Closing
  <2> QED BY <1>1, <2>1, Moved DEF PoolInv
<1>5. \A r : Present(r)' <=> Present(r)
  BY <1>1, <1>4 DEF Present
<1> HIDE DEF x
<1>6. ArrivedFirst' /\ ClientsArePresent' /\ UsersArePresent' /\ PresentAreFound' /\ ~crashed'
  BY <1>1, <1>5 DEF PoolInv, WorldInv, ArrivedFirst, ClientsArePresent, UsersArePresent,
     PresentAreFound
<1>7. NamesAreOwn' /\ GamesAreOwn'
  BY <1>1 DEF PoolInv, WorldInv, NamesAreOwn, GamesAreOwn
<1>8. SeatFollowsSession'
  <2> SUFFICES ASSUME NEW r \in games, ~deleted[r] PROVE seat'[Wish(r)] = r
    BY <1>1 DEF SeatFollowsSession, Wish
  <2>1. CASE x \notin games
    BY <1>1, <2>1 DEF PoolInv, WorldInv, SeatFollowsSession
  <2>2. CASE x \in games
    <3>1. /\ r \in Session /\ HasAccount(r) /\ userInfo[r] # NoName
          /\ HasAccount(x) /\ userInfo[x] # NoName /\ r # x
      BY <1>2, <2>2 DEF PoolInv, TypeOK, WorldInv, GamesAreOwn
    <3>2. Present(r) /\ Present(x)
      BY <1>2, <1>4, <3>1 DEF Present, PoolInv, WorldInv, ArrivedFirst
    <3>3. userInfo[r] = Wish(r) /\ userInfo[x] = Wish(x)
      BY <1>2, <3>1 DEF PoolInv, WorldInv, NamesAreOwn, OwnName
    <3>4. users[userInfo[r]] = r /\ users[userInfo[x]] = x
      BY <1>2, <3>1, <3>2 DEF PoolInv, WorldInv, PresentAreFound
    <3>5. Wish(r) # Wish(x)
      BY <3>1, <3>3, <3>4
    <3>6. Wish(r) \in Account /\ seat[Wish(r)] = r
      BY <3>1 DEF HasAccount, PoolInv, WorldInv, SeatFollowsSession
    <3> QED BY <1>1, <2>2, <3>5, <3>6 DEF PoolInv, TypeOK
  <2> QED BY <2>1, <2>2
<1> QED BY <1>3, <1>6, <1>7, <1>8 DEF WorldInv

\* removeClient() always finds the session it has been called for.
LEMMA FindPool ==
  ASSUME OneThread, PoolInv, TypeOK', SessionInv', NEW t \in Thread, Find(t)
  PROVE  WorldInv' /\ TasksFit'
<1> DEFINE x == task[t].target
           i == CHOOSE j \in DOMAIN clients : clients[j] = x
<1>1. /\ task[t].pc = "find" /\ task[t].pc \in Ending /\ task[t].pc # "idle"
      /\ task[t].pc \in Closing
      /\ UNCHANGED <<arrived, clients, users, userInfo, deleted, seat, games, crashed>>
  BY DEF Find, At, serverVars, seatVars, Ending, Closing
<1>2. x \in Session /\ x \in arrived /\ deleted[x]
  BY <1>1, AtEnd DEF PoolInv, TasksFit, Fits
<1>3. x \in ToSet(clients)
  <2>1. Present(x)
    BY <1>1, <1>2 DEF Present, BeingEnded
  <2> QED BY <1>2, <2>1 DEF PoolInv, WorldInv, ClientsArePresent
<1>4. i \in DOMAIN clients /\ clients[i] = x
  BY <1>3 DEF ToSet
<1>5. Continue(t, "drop", x, task[t].name, i)
  BY <1>3 DEF Find
<1> HIDE DEF i
<1>6. TasksFit'
  BY <1>1, <1>2, <1>4, <1>5, EndFits DEF Ending, Closing
<1>7. \A r : (BeingEnded(r) <=> r = x) /\ (BeingEnded(r)' <=> r = x)
  <2>1. "drop" \in Closing
    BY DEF Closing
  <2> QED BY <1>1, <1>5, <2>1, Moved DEF PoolInv
<1>8. WorldInv'
  <2>1. \A r \in Session : Present(r)' <=> Present(r)
    BY <1>1, <1>7 DEF Present
  <2> QED BY <1>1, <2>1, SameWorld DEF PoolInv, TypeOK
<1> QED BY <1>6, <1>8

\* The session goes out of the list and its name out of users, and no other
\* session goes with it.
LEMMA DropPool ==
  ASSUME OneThread, PoolInv, TypeOK', SessionInv', NEW t \in Thread, Drop(t)
  PROVE  WorldInv' /\ TasksFit'
<1> DEFINE x == task[t].target
           s == task[t].self
           n == task[t].name
           i == task[t].index
<1>1. /\ task[t].pc = "drop" /\ task[t].pc \in Ending /\ task[t].pc # "idle"
      /\ task[t].pc \in Closing
      /\ clients' = IF i \in DOMAIN clients THEN RemoveAt(clients, i) ELSE clients
      /\ users' = [m \in DOMAIN users \ {userInfo[x]} |-> users[m]]
      /\ Return(t)
      /\ UNCHANGED <<arrived, userInfo, deleted, seat, games, crashed>>
  BY DEF Drop, DropAt, DropName, At, seatVars, Ending, Closing
<1>2. /\ x \in Session /\ x \in arrived /\ deleted[x]
      /\ i \in DOMAIN clients /\ clients[i] = x
  BY <1>1, AtEnd DEF PoolInv, TasksFit, Fits
<1>3. /\ \A r : BeingEnded(r) <=> r = x
      /\ \A r : ~BeingEnded(r)'
      /\ TasksFit'
  <2>1. \A r : BeingEnded(r) <=> r = x
    BY <1>1, AloneNow DEF PoolInv
  <2>2. CASE s = x
    <3>1. task' = [task EXCEPT ![t] = Idle]
      BY <1>1, <2>2 DEF Return
    <3> QED BY <1>1, <2>1, <3>1, Done DEF PoolInv
  <2>3. CASE s # x
    <3>1. Continue(t, "insert", x, n, i)
      BY <1>1, <2>3 DEF Return, Goto
    <3>2. /\ task'[t].pc = "insert" /\ task'[t].self = s
          /\ task'[t].target = x /\ task'[t].name = n
          /\ \A u \in Thread \ {t} : task'[u].pc = "idle"
          /\ \A r : ~BeingEnded(r)'
      <4>1. "insert" \notin Closing
        BY DEF Closing
      <4> QED BY <1>1, <3>1, <4>1, Moved DEF PoolInv
    <3>3. /\ s \in arrived /\ ~deleted[s] /\ OwnName(s, n)
          /\ n \in DOMAIN users /\ users[n] = x
      BY <1>1, <2>3, AtEnd
    <3>4. n \notin DOMAIN users'
      <4>1. userInfo[x] = n
        BY <3>3 DEF PoolInv, SessionInv, FoundHaveIds
      <4> QED BY <1>1, <4>1
    <3>5. Fits(t)'
      BY <1>1, <3>2, <3>3, <3>4 DEF Fits, InLogin, NotYetIn, Ending, Closing, OwnName, HasAccount
    <3> QED BY <2>1, <3>2, <3>5, OneFits
  <2> QED BY <2>2, <2>3
<1>4. \A r : Present(r)' <=> Present(r) /\ r # x
  BY <1>1, <1>2, <1>3 DEF Present
<1> HIDE DEF x, s, n, i
<1>5. ClientsArePresent'
  <2>1. clients \in Seq(Session) /\ IsInjective(clients)
    BY DEF PoolInv, TypeOK, WorldInv, ClientsArePresent
  <2>2. ToSet(clients') = ToSet(clients) \ {x} /\ IsInjective(clients')
    BY <1>1, <1>2, <2>1, RemoveAtSet
  <2> QED BY <1>4, <2>2 DEF PoolInv, WorldInv, ClientsArePresent
<1>6. UsersArePresent'
  <2>1. ASSUME NEW m \in DOMAIN users'
        PROVE  users'[m] = users[m] /\ users[m] # x /\ Present(users[m])
    <3>1. m \in DOMAIN users /\ m # userInfo[x] /\ users'[m] = users[m]
      BY <1>1
    <3> QED BY <3>1 DEF PoolInv, SessionInv, FoundHaveIds, WorldInv, UsersArePresent
  <2>2. UsersArePresent' <=> \A m \in DOMAIN users' : \A r : r = users'[m] => Present(r)'
    BY DEF UsersArePresent
  <2> QED BY <1>4, <2>1, <2>2
<1>7. PresentAreFound'
  <2> SUFFICES ASSUME NEW r \in Session, Present(r)', userInfo[r] # NoName
               PROVE  userInfo[r] \in DOMAIN users' /\ users'[userInfo[r]] = r
    BY <1>1 DEF PresentAreFound
  <2>1. Present(r) /\ r # x
    BY <1>4
  <2>2. userInfo[r] \in DOMAIN users /\ users[userInfo[r]] = r
    BY <2>1 DEF PoolInv, WorldInv, PresentAreFound
  <2>3. userInfo[r] # userInfo[x]
    <3> SUFFICES ASSUME userInfo[r] = userInfo[x] PROVE FALSE
      OBVIOUS
    <3>1. Present(x) /\ userInfo[x] # NoName
      BY <1>2, <1>3 DEF Present
    <3>2. users[userInfo[x]] = x
      BY <1>2, <3>1 DEF PoolInv, WorldInv, PresentAreFound
    <3> QED BY <2>1, <2>2, <3>2
  <2> QED BY <1>1, <2>2, <2>3
<1>8. ArrivedFirst' /\ NamesAreOwn' /\ GamesAreOwn' /\ SeatFollowsSession' /\ ~crashed'
  BY <1>1 DEF PoolInv, WorldInv, ArrivedFirst, NamesAreOwn, GamesAreOwn, SeatFollowsSession
<1> QED BY <1>3, <1>5, <1>6, <1>7, <1>8 DEF WorldInv

LEMMA PoolStep ==
  ASSUME OneThread, PoolInv, TypeOK', SessionInv', [Next]_vars
  PROVE  WorldInv' /\ TasksFit'
<1>1. CASE UNCHANGED vars
  BY <1>1, QuietPool DEF vars, serverVars, sessionVars, seatVars
<1>2. ASSUME NEW s \in Session,
             Connect(s) \/ Disconnect(s) \/ Login(s) \/ Free(s) \/ EndSession(s)
      PROVE  WorldInv' /\ TasksFit'
  <2>1. CASE Connect(s)
    BY <2>1, ConnectPool
  <2>2. CASE Disconnect(s)
    BY <2>2, StartPool DEF Disconnect, serverVars, sessionVars, seatVars
  <2>3. CASE Login(s)
    BY <2>3, StartPool DEF Login, serverVars, sessionVars, seatVars
  <2>4. CASE Free(s)
    BY <2>4, QuietPool DEF Free, serverVars, seatVars
  <2>5. CASE EndSession(s)
    BY <2>5, QuietPool DEF EndSession, serverVars, sessionVars, seatVars
  <2> QED BY <1>2, <2>1, <2>2, <2>3, <2>4, <2>5
<1>3. ASSUME NEW t \in Thread, LoginStep(t) \/ EndStep(t)
      PROVE  WorldInv' /\ TasksFit'
  <2>1. CASE LoginStep(t)
    BY <2>1, AdmitPool, LogOutPool, InsertPool, ResumePool DEF LoginStep
  <2>2. CASE EndStep(t)
    BY <2>2, EndPool, MarkPool, LeavePool, FindPool, DropPool DEF EndStep
  <2> QED BY <1>3, <2>1, <2>2
<1> QED BY <1>1, <1>2, <1>3 DEF Next

\* For any number of sessions and accounts, when one thread runs them all, as in a
\* server with one pool for one kind of sockets: the invariant holds.
THEOREM PoolInvariant == ASSUME OneThread PROVE Spec => []PoolInv
<1>1. Init => WorldInv /\ TasksFit
  BY InitPool
<1>2. PoolInv /\ TypeOK' /\ SessionInv' /\ [Next]_vars => WorldInv' /\ TasksFit'
  BY PoolStep
<1>3. PoolInv <=> TypeOK /\ SessionInv /\ WorldInv /\ TasksFit
  BY DEF PoolInv
<1> QED BY <1>1, <1>2, <1>3, TypeCorrect, SessionInvariant, PTL DEF Spec

\* A session whose deletion has been called for is marked and out of the lists.
DoomedAreGone == \A s \in doomed : deleted[s] /\ ~BeingEnded(s)

\* Nobody is ended a second time.
LEMMA StillGone ==
  ASSUME DoomedAreGone, UNCHANGED doomed, \A s \in doomed : deleted[s] => deleted'[s],
         \A s \in doomed : BeingEnded(s)' => BeingEnded(s)
  PROVE  DoomedAreGone'
BY DEF DoomedAreGone

LEMMA DoomedStep ==
  ASSUME OneThread, PoolInv, TypeOK', SessionInv', DoomedAreGone, [Next]_vars
  PROVE  DoomedAreGone'
<1>1. ASSUME UNCHANGED <<task, deleted, doomed>> PROVE DoomedAreGone'
  BY <1>1 DEF DoomedAreGone, BeingEnded
<1>2. CASE UNCHANGED vars
  BY <1>1, <1>2 DEF vars, sessionVars
<1>3. ASSUME NEW s \in Session, Connect(s) \/ Free(s) \/ EndSession(s)
      PROVE  DoomedAreGone'
  BY <1>1, <1>3 DEF Connect, Free, EndSession, sessionVars
<1>4. ASSUME NEW s \in Session, NEW pc \in {"end", "admit"}, NEW target,
             Start(s, pc, target), UNCHANGED <<deleted, doomed>>
      PROVE  DoomedAreGone'
  <2> DEFINE t == ThreadOf[s]
  <2>1. task' = [task EXCEPT ![t] = Task(pc, s, target, NoName, 0)] /\ t \in Thread
    BY <1>4, SessionsAssumption DEF Start
  <2>2. task'[t].pc = pc /\ \A u \in Thread \ {t} : task'[u] = task[u]
    BY <2>1 DEF PoolInv, TypeOK, Task
  <2>3. \A r : BeingEnded(r)' => BeingEnded(r)
    BY <1>4, <2>2 DEF BeingEnded, Closing
  <2> QED BY <1>4, <2>3, StillGone
<1>5. ASSUME NEW s \in Session, Disconnect(s) \/ Login(s)
      PROVE  DoomedAreGone'
  BY <1>4, <1>5 DEF Disconnect, Login, sessionVars
<1>6. ASSUME NEW t \in Thread, NEW pc, NEW target, NEW name, NEW index,
             task[t].pc # "idle", Continue(t, pc, target, name, index), UNCHANGED doomed,
             \A s \in doomed : deleted[s] => deleted'[s],
             pc \notin Closing \/ (task[t].pc \in Closing /\ target = task[t].target)
      PROVE  DoomedAreGone'
  <2>1. \A s : BeingEnded(s)' => BeingEnded(s)
    BY <1>6, Moved DEF PoolInv
  <2> QED BY <1>6, <2>1, StillGone
<1>7. ASSUME NEW t \in Thread, task[t].pc # "idle", task' = [task EXCEPT ![t] = Idle]
      PROVE  \A s : ~BeingEnded(s)'
  BY <1>7, Done DEF PoolInv
<1>8. ASSUME NEW t \in Thread, AdmitAccount(t) \/ AdmitGuest(t) \/ LogOut(t) \/ Insert(t)
      PROVE  DoomedAreGone'
  <2>1. UNCHANGED <<deleted, doomed>> /\ task[t].pc # "idle"
    BY <1>8 DEF AdmitAccount, AdmitGuest, LogOut, Insert, At, sessionVars
  <2>2. UNCHANGED task \/ \E pc \in {"logOut", "insert", "end", "resume"} :
          \E target, name, index : Continue(t, pc, target, name, index)
    BY <1>8 DEF AdmitAccount, AdmitGuest, LogOut, Insert, Goto
  <2> QED BY <1>1, <1>6, <2>1, <2>2 DEF Closing
<1>9. ASSUME NEW t \in Thread, Resume(t) \/ EndAgain(t) \/ End(t)
      PROVE  DoomedAreGone'
  <2>1. UNCHANGED <<deleted, doomed>> /\ task[t].pc # "idle"
    BY <1>9 DEF Resume, EndAgain, End, At, sessionVars
  <2>2. \/ task' = [task EXCEPT ![t] = Idle]
        \/ \E pc \in {"mark", "insert"} :
             \E target, name, index : Continue(t, pc, target, name, index)
    BY <1>9 DEF Resume, EndAgain, End, Return, Goto
  <2> QED BY <1>6, <1>7, <2>1, <2>2, StillGone DEF Closing
<1>10. ASSUME NEW t \in Thread, Mark(t)
       PROVE  DoomedAreGone'
  <2> DEFINE x == task[t].target
  <2>1. /\ task[t].pc = "mark" /\ task[t].pc # "idle" /\ task[t].pc \in Ending
        /\ deleted' = [deleted EXCEPT ![x] = TRUE] /\ UNCHANGED doomed
        /\ Continue(t, "leaveGames", x, task[t].name, task[t].index)
    BY <1>10 DEF Mark, At, Goto, Ending
  <2>2. x \notin doomed /\ x \in Session
    BY <2>1, AtEnd DEF PoolInv, TasksFit, Fits, DoomedAreGone
  <2>3. \A s : BeingEnded(s)' => s = x
    BY <2>1, Moved DEF PoolInv
  <2>4. \A s \in doomed : deleted[s] => deleted'[s]
    BY <2>1, <2>2 DEF PoolInv, TypeOK
  <2> QED BY <2>1, <2>2, <2>3, <2>4, StillGone
<1>11. ASSUME NEW t \in Thread, LeaveGames(t)
       PROVE  DoomedAreGone'
  BY <1>6, <1>11 DEF LeaveGames, At, Goto, sessionVars, Closing
\* The deletion is called for when the session is out of the lists.
<1>12. ASSUME NEW t \in Thread, task[t].pc \in {"find", "drop"}, Return(t),
              doomed' = doomed \cup {task[t].target}, UNCHANGED deleted
       PROVE  DoomedAreGone'
  <2>1. \A s : ~BeingEnded(s)'
    <3>1. CASE task[t].self = task[t].target
      BY <1>7, <1>12, <3>1 DEF Return
    <3>2. CASE task[t].self # task[t].target
      <4>1. Continue(t, "insert", task[t].target, task[t].name, task[t].index)
        BY <1>12, <3>2 DEF Return, Goto
      <4>2. "insert" \notin Closing
        BY DEF Closing
      <4> QED BY <1>12, <4>1, <4>2, Moved DEF PoolInv
    <3> QED BY <3>1, <3>2
  <2>2. deleted[task[t].target]
    BY <1>12 DEF PoolInv, TasksFit, Fits, Closing
  <2> QED BY <1>12, <2>1, <2>2 DEF DoomedAreGone
<1>13. ASSUME NEW t \in Thread, Drop(t)
       PROVE  DoomedAreGone'
  BY <1>12, <1>13 DEF Drop, At
<1>14. ASSUME NEW t \in Thread, Find(t)
       PROVE  DoomedAreGone'
  <2>1. task[t].pc = "find" /\ task[t].pc # "idle" /\ task[t].pc \in Closing /\ UNCHANGED deleted
    BY <1>14 DEF Find, At, Closing
  <2>2. CASE task[t].target \in ToSet(clients)
    <3>1. UNCHANGED doomed /\ \E index :
            Continue(t, "drop", task[t].target, task[t].name, index)
      BY <1>14, <2>2 DEF Find
    <3> QED BY <1>6, <2>1, <3>1
  <2>3. CASE task[t].target \notin ToSet(clients)
    BY <1>12, <1>14, <2>1, <2>3 DEF Find
  <2> QED BY <2>2, <2>3
<1> QED BY <1>2, <1>3, <1>5, <1>8, <1>9, <1>10, <1>11, <1>13, <1>14
        DEF Next, LoginStep, EndStep

\* With one pool, a live name finds its session in Server::users, a kept seat
\* belongs to the session that resumed it, and the list of clients holds exactly
\* the sessions that live, between any two commands (removeClient(), loginUser(),
\* joinPersistentGames()); and no name leads to a session that is to be deleted.
THEOREM OnePoolAgrees ==
  ASSUME OneThread
  PROVE  Spec => [](NameMeansSession /\ ClientsAreAlive /\ SeatFollowsSession /\ FoundIsAlive)
<1>1. PoolInv => NameMeansSession
  <2> SUFFICES ASSUME PoolInv, NEW s \in Session, Live(s)
               PROVE  userInfo[s] \in DOMAIN users /\ users[userInfo[s]] = s
    BY DEF NameMeansSession
  <2>1. Present(s)
    BY DEF Live, Present, PoolInv, WorldInv, ArrivedFirst
  <2> QED BY <2>1 DEF Live, PoolInv, WorldInv, PresentAreFound
<1>2. PoolInv => ClientsAreAlive
  <2> SUFFICES ASSUME PoolInv, Quiet
               PROVE  /\ ToSet(clients) = {s \in arrived : ~deleted[s]}
                      /\ IsInjective(clients)
    BY DEF ClientsAreAlive
  <2>1. \A s \in Session : s \in ToSet(clients) <=> s \in arrived /\ ~deleted[s]
    BY DEF Quiet, IsIdle, Closing, BeingEnded, Present, PoolInv, WorldInv, ClientsArePresent
  <2>2. ToSet(clients) \subseteq Session /\ arrived \subseteq Session
    BY DEF PoolInv, TypeOK, ToSet
  <2> QED BY <2>1, <2>2 DEF PoolInv, WorldInv, ClientsArePresent
<1>3. PoolInv => SeatFollowsSession
  BY DEF PoolInv, WorldInv
<1>4. PoolInv /\ DoomedAreGone => FoundIsAlive
  BY DEF FoundIsAlive, DoomedAreGone, Present, UsersArePresent, PoolInv, WorldInv,
         SessionInv, FoundHaveIds
<1>5. Init => DoomedAreGone
  BY DEF Init, DoomedAreGone
<1>6. PoolInv /\ PoolInv' /\ DoomedAreGone /\ [Next]_vars => DoomedAreGone'
  BY DoomedStep DEF PoolInv
<1> QED BY <1>1, <1>2, <1>3, <1>4, <1>5, <1>6, PoolInvariant, PTL DEF Spec

\* With one pool, what loginUser() says of names is true: no two users have the
\* same name, and no guest has an account's.
THEOREM OnePoolKeepsNamesApart == ASSUME OneThread PROVE Spec => []NoTwoUsersSameName
<1>1. PoolInv => NoTwoUsersSameName
  <2> SUFFICES ASSUME PoolInv PROVE NoTwoUsersSameName
    OBVIOUS
  <2>1. \A s \in Session : Live(s) =>
          /\ users[userInfo[s]] = s
          /\ OwnName(s, userInfo[s])
    BY DEF Live, Present, PoolInv, WorldInv, ArrivedFirst, PresentAreFound, NamesAreOwn
  <2> QED BY <2>1 DEF NoTwoUsersSameName, OwnName
<1> QED BY <1>1, PoolInvariant, PTL

=============================================================================
