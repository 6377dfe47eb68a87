------------------------------- MODULE Match --------------------------------
(***************************************************************************)
(* What a game promises its players, without sessions, hosts, events or     *)
(* player records: a match is dealt to at least two contenders, the turn is *)
(* always with one of them, contenders withdraw and return one at a time,   *)
(* and the match is over exactly when a withdrawal leaves fewer than two,   *)
(* or when the table itself is taken away.                                  *)
(***************************************************************************)
EXTENDS Integers

CONSTANTS
  Seat,   \* numbers a contender can have
  Nobody  \* who has the turn when there is no match

VARIABLES
  running,
  contenders,
  turn

vars == <<running, contenders, turn>>

\* Two contenders make a match.
Opponents(S) == \E i, j \in S : i # j

NoMatch == running = FALSE /\ contenders = {} /\ turn = Nobody

Init == NoMatch

\* A match begins with everybody at the table in it.
Deal(S) ==
  /\ ~running /\ Opponents(S)
  /\ running' = TRUE /\ contenders' = S /\ turn' \in S

\* A contender concedes or leaves and the others play on; only the turn of the
\* one who withdraws is given to somebody else.
Withdraw(i) ==
  /\ running /\ Opponents(contenders \ {i})
  /\ contenders' = contenders \ {i}
  /\ turn' \in contenders'
  /\ turn # i => turn' = turn
  /\ UNCHANGED running

\* A withdrawal that leaves one contender ends the match.
LastWithdraw(i) ==
  /\ running /\ i \in contenders /\ ~Opponents(contenders \ {i})
  /\ NoMatch'

\* A contender who conceded takes the concession back; the turn stays put.
Return(i) ==
  /\ running /\ i \notin contenders
  /\ contenders' = contenders \cup {i}
  /\ UNCHANGED <<running, turn>>

PassTurn ==
  /\ running /\ turn' \in contenders
  /\ UNCHANGED <<running, contenders>>

\* The table is taken away while the match is on.
Abandon == running /\ NoMatch'

Next ==
  \/ \E S \in SUBSET Seat : Deal(S)
  \/ \E i \in Seat : Withdraw(i) \/ LastWithdraw(i) \/ Return(i)
  \/ PassTurn \/ Abandon

Spec == Init /\ [][Next]_vars
=============================================================================
