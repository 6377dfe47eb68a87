-------------------------- MODULE MCServerSessions --------------------------
(* Small servers for TLC: which sessions ask for which name in which thread. *)
EXTENDS ServerSessions, TLC

CONSTANTS s1, s2, s3, s4, tcp, web, alice, bob

Four  == {s1, s2, s3, s4}
Three == {s1, s2, s3}
Two   == {s1, s2}

OnePool  == {tcp}
TwoPools == {tcp, web}

\* alice has an account, and so has somebody called bob_1.
AliceAndBob1 == {<<alice, 0>>, <<bob, 1>>}
JustAlice    == {<<alice, 0>>}
NoAccount    == {}

InOnePool  == [s \in Session |-> tcp]
InTwoPools == [s \in Session |-> IF s = s2 THEN web ELSE tcp]

BobTwice    == [s \in Session |-> bob]
AliceTwice  == [s \in Session |-> alice]
TwoOfEach   == [s \in Session |-> IF s \in {s1, s2} THEN alice ELSE bob]
=============================================================================
