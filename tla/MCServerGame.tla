---------------------------- MODULE MCServerGame ----------------------------
(* Small tables for TLC, with names as model values.                         *)
EXTENDS ServerGame, TLC

CONSTANTS alice, bob, carol, judy

NoOne        == {}
JustBob      == {bob}
JustJudy     == {judy}
AliceAndBob  == {alice, bob}
AliceAndJudy == {alice, judy}
AliceBobJudy == {alice, bob, judy}
Everybody    == {alice, bob, carol, judy}
Trio         == {alice, bob, carol}
=============================================================================
