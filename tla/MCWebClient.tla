---------------------------- MODULE MCWebClient ----------------------------
(* Instances of WebClient for TLC.                                          *)
EXTENDS WebClient, TLC

CONSTANTS s1, s2

TwoSockets == {s1, s2}
=============================================================================
