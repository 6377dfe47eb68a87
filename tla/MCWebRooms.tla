---------------------------- MODULE MCWebRooms ----------------------------
(* Instances of WebRooms for TLC.                                           *)
EXTENDS WebRooms, TLC

CONSTANTS ann, tom, g1, m1

OneWeb == {ann}
OneDesk == {tom}
OneGame == {g1}
OneMessage == {m1}
=============================================================================
