---------------------------- MODULE MCServerDrain ----------------------------
(* ServerDrain with two clients.                                             *)
EXTENDS ServerDrain
CONSTANTS a, b
=============================================================================
