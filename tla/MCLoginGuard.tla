---------------------------- MODULE MCLoginGuard ----------------------------
(* LoginGuard: an account with two characters and one with a single one,    *)
(* played from two channels.                                                 *)
EXTENDS LoginGuard, TLC
CONSTANTS s1, s2, land1, land2, rathalos, rathian, kirin, player, friend

TwoChannels == (s1 :> land1) @@ (s2 :> land2)
Owners == (rathalos :> player) @@ (rathian :> player) @@ (kirin :> friend)
=============================================================================
