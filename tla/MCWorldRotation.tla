-------------------------- MODULE MCWorldRotation --------------------------
(* WorldRotation on three sessions of one MezFes-type world, two of which     *)
(* are on a random collaboration channel and two on a random MezFes channel.  *)
EXTENDS WorldRotation, TLC
CONSTANTS s1, s2, s3

MCSession == {s1, s2, s3}
MCRandomCollab == {s1, s2}
MCRandomMezFes == {s1, s3}
=============================================================================
