-------------------------- MODULE MCStageLifecycle --------------------------
(* StageLifecycle on small instances.                                        *)
EXTENDS StageLifecycle, TLC
CONSTANTS a, b, c1, c2, p1, p2, p3, p4, home, quest

TwoHunters == (a :> c1) @@ (b :> c2)
OneHunterTwice == (a :> c1) @@ (b :> c1)

\* What each session sends, run by run.
Transfers == (a :> {"move", "enter"}) @@ (b :> {"create", "move"})
Reservations == (a :> {"enter", "back", "reserve", "unlock"}) @@
                (b :> {"create", "reserve", "unreserve", "lock", "password"})
Replacement == (a :> {"move", "reserve"}) @@ (b :> {"move", "reserve"})
Moves == (a :> {"move", "reserve"}) @@ (b :> {"move"})
Departures == (a :> {"move"}) @@ (b :> {"move"})

OneEach == (a :> 1) @@ (b :> 1)
TwoEach == (a :> 2) @@ (b :> 2)
OneAndTwo == (a :> 1) @@ (b :> 2)

\* Stage pointers are interchangeable; the liveness run uses no symmetry.
Pointers3 == Permutations({p1, p2, p3})
=============================================================================
