---------------------------- MODULE MCLaserAvoidance ----------------------------
(***************************************************************************)
(* Six beams and five surroundings of the car for TLC.                     *)
(***************************************************************************)
EXTENDS LaserAvoidance, TLC

\* One straight ahead, one ahead and at the left, one to each side, one behind, one
\* that only a full turn brings to the front.
SomeBearings == {0, 22, 90, 180, 250, 338}
Scene(a, b, c, d, e, f) ==
  0 :> a @@ 22 :> b @@ 90 :> c @@ 180 :> d @@ 250 :> e @@ 338 :> f
\* Everything clear by a hair, everything near enough to be slow, too near ahead,
\* too near at the right, nothing measured ahead.
SomeScenes ==
  {Scene(100, 100, 200, 20, 200, 100), Scene(50, 50, 30, 20, 30, 50),
   Scene(200, 200, 80, 80, 80, 49), Scene(0, 200, 80, 80, 29, 0),
   Scene(0, 0, 200, 200, 200, 0)}
=============================================================================
