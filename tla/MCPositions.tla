----------------------------- MODULE MCPositions ------------------------------
(***************************************************************************)
(* Positions on a track of a little more than an hour, two microseconds to *)
(* the second, and machine words just wide enough for it.                  *)
(***************************************************************************)
EXTENDS Positions

\* Three seconds and a half ahead, more than a minute back.
SomeOffsets == {7, -140}

SomeCounts == {-3, 61}
=============================================================================
