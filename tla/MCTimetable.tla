---------------------------- MODULE MCTimetable ----------------------------
(* An instance of Timetable for TLC: a .cfg file has no negative numbers.  *)
EXTENDS Timetable

SmallBases == {-3, 0, 1, 2}
=============================================================================
