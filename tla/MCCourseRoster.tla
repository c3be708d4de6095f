--------------------------- MODULE MCCourseRoster ---------------------------
(***************************************************************************)
(* CourseRoster with the creator of the course, a second professor and a   *)
(* student.                                                                *)
(***************************************************************************)
EXTENDS CourseRoster, TLC

CONSTANTS p, q, s, r1, r2

Slots == Permutations(Request)
=============================================================================
