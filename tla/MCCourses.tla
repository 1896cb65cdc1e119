----------------------------- MODULE MCCourses -----------------------------
(* Instance of Courses for TLC: one instructor's tab and one administrator.   *)
EXTENDS Courses

CONSTANTS e1
=============================================================================
