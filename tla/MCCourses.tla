------------------------------ MODULE MCCourses ------------------------------
(***************************************************************************)
(* Courses with two requests at once, one class and one scenario.          *)
(***************************************************************************)
EXTENDS Courses, TLC

Symmetric == Permutations(Handlers) \cup Permutations(Students)

=============================================================================
