----------------------------- MODULE MCJobTriggers -----------------------------
(* JobTriggers on small instances. *)
EXTENDS JobTriggers

CONSTANTS c1, s1, s2, x1, x2
===============================================================================
