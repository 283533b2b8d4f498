---------------------------- MODULE MCPromiseJobs ----------------------------
(* PromiseJobs with three promises: a promise, one derived from it, and one  *)
(* to adopt.                                                                 *)
EXTENDS PromiseJobs

CONSTANTS p1, p2 \* the promises without a prototype of their own

\* p1 and p2 are interchangeable: p1 is the one that is created first.  A
\* symmetry set would do the same, but not for liveness.
InOrder == state[p2] # "unused" => state[p1] # "unused"
=============================================================================
