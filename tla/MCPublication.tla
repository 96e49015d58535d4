---------------------------- MODULE MCPublication ----------------------------
(***************************************************************************)
(* Publication on small instances.  Two runs are enough for a pending brief  *)
(* and the one that supersedes it, two dates for a brief left pending from   *)
(* the day before, next to one of the day.                                   *)
(***************************************************************************)
EXTENDS Publication

CONSTANTS t1    \* a process that executes `retry-publish`

=============================================================================
