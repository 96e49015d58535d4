---------------------------- MODULE BriefRegister ----------------------------
(***************************************************************************)
(* What x402 Watch promises a reader of the private GitHub repository, with  *)
(* no run, process, database or request in sight: for every date there is    *)
(* one file, the file holds a brief an operator approved for that date, and  *)
(* it is only ever replaced by a newer approved brief of the same date       *)
(* (docs/x402-watch-design.md, steps 1 and 9 of the daily workflow).         *)
(*                                                                           *)
(* Briefs are numbered in the order in which they are written.               *)
(***************************************************************************)
EXTENDS Naturals

CONSTANTS
    Days,        \* the dates a brief may be for
    Briefs       \* the numbers of the briefs, all positive

VARIABLES
    approvedFor, \* approvedFor[d]: the briefs approved for publication on d
    published    \* published[d]: the brief in the repository, 0 for none

vars == <<approvedFor, published>>

Init ==
    /\ approvedFor = [d \in Days |-> {}]
    /\ published = [d \in Days |-> 0]

Approve(d, b) ==
    /\ \A old \in approvedFor[d] : old < b
    /\ approvedFor' = [approvedFor EXCEPT ![d] = @ \cup {b}]
    /\ UNCHANGED published

Publish(d, b) ==
    /\ b \in approvedFor[d]
    /\ published[d] < b
    /\ published' = [published EXCEPT ![d] = b]
    /\ UNCHANGED approvedFor

Next == \E d \in Days, b \in Briefs : Approve(d, b) \/ Publish(d, b)

Spec == Init /\ [][Next]_vars

=============================================================================
