---------------------------- MODULE MCCollection ----------------------------
(***************************************************************************)
(* Collection on small instances: two lanes, one of which asks twice, two    *)
(* pages that may redirect to each other, and two texts.                     *)
(*                                                                           *)
(* A third run is there for the history it finds: of three runs the last     *)
(* complete one and the last complete one that has a page may differ.        *)
(***************************************************************************)
EXTENDS Collection

CONSTANTS u1, u2, bad, h1, h2

TwoLanes == <<1, 1, 2>>
OneLane == <<1, 1>>
OneQuery == <<1>>
SecondLaneFirstUrl == {<<2, u1>>}

\* Bound: how many hits the third run has.
ThirdRunHits == 1

ShortThirdRun == run = 3 => Len(candidates) <= ThirdRunHits

=============================================================================
