---------------------------- MODULE ApprovedOnce ----------------------------
(***************************************************************************)
(* What the mercury CLI promises an operator about a command that moves      *)
(* funds or orders something, with no prompt, process, agent, timeout or     *)
(* answer in sight: nothing is done but what the operator has approved in a  *)
(* session, it is done once at most, the approval is of that and nothing     *)
(* else from then on, and a session says "done" only of what has been done   *)
(* (README.md:140-146, docs/architecture.md:108-114).                        *)
(***************************************************************************)
EXTENDS Naturals

CONSTANTS
    Sessions, \* executions of a command
    Plans,    \* what an operator may approve
    NoPlan

VARIABLES
    granted,  \* granted[s]: what was approved in s
    times,    \* times[s]: how often something was done for s
    done,     \* done[s]: the plans carried out for s
    told      \* the sessions that said "done"

vars == <<granted, times, done, told>>

Init ==
    /\ granted = [s \in Sessions |-> NoPlan]
    /\ times = [s \in Sessions |-> 0]
    /\ done = [s \in Sessions |-> {}]
    /\ told = {}

Grant(s, plan) ==
    /\ granted[s] = NoPlan
    /\ granted' = [granted EXCEPT ![s] = plan]
    /\ UNCHANGED <<times, done, told>>

\* At any time after, also when the session is over.
CarryOut(s) ==
    /\ granted[s] # NoPlan
    /\ times[s] = 0
    /\ times' = [times EXCEPT ![s] = 1]
    /\ done' = [done EXCEPT ![s] = {granted[s]}]
    /\ UNCHANGED <<granted, told>>

Say(s) ==
    /\ times[s] = 1
    /\ told' = told \cup {s}
    /\ UNCHANGED <<granted, times, done>>

Next ==
    \E s \in Sessions :
        (\E plan \in Plans : Grant(s, plan)) \/ CarryOut(s) \/ Say(s)

Spec == Init /\ [][Next]_vars

=============================================================================
