-------------------------- MODULE MCModelProcesses --------------------------
(***************************************************************************)
(* ModelProcesses with one run and one check-models.                         *)
(***************************************************************************)
EXTENDS ModelProcesses

CONSTANTS run, check

OrderOfCommand ==
    [c \in Commands |->
        IF c = run THEN <<"worker", "server">> ELSE <<"server", "worker">>]

HitsOfCommand == [c \in Commands |-> IF c = run THEN 2 ELSE 1]

=============================================================================
