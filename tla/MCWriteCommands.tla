--------------------------- MODULE MCWriteCommands ---------------------------
(***************************************************************************)
(* WriteCommands with two sessions and every pair of commands.  The funds are *)
(* enough for one large amount, or for two small ones; one of the two        *)
(* channels has a name that is part of the other's.                          *)
(***************************************************************************)
EXTENDS WriteCommands, TLC

CONSTANTS s1, s2, invoice, first, second

TwoChannels == <<first, second>>

NamesOfChannels == {{first, second}, {second}, {}}

Symmetry == Permutations(Sessions)

=============================================================================
