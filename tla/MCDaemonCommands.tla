--------------------------- MODULE MCDaemonCommands ---------------------------
(* Small instances of DaemonCommands.                                        *)
EXTENDS DaemonCommands, TLC

CONSTANTS d1, d2, d3

Three    == {d1, d2, d3}
\* Sound for the overlapping run: it checks an invariant, and no definition
\* tells the processes apart.
AnyOrder == Permutations(Daemons) \cup Permutations(Commands)
=============================================================================
