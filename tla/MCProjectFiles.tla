---------------------------- MODULE MCProjectFiles ----------------------------
(* The commands over the user's own files: index runs over the sources, or   *)
(* set-up over the configurations.  A behaviour is one of either, the other  *)
(* rests.                                                                    *)
EXTENDS MCFileIndex, MCSetup

VARIABLE command

NothingSetUp ==
  /\ \A c \in Names : ~wanted.configs[c]
  /\ wanted.ignore = {} /\ wanted.settings.foreign = {}

ProjectInit ==
  /\ command \in {"index", "set up"}
  /\ Init /\ SetupInit
  /\ command = "index" => NothingSetUp

IndexStep == command = "index"  /\ Next      /\ UNCHANGED <<command, setupVars>>
SetUpStep == command = "set up" /\ SetupNext /\ UNCHANGED <<command, vars>>

ProjectSpec == ProjectInit /\ [][IndexStep \/ SetUpStep]_<<command, vars, setupVars>>

\* The variables of both have their types.
TypesOK == TypeOK /\ SetupTypeOK
=============================================================================
