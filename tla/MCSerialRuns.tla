----------------------------- MODULE MCSerialRuns -----------------------------
(* Runs one after the other, in one of two scenes: of both programs, with    *)
(* files of one chunk and one model; or of `brain index` alone, with two     *)
(* models and one file, whose text may also have two chunks.                 *)
EXTENDS MCVectorSync

CONSTANTS f1, f2

VARIABLE scene

TextsOf(f) == {files[f], tx.files[f]}

InScene ==
  IF scene = "stores"
  THEN /\ \A p \in Indexers : job[p].model # m2
       /\ \A f \in Files : <<a, b>> \notin TextsOf(f)
  ELSE /\ \A p \in Indexers : job[p].kind # "daemon"
       /\ TextsOf(f2) = {NoText}

SerialInit == Init /\ scene \in {"stores", "models"}
SerialNext == UNCHANGED scene /\ Next /\ InScene'

SerialSpec ==
  /\ SerialInit /\ [][SerialNext]_<<vars, scene>>
  /\ \A p \in Indexers : WF_vars(Step(p))
=============================================================================
