----------------------------- MODULE MCFileIndex -----------------------------
(* Small instances of FileIndex: the paths "a/x" and "a/y" in module "a".   *)
EXTENDS FileIndex

TwoPaths == <<"ax", "ay">>
OneDir   == [f \in Files |-> "a"]
=============================================================================
