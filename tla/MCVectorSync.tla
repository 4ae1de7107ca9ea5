---------------------------- MODULE MCVectorSync ----------------------------
(* Small instances of VectorSync: values of its constants for TLC.         *)
EXTENDS VectorSync

CONSTANTS a, b, m1, m2

\* One-chunk texts and a two-chunk text that share their first chunk.
OneChunk  == {<<a>>, <<b>>}
TwoChunks == {<<a>>, <<b>>, <<a, b>>}

SameDim  == [m \in Models |-> 3]
TwoDims  == [m \in Models |-> IF m = m1 THEN 3 ELSE 4]

Everywhere  == Points
=============================================================================
