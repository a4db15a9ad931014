---------------------------- MODULE MCEmbeddings ----------------------------
(* Small instances of Embeddings for TLC.                                   *)
EXTENDS Embeddings, TLC

Symmetric == Permutations(Conns)
=============================================================================
