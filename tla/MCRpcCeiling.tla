---------------------------- MODULE MCRpcCeiling ----------------------------
(* Every block of at most two transactions, with a version to come. *)
EXTENDS RpcCeiling

MCBlocks == UNION {[1..n -> Legacy..2] : n \in 0..2}
=============================================================================
