--------------------------- MODULE MCRpcConnections ---------------------------
(***************************************************************************)
(* Values for the instances of RpcConnections.                             *)
(***************************************************************************)
EXTENDS RpcConnections, TLC

Symmetry == Permutations(Emitters)

=============================================================================
