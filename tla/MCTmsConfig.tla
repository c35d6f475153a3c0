---------------------------- MODULE MCTmsConfig ----------------------------
(***************************************************************************)
(* Two calls for TLC, of two processes that see each other.  Either may    *)
(* be given either of two connections.                                     *)
(***************************************************************************)
EXTENDS TmsConfig

CONSTANTS p, q, k1, k2

MCProcOf   == <<p, q>>
MCSpace    == [x \in Procs |-> "host"]
MCContract == [x \in Configs |-> x]
MCWants    == [key : Keys, config : Configs]
=============================================================================
