-------------------------- MODULE MCLocalOperations --------------------------
(***************************************************************************)
(* LocalOperations with requests that arrive at one process or at several. *)
(* Requests are numbers, connections too; 0 is that of the work session.   *)
(***************************************************************************)
EXTENDS LocalOperations

OwnConnections == [r \in Request |-> r]
OneConnection == [r \in Request |-> 1]
=============================================================================
