----------------------------- MODULE MCLocalNode -----------------------------
(* LocalNode with one peer and small limits. *)
EXTENDS LocalNode
=============================================================================
