------------------------------ MODULE MCGossip ------------------------------
(***************************************************************************)
(* A priority peer w and another peer a that merge one another's events.   *)
(* The first event of w decides block 1, and the first one of a merges it  *)
(* with operations based on that block.  The second event of w is deeper   *)
(* than a request goes.  The second one of a merges it with a              *)
(* configuration event that was created on another head, which             *)
(* MCLocalNodeSiblings shows a node to do.                                 *)
(***************************************************************************)
EXTENDS Gossip

MCMerge == {"w1", "w2", "a1", "a2"}
MCRegular == {"r", "c"}
MCCreatorOf == [w1 |-> "w", w2 |-> "w", a1 |-> "a", a2 |-> "a"]
MCTreeOf == [w1 |-> "genesis", r |-> "genesis", a1 |-> "genesis", w2 |-> "w1",
             c |-> "genesis", a2 |-> "a1"]
MCParentsOf == [w1 |-> {}, a1 |-> {"r", "w1"}, w2 |-> {"a1"}, a2 |-> {"c", "w2"}]
MCBasisOf == [r |-> 1, c |-> 0]
MCDecidedBy == <<{"w1"}>>
=============================================================================
