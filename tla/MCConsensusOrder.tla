-------------------------- MODULE MCConsensusOrder --------------------------
(***************************************************************************)
(* The first block of a ledger with one witness w.  a merges its operation *)
(* r; c merges that, then creates operation s, and w merges both.          *)
(***************************************************************************)
EXTENDS ConsensusOrder

MCMerge == {"a1", "c1", "c2", "y"}
MCParentHash ==
  [a1 |-> <<"genesis", "r">>, c1 |-> <<"genesis", "a1">>,
   c2 |-> <<"c1", "s">>, y |-> <<"genesis", "c2">>]
MCTreeHash == [a1 |-> "genesis", c1 |-> "genesis", c2 |-> "c1", y |-> "genesis"]
MCCreatorOf == [a1 |-> "a", c1 |-> "c", c2 |-> "c", y |-> "w"]
MCDecided == <<"y">>
=============================================================================
