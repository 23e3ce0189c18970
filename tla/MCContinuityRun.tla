--------------------------- MODULE MCContinuityRun ---------------------------
(***************************************************************************)
(* One run of findConsensus, and its report, on every view of a few        *)
(* complete histories.                                                     *)
(* Nodes are numbers; 5 is a node that is not a witness.                   *)
(***************************************************************************)
EXTENDS ContinuityPriority, Sequences

CONSTANT Scripts

VARIABLE script

allVars == <<vars, runVars, priority, script>>
Created == Cardinality(Events)

Build ==
  /\ Created < Len(script)
  /\ LET n == script[Created + 1][1]
         parents == script[Created + 1][2]
     IN  MergeWitness(n, parents) \/ MergePeer(n, parents)
  /\ UNCHANGED <<runVars, priority, script>>

Run ==
  /\ Created = Len(script)
  /\ PriorityNext
  /\ UNCHANGED <<vars, script>>

MCInit == Init /\ PriorityInit /\ script \in Scripts
MCNext == Build \/ Run
MCSpec == MCInit /\ [][MCNext]_allVars /\ WF_allVars(Run)

-----------------------------------------------------------------------------
(* All of test/mocha/continuity-test-vectors/figure-1-2.js: 4 decides.     *)
Figure1Dash2 ==
  << <<1, {}>>, <<2, {}>>, <<3, {}>>, <<4, {}>>,
     <<1, {<<3, 1>>, <<4, 1>>}>>, <<2, {<<1, 1>>, <<3, 1>>, <<4, 1>>}>>,
     <<3, {<<1, 1>>, <<4, 1>>}>>, <<4, {<<1, 1>>, <<3, 1>>}>>,
     <<4, {<<2, 2>>}>>, <<2, {<<1, 2>>, <<4, 2>>}>>, <<1, {}>>,
     <<3, {<<2, 2>>}>>, <<4, {<<3, 3>>}>>, <<3, {<<1, 3>>, <<4, 4>>}>>,
     <<2, {<<3, 3>>}>>, <<1, {<<2, 4>>, <<3, 4>>}>>, <<4, {<<3, 4>>}>>,
     <<3, {<<1, 4>>, <<4, 5>>}>>, <<4, {<<3, 5>>}>> >>

(* Two deciding events, with proposals rejected and endorsed on the way;   *)
(* 5 passes the `y` of 4 on to 1.                                          *)
Pairwise ==
  << <<1, {}>>, <<4, {<<1, 1>>}>>, <<5, {<<4, 1>>}>>, <<1, {<<5, 1>>}>>,
     <<2, {<<4, 1>>}>>, <<3, {<<1, 2>>}>>, <<1, {<<3, 1>>, <<2, 1>>}>>,
     <<4, {<<2, 1>>}>>, <<3, {<<1, 3>>}>>, <<2, {<<3, 2>>}>>,
     <<1, {<<2, 2>>}>>, <<3, {<<4, 2>>}>>, <<4, {<<1, 4>>}>>,
     <<2, {<<4, 3>>}>>, <<4, {<<3, 3>>}>>, <<1, {<<3, 3>>}>>,
     <<3, {<<4, 4>>, <<1, 5>>}>>, <<4, {<<3, 4>>}>>, <<1, {<<4, 5>>}>> >>

(* The proposal of 1 gathers its endorsers one after the other.            *)
Waited ==
  << <<3, {}>>, <<4, {<<3, 1>>}>>, <<3, {<<4, 1>>}>>, <<1, {<<3, 2>>}>>,
     <<2, {<<1, 1>>}>>, <<1, {<<2, 1>>}>>, <<3, {<<2, 1>>}>>, <<2, {<<3, 3>>}>>,
     <<4, {<<1, 2>>}>>, <<2, {<<1, 2>>}>> >>

Histories == {Figure1Dash2, Pairwise, Waited}
=============================================================================
