---------------------------- MODULE MCContinuity ----------------------------
(***************************************************************************)
(* Continuity from states a given history leads to: a script of merges is  *)
(* taken first, and then a bounded number of arbitrary ones.  An event has *)
(* the number of its witness or node, 1 to 7.                              *)
(***************************************************************************)
EXTENDS Continuity, Sequences

CONSTANTS
  Scripts,       \* the histories to start from
  MaxFree,       \* bound on the merges after the script
  MaxLag,        \* how far behind its branch's head a merged event may be
  MaxParents     \* bound on the events of other nodes in a free merge

VARIABLE script

Created == Cardinality(Events)

Fresh(n) ==
  {p \in Events : /\ p[1] # n
                  /\ head[p[1]] - p[2] <= MaxLag
                  /\ ~InAncestry(p, HeadEvent(n))}

Merge(n, parents) == MergeWitness(n, parents) \/ MergePeer(n, parents)

Scripted ==
  /\ Created < Len(script)
  /\ Merge(script[Created + 1][1], script[Created + 1][2])

Free ==
  /\ Created \in Len(script)..(Len(script) + MaxFree - 1)
  /\ \E n \in Node : \E parents \in SUBSET Fresh(n) :
       Cardinality(parents) <= MaxParents /\ Merge(n, parents)

MCInit == Init /\ script \in Scripts
MCNext == (Scripted \/ Free) /\ UNCHANGED script
MCSpec == MCInit /\ [][MCNext]_<<vars, script>>

-----------------------------------------------------------------------------
(* The history of test/mocha/continuity-test-vectors/figure-1-2.js up to   *)
(* the two merges before its decision.                                     *)
Figure1Dash2 ==
  << <<1, {}>>, <<2, {}>>, <<3, {}>>, <<4, {}>>,
     <<1, {<<3, 1>>, <<4, 1>>}>>, <<2, {<<1, 1>>, <<3, 1>>, <<4, 1>>}>>,
     <<3, {<<1, 1>>, <<4, 1>>}>>, <<4, {<<1, 1>>, <<3, 1>>}>>,
     <<4, {<<2, 2>>}>>, <<2, {<<1, 2>>, <<4, 2>>}>>, <<1, {}>>,
     <<3, {<<2, 2>>}>>, <<4, {<<3, 3>>}>>, <<3, {<<1, 3>>, <<4, 4>>}>>,
     <<2, {<<3, 3>>}>>, <<1, {<<2, 4>>, <<3, 4>>}>>, <<4, {<<3, 4>>}>> >>

(* Four witnesses that merge in pairs; 1 and 4 start ahead of 2 and 3, so  *)
(* {1, 4} and {1, 2, 4} both gather support.                               *)
PairwiseStart ==
  << <<1, {}>>, <<4, {<<1, 1>>}>>, <<1, {<<4, 1>>}>>, <<2, {<<4, 1>>}>>,
     <<3, {<<1, 2>>}>>, <<1, {<<3, 1>>, <<2, 1>>}>>, <<4, {<<2, 1>>}>>,
     <<3, {<<1, 3>>}>>, <<2, {<<3, 2>>}>>, <<1, {<<2, 2>>}>>,
     <<3, {<<4, 2>>}>>, <<4, {<<1, 4>>}>> >>

(* Seven witnesses, four of which have merged one another's `y` and the    *)
(* other three likewise.                                                   *)
FourAndThree ==
  [i \in 1..7 |-> <<i, {}>>]
    \o [i \in 1..4 |-> <<i, {<<j, 1>> : j \in 1..4 \ {i}}>>]
    \o [i \in 1..3 |-> <<i + 4, {<<j, 1>> : j \in 5..7 \ {i + 4}}>>]

FromNothing == <<>>

StartingPoints == {FromNothing, Figure1Dash2, PairwiseStart}
PairwiseOnly == {PairwiseStart}
FourAndThreeOnly == {FourAndThree}
=============================================================================
