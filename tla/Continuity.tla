----------------------------- MODULE Continuity -----------------------------
(***************************************************************************)
(* The growth of recent history and the experiments of the Continuity      *)
(* consensus algorithm (lib/continuity.js), for one block height.          *)
(*                                                                         *)
(* Every node extends a branch of its own with merge events; a merge event *)
(* names its tree parent (the node's previous merge event) and any number  *)
(* of merge events of other nodes.  An event is <<n, g>>: the event of     *)
(* generation g on the branch of n.  <<n, 0>> stands for whatever precedes *)
(* recent history on that branch, so <<n, 1>> is the node's tail, and for  *)
(* a witness its `y` event.  A `y` is written as its witness.              *)
(*                                                                         *)
(* Nodes keep to the protocol: no node forks its branch, a node may stop   *)
(* at any time.  What the algorithm computes for an event then depends on  *)
(* that event's ancestry alone, so it is computed here once, when the      *)
(* event is created; ContinuityRun checks this against findConsensus,      *)
(* which recomputes it on each node's own view.                            *)
(***************************************************************************)
EXTENDS ContinuityQuorum, Naturals, FiniteSets

CONSTANTS
  Node,             \* everything that creates merge events
  Witness,          \* the witnesses of the block height
  MaxGeneration     \* bound on the length of a branch

ASSUME WitnessAssumption ==
  /\ IsFiniteSet(Node)
  /\ Witness \subseteq Node
  /\ Cardinality(Witness) > 3
  /\ ValidWitnessCount(Cardinality(Witness))

ASSUME BoundAssumption == MaxGeneration \in Nat

VARIABLES
  head,        \* generation of the last event on each branch
  seen,        \* most recent ancestor of an event on each branch, 0 if none
  support,     \* the support set an event settles on (for witness events)
  proposal,    \* generation of the event's unrejected proposal, 0 if none
  endorsed,    \* that proposal has reached its endorsement event
  decision     \* the event decides its support set

vars == <<head, seen, support, proposal, endorsed, decision>>

Generation == 0..MaxGeneration
EventId == Node \X Generation

F == MaximumFailures(Cardinality(Witness))
FPlusOne == F + 1
SuperMajority == Supermajority(Cardinality(Witness))

Exists(e) == 0 < e[2] /\ e[2] <= head[e[1]]
Events == {e \in EventId : Exists(e)}
WitnessEvents == {e \in Events : e[1] \in Witness}
HeadEvent(n) == <<n, head[n]>>

(* a is e or an ancestor of e                                              *)
InAncestry(a, e) == a = e \/ a[2] <= seen[e][a[1]]

-----------------------------------------------------------------------------
LatestOf(S) == CHOOSE g \in S : \A h \in S : h <= g

(* Mutant: what the tree parent has seen is left out.                      *)
MostRecentAncestorsOfParents(n, parents) ==
  [m \in Node |->
    IF m = n THEN head[n]
    ELSE LatestOf({0} \cup {seen[p][m] : p \in parents}
                    \cup {p[2] : p \in {q \in parents : q[1] = m}})]

(* The ancestry vector of the next event of n when it merges `parents`:    *)
(* per branch, the latest of the tree parent's ancestors, the parents and  *)
(* their ancestors.  Restricted to Witness this is the code's index        *)
(* mostRecentWitnessAncestors.                                             *)
MostRecentAncestors(n, parents) ==
  [m \in Node |->
    IF m = n THEN head[n]
    ELSE LatestOf({seen[HeadEvent(n)][m]}
                    \cup {seen[p][m] : p \in parents}
                    \cup {p[2] : p \in {q \in parents : q[1] = m}})]

(* The witnesses that take part in the experiment of an event with         *)
(* ancestry vector mra, and the event each takes part with.                *)
Participants(mra) == {w \in Witness : mra[w] > 0}

(* Mutant: the head of each branch stands in for what the event has seen.  *)
LatestKnown(mra, w) == <<w, head[w]>>

Latest(mra, w) == <<w, mra[w]>>

Supporters(mra, S) ==
  {w \in Participants(mra) : support[Latest(mra, w)] = S}
SetsSeen(mra) == {support[Latest(mra, w)] : w \in Participants(mra)}
SetsWith(mra, k) ==
  {S \in SetsSeen(mra) : Cardinality(Supporters(mra, S)) >= k}

(* Mutants: support is strong from f on; one of two strong sets is taken.  *)
SupportChoicesFromF(n, mra) ==
  LET strong == SetsWith(mra, F)
  IN  IF strong = {}
      THEN {(UNION SetsSeen(mra)) \cup (IF head[n] = 0 THEN {n} ELSE {})}
      ELSE strong

SupportChoicesOneOfTwo(n, mra) ==
  LET strong == SetsWith(mra, FPlusOne)
  IN  IF strong = {}
      THEN {(UNION SetsSeen(mra)) \cup (IF head[n] = 0 THEN {n} ELSE {})}
      ELSE strong

(* The support sets an event of n may settle on.  With no set at f+1, the  *)
(* union of all.  A set is pushed on the code's list each time its count   *)
(* is at or above f+1, and only the first two entries of a list of several *)
(* are united: two sets, or twice the same one.  Which it is depends on    *)
(* the order in which the events of the ancestry list their parents.       *)
SupportChoices(n, mra) ==
  LET strong == SetsWith(mra, FPlusOne)
  IN  CASE strong = {} ->
             {(UNION SetsSeen(mra)) \cup (IF head[n] = 0 THEN {n} ELSE {})}
        [] Cardinality(strong) = 1 -> strong
        [] OTHER ->
             SetsWith(mra, FPlusOne + 1)
               \cup {p[1] \cup p[2] : p \in {q \in strong \X strong : q[1] # q[2]}}

(* How many witnesses support S once the event itself does.                *)
Switched(n, S) == head[n] = 0 \/ support[HeadEvent(n)] # S
SupportCount(n, mra, S) ==
  Cardinality(Supporters(mra, S)) + (IF Switched(n, S) THEN 1 ELSE 0)

(* The proposal the branch of n carries on, unless supporting S rejects it *)
KeptProposal(n, S) ==
  LET p == proposal[HeadEvent(n)]
  IN  IF p > 0 /\ support[<<n, p>>] = S THEN p ELSE 0

(* The witnesses with an event in the ancestry that descends from <<n, p>>.*)
(* These grow along the branch, so the code's walk from the proposal down  *)
(* its tree children stops at the first event where they are 2f+1.         *)
Endorsers(n, mra, p) ==
  {n} \cup {w \in Participants(mra) \ {n} : seen[Latest(mra, w)][n] >= p}

EndorsementReached(n, mra, p) ==
  Cardinality(Endorsers(n, mra, p)) >= SuperMajority

(* The kept proposal is endorsed at this event or was so before it.        *)
KeptEndorsed(n, mra, S) ==
  /\ KeptProposal(n, S) > 0
  /\ \/ endorsed[HeadEvent(n)]
     \/ EndorsementReached(n, mra, KeptProposal(n, S))

EndorsedCount(n, mra, S) ==
  Cardinality({w \in Supporters(mra, S) : endorsed[Latest(mra, w)]})
    + (IF KeptEndorsed(n, mra, S) /\ ~endorsed[HeadEvent(n)] THEN 1 ELSE 0)

Decides(n, mra, S) == EndorsedCount(n, mra, S) >= FPlusOne

(* Mutants: a supermajority always makes a new proposal; `no proposal` is  *)
(* an index below all others.                                              *)
NextProposalAgain(n, mra, S) ==
  CASE Decides(n, mra, S) -> 0
    [] ~Decides(n, mra, S) /\ SupportCount(n, mra, S) >= SuperMajority -> head[n] + 1
    [] OTHER -> KeptProposal(n, S)

NextProposalBelow(n, mra, S) ==
  IF KeptProposal(n, S) > 0 THEN KeptProposal(n, S)
  ELSE IF SupportCount(n, mra, S) >= SuperMajority THEN head[n] + 1 ELSE 0 - 1

(* An event that does not decide proposes the set it supports once 2f+1    *)
(* witnesses support it, unless it carries on a proposal.                  *)
NextProposal(n, mra, S) ==
  CASE Decides(n, mra, S) -> 0
    [] ~Decides(n, mra, S) /\ KeptProposal(n, S) > 0 -> KeptProposal(n, S)
    [] OTHER -> IF SupportCount(n, mra, S) >= SuperMajority THEN head[n] + 1 ELSE 0

-----------------------------------------------------------------------------
TypeOK ==
  /\ head \in [Node -> Generation]
  /\ seen \in [EventId -> [Node -> Generation]]
  /\ support \in [EventId -> SUBSET Witness]
  /\ proposal \in [EventId -> Generation]
  /\ endorsed \in [EventId -> BOOLEAN]
  /\ decision \in [EventId -> BOOLEAN]

Init ==
  /\ head = [n \in Node |-> 0]
  /\ seen = [e \in EventId |-> [m \in Node |-> 0]]
  /\ support = [e \in EventId |-> {}]
  /\ proposal = [e \in EventId |-> 0]
  /\ endorsed = [e \in EventId |-> FALSE]
  /\ decision = [e \in EventId |-> FALSE]

(* The parents n can merge: events of other nodes it has not merged yet,   *)
(* none an ancestor of another.  Which of them it has received is up to    *)
(* gossip.                                                                 *)
Mergeable(n, parents) ==
  /\ \A p \in parents : ~InAncestry(p, HeadEvent(n))
  /\ \A p, q \in parents : InAncestry(p, q) => p = q

(* A branch that holds a decision goes on at the next block height only,   *)
(* and so does what merges it: findConsensus stops at the decision.        *)
NotDecided(n, parents) == ~ \E e \in parents \cup {HeadEvent(n)} : decision[e]

(* A node creates a merge event.  It is numbered on its branch and its     *)
(* ancestry indexed (_getTails, _computeMostRecentWitnessAncestors).       *)
CreateEvent(n, parents) ==
  /\ head[n] < MaxGeneration
  /\ Mergeable(n, parents)
  /\ NotDecided(n, parents)
  /\ head' = [head EXCEPT ![n] = @ + 1]
  /\ seen' = [seen EXCEPT ![<<n, head[n] + 1>>] = MostRecentAncestors(n, parents)]

(* A witness merges: the event takes part in the experiment (_experiment). *)
MergeWitness(n, parents) ==
  LET e == <<n, head[n] + 1>>
      mra == MostRecentAncestors(n, parents)
  IN  /\ n \in Witness
      /\ CreateEvent(n, parents)
      /\ \E S \in SupportChoices(n, mra) :
           /\ support' = [support EXCEPT ![e] = S]
           /\ decision' = [decision EXCEPT ![e] = Decides(n, mra, S)]
           /\ endorsed' = [endorsed EXCEPT ![e] = KeptEndorsed(n, mra, S)]
           /\ proposal' = [proposal EXCEPT ![e] = NextProposal(n, mra, S)]

(* A node that is not a witness merges: its event only passes ancestry on. *)
MergePeer(n, parents) ==
  /\ n \notin Witness
  /\ CreateEvent(n, parents)
  /\ UNCHANGED <<support, proposal, endorsed, decision>>

ParentSets(n) == SUBSET {p \in Events : p[1] # n}

Next ==
  \E n \in Node : \E parents \in ParentSets(n) :
    MergeWitness(n, parents) \/ MergePeer(n, parents)

Spec == Init /\ [][Next]_vars

-----------------------------------------------------------------------------
(* What has not happened, or not in recent history, has no attributes; an  *)
(* event has seen its branch up to its tree parent.                        *)
WellFormed ==
  /\ \A e \in EventId : ~Exists(e) =>
       /\ seen[e] = [m \in Node |-> 0]
       /\ support[e] = {} /\ proposal[e] = 0
       /\ ~endorsed[e] /\ ~decision[e]
  /\ \A e \in Events : seen[e][e[1]] = e[2] - 1
  /\ \A e \in Events : \A m \in Node : seen[e][m] <= head[m]

(* An event has seen what the most recent ancestors it has seen have seen. *)
AncestryClosed ==
  \A e \in Events : \A m, k \in Node : seen[<<m, seen[e][m]>>][k] <= seen[e][k]

(* A witness that supports fewer than f+1 witnesses supports itself.       *)
SupportsItself ==
  \A e \in WitnessEvents :
    e[1] \in support[e] \/ Cardinality(support[e]) >= FPlusOne

(* A proposal is carried along its branch with its own support set, which  *)
(* has at least f+1 witnesses, and so has one that is endorsed or decided. *)
ProposalsKeepSupport ==
  \A e \in WitnessEvents :
    /\ proposal[e] > 0 =>
         /\ proposal[e] <= e[2]
         /\ support[<<e[1], proposal[e]>>] = support[e]
    /\ proposal[e] > 0 \/ endorsed[e] \/ decision[e] =>
         Cardinality(support[e]) >= FPlusOne

(* All events that decide, on whatever branches, decide the same set: no   *)
(* two nodes make different blocks of the same height (findConsensus).     *)
Agreement ==
  \A d, e \in Events : decision[d] /\ decision[e] => support[d] = support[e]

(* A set that is proposed, and so one that is decided, holds the `y` of    *)
(* f+1 witnesses at least, so of one that has not failed (_chooseSupport   *)
(* may drop a witness's own `y`, and starts from sets of a single one).    *)
ProposalsNeedWitnesses ==
  \A e \in WitnessEvents :
    proposal[e] > 0 \/ decision[e] => Cardinality(support[e]) >= FPlusOne

(* Support is for `y` events in the event's own history only, so that the  *)
(* block of a decision can be gathered from it (_getAncestorHashes).       *)
SupportInAncestry ==
  \A e \in WitnessEvents : \A w \in support[e] : InAncestry(<<w, 1>>, e)

(* What every step preserves; the theorems of Continuity_proofs rest on it.*)
InductiveInvariant ==
  /\ TypeOK
  /\ WellFormed
  /\ AncestryClosed
  /\ SupportsItself
  /\ ProposalsKeepSupport
  /\ SupportInAncestry

(* While its support does not switch, a branch neither drops its proposal  *)
(* nor forgets that it was endorsed: the only way out of a proposal is its *)
(* rejection (_experiment).                                                *)
ProposalHeld ==
  \A e \in WitnessEvents :
    LET t == <<e[1], e[2] - 1>>
    IN  proposal[t] > 0 /\ support[e] = support[t] /\ ~decision[e]
          => /\ proposal[e] = proposal[t]
             /\ endorsed[t] => endorsed[e]

(* Where sets have reached f+1 support in an event's experiment, the event *)
(* supports the union of all of them, as _chooseSupport states.            *)
UnionOfStrongSupport ==
  \A e \in WitnessEvents :
    LET strong == SetsWith(seen[e], FPlusOne)
    IN  strong # {} => support[e] = UNION strong
=============================================================================
