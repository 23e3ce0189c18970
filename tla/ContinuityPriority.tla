------------------------- MODULE ContinuityPriority -------------------------
(***************************************************************************)
(* What findConsensus reports when a view holds no decision: the priority  *)
(* peers (_getPriorityPeers of lib/continuity.js), the witnesses whose     *)
(* next merge event could bring a decision nearer.  A node that is none of *)
(* them does not merge events of peers as long as it has no operations of  *)
(* its own (getMergeStatus, LocalNode), so if the peers that matter are    *)
(* not among them the ledger stands still.                                 *)
(***************************************************************************)
EXTENDS ContinuityRun, Functions

VARIABLE
  priority          \* priorityPeers, once they are reported; there are some always

HeadInView(w) == <<w, view[w]>>    \* _c.head of the witness's tail
WithHead == Tails(view)

(* mostRecentWitnessAncestors is computed for views with 2f+1 tails only.  *)
HasSeen(w, o) == Cardinality(WithHead) >= SuperMajority /\ seen[HeadInView(w)][o] > 0
LastSeen(w, o) == <<o, seen[HeadInView(w)][o]>>

(* The proposal at the head of w, if it waits for its endorsement; one     *)
(* that is the head itself has no `endorsers`.                             *)
Waiting(w) == runProposal[HeadInView(w)] > 0 /\ ~HasEndorsedProposal(HeadInView(w))
WithEndorsers == {w \in WithHead : Waiting(w) /\ runProposal[HeadInView(w)] < view[w]}
CollectedEndorsers ==
  [w \in WithEndorsers |-> EndorsersUpTo(<<w, runProposal[HeadInView(w)]>>, view[w])]

(* Mutant: a change of support is no reason.                               *)
IsWorthMergingUnswitched(w, o, endorsers) ==
  \/ ~HasSeen(w, o)
  \/ /\ LastSeen(w, o) # HeadInView(o)
     /\ \/ HasEndorsedProposal(HeadInView(o)) /\ ~HasEndorsedProposal(LastSeen(w, o))
        \/ runProposal[HeadInView(o)] # runProposal[LastSeen(w, o)]
        \/ o \in WithEndorsers /\ w \notin endorsers[o]

(* Merging the head of o could change what w proposes or supports, or      *)
(* endorses a proposal of o.                                               *)
IsWorthMerging(w, o, endorsers) ==
  \/ ~HasSeen(w, o)
  \/ /\ LastSeen(w, o) # HeadInView(o)
     /\ \/ HasEndorsedProposal(HeadInView(o)) /\ ~HasEndorsedProposal(LastSeen(w, o))
        \/ runProposal[HeadInView(o)] # runProposal[LastSeen(w, o)]
        \/ runSupport[HeadInView(o)] # runSupport[LastSeen(w, o)]
        \/ o \in WithEndorsers /\ w \notin endorsers[o]

(* The head of o descends from the proposal w waits with.                  *)
Endorses(o, w) ==
  LastSeen(w, o) # HeadInView(o) /\ seen[HeadInView(o)][w] >= runProposal[HeadInView(w)]

(* One pass over the other heads, up to the first worth merging.  The      *)
(* endorsers found on the way stay with the proposal, for the passes of    *)
(* the witnesses that come later.                                          *)
Prioritize(acc, w, order) ==
  LET worth == {i \in DOMAIN order :
                  order[i] # w /\ IsWorthMerging(w, order[i], acc.endorsers)}
      passed == {order[i] : i \in {j \in DOMAIN order :
                                    order[j] # w /\ \A k \in worth : j < k}}
      endorsers ==
        IF w \in WithEndorsers
        THEN [acc.endorsers EXCEPT ![w] = @ \cup {o \in passed : Endorses(o, w)}]
        ELSE acc.endorsers
      isEndorsed == w \in WithEndorsers /\ Cardinality(endorsers[w]) >= SuperMajority
  IN [endorsers |-> endorsers,
      peers |-> IF worth # {} \/ isEndorsed THEN acc.peers \cup {w} ELSE acc.peers]

(* The witnesses with a head, in the order of the list of witnesses.       *)
Orders == Bijection(1..Cardinality(WithHead), WithHead)

(* What has been found after the pass of each of them; those without a     *)
(* head come first.                                                        *)
Passes(order) ==
  LET after[i \in 0..Cardinality(WithHead)] ==
        IF i = 0 THEN [endorsers |-> CollectedEndorsers, peers |-> Witness \ WithHead]
        ELSE Prioritize(after[i - 1], order[i], order)
  IN after

(* With f or fewer found, all.                                             *)
PriorityPeers(order) ==
  LET found == Passes(order)[Cardinality(WithHead)].peers
  IN IF Cardinality(found) <= F THEN Witness ELSE found

(* findConsensus returns them when the run has found nothing.              *)
Report ==
  /\ phase = "done" /\ decider = {} /\ priority = {}
  /\ \E order \in Orders : priority' = PriorityPeers(order)
  /\ UNCHANGED runVars

PriorityInit == RunInit /\ priority = {}
PriorityNext == (RunNext /\ UNCHANGED priority) \/ Report
-----------------------------------------------------------------------------
(* The next event of w if it merged `parents` on top of the view.          *)
Then == INSTANCE Continuity WITH
  head <- view,
  support <- runSupport,
  proposal <- runProposal,
  endorsed <- [d \in EventId |-> HasEndorsedProposal(d)]

Outcomes(w, parents) ==
  LET mra == Then!MostRecentAncestors(w, parents)
  IN {[support |-> S,
       decides |-> Then!Decides(w, mra, S),
       proposal |-> Then!NextProposal(w, mra, S),
       endorsed |-> Then!KeptEndorsed(w, mra, S)] : S \in Then!SupportChoices(w, mra)}

OtherHeads(w) == {HeadInView(n) : n \in {m \in Node \ {w} : view[m] > 0}}

ProposesAtHead(w) == view[w] > 0 /\ runProposal[HeadInView(w)] = view[w]

EndorsesOther(w) ==
  \E o \in WithHead \ {w} :
    Waiting(o) /\ seen[HeadInView(w)][o] < runProposal[HeadInView(o)]

(* A witness is a priority peer if merging the heads of the others makes a *)
(* difference to its support, its proposal or its decision, or endorses a  *)
(* proposal: though heads are compared one by one, no change of the tally  *)
(* is missed.  Left out are two cases that the code does not look at: what *)
(* a witness's own last switch of support does to its next tally, merging  *)
(* or not, and the endorsement of a proposal that is the head itself       *)
(* (_findEndorsement returns before it sets the endorsers).                *)
HelpfulIsPriority ==
  priority # {} =>
    \A w \in Witness :
      \/ Outcomes(w, OtherHeads(w)) # Outcomes(w, {}) /\ ~ProposesAtHead(w)
      \/ EndorsesOther(w)
      => w \in priority
-----------------------------------------------------------------------------
(* History grows, a run goes on, or its result is reported.                *)
PriorityStep ==
  \/ Next /\ UNCHANGED <<runVars, priority>>
  \/ PriorityNext /\ UNCHANGED vars
PrioritySpec ==
  Init /\ PriorityInit /\ [][PriorityStep]_<<vars, runVars, priority>>

(* What makes the property above inductive.  The head of o would bring     *)
(* nothing to w that w has not seen.                                       *)
NothingNew(w, o) ==
  /\ HasSeen(w, o)
  /\ LastSeen(w, o) # HeadInView(o) =>
       /\ runSupport[HeadInView(o)] = runSupport[LastSeen(w, o)]
       /\ runProposal[HeadInView(o)] = runProposal[LastSeen(w, o)]
       /\ HasEndorsedProposal(HeadInView(o)) => HasEndorsedProposal(LastSeen(w, o))

(* The witnesses whose heads descend from the proposal at the head of w.   *)
EndorsingHeads(w) ==
  {w} \cup {o \in WithHead : seen[HeadInView(o)][w] >= runProposal[HeadInView(w)]}

(* w has seen what matters of every head, and they do not endorse it.      *)
LeftOut(w) ==
  /\ w \in WithHead
  /\ \A o \in WithHead \ {w} : NothingNew(w, o)
  /\ w \in WithEndorsers => Cardinality(EndorsingHeads(w)) < SuperMajority

(* Who is not reported has nothing to gain from any single head.           *)
PriorityInvariant ==
  /\ priority \subseteq Witness
  /\ priority # {} =>
       /\ phase = "done"
       /\ Cardinality(priority) > F
       /\ \A w \in Witness \ priority : LeftOut(w)
=============================================================================
