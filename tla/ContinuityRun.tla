---------------------------- MODULE ContinuityRun ----------------------------
(***************************************************************************)
(* One call of findConsensus (lib/continuity.js): a node has received some *)
(* ancestry-closed part of recent history, its view, and recomputes from   *)
(* it the support of every event, deferring an event until the events it   *)
(* depends on are done, until one decides or none is left.                 *)
(*                                                                         *)
(* Continuity computes the same incrementally and once for all nodes; the  *)
(* properties below say that this is what each node finds for itself,      *)
(* whatever it has received and in whatever order it proceeds.             *)
(***************************************************************************)
EXTENDS Continuity

(* With four witnesses SupportChoices never depends on an order.           *)
ASSUME FourWitnesses == Cardinality(Witness) = 4

VARIABLES
  phase,            \* "idle", "running", "done"
  view,             \* the generation received of each branch
  pending,          \* the worklist `next` of _runExperiments
  tried,            \* events that have support
  runSupport,       \* _c.support
  runProposal,      \* _c.proposal, as a generation on the branch
  endorsement,      \* _c.proposalEndorsement of a proposal, 0 for none
  marked,           \* proposals with _c.proposalEndorsed set
  decider           \* the event whose experiment decided, as a set

runVars == <<phase, view, pending, tried, runSupport, runProposal,
             endorsement, marked, decider>>

InView(e) == e[2] <= view[e[1]]
Tails(v) == {w \in Witness : v[w] > 0}

(* A view is closed: with an event it holds all of the event's ancestry.   *)
Views ==
  {v \in [Node -> Generation] :
     /\ \A n \in Node : v[n] <= head[n]
     /\ \A n \in Node : v[n] > 0 =>
          \A m \in Node : seen[<<n, v[n]>>][m] <= v[m]}

RunTypeOK ==
  /\ phase \in {"idle", "running", "done"}
  /\ view \in [Node -> Generation]
  /\ pending \in SUBSET EventId
  /\ tried \in SUBSET EventId
  /\ runSupport \in [EventId -> SUBSET Witness]
  /\ runProposal \in [EventId -> Generation]
  /\ endorsement \in [EventId -> Generation]
  /\ marked \in SUBSET EventId
  /\ decider \in SUBSET EventId

RunInit ==
  /\ phase = "idle"
  /\ view = [n \in Node |-> 0]
  /\ pending = {} /\ tried = {} /\ marked = {} /\ decider = {}
  /\ runSupport = [e \in EventId |-> {}]
  /\ runProposal = [e \in EventId |-> 0]
  /\ endorsement = [e \in EventId |-> 0]

-----------------------------------------------------------------------------
(* Mutant: endorsed on the whole branch, before the endorsement as well.   *)
HasEndorsedAnywhere(e) ==
  runProposal[e] > 0 /\ <<e[1], runProposal[e]>> \in marked

(* _hasEndorsedProposal                                                    *)
HasEndorsedProposal(e) ==
  LET p == <<e[1], runProposal[e]>>
  IN  /\ runProposal[e] > 0
      /\ p \in marked
      /\ e[2] >= endorsement[p]

(* The tally and the choice of support of Continuity, on what this run has *)
(* computed so far for the ancestors of e.                                 *)
At(e) == INSTANCE Continuity WITH
  head <- [head EXCEPT ![e[1]] = e[2] - 1],
  support <- runSupport,
  proposal <- runProposal,
  endorsed <- [d \in EventId |-> HasEndorsedProposal(d)]

(* _findEndorsement: walk from proposal x down its branch, collecting the  *)
(* witnesses whose latest event has x in its ancestry, to the first event  *)
(* at which they are 2f+1.                                                 *)
EndorsersUpTo(x, g) ==
  {x[1]} \cup UNION {
    {w \in Participants(seen[<<x[1], h>>]) :
       seen[Latest(seen[<<x[1], h>>], w)][x[1]] >= x[2]} : h \in (x[2] + 1)..g}

FindEndorsement(x) ==
  LET reached == {g \in (x[2] + 1)..view[x[1]] :
                    Cardinality(EndorsersUpTo(x, g)) >= SuperMajority}
  IN  IF reached = {} THEN 0 ELSE CHOOSE g \in reached : \A h \in reached : g <= h

(* e is where the proposal <<e[1], p>> is endorsed, and the flag is not    *)
(* set yet.                                                                *)
Marks(e, p) ==
  p > 0 /\ endorsement[<<e[1], p>>] = e[2] /\ <<e[1], p>> \notin marked

(* Mutant: the endorsement reached by the event itself is not counted.     *)
RunEndorsedBefore(e, S) ==
  Cardinality({w \in At(e)!Supporters(seen[e], S) :
                 HasEndorsedProposal(Latest(seen[e], w))})

(* `endorsedProposalCount` of the chosen set                               *)
RunEndorsedCount(e, S) ==
  Cardinality({w \in At(e)!Supporters(seen[e], S) :
                 HasEndorsedProposal(Latest(seen[e], w))})
    + (IF Marks(e, At(e)!KeptProposal(e[1], S)) THEN 1 ELSE 0)

(* Mutants: the event waits for every witness; the walk does not end.      *)
ReadyWithAll(e) == \A w \in Witness : Latest(seen[e], w) \in tried
TreeChildrenOnAndOn(e) == {<<e[1], e[2] + 1>>}

(* The events an experiment waits for have been computed.                  *)
Ready(e) == \A w \in Participants(seen[e]) : Latest(seen[e], w) \in tried

TreeChildren(e) == {d \in {<<e[1], e[2] + 1>>} \cap EventId : InView(d)}

-----------------------------------------------------------------------------
(* findConsensus up to the experiments: no more happens unless the view    *)
(* holds tails of 2f+1 witnesses (_findConsensusCandidates).               *)
Start ==
  /\ phase = "idle"
  /\ \E v \in Views :
       /\ view' = v
       /\ pending' = IF Cardinality(Tails(v)) < SuperMajority THEN {}
                     ELSE {<<w, 1>> : w \in Tails(v)}
  /\ phase' = "running"
  /\ UNCHANGED <<tried, runSupport, runProposal, endorsement, marked, decider>>

(* An experiment that ends without a decision.                             *)
Settle(e, S) ==
  LET kept == At(e)!KeptProposal(e[1], S)
      proposes == /\ kept = 0
                  /\ At(e)!SupportCount(e[1], seen[e], S) >= SuperMajority
  IN  /\ RunEndorsedCount(e, S) < FPlusOne
      /\ runSupport' = [runSupport EXCEPT ![e] = S]
      /\ runProposal' = [runProposal EXCEPT ![e] = IF proposes THEN e[2] ELSE kept]
      /\ endorsement' = IF proposes
                        THEN [endorsement EXCEPT ![e] = FindEndorsement(e)]
                        ELSE endorsement
      /\ tried' = tried \cup {e}
      /\ pending' = (pending \ {e}) \cup TreeChildren(e)
      /\ UNCHANGED <<phase, decider>>

(* An experiment that decides: the call returns.                           *)
Decide(e, S) ==
  /\ RunEndorsedCount(e, S) >= FPlusOne
  /\ runSupport' = [runSupport EXCEPT ![e] = S]
  /\ decider' = {e}
  /\ phase' = "done"
  /\ UNCHANGED <<pending, tried, runProposal, endorsement>>

Experiment(e) ==
  /\ phase = "running"
  /\ e \in pending
  /\ Ready(e)
  /\ \E S \in At(e)!SupportChoices(e[1], seen[e]) :
       /\ marked' = IF Marks(e, At(e)!KeptProposal(e[1], S))
                    THEN marked \cup {<<e[1], At(e)!KeptProposal(e[1], S)>>}
                    ELSE marked
       /\ Settle(e, S) \/ Decide(e, S)
  /\ UNCHANGED view

(* Nothing is left to try: no consensus in this view.                      *)
GiveUp ==
  /\ phase = "running"
  /\ pending = {}
  /\ phase' = "done"
  /\ UNCHANGED <<view, pending, tried, runSupport, runProposal, endorsement,
                 marked, decider>>

RunNext ==
  \/ Start
  \/ \E e \in pending : Experiment(e)
  \/ GiveUp

-----------------------------------------------------------------------------
(* What a run computes for an event depends on the event alone: not on the *)
(* view, nor on the order in which branches are worked off.                *)
ViewIndependence ==
  \A e \in tried :
    /\ runSupport[e] = support[e]
    /\ runProposal[e] = proposal[e]
    /\ HasEndorsedProposal(e) = endorsed[e]

(* A run finds consensus if and only if its view holds a deciding event,   *)
(* and returns that event's set.                                           *)
FindsConsensusInView ==
  phase = "done" =>
    /\ decider = {} <=> ~ \E e \in Events : InView(e) /\ decision[e]
    /\ \A e \in decider : decision[e] /\ runSupport[e] = support[e]

(* The loop that defers events ends: no event waits forever for one that   *)
(* is never tried.                                                         *)
RunTerminates == phase = "running" ~> phase = "done"

(* Whatever the view and the order of the experiments so far, one of the   *)
(* deferred events is ready: they never wait for each other in a circle.   *)
NeverStuck == phase = "running" /\ pending # {} => \E e \in pending : Ready(e)

(* And each step of a run that does not end it has tried one event more.   *)
RunAdvances == phase = "running" => phase' = "done" \/ (tried \subseteq tried' /\ tried' # tried)
-----------------------------------------------------------------------------
(* A node computes while recent history grows, on what it had received.    *)
RunStep == (Next /\ UNCHANGED runVars) \/ (RunNext /\ UNCHANGED vars)
RunSpec == Init /\ RunInit /\ [][RunStep]_<<vars, runVars>>

-----------------------------------------------------------------------------
(* What makes the invariants above inductive. First the history: how the   *)
(* attributes of an event follow from its ancestry, whoever computes them. *)

TreeParent(e) == <<e[1], e[2] - 1>>

(* The proposal x is endorsed at the latest at generation g of its branch. *)
Reached(x, g) == EndorsementReached(x[1], seen[<<x[1], g>>], x[2])

(* What e settled on, said of the events before it: the proposal it        *)
(* carries on, and whether that is endorsed at e; how many witnesses       *)
(* support its set, and how many of them with an endorsed proposal, e      *)
(* itself counted.                                                         *)
CarriedOn(e) ==
  LET p == proposal[TreeParent(e)]
  IN  IF p > 0 /\ support[<<e[1], p>>] = support[e] THEN p ELSE 0
EndorsedHere(e) ==
  /\ CarriedOn(e) > 0
  /\ ~endorsed[TreeParent(e)]
  /\ Reached(<<e[1], CarriedOn(e)>>, e[2])
Backing(e) ==
  Cardinality(Supporters(seen[e], support[e]))
    + (IF e[2] = 1 \/ support[TreeParent(e)] # support[e] THEN 1 ELSE 0)
EndorsedBacking(e) ==
  Cardinality({w \in Supporters(seen[e], support[e]) : endorsed[Latest(seen[e], w)]})
    + (IF EndorsedHere(e) THEN 1 ELSE 0)

(* Every event has what _experiment makes of its ancestry.                 *)
SettledFromAncestry ==
  \A e \in WitnessEvents :
    /\ SetsWith(seen[e], FPlusOne) = {} =>
         support[e] = (UNION SetsSeen(seen[e])) \cup (IF e[2] = 1 THEN {e[1]} ELSE {})
    /\ decision[e] <=> EndorsedBacking(e) >= FPlusOne
    /\ endorsed[e] <=>
         CarriedOn(e) > 0 /\ (endorsed[TreeParent(e)] \/ EndorsedHere(e))
    /\ proposal[e] =
         IF decision[e] THEN 0
         ELSE IF CarriedOn(e) > 0 THEN CarriedOn(e)
         ELSE IF Backing(e) >= SuperMajority THEN e[2] ELSE 0

(* The endorsed flag, handed on along a branch, says what the walk of      *)
(* _findEndorsement finds: 2f+1 witnesses have endorsed by now.            *)
EndorsedOnceReached ==
  \A e \in WitnessEvents : proposal[e] > 0 =>
    (endorsed[e] <=> proposal[e] < e[2] /\ Reached(<<e[1], proposal[e]>>, e[2]))

(* Events of other nodes take no part in experiments.                      *)
OnlyWitnessesDecide == \A e \in Events : decision[e] => e[1] \in Witness

(* The history a run works on. Every step of Continuity preserves this.    *)
HistoryInvariant ==
  /\ InductiveInvariant
  /\ UnionOfStrongSupport
  /\ SettledFromAncestry
  /\ EndorsedOnceReached
  /\ OnlyWitnessesDecide

(* Then the run. Its view stays closed while the history grows.            *)
ViewReceived ==
  \A n \in Node :
    /\ view[n] <= head[n]
    /\ \A m \in Node : view[n] > 0 => seen[<<n, view[n]>>][m] <= view[m]

(* A branch is worked off from its tail, one event after the other.        *)
WorkedInOrder ==
  /\ \A e \in pending \cup tried \cup decider :
       e[1] \in Witness /\ 1 <= e[2] /\ e[2] <= view[e[1]]
  /\ pending \cap tried = {}
  /\ \A e \in tried : \A g \in 1..e[2] : <<e[1], g>> \in tried
  /\ \A e \in EventId \ tried : runProposal[e] = 0
  /\ phase = "idle" => pending \cup tried \cup decider = {}
(* As long as nothing is decided, no branch in view is forgotten, and      *)
(* there are 2f+1 of them if there is anything to do.                      *)
NothingForgotten ==
  decider = {} /\ phase # "idle" =>
    /\ pending # {} => Cardinality(Tails(view)) >= SuperMajority
    /\ Cardinality(Tails(view)) >= SuperMajority =>
         \A w \in Tails(view) : <<w, 1>> \in pending \cup tried
    /\ \A e \in tried : TreeChildren(e) \subseteq pending \cup tried
    /\ phase = "done" => pending = {}

(* It is known where in view the proposal x of e is endorsed, and if that  *)
(* is at e or before, x has its mark.                                      *)
EndorsementKnown(e, x) ==
  /\ x[2] <= e[2]
  /\ endorsement[x] > 0 => x[2] < endorsement[x] /\ endorsement[x] <= view[e[1]]
  /\ \A g \in (x[2] + 1)..view[e[1]] :
       Reached(x, g) <=> endorsement[x] > 0 /\ endorsement[x] <= g
  /\ endorsement[x] > 0 /\ endorsement[x] <= e[2] => x \in marked
(* So it is of all proposals, and no mark is set before its time.          *)
EndorsementsFound ==
  /\ \A e \in tried :
       runProposal[e] > 0 => EndorsementKnown(e, <<e[1], runProposal[e]>>)
  /\ \A x \in marked :
       /\ x \in tried /\ endorsement[x] > 0
       /\ <<x[1], endorsement[x]>> \in tried \cup decider

(* What the run has computed is what the history says.                     *)
AgreesWithHistory ==
  /\ \A e \in tried :
       runSupport[e] = support[e] /\ runProposal[e] = proposal[e] /\ ~decision[e]
  /\ \A e \in decider : runSupport[e] = support[e] /\ decision[e]
  /\ decider # {} => phase = "done"

(* What every step of a run preserves; the theorems of                     *)
(* ContinuityRun_proofs rest on it and on HistoryInvariant.                *)
RunInvariant ==
  /\ RunTypeOK
  /\ ViewReceived
  /\ WorkedInOrder
  /\ NothingForgotten
  /\ EndorsementsFound
  /\ AgreesWithHistory
=============================================================================
