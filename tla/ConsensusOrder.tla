--------------------------- MODULE ConsensusOrder ---------------------------
(***************************************************************************)
(* The order of the events of a block (_getAncestorHashes of               *)
(* lib/continuity.js): the decided events and their ancestors are gathered *)
(* level by level, regular events are put beside the merge events that     *)
(* list them, and all of it is sorted by generation, ancestry and hash.    *)
(* consensus.find then drops what earlier blocks have.                     *)
(*                                                                         *)
(* Array.prototype.sort is that of V8 for fewer than 64 elements: the run  *)
(* the array begins with is taken, the others are inserted one by one at a *)
(* place found by bisection.                                               *)
(***************************************************************************)
EXTENDS Integers, FiniteSets

LOCAL INSTANCE Sequences
LOCAL INSTANCE SequencesExt

CONSTANTS
  MergeEvent,      \* recent history
  RegularEvent,
  EarlierEvent,    \* merge events of earlier blocks
  Decided,         \* the `y` events of the decision, a sequence
  ParentHash,      \* sequence of the parents of each merge event
  TreeHash,        \* the parent of each merge event on its own branch
  CreatorOf

Event == MergeEvent \cup RegularEvent \cup EarlierEvent
First == Decided[1]

VARIABLES
  rank,            \* consensusSortHash: the order of the mixed hashes
  ys,              \* decided events still to be gathered from
  next,            \* events still to be visited
  hashes,          \* merge events visited
  parentHashes,    \* other events listed
  descendants,     \* the events gathered, then those not yet sorted
  sorted,
  block,           \* eventHash of the result of consensus.find
  pc

vars == <<rank, ys, next, hashes, parentHashes, descendants, sorted, block, pc>>

MergeParents(e) == SelectSeq(ParentHash[e], LAMBDA p : p \in MergeEvent)

\* The position on the branch, and all ancestors in recent history (_getTails).
Generation[e \in MergeEvent] ==
  IF TreeHash[e] \in MergeEvent THEN 1 + Generation[TreeHash[e]] ELSE 1
Ancestors[e \in MergeEvent] ==
  ToSet(MergeParents(e)) \cup UNION {Ancestors[p] : p \in ToSet(MergeParents(e))}

Merge(e) ==
  [hash |-> e, creator |-> CreatorOf[e], generation |-> Generation[e],
   above |-> Ancestors[e]]
\* A regular event stands in the generation of its merge event's tree
\* parent, with that as its parent.
ListedBy(e, h) ==
  [hash |-> h, creator |-> CreatorOf[e], generation |-> Generation[e] - 1,
   above |-> IF TreeHash[e] \in MergeEvent
             THEN {TreeHash[e]} \cup Ancestors[TreeHash[e]] ELSE {}]

\* The mixed hashes are in any order.  The buffer of the first event is the
\* base itself (Buffer.slice shares memory), so mixing leaves nothing of it.
Init ==
  /\ rank \in {r \in [Event -> 1..Cardinality(Event)] :
                 IsInjective(r) /\ r[First] = 1}
  /\ ys = Decided /\ next = <<>>
  /\ hashes = {} /\ parentHashes = {} /\ descendants = <<>>
  /\ sorted = <<>> /\ block = <<>>
  /\ pc = "gather"

TakeDecided ==
  /\ pc = "gather" /\ next = <<>> /\ ys # <<>>
  /\ next' = <<Head(ys)>> /\ ys' = Tail(ys)
  /\ UNCHANGED <<rank, hashes, parentHashes, descendants, sorted, block, pc>>

SkipVisited ==
  /\ pc = "gather" /\ next # <<>> /\ Head(next) \in hashes
  /\ next' = Tail(next)
  /\ UNCHANGED <<rank, ys, hashes, parentHashes, descendants, sorted, block, pc>>

Visit ==
  /\ pc = "gather" /\ next # <<>> /\ Head(next) \notin hashes
  /\ LET e == Head(next)
         listed == SelectSeq(ParentHash[e],
                             LAMBDA h : h \notin MergeEvent \cup parentHashes)
     IN /\ hashes' = hashes \cup {e}
        /\ next' = Tail(next) \o MergeParents(e)
        /\ parentHashes' = parentHashes \cup ToSet(listed)
        /\ descendants' =
             Append(descendants, Merge(e)) \o [i \in 1..Len(listed) |-> ListedBy(e, listed[i])]
  /\ UNCHANGED <<rank, ys, sorted, block, pc>>
-----------------------------------------------------------------------------
\* compareEvents: a comes before b.
ByGeneration(a, b) == a.creator = b.creator /\ a.generation # b.generation
ByAncestry(a, b) == a.hash \in b.above \/ b.hash \in a.above
IsBefore(a, b) ==
  CASE ByGeneration(a, b) -> a.generation < b.generation
    [] ~ByGeneration(a, b) /\ ByAncestry(a, b) -> a.hash \in b.above
    [] OTHER -> rank[a.hash] < rank[b.hash]

Ascending(s) == \A i \in 2..Len(s) : ~IsBefore(s[i], s[i - 1])
Descending(s) == Len(s) > 1 /\ \A i \in 2..Len(s) : IsBefore(s[i], s[i - 1])
Run(k) == SubSeq(descendants, 1, k)
FirstRun ==
  CHOOSE k \in 1..Len(descendants) :
    /\ Ascending(Run(k)) \/ Descending(Run(k))
    /\ \A l \in (k + 1)..Len(descendants) : ~Ascending(Run(l)) /\ ~Descending(Run(l))

BeginSort ==
  /\ pc = "gather" /\ next = <<>> /\ ys = <<>>
  /\ sorted' = IF Ascending(Run(FirstRun)) THEN Run(FirstRun) ELSE Reverse(Run(FirstRun))
  /\ descendants' = SubSeq(descendants, FirstRun + 1, Len(descendants))
  /\ pc' = "sort"
  /\ UNCHANGED <<rank, ys, next, hashes, parentHashes, block>>

Place(e) ==
  LET Between[l, r \in 0..Len(sorted)] ==
        LET mid == (l + r) \div 2
        IN CASE l = r -> l
             [] l < r /\ IsBefore(e, sorted[mid + 1]) -> Between[l, mid]
             [] OTHER -> Between[mid + 1, r]
  IN Between[0, Len(sorted)]
Insert ==
  /\ pc = "sort" /\ descendants # <<>>
  /\ sorted' = InsertAt(sorted, Place(Head(descendants)) + 1, Head(descendants))
  /\ descendants' = Tail(descendants)
  /\ UNCHANGED <<rank, ys, next, hashes, parentHashes, block, pc>>

\* _getAncestors of consensus.js and the filter in find.
FilterOrder ==
  /\ pc = "sort" /\ descendants = <<>>
  /\ block' = SelectSeq([i \in 1..Len(sorted) |-> sorted[i].hash],
                        LAMBDA h : h \notin EarlierEvent)
  /\ pc' = "done"
  /\ UNCHANGED <<rank, ys, next, hashes, parentHashes, descendants, sorted>>

Next ==
  TakeDecided \/ SkipVisited \/ Visit \/ BeginSort \/ Insert \/ FilterOrder
Spec == Init /\ [][Next]_vars
-----------------------------------------------------------------------------
(* What a regular event was created on: everything its branch had merged.  *)
CreatedOn(r) ==
  LET m == CHOOSE m \in MergeEvent : r \in ToSet(ParentHash[m])
  IN IF TreeHash[m] \in MergeEvent THEN {TreeHash[m]} \cup Ancestors[TreeHash[m]] ELSE {}

(* Operations are applied in the order of the block.  Those of a regular   *)
(* event come after the operations that its creator had merged before it   *)
(* created the event (lib/continuity.js:321 ff., "enough properties to     *)
(* check ancestry below during sort").                                     *)
OperationsInOrder ==
  \A i, j \in 1..Len(block) :
    /\ {block[i], block[j]} \subseteq RegularEvent
    /\ \E m \in CreatedOn(block[j]) : block[i] \in ToSet(ParentHash[m])
    => i < j
=============================================================================
