------------------------------- MODULE Branch -------------------------------
(***************************************************************************)
(* What a node promises about its own branch: merge events are appended    *)
(* one behind the other and never replaced, each merges something, and no  *)
(* event is merged by two of them.                                         *)
(***************************************************************************)
EXTENDS Naturals, Sequences

CONSTANT Event       \* the events there are to be merged

VARIABLE branch      \* for each generation the set of events it merged

Merged == UNION {branch[g] : g \in 1..Len(branch)}

Init == branch = <<>>

\* Said of the successor rather than with a quantifier over all sets of
\* events, of which there are too many to try.
Merge ==
  /\ Len(branch') = Len(branch) + 1
  /\ \A g \in 1..Len(branch) : branch'[g] = branch[g]
  /\ LET new == branch'[Len(branch) + 1]
     IN new \subseteq Event \ Merged /\ new # {}

Spec == Init /\ [][Merge]_branch
=============================================================================
