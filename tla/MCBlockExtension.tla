-------------------------- MODULE MCBlockExtension --------------------------
(***************************************************************************)
(* Four heights.  The first block has two merge events and a configuration *)
(* out of sequence, the second one that takes effect and changes nothing   *)
(* for the consensus, the third one that hands over to another method, so  *)
(* that the fourth is never written.                                       *)
(***************************************************************************)
EXTENDS BlockExtension

MCMerge == {"m1", "n1", "m2", "m3", "m4"}
MCRegular == {"r1", "early", "same", "other"}
MCConfig == {"early", "same", "other"}
MCHeightOf ==
  [m \in MCMerge |-> CASE m \in {"m1", "n1"} -> 1 [] m = "m2" -> 2
                       [] m = "m3" -> 3 [] OTHER -> 4]
MCParentsOf ==
  [m \in MCMerge |-> CASE m = "m1" -> {"r1"}
                       [] m = "n1" -> {"m1", "early"}
                       [] m = "m2" -> {"m1", "n1", "same"}
                       [] m = "m3" -> {"m2", "n1", "other"}
                       [] OTHER -> {"m3"}]
MCSequenceOf == [c \in MCConfig |-> IF c = "same" THEN 1 ELSE 2]
=============================================================================
