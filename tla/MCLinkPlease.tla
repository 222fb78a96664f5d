---------------------------- MODULE MCLinkPlease ----------------------------
(***************************************************************************)
(* Instances of LinkPlease for TLC: one user, one rule in every comment.   *)
(***************************************************************************)
EXTENDS LinkPlease, TLC

CONSTANTS c1, c2, e1, e2, d1

OneAuthor == [c \in Comments |-> CHOOSE u \in Users : TRUE]

\* Two comments and the deletion of the first of them.
EventType == [e \in Events |-> IF e = d1 THEN "deleted" ELSE "created"]
EventAbout == [e \in Events |-> IF e = e2 THEN c2 ELSE c1]

AllRules == [c \in Comments |-> Rules]

Symmetry == Permutations(Jobs)
=============================================================================
