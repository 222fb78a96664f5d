------------------------------ MODULE MCMatcher ------------------------------
(***************************************************************************)
(* Instances of Matcher for TLC: one user, who writes every comment.       *)
(***************************************************************************)
EXTENDS Matcher, TLC

CONSTANTS c1, c2, e1, e2, d1

OneAuthor == [c \in Comments |-> CHOOSE u \in Users : TRUE]

\* Two comments and the deletion of the first of them.
EventType == [e \in Events |-> IF e = d1 THEN "deleted" ELSE "created"]
EventAbout == [e \in Events |-> IF e = e2 THEN c2 ELSE c1]

\* One comment and the deletion of another one.
Unrelated == [e \in Events |-> IF e = d1 THEN c2 ELSE c1]

\* Every keyword is in every text: which rules exist is what varies.
AllRules == [c \in Comments |-> Rules]

Symmetry == Permutations(Jobs)
RuleSymmetry == Symmetry \cup Permutations(Rules)
=============================================================================
