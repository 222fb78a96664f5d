----------------------------- MODULE MCDelivery -----------------------------
(***************************************************************************)
(* Instances of Delivery for TLC.                                          *)
(***************************************************************************)
EXTENDS Delivery, TLC

\* Both comments come from one user: the second one may revive the first.
OneAuthor == [c \in Comments |-> CHOOSE u \in Users : TRUE]

Symmetry == Permutations(Jobs) \cup Permutations(Comments)
=============================================================================
