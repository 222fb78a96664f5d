------------------------- MODULE MCMatcherRefinement -------------------------
(***************************************************************************)
(* The instances of MCMatcher, for MatcherRefinement.                      *)
(***************************************************************************)
EXTENDS MatcherRefinement, MCMatcher

\* The rules that a row, a handler or a finished run speaks of.
UsedRules ==
  rules \cup {jobs[j].rule : j \in {k \in Jobs : jobs[k].status # "ABSENT"}}
        \cup UNION {answered[e] : e \in Events}
        \cup UNION {handler[x].matched : x \in Handlers}

\* One instance for three questions: two comments on one rule with one row, one
\* comment on one rule with a redelivery, or one comment on two rules.  Rules are
\* added while an event is handled in the last of them only.
OneQuestionAtATime ==
  /\ received[e2] # 0 =>
       /\ redelivered = 0 /\ received[d1] = 0
       /\ Cardinality(InStatus("ABSENT")) >= Cardinality(Jobs) - 1
  /\ redelivered > 0 => blocked = 0
  /\ redelivered > 0 \/ received[e2] # 0 =>
       /\ Cardinality(UsedRules) <= 1
       /\ \A e \in Arrived : rules \subseteq standing[e]

=============================================================================
