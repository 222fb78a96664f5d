-------------------------- MODULE MatcherRefinement --------------------------
(***************************************************************************)
(* Matcher implements Obligations.  What the abstract specification asks   *)
(* of a comment depends on which rules stood from its arrival to its last  *)
(* statement, which no table records: a history variable follows them.     *)
(***************************************************************************)
EXTENDS Matcher

VARIABLE standing   \* history: the rules that match an event and stood ever since

historyVars == <<vars, standing>>

HistoryInit == Init /\ standing = [e \in Events |-> {}]

Observe ==
  standing' = [e \in Events |->
    IF e \in Arrived THEN standing[e] \cap rules'
    ELSE IF received'[e] # 0 THEN rules \cap Matches[About[e]] ELSE {}]

HistoryNext == Next /\ Observe

HistorySpec == HistoryInit /\ [][HistoryNext]_historyVars

-----------------------------------------------------------------------------
Deleted == {c \in Comments : deletedAt[c] # Null}

\* The arrived events whose comment had no tombstone then.
Heard == {e \in Arrived : About[e] \in Deleted => received[e] <= deletedAt[About[e]]}

\* The pairs that have, or had, a row.
PairsEver ==
  {<<jobs[j].rule, Author[jobs[j].comment]>> : j \in Jobs \ InStatus("ABSENT")}

O == INSTANCE Obligations WITH
       acked <- Arrived, heard <- Heard, deleted <- Deleted, owed <- PairsEver,
       closed <- processed

(***************************************************************************)
(* The intake keeps its promise to the feed: whatever task, sweep and      *)
(* replay do to an event, crash and fail in between included, it is        *)
(* stamped only when it has had its effect under the rules that stood all  *)
(* the time.  Nobody is owed anything under a rule that is gone or does    *)
(* not match, or for a comment acknowledged as deleted; a rule made since  *)
(* the acknowledgement may be served as well, though the blueprint says it *)
(* is not (webhook.py webhook, matcher.py handle_event, rules.py).         *)
(***************************************************************************)
ObligationsKept == O!Spec

(***************************************************************************)
(* And it stays so: of a processed comment that is not known to be         *)
(* deleted, every rule it matches that has stood ever since its arrival    *)
(* has, or had, a row for the author, although rules are added and deleted *)
(* while the event is run (matcher.py _handle_created).                    *)
(***************************************************************************)
StandingRulesServed ==
  \A e \in processed : Type[e] = "created" /\ About[e] \notin Deleted =>
    \A r \in standing[e] :
      \E j \in Jobs : jobs[j].status # "ABSENT" /\ IsFor(j, r, Author[About[e]])
=============================================================================
