------------------------ MODULE LinkPleaseRefinement ------------------------
(***************************************************************************)
(* The whole process implements Obligations, over the rows as they are,    *)
(* with the history variable of MatcherRefinement.                         *)
(***************************************************************************)
EXTENDS LinkPlease

VARIABLE standing   \* history: the rules that match an event and stood ever since

H == INSTANCE MatcherRefinement

observedVars == <<processVars, standing>>

ObservedInit == ProcessInit /\ standing = [e \in Events |-> {}]

ObservedNext == ProcessNext /\ H!Observe

ObservedSpec == ObservedInit /\ [][ObservedNext]_observedVars

(***************************************************************************)
(* The process keeps its promise to the feed: an acknowledged event is     *)
(* stamped only when it has had its effect on the very rows that the       *)
(* worker and the reconciler move, and these take no obligation back and   *)
(* add none (webhook.py webhook, matcher.py handle_event, worker.py and    *)
(* reconciler.py over dm_jobs).                                            *)
(***************************************************************************)
FeedObligationsKept == H!ObligationsKept
=============================================================================
