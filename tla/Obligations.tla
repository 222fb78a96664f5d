----------------------------- MODULE Obligations -----------------------------
(***************************************************************************)
(* What LinkPlease promises to the feed: an event that was acknowledged    *)
(* is not done with before it has had its effect.  For a comment that is   *)
(* an obligation to its author under every rule that matches it and stood  *)
(* all the time since the acknowledgement, unless the comment turned out   *)
(* to be deleted; for a deletion that the comment counts as deleted.       *)
(*                                                                         *)
(* Besides those obligations there may be others, and these are all: of a  *)
(* comment not known as deleted when it was acknowledged, under a rule     *)
(* that matches it and is there, but was made since.  The blueprint wants  *)
(* none of them (rules match the comments that arrive after them); the     *)
(* code reads the rules when it runs the event, so it may owe them, and    *)
(* whether it does is left open (OweLate).  Never is anybody owed a DM     *)
(* under a rule that is not there or does not match, or for a comment      *)
(* acknowledged as deleted.                                                *)
(***************************************************************************)
CONSTANTS Events, Type, About, Comments, Rules, Matches, Users, Author

VARIABLES
  rules,      \* the rules that exist
  acked,      \* the events acknowledged
  standing,   \* of each, the rules it matches that existed ever since
  heard,      \* those whose comment was not deleted by then
  deleted,    \* the comments known to be deleted
  owed,       \* the (rule, user) pairs that are, or were, owed a DM
  closed      \* the events that are done with

obligationVars == <<rules, acked, standing, heard, deleted, owed, closed>>

Pair(r, e) == <<r, Author[About[e]]>>

Init ==
  /\ rules = {} /\ acked = {} /\ heard = {} /\ deleted = {} /\ owed = {} /\ closed = {}
  /\ standing = [e \in Events |-> {}]

AddRule(r) ==
  /\ r \notin rules
  /\ rules' = rules \cup {r}
  /\ UNCHANGED <<acked, standing, heard, deleted, owed, closed>>

\* A rule under which somebody is, or was, owed a DM stays.
DropRule(r) ==
  /\ r \in rules
  /\ \A p \in owed : p[1] # r
  /\ rules' = rules \ {r}
  /\ standing' = [e \in Events |-> standing[e] \ {r}]
  /\ UNCHANGED <<acked, heard, deleted, owed, closed>>

Acknowledge(e) ==
  /\ e \notin acked
  /\ acked' = acked \cup {e}
  /\ standing' = [standing EXCEPT ![e] = rules \cap Matches[About[e]]]
  /\ heard' = heard \cup {f \in {e} : About[f] \notin deleted}
  /\ UNCHANGED <<rules, deleted, owed, closed>>

OwePair(p) ==
  /\ owed' = owed \cup {p}
  /\ UNCHANGED <<rules, acked, standing, heard, deleted, closed>>

\* What was promised when the event was acknowledged.
Owe(r, e) ==
  /\ Type[e] = "created" /\ e \in heard
  /\ r \in standing[e]
  /\ OwePair(Pair(r, e))

\* Retro-matching: the rule was made after the comment was acknowledged.
OweLate(r, e) ==
  /\ Type[e] = "created" /\ e \in heard
  /\ r \in (rules \cap Matches[About[e]]) \ standing[e]
  /\ OwePair(Pair(r, e))

Delete(e) ==
  /\ Type[e] = "deleted" /\ e \in acked
  /\ deleted' = deleted \cup {About[e]}
  /\ UNCHANGED <<rules, acked, standing, heard, owed, closed>>

Honoured(e) ==
  /\ Type[e] = "created" =>
       About[e] \in deleted \/ \A r \in standing[e] : Pair(r, e) \in owed
  /\ Type[e] = "deleted" => About[e] \in deleted

Close(e) ==
  /\ e \in acked
  /\ Honoured(e)
  /\ closed' = closed \cup {e}
  /\ UNCHANGED <<rules, acked, standing, heard, deleted, owed>>

Next ==
  \/ \E r \in Rules : AddRule(r) \/ DropRule(r)
  \/ \E e \in Events : Acknowledge(e) \/ Delete(e) \/ Close(e)
  \/ \E r \in Rules, e \in Events : Owe(r, e) \/ OweLate(r, e)

Spec == Init /\ [][Next]_obligationVars
=============================================================================
