------------------------------- MODULE Promise -------------------------------
(***************************************************************************)
(* What LinkPlease promises about one (rule, user): once promised, a DM is *)
(* owed until it is confirmed, given up or withdrawn; while the promise    *)
(* stands the user gets at most one DM, and it is only ever called sent    *)
(* when the user has it.  A withdrawn promise (its comment was deleted)    *)
(* leaves nothing behind: the pair may be promised again.                  *)
(***************************************************************************)
CONSTANTS
  Pairs,    \* (rule, user) pairs
  DMs       \* the DMs the sending side may create

VARIABLES
  owed, sent, failed,   \* the pairs promised so far, by their outcome
  inbox                 \* the DMs received under the standing promise

promiseVars == <<owed, sent, failed, inbox>>

Promised == owed \cup sent \cup failed

Init ==
  /\ owed = {} /\ sent = {} /\ failed = {}
  /\ inbox = [p \in Pairs |-> {}]

Owe(p) ==
  /\ p \notin Promised
  /\ owed' = owed \cup {p}
  /\ UNCHANGED <<sent, failed, inbox>>

\* The DM may still land after the sending side has given up.
Deliver(p, dm) ==
  /\ p \in owed \cup failed
  /\ inbox[p] = {}
  /\ inbox' = [inbox EXCEPT ![p] = {dm}]
  /\ UNCHANGED <<owed, sent, failed>>

Confirm(p) ==
  /\ p \in owed
  /\ inbox[p] # {}
  /\ owed' = owed \ {p} /\ sent' = sent \cup {p}
  /\ UNCHANGED <<failed, inbox>>

GiveUp(p) ==
  /\ p \in owed
  /\ owed' = owed \ {p} /\ failed' = failed \cup {p}
  /\ UNCHANGED <<sent, inbox>>

\* One deleted comment may stand behind several promises.
Withdraw(P) ==
  /\ P # {} /\ P \subseteq owed
  /\ owed' = owed \ P
  /\ inbox' = [p \in Pairs |-> IF p \in P THEN {} ELSE inbox[p]]
  /\ UNCHANGED <<sent, failed>>

Next ==
  \/ \E p \in Pairs : Owe(p) \/ Confirm(p) \/ GiveUp(p)
  \/ \E p \in Pairs, dm \in DMs : Deliver(p, dm)
  \/ \E P \in SUBSET Pairs : Withdraw(P)

Spec == Init /\ [][Next]_promiseVars
=============================================================================
