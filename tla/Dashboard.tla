------------------------------ MODULE Dashboard ------------------------------
(***************************************************************************)
(* The page /dashboard: the polls behind its panels and the form that      *)
(* creates a rule.  POST /rules is neither retried nor aborted: it ends    *)
(* with an answer or with the timer, and it may reach the backend after    *)
(* that.  A draft is a text of the two fields that validate accepts; any   *)
(* other text is NoDraft.  Editing makes a new draft, or none.             *)
(***************************************************************************)
EXTENDS Panels

CONSTANTS
  MaxPosts,    \* bound: POST /rules under way
  MaxDrafts    \* bound: texts the visitor types

ASSUME DashboardAssumption == MaxPosts \in Nat \ {0} /\ MaxDrafts \in Nat

VARIABLES
  page,      \* whether the visitor is on this page
  form,      \* the states of RuleForm
  drafts,    \* history: how many texts were typed
  posts,     \* POST /rules under way; a page that was left does not await them
  created,   \* history: the rules the backend made of each draft
  failed     \* history: the drafts whose creation the form reported as failed

formVars == <<page, form, drafts, posts, created, failed>>
dashboardVars == <<vars, formVars>>

PostSlots == 1 .. MaxPosts
Drafts == 1 .. MaxDrafts
NoDraft == 0

\* success: the rule it speaks of, as the version of the state it led to.
Form ==
  [draft : Drafts \cup {NoDraft}, submitting : BOOLEAN,
   serverError : BOOLEAN, success : Versions]

EmptyForm ==
  [draft |-> NoDraft, submitting |-> FALSE, serverError |-> FALSE, success |-> 0]

\* gone: it ended here, and may still be on its way to the backend.
Post ==
  [stage : {"sent", "created", "refused", "gone"}, draft : Drafts,
   awaited : BOOLEAN, rule : Versions]

FreePosts == {k \in PostSlots : posts[k] = None}

DashboardInit ==
  /\ Init
  /\ page = TRUE
  /\ form = EmptyForm /\ drafts = 0
  /\ posts = [k \in PostSlots |-> None]
  /\ created = [d \in Drafts |-> 0] /\ failed = {}

\* What the line beside the button says, when it says anything.
Told == form.serverError \/ form.success # 0

-----------------------------------------------------------------------------
(* RuleForm *)

\* The fields are disabled while a submission is under way.
Type ==
  /\ page /\ ~form.submitting /\ Spend
  /\ \/ /\ drafts < MaxDrafts /\ drafts' = drafts + 1
        /\ form' = [form EXCEPT !.draft = drafts']
     \/ /\ form.draft # NoDraft
        /\ form' = [form EXCEPT !.draft = NoDraft] /\ UNCHANGED drafts
  /\ UNCHANGED <<server, visible, poll, reqs, page, posts, created, failed>>

\* handleSubmit up to its await, for a text that validate rejects and for one
\* that it accepts.
Reject ==
  /\ page /\ ~form.submitting /\ form.draft = NoDraft
  /\ form' = [form EXCEPT !.serverError = FALSE, !.success = 0]
  /\ UNCHANGED <<vars, page, drafts, posts, created, failed>>

\* Mutant: handleSubmit without its early return.
SubmitAgain(k) ==
  /\ page /\ form.draft # NoDraft /\ k \in FreePosts
  /\ form' = [form EXCEPT !.serverError = FALSE, !.success = 0,
                          !.submitting = TRUE]
  /\ posts' = [posts EXCEPT ![k] =
       [stage |-> "sent", draft |-> form.draft, awaited |-> TRUE, rule |-> 0]]
  /\ UNCHANGED <<vars, page, drafts, created, failed>>

Submit(k) ==
  /\ page /\ ~form.submitting /\ form.draft # NoDraft /\ k \in FreePosts
  /\ form' = [form EXCEPT !.serverError = FALSE, !.success = 0,
                          !.submitting = TRUE]
  /\ posts' = [posts EXCEPT ![k] =
       [stage |-> "sent", draft |-> form.draft, awaited |-> TRUE, rule |-> 0]]
  /\ UNCHANGED <<vars, page, drafts, created, failed>>

\* The backend runs create_rule, for a request nobody awaits any more too.
Insert(k) ==
  /\ posts[k] # None /\ posts[k].stage \in {"sent", "gone"}
  /\ server < MaxVersion
  /\ server' = server + 1
  /\ created' = [created EXCEPT ![posts[k].draft] = @ + 1]
  /\ posts' = [posts EXCEPT ![k] =
       IF @.stage = "gone" THEN None
       ELSE [@ EXCEPT !.stage = "created", !.rule = server']]
  /\ UNCHANGED <<visible, poll, reqs, left, page, form, drafts, failed>>

\* The backend refuses it, or it is lost for good.
Refuse(k) ==
  /\ posts[k] # None /\ posts[k].stage \in {"sent", "gone"}
  /\ posts' = [posts EXCEPT ![k] =
       IF @.stage = "gone" THEN None ELSE [@ EXCEPT !.stage = "refused"]]
  /\ UNCHANGED <<vars, page, form, drafts, created, failed>>

\* Mutant: a new rule refreshes the statistics only.
OnCreatedStats == Refresh({"stats"} \cap Polls)

\* onCreated: a new rule changes the rules table and the statistics.
OnCreated == Refresh({"rules", "stats"} \cap Polls)

\* handleSubmit after its await, when the rule was created.
Succeed(k) ==
  /\ posts[k] # None /\ posts[k].stage = "created"
  /\ posts' = [posts EXCEPT ![k] = None]
  /\ IF posts[k].awaited
     THEN /\ form' = [form EXCEPT !.submitting = FALSE, !.success = posts[k].rule,
                                  !.draft = NoDraft]
          /\ OnCreated
     ELSE UNCHANGED <<form, poll, reqs>>
  /\ UNCHANGED <<server, visible, left, page, drafts, created, failed>>

\* Mutant: handleSubmit returns on a failure before setSubmitting(false).
ReportKeepsSubmitting(k) ==
  /\ form' = [form EXCEPT !.serverError = TRUE]
  /\ failed' = failed \cup {posts[k].draft}

\* Mutant: the fields are emptied whatever the answer was.
ReportClearsFields(k) ==
  /\ form' = [form EXCEPT !.submitting = FALSE, !.serverError = TRUE,
                          !.draft = NoDraft]
  /\ failed' = failed \cup {posts[k].draft}

Report(k) ==
  /\ form' = [form EXCEPT !.submitting = FALSE, !.serverError = TRUE]
  /\ failed' = failed \cup {posts[k].draft}

\* ... and when it was refused, when the answer broke off, and on the timer.
FailPost(k) ==
  /\ posts[k] # None /\ posts[k].stage # "gone"
  /\ posts' = [posts EXCEPT ![k] =
       IF @.stage = "sent" THEN [@ EXCEPT !.stage = "gone"] ELSE None]
  /\ IF posts[k].awaited THEN Report(k) ELSE UNCHANGED <<form, failed>>
  /\ UNCHANGED <<vars, page, drafts, created>>

-----------------------------------------------------------------------------
(* The page is left and opened again: its components start anew. *)

LeavePage ==
  /\ page /\ page' = FALSE /\ Spend
  /\ Leave(Polls)
  /\ form' = EmptyForm
  /\ posts' = [k \in PostSlots |-> IF posts[k] = None THEN None
                                   ELSE [posts[k] EXCEPT !.awaited = FALSE]]
  /\ UNCHANGED <<server, visible, drafts, created, failed>>

OpenPage ==
  /\ ~page /\ page' = TRUE
  /\ Open(Polls)
  /\ UNCHANGED <<server, visible, left, form, drafts, posts, created, failed>>

-----------------------------------------------------------------------------
PollsGoOn == Progress /\ UNCHANGED formVars

Answer(k) == Succeed(k) \/ FailPost(k)

DashboardNext ==
  \/ PollsGoOn
  \/ Disturbance /\ UNCHANGED formVars
  \/ Type
  \/ Reject
  \/ \E k \in PostSlots : Submit(k) \/ Insert(k) \/ Refuse(k) \/ Answer(k)
  \/ LeavePage
  \/ OpenPage

DashboardSpec == DashboardInit /\ [][DashboardNext]_dashboardVars

(***************************************************************************)
(* The event loop and the clock go on (Tick waits for answers that are not *)
(* late), and every POST meets an answer or its timer.  Nothing is         *)
(* promised of faults, of the backend or of the visitor.                   *)
(***************************************************************************)
DashboardLiveSpec ==
  /\ DashboardSpec
  /\ WF_dashboardVars(PollsGoOn)
  /\ \A k \in PostSlots : WF_dashboardVars(Answer(k))

-----------------------------------------------------------------------------
DashboardTypeOK ==
  /\ TypeOK
  /\ page \in BOOLEAN
  /\ form \in Form /\ drafts \in 0 .. MaxDrafts
  /\ posts \in [PostSlots -> Post \cup {None}]
  /\ created \in [Drafts -> Nat] /\ failed \subseteq Drafts

(***************************************************************************)
(* The panels show "No rules yet", rows, numbers or used slots only on the *)
(* word of the backend, whatever failed and in whatever order: an outage   *)
(* is a banner, never an empty table.  What stands in for a number that    *)
(* was never read stands beside a word that says so: the zeros of the      *)
(* cards under the banner, "none outstanding" beside "Connecting", and     *)
(* "0 shown" over a skeleton or a banner of its own panel.  Each clause is *)
(* about the panels of one poll: the header, the cards, the banners, the   *)
(* internals and the meter read stats, the feed and its caption jobs, the  *)
(* table rules; what the polls show side by side is not related (page.tsx, *)
(* rules-table.tsx, activity-feed.tsx, live-stats.tsx, rate-meter.tsx).    *)
(***************************************************************************)
NothingInvented ==
  \A p \in Polls : IsMounted(p) =>
    LET st == poll[p]
    IN  /\ RulesTable(st) = "empty" \/ ActivityFeed(st) = "empty" => st.data = 0
        /\ StatCards(st) = "zeros" => BackendDown(st)
        /\ LiveStats(st) = "banner" => st.error # "none"
        /\ LastReadingShown(st) => StatCards(st) = "numbers"
        /\ Header(st) = "updated" <=> Metric(st) = "number"
        /\ OldestUnconfirmed(st) = "none outstanding" =>
             st.data = 0 \/ Header(st) = "connecting"
        /\ JobsShown(st) = 0 =>
             st.data = 0 \/ ActivityFeed(st) \in {"skeleton", "banner"}
        /\ \A i \in DOMAIN RateMeter(st) :
             RateMeter(st)[i] = "used" => st.data # None /\ i <= st.data

(***************************************************************************)
(* A second rule is made of one text only after the form has said that the *)
(* first attempt failed: by then it may have succeeded, as a POST whose    *)
(* answer is late is not taken back (rule-form.tsx handleSubmit).          *)
(***************************************************************************)
OneRulePerDraft == \A d \in Drafts : created[d] > 1 => d \in failed

(***************************************************************************)
(* A text that is being submitted is taken out of the fields, on a page    *)
(* that stays, only when its rule exists (rule-form.tsx setKeyword,        *)
(* setMessage).                                                            *)
(***************************************************************************)
TypedIsKept ==
  [][/\ form.submitting /\ form.draft # NoDraft
     /\ form'.draft = NoDraft /\ page'
     => created[form.draft] > 0]_dashboardVars

(***************************************************************************)
(* "Rule created" never rests over a visible table without the rule, and   *)
(* with no error: either the refresh has yet to run, and until its cleanup *)
(* an older answer may still come and be shown, or a request is under way  *)
(* that is not given up and that will bring the rule (page.tsx             *)
(* refreshRules, use-poll.ts run and cancelled).                           *)
(***************************************************************************)
NewRuleIsListed ==
  \A p \in Polls \cap {"rules", "stats"} :
    /\ form.success # 0 /\ visible /\ poll[p].error = "none"
    /\ poll[p].data = None \/ poll[p].data < form.success
    => \/ poll[p].rerun
       \/ \E s \in Slots :
            /\ reqs[p][s] # None /\ ~reqs[p][s].cancelled
            /\ reqs[p][s].stage = "body" => reqs[p][s].read >= form.success

(***************************************************************************)
(* The button never stays on "Creating": each submission ends in a message *)
(* of success or of failure, unless the page is left (rule-form.tsx).      *)
(***************************************************************************)
SubmitIsAnswered ==
  form.submitting ~> \/ ~page
                     \/ ~form.submitting /\ Told
=============================================================================
