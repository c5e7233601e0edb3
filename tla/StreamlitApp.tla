---------------------------- MODULE StreamlitApp ----------------------------
(***************************************************************************)
(* The Streamlit driver of the agent graph (demo/streamlit_app.py): one    *)
(* browser session over the graph that get_graph caches.                   *)
(*                                                                         *)
(* Every click or message starts the script afresh in a thread of its own, *)
(* at once: a script that is still inside graph.invoke is told to stop,    *)
(* goes on to the end of that call, and is dropped before it touches the   *)
(* session state again.  So two runs of one thread can be in progress, and *)
(* what the page shows is what it was rendered with, not what the session  *)
(* or the checkpointer holds by now.                                       *)
(* Left out: the sidebar's ingestion (module Ingestor), and a reload of    *)
(* the page or a restart of the server, which leave the session's threads  *)
(* behind for good.                                                        *)
(***************************************************************************)
EXTENDS AgentGraph

CONSTANTS
  Patient,     \* BOOLEAN, whether the user waits for a script to finish
  LiveConfig   \* what load_settings answers for the demo's environment

ASSUME StreamlitAssumption == Patient \in BOOLEAN /\ LiveConfig \in Config

VARIABLES
  pending,   \* session_state.pending: the thread whose buttons are due
  page,      \* the pending the page was last rendered with
  script,    \* the run the current script waits for, NoThread between scripts
  step,      \* how far that script got: "rest", "invoke", "handled"
  asked,     \* thread ids used so far
  shown,     \* history: the latest answer displayed for each thread
  clicks,    \* resume values the user clicked on each thread
  outcome,   \* history: the outcome messages displayed for each thread
  overlapped, \* history: the threads that an invoke has resumed while another
              \* was still at work on them
  retrieved   \* history: how many retrievals each thread has had, no longer
              \* counted (0) once it is overlapped nor once past MaxAttempts

session == <<pending, page, script, step, asked, shown, clicks, outcome>>
tally == <<overlapped, retrieved>>
vars == <<graph, session, tally>>

OutcomeMessages == {"resolved", "dry_run", "not_configured"}

TypeOK ==
  /\ GraphTypeOK
  /\ {pending, page} \subseteq Threads \cup {NoThread}
  /\ script \in Runs \cup {NoThread}
  /\ step \in {"rest", "invoke", "handled"}
  /\ asked \subseteq Threads
  /\ shown \in [Threads -> Nat]
  /\ clicks \in [Threads -> SUBSET USER_ACTIONS]
  /\ outcome \in [Threads -> SUBSET OutcomeMessages]
  /\ retrieved \in [Threads -> Nat]
  /\ overlapped \subseteq Threads

Init ==
  /\ GraphInit
  /\ pending = NoThread /\ page = NoThread
  /\ script = NoThread /\ step = "rest"
  /\ asked = {}
  /\ shown = [t \in Threads |-> 0]
  /\ clicks = [t \in Threads |-> {}]
  /\ outcome = [t \in Threads |-> {}]
  /\ retrieved = [t \in Threads |-> 0]
  /\ overlapped = {}

\* Mutant: the demo runs with what the environment says.
LoadedConfig == LiveConfig

demo_config == ForceDryRun(LiveConfig)

\* The page takes clicks and messages at rest, and while a script runs.
Interactive == step = "rest" \/ ~Patient

\* A new script runs to its invoke; the one before it has lost its session.
StartScript(r) ==
  /\ script' = r
  /\ step' = "invoke"
  /\ page' = pending

\* The chat input, enabled when the page was rendered without a pending thread.
AskQuestion(t) ==
  /\ Interactive
  /\ page = NoThread
  /\ t \notin asked
  /\ asked' = asked \cup {t}
  /\ \E r \in Runs : Invoke(r, t) /\ StartScript(r)
  /\ UNCHANGED <<pending, shown, clicks, outcome, tally>>

\* A stopped script's invoke still executes nodes of the thread.
AtWork(t) == \E r \in Runs : run[r].thread = t /\ run[r].phase = "going"

\* One of the three buttons; the thread is session_state.pending's, which may
\* have changed since the button was rendered.
Click(action) ==
  /\ Interactive
  /\ page # NoThread
  /\ pending # NoThread
  /\ \E r \in Runs :
       run[r].phase = "idle" /\ Resume(r, pending, action) /\ StartScript(r)
  /\ clicks' = [clicks EXCEPT ![pending] = @ \cup {action}]
  /\ overlapped' = overlapped \cup {t \in {pending} : AtWork(t)}
  /\ retrieved' = [t \in Threads |-> IF t \in overlapped' THEN 0 ELSE retrieved[t]]
  /\ UNCHANGED <<pending, asked, shown, outcome>>

\* The button is not rendered again: the click has no effect.
ClickTooLate ==
  /\ Interactive
  /\ page # NoThread
  /\ pending = NoThread
  /\ page' = NoThread
  /\ script' = NoThread
  /\ step' = "rest"
  /\ UNCHANGED <<graph, pending, asked, shown, clicks, outcome, tally>>

\* The graph executes, in the current script's thread or in a stopped one's.
Work(r) ==
  /\ Execute(r, demo_config)
  /\ retrieved' = [t \in Threads |->
       IF /\ At(r, "retrieve") /\ t \in {run[r].thread} \ overlapped
          /\ retrieved[t] <= MaxAttempts
       THEN retrieved[t] + 1 ELSE retrieved[t]]
  /\ UNCHANGED <<session, overlapped>>
Fail(r) == Raise(r, demo_config) /\ UNCHANGED <<session, tally>>

Returned(r) == run[r].phase \in {"paused", "ended", "raised"}

\* A stopped script's invoke returns: nobody reads its result.
Drop(r) ==
  /\ r # script
  /\ Returned(r)
  /\ run' = [run EXCEPT ![r] = NoRun]
  /\ UNCHANGED <<ckpt, issues, session, tally>>

\* Mutant: a second answer of a thread is not put on the page.
ShowFirstAnswer ==
  /\ step = "invoke"
  /\ run[script].phase = "paused"
  /\ shown' = [shown EXCEPT ![run[script].thread] =
                 IF @ = 0 THEN run[script].state.answer ELSE @]
  /\ step' = "handled"
  /\ UNCHANGED <<graph, pending, page, script, asked, clicks, outcome, tally>>

\* handle_result, the first line of each branch.
ShowAnswer ==
  /\ step = "invoke"
  /\ run[script].phase = "paused"
  /\ shown' = [shown EXCEPT ![run[script].thread] = run[script].state.answer]
  /\ step' = "handled"
  /\ UNCHANGED <<graph, pending, page, script, asked, clicks, outcome, tally>>

\* Mutant: the finished thread stays pending.
KeepPending ==
  /\ step = "invoke"
  /\ run[script].phase = "ended"
  /\ step' = "handled"
  /\ UNCHANGED <<graph, pending, page, script, asked, shown, clicks, outcome, tally>>

ClearPending ==
  /\ step = "invoke"
  /\ run[script].phase = "ended"
  /\ pending' = NoThread
  /\ step' = "handled"
  /\ UNCHANGED <<graph, page, script, asked, shown, clicks, outcome, tally>>

render_outcome(state) == IF state.resolved THEN "resolved" ELSE state.result

\* The script is over and st.rerun renders the page.
EndScript(thread) ==
  /\ pending' = thread
  /\ page' = thread
  /\ script' = NoThread
  /\ step' = "rest"
  /\ run' = [run EXCEPT ![script] = NoRun]
  /\ UNCHANGED <<ckpt, issues, asked, tally>>

\* handle_result, the second line of each branch, then st.rerun.
SetPending ==
  /\ step = "handled"
  /\ run[script].phase = "paused"
  /\ EndScript(run[script].thread)
  /\ UNCHANGED <<shown, clicks, outcome>>

ShowOutcome ==
  /\ step = "handled"
  /\ run[script].phase = "ended"
  /\ outcome' = [outcome EXCEPT ![run[script].thread] =
                   @ \cup {render_outcome(run[script].state)}]
  /\ EndScript(pending)
  /\ UNCHANGED <<shown, clicks>>

\* graph.invoke raised: the traceback ends the script, pending stays.
ShowException ==
  /\ step = "invoke"
  /\ run[script].phase = "raised"
  /\ script' = NoThread
  /\ step' = "rest"
  /\ run' = [run EXCEPT ![script] = NoRun]
  /\ UNCHANGED <<ckpt, issues, pending, page, asked, shown, clicks, outcome, tally>>

Press == \E action \in USER_ACTIONS : Click(action)
Handle == ShowAnswer \/ ClearPending \/ SetPending \/ ShowOutcome \/ ShowException

Next ==
  \/ \E t \in Threads : AskQuestion(t)
  \/ Press
  \/ ClickTooLate
  \/ Handle
  \/ \E r \in Runs : Work(r) \/ Fail(r) \/ Drop(r)

Spec == Init /\ [][Next]_vars

\* Scripts and invoke calls go on; a user who is asked presses some button.
FairSpec ==
  /\ Spec
  /\ WF_vars(Press) /\ WF_vars(Handle)
  /\ \A r \in Runs : WF_vars(Work(r)) /\ WF_vars(Drop(r))
-----------------------------------------------------------------------------
(* Properties                                                              *)

\* No question is retrieved for more than MAX_ATTEMPTS times, whatever raised
\* nodes are run again, as long as no click resumed its thread while an earlier
\* invoke was at work on it (MAX_ATTEMPTS, graph.py:39-41; nodes.py:90;
\* route_after_confirm, graph.py:68-76).  Two invokes that did share a thread
\* start from the same count and may each use up what it leaves.
AttemptsBounded ==
  \A t \in Threads \ overlapped : retrieved[t] <= MaxAttempts

\* A thread that asks its user asks about an answer from a confident retrieval,
\* the last one its own state counts, and, unless two invokes shared the
\* thread, the last that anyone made for it (route_after_retrieve,
\* graph.py:60-64).  Of two that did share it the slower may put its question
\* over what a later attempt of the other found.
AsksAboutLatestAnswer ==
  /\ AsksOfOwnAttempt
  /\ \A t \in Threads \ overlapped :
       ckpt[t].next = "confirm_resolution" => ckpt[t].answer = retrieved[t]

\* The demo never reaches Jira, whatever the environment says: no issue is
\* created, and the confirm_ticket pause handle_result cannot handle does not
\* occur (demo_config, streamlit_app.py:28-30; 93-96).
DemoNeverReachesJira ==
  /\ \A t \in Threads : issues[t] = 0
  /\ \A r \in Runs : run[r].phase = "paused" => run[r].state.next = "confirm_resolution"

\* A question ends once: two impatient clicks on one thread never put two
\* outcomes on the page, and never an outcome under a question whose buttons
\* are still there (handle_result, streamlit_app.py:89-101).
OneOutcome ==
  \A t \in Threads : outcome[t] # {} => pending # t /\ \E m \in OutcomeMessages : outcome[t] = {m}

\* A question shown as resolved was resolved by its user: "resolved" was
\* clicked after an answer was on the page (confirm_resolution,
\* nodes.py:115-132; state.py:37).
ResolvedByUser ==
  \A t \in Threads : "resolved" \in outcome[t] => "resolved" \in clicks[t] /\ shown[t] > 0

\* What the page of a question with buttons shows is the state the graph was left
\* in: it is paused for them, and its latest answer is the one on the page.
ShowsState(t) ==
  ckpt[t].next = "confirm_resolution" /\ shown[t] = ckpt[t].answer

\* The page of a user who waits shows the state the graph was left in, or the
\* answer before a retry whose node raised: never an answer the user was not
\* asked about, never buttons over an outcome (handle_result 89-101).
PageShowsStateOrRetry ==
  step = "rest" /\ pending # NoThread =>
    \/ ShowsState(pending)
    \/ /\ ckpt[pending].next \in Faults
       /\ ckpt[pending].user_action = "retry"
       /\ 0 < shown[pending] /\ shown[pending] = ckpt[pending].answer

\* Once nodes stop raising, a question with buttons gets an outcome, or a new
\* answer at most MaxAttempts times and then an outcome, even when the buttons
\* belong to a run that raised (main, streamlit_app.py:119-131).
EveryQuestionEnds ==
  <>[][\A r \in Runs : ~Fail(r)]_vars => \A t \in Threads : (pending = t) ~> (outcome[t] # {})

\* A question as its user sees it: open until its outcome is on the page.
Status(t) ==
  IF outcome[t] = {"resolved"} THEN "resolved"
  ELSE IF outcome[t] # {} THEN "escalated"
  ELSE IF t \notin asked THEN "new"
  ELSE IF ckpt[t].next \in {"retrieve", "answer"} THEN "searching"
  ELSE IF ckpt[t].next = "confirm_resolution" \/ ckpt[t].resolved THEN "asking"
  ELSE "escalating"

Request == INSTANCE SupportRequest WITH
  status <- [t \in Threads |-> Status(t)],
  tries <- [t \in Threads |-> IF outcome[t] = {} THEN ckpt[t].attempts ELSE 0],
  filed <- issues

\* The page implements the promise made about a question, for a user who waits
\* for it, through nodes that raise and are run again by the next click.
ImplementsRequest == Request!Spec
=============================================================================
