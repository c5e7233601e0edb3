----------------------------- MODULE AgentGraph -----------------------------
(***************************************************************************)
(* The support agent's graph (agent/graph.py, agent/nodes.py): the nodes   *)
(* retrieve, answer, confirm_resolution and escalate, their routing, and   *)
(* the ticket that escalate sends to Jira.                                 *)
(*                                                                         *)
(* One question is one thread.  LangGraph keeps the thread's state in an   *)
(* in-memory checkpointer, written after every node; a call of invoke is a *)
(* run, which loads the latest checkpoint, executes nodes on its own copy  *)
(* and returns when it pauses at an interrupt, reaches END, or a node      *)
(* raises.  A node that raised leaves the checkpoint before it, and the    *)
(* next invoke runs it again.                                              *)
(*                                                                         *)
(* The drivers are modules of their own: CliApp and StreamlitApp say who   *)
(* calls invoke and when, and pass the nodes the configuration they loaded.   *)
(* Neither sends a resume value the interrupts do not offer, so the        *)
(* ValueError for one (nodes.py:128-130, 160-164) has no action here.      *)
(* Left out: the text of questions, chunks, answers and drafts.            *)
(***************************************************************************)
EXTENDS Naturals

CONSTANTS
  Threads,         \* thread ids: one per question asked
  Runs,            \* calls of graph.invoke that can be in progress at once
  NoThread,        \* no thread, no run
  MaxAttempts,     \* MAX_ATTEMPTS, 2 in the code
  Faults           \* nodes that may raise; "rejected", Jira's response may not
                   \* be ok; "landed", a POST that timed out may have landed

Nodes == {"retrieve", "answer", "confirm_resolution", "escalate"}
FaultKinds == {"retrieve", "answer", "escalate", "landed", "rejected"}

ASSUME NoThreadAssumption == NoThread \notin Threads /\ NoThread \notin Runs
ASSUME MaxAttemptsAssumption == MaxAttempts \in Nat \ {0}
ASSUME FaultsAssumption == Faults \subseteq FaultKinds

VARIABLES
  ckpt,    \* the checkpointer: latest state of each thread
  run,     \* the invoke calls in progress
  issues   \* Jira's side: how many issues each thread created

graph == <<ckpt, run, issues>>

\* AgentConfig: the DRY_RUN gate, and whether all JIRA_* settings are there.
Config == [dry_run : BOOLEAN, jira : BOOLEAN]

\* Mutant: anything but an explicit "true" turns the dry run off.
TrustTrueOnly(value) == value = "true"

\* _parse_dry_run on the words that matter, "unset" for None.
ParseDryRun(value) == value \notin {"false", "0", "no"}
ForceDryRun(cfg) == [cfg EXCEPT !.dry_run = TRUE]

USER_ACTIONS == {"resolved", "retry", "ticket"}
TICKET_ACTIONS == {"create", "cancel"}

\* AgentState; "next" is the node the checkpoint is about to execute, an
\* answer is the number of the attempt it was generated in, 0 for None.  A
\* result other than "none" has a draft; ticket_result is None for "cancelled"
\* and "not_configured", which differ in what escalate prints.
State == [next : Nodes \cup {"absent", "END"}, answer : Nat, attempts : Nat,
          confident : BOOLEAN, resolved : BOOLEAN,
          user_action : USER_ACTIONS \cup {"none"},
          result : {"none", "cancelled", "not_configured", "dry_run", "created"}]
Phases == {"idle", "going", "paused", "ended", "raised"}
Run == [thread : Threads \cup {NoThread}, state : State,
        resume : USER_ACTIONS \cup TICKET_ACTIONS \cup {"none"}, phase : Phases]

InitialState ==
  [next |-> "retrieve", answer |-> 0, attempts |-> 0, confident |-> FALSE,
   resolved |-> FALSE, user_action |-> "none", result |-> "none"]
AbsentState == [InitialState EXCEPT !.next = "absent"]
NoRun == [thread |-> NoThread, state |-> AbsentState, resume |-> "none",
          phase |-> "idle"]

GraphTypeOK ==
  /\ ckpt \in [Threads -> State]
  /\ run \in [Runs -> Run]
  /\ issues \in [Threads -> Nat]

GraphInit ==
  /\ ckpt = [t \in Threads |-> AbsentState]
  /\ run = [r \in Runs |-> NoRun]
  /\ issues = [t \in Threads |-> 0]

-----------------------------------------------------------------------------
(* invoke                                                                  *)

\* graph.invoke(initial_state(question), thread)
Invoke(r, t) ==
  /\ run[r].phase = "idle"
  /\ ckpt[t].next = "absent"
  /\ ckpt' = [ckpt EXCEPT ![t] = InitialState]
  /\ run' = [run EXCEPT ![r] = [thread |-> t, state |-> InitialState,
                                resume |-> "none", phase |-> "going"]]
  /\ UNCHANGED issues

\* graph.invoke(Command(resume=v), thread): a thread at END has no node left
\* to execute and is returned as it is.
Resume(r, t, v) ==
  /\ run[r].phase \in {"idle", "paused"}
  /\ run' = [run EXCEPT ![r] =
       [thread |-> t, state |-> ckpt[t], resume |-> v,
        phase |-> IF ckpt[t].next = "END" THEN "ended" ELSE "going"]]
  /\ UNCHANGED <<ckpt, issues>>

\* A node returned: its update is merged and checkpointed.  The resume value
\* is there for the first node of an invoke only.
Advance(r, s) ==
  /\ ckpt' = [ckpt EXCEPT ![run[r].thread] = s]
  /\ run' = [run EXCEPT ![r] =
       [thread |-> run[r].thread, state |-> s, resume |-> "none",
        phase |-> IF s.next = "END" THEN "ended" ELSE "going"]]

At(r, node) == run[r].phase = "going" /\ run[r].state.next = node

\* interrupt() without a resume value: invoke returns with "__interrupt__".
Pause(r, cfg) ==
  /\ \/ At(r, "confirm_resolution")
     \/ ~cfg.dry_run /\ At(r, "escalate")
  /\ run[r].resume = "none"
  /\ run' = [run EXCEPT ![r].phase = "paused"]
  /\ UNCHANGED <<ckpt, issues>>

-----------------------------------------------------------------------------
(* The nodes, each with the edge out of it.                                *)

\* Mutant: a weak retrieval is answered from all the same.
AnswerAnyway(confident) == "answer"

RouteAfterRetrieve(confident) == IF confident THEN "answer" ELSE "escalate"

\* Mutant: one attempt too many.
RouteOneMore(action, attempts) ==
  IF action = "resolved" THEN "END"
  ELSE IF action = "retry" /\ attempts <= MaxAttempts THEN "retrieve"
  ELSE "escalate"

RouteAfterConfirm(action, attempts) ==
  IF action = "resolved" THEN "END"
  ELSE IF action = "retry" /\ attempts < MaxAttempts THEN "retrieve"
  ELSE "escalate"

\* Mutant: the attempt is not counted.
RetrieveUncounted(r) ==
  /\ At(r, "retrieve")
  /\ \E confident \in BOOLEAN :
       Advance(r, [run[r].state EXCEPT
                     !.confident = confident,
                     !.next = RouteAfterRetrieve(confident)])
  /\ UNCHANGED issues

Retrieve(r) ==
  /\ At(r, "retrieve")
  /\ \E confident \in BOOLEAN :
       Advance(r, [run[r].state EXCEPT
                     !.confident = confident,
                     !.attempts = @ + 1,
                     !.next = RouteAfterRetrieve(confident)])
  /\ UNCHANGED issues

\* Mutant: the edge from answer to confirm_resolution is missing.
AnswerAndEnd(r) ==
  /\ At(r, "answer")
  /\ Advance(r, [run[r].state EXCEPT !.answer = run[r].state.attempts, !.next = "END"])
  /\ UNCHANGED issues

Answer(r) ==
  /\ At(r, "answer")
  /\ Advance(r, [run[r].state EXCEPT !.answer = run[r].state.attempts,
                                     !.next = "confirm_resolution"])
  /\ UNCHANGED issues

\* Mutant: whoever does not want a ticket counts as helped.
ResolvedUnlessTicket(r) ==
  LET action == run[r].resume
  IN  /\ At(r, "confirm_resolution")
      /\ action \in USER_ACTIONS
      /\ Advance(r, [run[r].state EXCEPT
                       !.user_action = action,
                       !.resolved = (action # "ticket"),
                       !.next = RouteAfterConfirm(action, run[r].state.attempts)])
      /\ UNCHANGED issues

ConfirmResolution(r) ==
  LET action == run[r].resume
  IN  /\ At(r, "confirm_resolution")
      /\ action \in USER_ACTIONS
      /\ Advance(r, [run[r].state EXCEPT
                       !.user_action = action,
                       !.resolved = (action = "resolved"),
                       !.next = RouteAfterConfirm(action, run[r].state.attempts)])
      /\ UNCHANGED issues

EscalateWith(r, result) ==
  Advance(r, [run[r].state EXCEPT !.result = result, !.next = "END"])

\* Mutant: a draft is sent whenever the user did not cancel.
SendUnlessCancelled(r, cfg) == cfg.dry_run \/ run[r].resume # "cancel"

\* create_issue is reached: at once under dry_run, after "create" otherwise.
Confirmed(r, cfg) == cfg.dry_run \/ run[r].resume = "create"

\* The dry run echoes the payload, after the same check of the settings.
EscalateDryRun(r, cfg) ==
  /\ cfg.jira
  /\ EscalateWith(r, "dry_run")
  /\ UNCHANGED issues

EscalateCancel(r) ==
  /\ run[r].resume = "cancel"
  /\ EscalateWith(r, "cancelled")
  /\ UNCHANGED issues

\* Mutant: the except branch catches a time-out like any other failure.
CatchEverything(r, cfg) ==
  /\ ~cfg.jira \/ ~cfg.dry_run
  /\ EscalateWith(r, "not_configured")
  /\ \/ UNCHANGED issues
     \/ cfg.jira /\ issues' = [issues EXCEPT ![run[r].thread] = @ + 1]

\* create_issue raised RuntimeError, for missing settings or because the
\* response was not ok: the draft is shown as "not configured".
EscalateUnsent(r, cfg) ==
  /\ ~cfg.jira \/ (~cfg.dry_run /\ "rejected" \in Faults)
  /\ EscalateWith(r, "not_configured")
  /\ UNCHANGED issues

CreateIssue(r) == issues' = [issues EXCEPT ![run[r].thread] = @ + 1]

EscalatePost(r, cfg) ==
  /\ cfg.jira
  /\ EscalateWith(r, "created")
  /\ CreateIssue(r)

Escalate(r, cfg) ==
  /\ At(r, "escalate")
  /\ \/ ~cfg.dry_run /\ EscalateCancel(r)
     \/ /\ Confirmed(r, cfg)
        /\ \/ cfg.dry_run /\ EscalateDryRun(r, cfg)
           \/ ~cfg.dry_run /\ EscalatePost(r, cfg)
           \/ EscalateUnsent(r, cfg)

\* A node raises what it does not catch: the index or the model is down, or
\* the POST to Jira timed out, after the issue was created or before.
Raise(r, cfg) ==
  /\ run[r].phase = "going"
  /\ run[r].state.next \in Faults
  /\ \/ /\ run[r].state.next \in {"retrieve", "answer"}
        /\ UNCHANGED issues
     \/ /\ At(r, "escalate")
        /\ ~cfg.dry_run /\ cfg.jira /\ Confirmed(r, cfg)
        /\ \/ UNCHANGED issues
           \/ "landed" \in Faults /\ CreateIssue(r)
  /\ run' = [run EXCEPT ![r].phase = "raised"]
  /\ UNCHANGED ckpt

Execute(r, cfg) ==
  \/ Retrieve(r)
  \/ Answer(r)
  \/ ConfirmResolution(r)
  \/ Escalate(r, cfg)
  \/ Pause(r, cfg)
-----------------------------------------------------------------------------
(* Properties of every driver's behaviours.                                *)

\* No copy of a thread's state counts more than MAX_ATTEMPTS attempts, whatever
\* failed nodes are run again (MAX_ATTEMPTS, graph.py:41; route_after_confirm,
\* graph.py:68-76).  It is the count of that copy: runs that share a thread
\* each count in their own (see AttemptsBounded in StreamlitApp).
CountBounded ==
  /\ \A t \in Threads : ckpt[t].attempts <= MaxAttempts
  /\ \A r \in Runs : run[r].state.attempts <= MaxAttempts

\* No answer is generated from a retrieval that was not confident, and a thread
\* that asks its user asks about the last attempt its state counts
\* (route_after_retrieve, graph.py:60-64).
AsksOfOwnAttempt ==
  \A t \in Threads : ckpt[t].next = "confirm_resolution" =>
    ckpt[t].confident /\ ckpt[t].answer = ckpt[t].attempts /\ ckpt[t].answer > 0
=============================================================================
