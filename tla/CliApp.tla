------------------------------- MODULE CliApp -------------------------------
(***************************************************************************)
(* The command line driver of the agent graph (app.py): one question at a  *)
(* time, a loop that answers every interrupt and resumes the same thread.  *)
(*                                                                         *)
(* run_question catches nothing: when a node raises, the process ends and  *)
(* the in-memory checkpointer with it.  The user may start it again and    *)
(* ask again, on a new thread.  Input the prompts reject is asked for      *)
(* again (app.py:31-48) and is not a step here.                            *)
(***************************************************************************)
EXTENDS AgentGraph

CONSTANTS
  Run1,        \* the one invoke the process can be in: Runs = {Run1}
  Off,         \* no process runs
  DryRunWords  \* what DRY_RUN may be set to, "unset" included

ASSUME CliAssumption == Run1 \in Runs /\ Off \notin Threads \cup {NoThread}

VARIABLES
  env,      \* what .env and the environment say: the DRY_RUN word, JIRA_*
  thread,   \* the thread of the question being worked on, NoThread at the
            \* "Your question" prompt, Off when no process runs
  asked,    \* thread ids used so far: uuid4 never repeats one
  choices,  \* [Threads -> set of resume values the user chose on it]
  told      \* [Threads -> what the user last read of the question's outcome]

cliVars == <<env, thread, asked, choices, told>>
vars == <<graph, cliVars>>

Told == {"nothing", "crashed", "resolved",
         "cancelled", "not_configured", "dry_run", "created"}

TypeOK ==
  /\ GraphTypeOK
  /\ env \in [word : DryRunWords, jira : BOOLEAN]
  /\ thread \in Threads \cup {NoThread, Off}
  /\ asked \subseteq Threads
  /\ choices \in [Threads -> SUBSET (USER_ACTIONS \cup TICKET_ACTIONS)]
  /\ told \in [Threads -> Told]

Init ==
  /\ GraphInit
  /\ env \in [word : DryRunWords, jira : BOOLEAN]
  /\ thread = Off
  /\ asked = {}
  /\ choices = [t \in Threads |-> {}]
  /\ told = [t \in Threads |-> "nothing"]

\* main loads the settings as they are now.
Launch ==
  /\ thread = Off
  /\ thread' = NoThread
  /\ env' \in [word : DryRunWords, jira : BOOLEAN]
  /\ UNCHANGED <<graph, asked, choices, told>>

\* The process is over: what the checkpointer and the run held is gone.
Exit ==
  /\ thread' = Off
  /\ UNCHANGED env
  /\ ckpt' = [t \in Threads |-> AbsentState]
  /\ run' = [r \in Runs |-> NoRun]

\* An empty question quits.
Quit ==
  /\ thread = NoThread
  /\ Exit
  /\ UNCHANGED <<issues, asked, choices, told>>

AskQuestion(t) ==
  /\ thread = NoThread
  /\ t \notin asked
  /\ Invoke(Run1, t)
  /\ thread' = t
  /\ asked' = asked \cup {t}
  /\ UNCHANGED <<env, choices, told>>

\* load_settings
Settings == [dry_run |-> ParseDryRun(env.word), jira |-> env.jira]

Work ==
  /\ Execute(Run1, Settings)
  /\ UNCHANGED cliVars

\* _handle_interrupt asks what the payload's type says, run_question resumes.
Options(paused) == IF paused = "escalate" THEN TICKET_ACTIONS ELSE USER_ACTIONS

HandleInterrupt(v) ==
  /\ thread \in Threads
  /\ run[Run1].phase = "paused"
  /\ v \in Options(run[Run1].state.next)
  /\ Resume(Run1, thread, v)
  /\ choices' = [choices EXCEPT ![thread] = @ \cup {v}]
  /\ UNCHANGED <<env, thread, asked, told>>

\* What the end of run_question and the prints of escalate leave on screen.
Outcome(state) == IF state.resolved THEN "resolved" ELSE state.result

Finish ==
  /\ thread \in Threads
  /\ run[Run1].phase = "ended"
  /\ told' = [told EXCEPT ![thread] = Outcome(run[Run1].state)]
  /\ run' = [run EXCEPT ![Run1] = NoRun]
  /\ thread' = NoThread
  /\ UNCHANGED <<ckpt, issues, env, asked, choices>>

Fail == Raise(Run1, Settings) /\ UNCHANGED cliVars

\* Mutant: the loop catches the exception and invokes the thread again.
InvokeAgain ==
  /\ run[Run1].phase = "raised"
  /\ run' = [run EXCEPT ![Run1].phase = "going"]
  /\ UNCHANGED <<ckpt, issues, cliVars>>

\* The exception reaches the top and the process ends with a traceback.
Crash ==
  /\ run[Run1].phase = "raised"
  /\ Exit
  /\ told' = [told EXCEPT ![thread] = "crashed"]
  /\ UNCHANGED <<issues, asked, choices>>

\* Ctrl-C, or the terminal is closed.
Kill ==
  /\ thread \in Threads
  /\ Exit
  /\ told' = [told EXCEPT ![thread] = "crashed"]
  /\ UNCHANGED <<issues, asked, choices>>

Reply == \E v \in USER_ACTIONS \cup TICKET_ACTIONS : HandleInterrupt(v)

Next ==
  \/ Launch
  \/ Quit
  \/ \E t \in Threads : AskQuestion(t)
  \/ Work
  \/ Reply
  \/ Finish
  \/ Fail
  \/ Crash
  \/ Kill

Spec == Init /\ [][Next]_vars

\* The graph executes, the user answers the prompts, one way or another.
FairSpec == Spec /\ WF_vars(Work) /\ WF_vars(Reply) /\ WF_vars(Finish) /\ WF_vars(Crash)
-----------------------------------------------------------------------------
(* Properties                                                              *)

\* A question as its user sees it: open until the outcome is on the screen.
Status(t) ==
  IF told[t] = "resolved" THEN "resolved"
  ELSE IF told[t] = "crashed" THEN "lost"
  ELSE IF told[t] # "nothing" THEN "escalated"
  ELSE IF t \notin asked THEN "new"
  ELSE IF ckpt[t].next \in {"retrieve", "answer"} THEN "searching"
  ELSE IF ckpt[t].next = "confirm_resolution" \/ ckpt[t].resolved THEN "asking"
  ELSE "escalating"

Request == INSTANCE SupportRequest WITH
  status <- [t \in Threads |-> Status(t)],
  tries <- [t \in Threads |-> IF told[t] = "nothing" THEN ckpt[t].attempts ELSE 0],
  filed <- issues

\* The command line implements the promise made about a question, through
\* failing nodes, lost responses and killed processes (run_question,
\* app.py:65-82, over build_graph, graph.py:79-103).
ImplementsRequest == Request!Spec

\* One question makes one issue at most, a POST that timed out after it
\* landed included: nobody runs escalate a second time on its thread
\* (run_question, app.py:65-75; create_issue, jira_tool.py:64-75).
AtMostOneIssue == \A t \in Threads : issues[t] <= 1

\* No real ticket is created without confirmation: an issue appears only on
\* the thread of a question on which the user chose "create" and did not choose
\* "cancel", while DRY_RUN says no in so many words
\* (escalate, nodes.py:148-175; _parse_dry_run, settings.py:25-33).
ConfirmedIssue(t) ==
  /\ env.word \in {"false", "0", "no"}
  /\ "create" \in choices[t] /\ "cancel" \notin choices[t]
NoIssueUnconfirmed ==
  [][\A t \in Threads : issues'[t] # issues[t] => ConfirmedIssue(t)]_vars

\* The outcome the user reads is the outcome Jira has: a link means an issue,
\* any other ending but a crash means none (run_question, app.py:77-82).
ToldWhatHappened ==
  \A t \in Threads :
    /\ told[t] = "created" => issues[t] = 1
    /\ told[t] \in {"resolved", "cancelled", "not_configured", "dry_run"} => issues[t] = 0

\* Every question comes to an end: however often the user asks again, the
\* graph reaches END or the process stops (the loop of app.py:74-75).
EveryQuestionEnds == \A t \in Threads : (thread = t) ~> (thread # t)
=============================================================================
