---------------------------- MODULE CliAppProofs ----------------------------
(***************************************************************************)
(* Theorems about the command line, for any questions, any DRY_RUN words,  *)
(* any number of attempts and any faults: types, the bound on attempts,    *)
(* what may happen in Jira, what the user reads, and that every step keeps *)
(* the promise of SupportRequest.                                          *)
(*                                                                         *)
(* The invariant ties the process to the one run and the one thread it     *)
(* works on (ProcessInv), says where that run can stand (PhaseInv), what   *)
(* the user has chosen on the thread by then (ChoiceInv) and what Jira has *)
(* got (IssueInv).                                                         *)
(***************************************************************************)
EXTENDS CliApp, AgentGraphProofs

Phase == run[Run1].phase
S == run[Run1].state

ProcessInv ==
  /\ Phase # "idle" <=> thread \in Threads
  /\ thread \in Threads =>
       /\ run[Run1].thread = thread /\ S = ckpt[thread]
       /\ thread \in asked /\ told[thread] = "nothing"
  /\ \A t \in Threads :
       /\ t \notin asked => told[t] = "nothing" /\ ckpt[t] = AbsentState
       /\ t \in asked /\ t # thread => told[t] # "nothing"

PhaseInv ==
  /\ Phase \in {"going", "paused", "raised"} => S.next \in Nodes
  /\ Phase = "ended" => S.next = "END"
  /\ Phase = "paused" =>
       /\ run[Run1].resume = "none"
       /\ S.next = "confirm_resolution" \/ (S.next = "escalate" /\ ~Settings.dry_run)
  /\ Phase = "going" /\ run[Run1].resume \in TICKET_ACTIONS =>
       S.next = "escalate" /\ ~Settings.dry_run

ChoiceInv ==
  /\ Phase \in {"going", "paused"} =>
       /\ "cancel" \in choices[thread] => run[Run1].resume = "cancel"
       /\ run[Run1].resume = "create" => "create" \in choices[thread]
  /\ \A t \in Threads : t \notin asked => choices[t] = {}

IssueInv ==
  /\ \A t \in Threads : issues[t] <= 1 /\ (t \notin asked => issues[t] = 0)
  /\ Phase \in {"going", "paused"} => issues[thread] = 0
  /\ Phase = "ended" => issues[thread] = IF S.result = "created" THEN 1 ELSE 0
  /\ ToldWhatHappened

TypeInv == TypeOK /\ GraphInv

IInv == TypeInv /\ ProcessInv /\ PhaseInv /\ ChoiceInv /\ IssueInv

LEMMA SettingsType ==
  ASSUME TypeOK
  PROVE  Settings \in Config
BY DEF TypeOK, Settings, Config, ParseDryRun

LEMMA Start == Init => IInv
<1> SUFFICES ASSUME Init PROVE IInv
  OBVIOUS
<1>1. TypeInv
  BY GraphStart DEF Init, TypeInv, TypeOK, GraphInv, Told
<1>2. ProcessInv
  BY FirstStates, CliAssumption DEF Init, GraphInit, ProcessInv, Phase
<1>3. PhaseInv /\ ChoiceInv /\ IssueInv
  BY FirstStates, CliAssumption
  DEF Init, GraphInit, PhaseInv, ChoiceInv, IssueInv, ToldWhatHappened, Phase
<1> QED BY <1>1, <1>2, <1>3 DEF IInv

-----------------------------------------------------------------------------
(* Types                                                                   *)

LEMMA ExitKeeps ==
  ASSUME GraphInv, Exit, UNCHANGED issues
  PROVE  GraphInv'
BY FirstStates DEF Exit, GraphInv, GraphTypeOK, Bound

LEMMA TypeStep == IInv /\ [Next]_vars => TypeInv'
<1> SUFFICES ASSUME IInv, [Next]_vars PROVE TypeInv'
  OBVIOUS
<1> USE CliAssumption
<1>0. TypeInv /\ TypeOK /\ GraphInv /\ ProcessInv /\ Settings \in Config
  BY SettingsType DEF IInv, TypeInv
<1>1. CASE Launch
  BY <1>0, <1>1 DEF Launch, TypeInv, TypeOK, graph, GraphInv, GraphTypeOK, Bound
<1>2. CASE Quit
  BY <1>0, <1>2, ExitKeeps DEF Quit, Exit, TypeInv, TypeOK, GraphInv
<1>3. ASSUME NEW t \in Threads, AskQuestion(t) PROVE TypeInv'
  BY <1>0, <1>3, InvokeKeeps DEF AskQuestion, TypeInv, TypeOK, GraphInv
<1>4. CASE Work
  BY <1>0, <1>4, ExecuteKeeps DEF Work, cliVars, TypeInv, TypeOK, GraphInv
<1>5. ASSUME NEW v \in USER_ACTIONS \cup TICKET_ACTIONS, HandleInterrupt(v) PROVE TypeInv'
  <2>1. GraphInv'
    BY <1>0, <1>5, ResumeKeeps DEF HandleInterrupt
  <2> QED BY <1>0, <1>5, <2>1 DEF HandleInterrupt, TypeInv, TypeOK, GraphInv
<1>6. CASE Finish
  <2>1. GraphInv'
    BY <1>0, <1>6, DropKeeps DEF Finish
  <2>2. Outcome(S) \in Told
    <3>1. S.next = "END" /\ Sound(S) /\ S \in State
      BY <1>0, <1>6 DEF Finish, IInv, PhaseInv, Phase, S, GraphInv, GraphTypeOK, Run
    <3> QED BY <3>1 DEF Outcome, Told, Sound, State
  <2> QED BY <1>0, <1>6, <2>1, <2>2 DEF Finish, TypeInv, TypeOK, GraphInv, S
<1>7. CASE Fail
  BY <1>0, <1>7, RaiseKeeps DEF Fail, cliVars, TypeInv, TypeOK, GraphInv
<1>8. CASE Crash \/ Kill
  <2>1. GraphInv' /\ thread' = Off
    BY <1>0, <1>8, ExitKeeps DEF Crash, Kill, Exit
  <2>2. told' \in [Threads -> Told] /\ UNCHANGED <<env, asked, choices>>
    BY <1>0, <1>8 DEF Crash, Kill, Exit, TypeOK, Told
  <2> QED BY <1>0, <2>1, <2>2 DEF TypeInv, TypeOK, GraphInv
<1>9. CASE UNCHANGED vars
  BY <1>0, <1>9 DEF vars, graph, cliVars, TypeInv, TypeOK, GraphInv, GraphTypeOK, Bound
<1> QED BY <1>1, <1>2, <1>3, <1>4, <1>5, <1>6, <1>7, <1>8, <1>9 DEF Next, Reply

-----------------------------------------------------------------------------
(* The process and its thread                                              *)

RestInv == ProcessInv /\ PhaseInv /\ ChoiceInv /\ IssueInv

\* A node returned: what the thread's new state is like, and what Jira has got.
Returned(s) ==
  /\ s \in State /\ Sound(s) /\ s.next \in Nodes \cup {"END"} /\ Advance(Run1, s)
  /\ \/ UNCHANGED issues /\ s.result # "created"
     \/ /\ s.result = "created" /\ s.next = "END" /\ CreateIssue(Run1)
        /\ ~Settings.dry_run /\ run[Run1].resume = "create"
  /\ s.next # "END" => run[Run1].resume \notin TICKET_ACTIONS

LEMMA WorkReturns ==
  ASSUME IInv, Work
  PROVE  /\ Phase = "going" /\ thread \in Threads
         /\ Pause(Run1, Settings) \/ \E s : Returned(s)
<1> USE CliAssumption
<1>0. /\ GraphInv /\ Settings \in Config /\ Execute(Run1, Settings)
      /\ Phase = "going" => thread \in Threads
  BY SettingsType DEF IInv, TypeInv, Work, ProcessInv
<1>1. Phase = "going"
  BY <1>0 DEF Execute, Retrieve, Answer, ConfirmResolution, Escalate, Pause, At, Phase
<1>2. Phase = "going" /\ S.next # "escalate" => run[Run1].resume \notin TICKET_ACTIONS
  BY DEF IInv, PhaseInv
<1>3. CASE Retrieve(Run1)
  <2>1. UNCHANGED issues /\ S.next = "retrieve"
    BY <1>3 DEF Retrieve, At, S
  <2> QED BY <1>0, <1>1, <1>2, <1>3, <2>1, RetrieveMakes DEF Returned, Nodes
<1>4. CASE Answer(Run1)
  <2>1. UNCHANGED issues /\ S.next = "answer"
    BY <1>4 DEF Answer, At, S
  <2> QED BY <1>0, <1>1, <1>2, <1>4, <2>1, AnswerMakes DEF Returned, Nodes
<1>5. CASE ConfirmResolution(Run1)
  <2>1. UNCHANGED issues /\ S.next = "confirm_resolution"
    BY <1>5 DEF ConfirmResolution, At, S
  <2> QED BY <1>0, <1>1, <1>2, <1>5, <2>1, ConfirmMakes DEF Returned, Nodes
<1>6. CASE Escalate(Run1, Settings)
  BY <1>0, <1>1, <1>6, EscalateMakes DEF Returned
<1> QED BY <1>0, <1>1, <1>3, <1>4, <1>5, <1>6 DEF Execute

LEMMA WorkKeeps ==
  ASSUME IInv, Work
  PROVE  RestInv'
<1> USE CliAssumption
<1>0. /\ TypeOK /\ GraphInv /\ ProcessInv /\ PhaseInv /\ ChoiceInv /\ IssueInv
      /\ Phase = "going" /\ thread \in Threads /\ run[Run1].thread = thread
      /\ UNCHANGED <<env, thread, asked, choices, told>>
  BY WorkReturns DEF IInv, TypeInv, ProcessInv, Work, cliVars
<1>1. CASE Pause(Run1, Settings)
  <2>1. /\ S.next = "confirm_resolution" \/ (S.next = "escalate" /\ ~Settings.dry_run)
        /\ run[Run1].resume = "none" /\ UNCHANGED <<ckpt, issues>>
    BY <1>1 DEF Pause, At, S
  <2>2. run'[Run1] = [run[Run1] EXCEPT !.phase = "paused"]
    BY <1>0, <1>1 DEF Pause, GraphInv, GraphTypeOK
  <2>3. /\ Phase' = "paused" /\ S' = S /\ run'[Run1].thread = thread
        /\ run'[Run1].resume = "none"
    BY <1>0, <2>1, <2>2 DEF Phase, S, GraphInv, GraphTypeOK, Run
  <2>4. Settings' = Settings
    BY <1>0 DEF Settings
  <2>5. ProcessInv'
    BY <1>0, <2>1, <2>3 DEF ProcessInv
  <2>6. PhaseInv'
    BY <1>0, <2>1, <2>3, <2>4 DEF PhaseInv, Nodes
  <2>7. ChoiceInv'
    BY <1>0, <2>1, <2>3 DEF ChoiceInv
  <2>8. IssueInv'
    BY <1>0, <2>1, <2>3 DEF IssueInv, ToldWhatHappened
  <2> QED BY <2>5, <2>6, <2>7, <2>8 DEF RestInv
<1>2. ASSUME NEW s, Returned(s) PROVE RestInv'
  <2>1. /\ run'[Run1] = [thread |-> thread, state |-> s, resume |-> "none",
                         phase |-> IF s.next = "END" THEN "ended" ELSE "going"]
        /\ ckpt' = [ckpt EXCEPT ![thread] = s]
    BY <1>0, <1>2 DEF Returned, Advance, GraphInv, GraphTypeOK
  <2>2. /\ Phase' = IF s.next = "END" THEN "ended" ELSE "going"
        /\ S' = s /\ run'[Run1].thread = thread /\ run'[Run1].resume = "none"
    BY <2>1 DEF Phase, S
  <2>3. ckpt'[thread] = s /\ \A t \in Threads : t # thread => ckpt'[t] = ckpt[t]
    BY <1>0, <2>1 DEF GraphInv, GraphTypeOK
  <2>4. ProcessInv'
    BY <1>0, <2>2, <2>3 DEF ProcessInv
  <2>5. PhaseInv'
    BY <1>2, <2>2 DEF PhaseInv, Returned, TICKET_ACTIONS
  <2>6. ChoiceInv'
    <3>1. s.next # "END" => "cancel" \notin choices[thread]
      BY <1>0, <1>2 DEF ChoiceInv, Returned, TICKET_ACTIONS
    <3> QED BY <1>0, <2>2, <3>1 DEF ChoiceInv
  <2>7. IssueInv'
    <3>1. issues[thread] = 0 /\ told[thread] = "nothing" /\ thread \in asked
      BY <1>0 DEF IssueInv, ProcessInv
    <3>2. CASE UNCHANGED issues /\ s.result # "created"
      BY <1>0, <2>2, <3>1, <3>2 DEF IssueInv, ToldWhatHappened
    <3>3. CASE s.result = "created" /\ s.next = "END" /\ CreateIssue(Run1)
      <4>1. issues'[thread] = 1 /\ \A t \in Threads : t # thread => issues'[t] = issues[t]
        BY <1>0, <3>1, <3>3 DEF CreateIssue, GraphInv, GraphTypeOK
      <4> QED BY <1>0, <2>2, <3>1, <3>3, <4>1 DEF IssueInv, ToldWhatHappened
    <3> QED BY <1>2, <3>2, <3>3 DEF Returned
  <2> QED BY <2>4, <2>5, <2>6, <2>7 DEF RestInv
<1> QED BY <1>1, <1>2, WorkReturns

LEMMA FailKeeps ==
  ASSUME IInv, Fail
  PROVE  RestInv'
<1> USE CliAssumption
<1>0. /\ TypeOK /\ GraphInv /\ ProcessInv /\ PhaseInv /\ ChoiceInv /\ IssueInv
      /\ Phase = "going" /\ thread \in Threads /\ run[Run1].thread = thread
      /\ UNCHANGED <<env, thread, asked, choices, told, ckpt>>
  BY DEF IInv, TypeInv, ProcessInv, Fail, Raise, Phase, cliVars
<1>1. run'[Run1] = [run[Run1] EXCEPT !.phase = "raised"]
  BY <1>0 DEF Fail, Raise, GraphInv, GraphTypeOK
<1>2. Phase' = "raised" /\ S' = S /\ run'[Run1].thread = thread
  BY <1>0, <1>1 DEF Phase, S, GraphInv, GraphTypeOK, Run
<1>3. ProcessInv' /\ PhaseInv' /\ ChoiceInv'
  BY <1>0, <1>2 DEF ProcessInv, PhaseInv, ChoiceInv
<1>4. UNCHANGED issues \/ CreateIssue(Run1)
  BY DEF Fail, Raise
<1>5. /\ \A t \in Threads : t # thread => issues'[t] = issues[t]
      /\ issues'[thread] <= 1 /\ thread \in asked /\ told[thread] = "nothing"
  BY <1>0, <1>4 DEF CreateIssue, GraphInv, GraphTypeOK, IssueInv, ProcessInv
<1>6. IssueInv'
  BY <1>0, <1>2, <1>5 DEF IssueInv, ToldWhatHappened
<1> QED BY <1>3, <1>6 DEF RestInv

LEMMA ReplyKeeps ==
  ASSUME IInv, NEW v \in USER_ACTIONS \cup TICKET_ACTIONS, HandleInterrupt(v)
  PROVE  RestInv'
<1> USE CliAssumption
<1>0. /\ TypeOK /\ GraphInv /\ ProcessInv /\ PhaseInv /\ ChoiceInv /\ IssueInv
      /\ Phase = "paused" /\ thread \in Threads /\ v \in Options(S.next)
      /\ UNCHANGED <<env, thread, asked, told, ckpt, issues>>
  BY DEF IInv, TypeInv, HandleInterrupt, Resume, Phase, S
<1>1. S = ckpt[thread] /\ S.next \in {"confirm_resolution", "escalate"}
  BY <1>0 DEF ProcessInv, PhaseInv
<1>2. run'[Run1] = [thread |-> thread, state |-> S, resume |-> v, phase |-> "going"]
  BY <1>0, <1>1 DEF HandleInterrupt, Resume, GraphInv, GraphTypeOK
<1>3. Phase' = "going" /\ S' = S /\ run'[Run1].thread = thread /\ run'[Run1].resume = v
  BY <1>2 DEF Phase, S
<1>4. Settings' = Settings
  BY <1>0 DEF Settings
<1>5. ProcessInv'
  BY <1>0, <1>3 DEF ProcessInv
<1>6. PhaseInv'
  <2>1. v \in TICKET_ACTIONS => S.next = "escalate"
    BY <1>0 DEF Options, TICKET_ACTIONS, USER_ACTIONS
  <2> QED BY <1>0, <1>1, <1>3, <1>4, <2>1 DEF PhaseInv, Nodes
<1>7. ChoiceInv'
  <2>1. "cancel" \notin choices[thread]
    BY <1>0 DEF ChoiceInv, PhaseInv
  <2>2. /\ choices'[thread] = choices[thread] \cup {v}
        /\ \A t \in Threads : t # thread => choices'[t] = choices[t]
    BY <1>0 DEF HandleInterrupt, TypeOK
  <2> QED BY <1>0, <1>3, <2>1, <2>2 DEF ChoiceInv, ProcessInv
<1>8. IssueInv'
  BY <1>0, <1>3 DEF IssueInv, ToldWhatHappened
<1> QED BY <1>5, <1>6, <1>7, <1>8 DEF RestInv

LEMMA AskKeeps ==
  ASSUME IInv, NEW t \in Threads, AskQuestion(t)
  PROVE  RestInv'
<1> USE CliAssumption
<1>0. /\ TypeOK /\ GraphInv /\ ProcessInv /\ PhaseInv /\ ChoiceInv /\ IssueInv
      /\ thread = NoThread /\ thread \notin Threads /\ t \notin asked /\ thread' = t
      /\ asked' = asked \cup {t} /\ UNCHANGED <<env, choices, told, issues>>
  BY NoThreadAssumption DEF IInv, TypeInv, AskQuestion, Invoke
<1>1. /\ ckpt'[t] = InitialState /\ \A u \in Threads : u # t => ckpt'[u] = ckpt[u]
      /\ run'[Run1] = [thread |-> t, state |-> InitialState, resume |-> "none",
                       phase |-> "going"]
  BY <1>0 DEF AskQuestion, Invoke, GraphInv, GraphTypeOK
<1>2. /\ Phase' = "going" /\ S' = InitialState /\ run'[Run1].thread = t
      /\ run'[Run1].resume = "none"
  BY <1>1 DEF Phase, S
<1>3. ProcessInv'
  BY <1>0, <1>1, <1>2 DEF ProcessInv
<1>4. PhaseInv'
  BY <1>2, FirstStates DEF PhaseInv, Nodes, TICKET_ACTIONS
<1>5. ChoiceInv' /\ IssueInv'
  BY <1>0, <1>2 DEF ChoiceInv, IssueInv, ToldWhatHappened
<1> QED BY <1>3, <1>4, <1>5 DEF RestInv

LEMMA FinishKeeps ==
  ASSUME IInv, Finish
  PROVE  RestInv'
<1> USE CliAssumption
<1>0. /\ TypeOK /\ GraphInv /\ ProcessInv /\ PhaseInv /\ ChoiceInv /\ IssueInv
      /\ thread \in Threads /\ Phase = "ended" /\ thread' = NoThread
      /\ UNCHANGED <<ckpt, issues, env, asked, choices>>
  BY DEF IInv, TypeInv, Finish, Phase
<1>1. /\ told'[thread] = Outcome(S)
      /\ \A t \in Threads : t # thread => told'[t] = told[t]
      /\ run'[Run1] = NoRun
  BY <1>0 DEF Finish, TypeOK, GraphInv, GraphTypeOK, S
<1>2. Phase' = "idle" /\ NoThread \notin Threads
  BY <1>1, FirstStates, NoThreadAssumption DEF Phase
<1>3. S.next = "END" /\ Sound(S) /\ S \in State
  BY <1>0 DEF PhaseInv, GraphInv, GraphTypeOK, Run, S
<1>4. /\ Outcome(S) # "nothing" /\ Outcome(S) # "crashed"
      /\ Outcome(S) = "created" <=> S.result = "created"
  BY <1>3 DEF Outcome, Sound, State
<1>5. ProcessInv'
  BY <1>0, <1>1, <1>2, <1>4 DEF ProcessInv
<1>6. PhaseInv' /\ ChoiceInv'
  BY <1>0, <1>2 DEF PhaseInv, ChoiceInv
<1>7. IssueInv'
  BY <1>0, <1>1, <1>2, <1>4 DEF IssueInv, ToldWhatHappened
<1> QED BY <1>5, <1>6, <1>7 DEF RestInv

LEMMA EndKeeps ==
  ASSUME IInv, Quit \/ Crash \/ Kill
  PROVE  RestInv'
<1> USE CliAssumption
<1>0. /\ TypeOK /\ GraphInv /\ ProcessInv /\ PhaseInv /\ ChoiceInv /\ IssueInv
      /\ thread' = Off /\ UNCHANGED <<issues, asked, choices>> /\ Off \notin Threads
      /\ \A t \in Threads : ckpt'[t] = AbsentState
      /\ run'[Run1] = NoRun
  BY DEF IInv, TypeInv, Quit, Crash, Kill, Exit
<1>1. Phase' = "idle"
  BY <1>0, FirstStates DEF Phase
<1>2. /\ \A t \in Threads : t # thread => told'[t] = told[t]
      /\ thread \in Threads => told'[thread] = "crashed"
  <2>1. CASE Quit
    BY <1>0, <2>1, NoThreadAssumption DEF Quit
  <2>2. CASE Crash \/ Kill
    BY <1>0, <2>2 DEF Crash, Kill, TypeOK
  <2> QED BY <2>1, <2>2
<1>3. ProcessInv'
  BY <1>0, <1>1, <1>2 DEF ProcessInv
<1>4. PhaseInv' /\ ChoiceInv'
  BY <1>0, <1>1 DEF PhaseInv, ChoiceInv
<1>5. IssueInv'
  BY <1>0, <1>1, <1>2 DEF IssueInv, ToldWhatHappened
<1> QED BY <1>3, <1>4, <1>5 DEF RestInv

LEMMA RestStep == IInv /\ [Next]_vars => RestInv'
<1> SUFFICES ASSUME IInv, [Next]_vars PROVE RestInv'
  OBVIOUS
<1>1. CASE Launch
  <2>1. /\ thread = Off /\ thread' = NoThread
        /\ UNCHANGED <<ckpt, run, issues, asked, choices, told>>
    BY <1>1 DEF Launch, graph
  <2>2. thread \notin Threads /\ thread' \notin Threads /\ Phase = "idle" /\ Phase' = "idle"
    BY <2>1, CliAssumption, NoThreadAssumption DEF IInv, ProcessInv, Phase
  <2> QED BY <2>1, <2>2
          DEF IInv, RestInv, ProcessInv, PhaseInv, ChoiceInv, IssueInv, ToldWhatHappened
<1>2. CASE UNCHANGED vars
  BY <1>2 DEF vars, graph, cliVars, IInv, RestInv, ProcessInv, PhaseInv, ChoiceInv, IssueInv,
              ToldWhatHappened, Phase, S, Settings
<1> QED BY <1>1, <1>2, WorkKeeps, FailKeeps, ReplyKeeps, AskKeeps, FinishKeeps, EndKeeps
        DEF Next, Reply

LEMMA Invariance == Spec => []IInv
<1>1. IInv /\ [Next]_vars => IInv'
  BY TypeStep, RestStep DEF IInv, RestInv
<1> QED BY <1>1, Start, PTL DEF Spec

\* Every variable of the command line keeps its type.
THEOREM TypeCorrect == Spec => []TypeOK
<1>1. IInv => TypeOK
  BY DEF IInv, TypeInv
<1> QED BY <1>1, Invariance, PTL

\* However often nodes fail, questions are asked again and processes restarted, no state
\* counts more than MaxAttempts attempts (graph.py:41), and a question's user is only
\* asked about the last, confident one its state counts (graph.py:60-64).  That the
\* state counts every retrieval made is part of Refinement (Search in SupportRequest).
THEOREM LoopBounded == Spec => [](CountBounded /\ AsksOfOwnAttempt)
<1>1. IInv => CountBounded /\ AsksOfOwnAttempt
  BY GraphPromises DEF IInv, TypeInv
<1> QED BY <1>1, Invariance, PTL

\* One question makes one issue at most, also when a POST that timed out had landed.
THEOREM OneIssue == Spec => []AtMostOneIssue
<1>1. IInv => AtMostOneIssue
  BY DEF IInv, IssueInv, AtMostOneIssue
<1> QED BY <1>1, Invariance, PTL

\* What the user reads is what Jira has.
THEOREM TruthTold == Spec => []ToldWhatHappened
<1>1. IInv => ToldWhatHappened
  BY DEF IInv, IssueInv
<1> QED BY <1>1, Invariance, PTL

\* No step makes an issue without a "create" of its user, nor after a "cancel", nor
\* unless DRY_RUN is switched off in so many words.
THEOREM OnlyConfirmed == Spec => NoIssueUnconfirmed
<1>1. IInv /\ [Next]_vars =>
        [\A t \in Threads : issues'[t] # issues[t] => ConfirmedIssue(t)]_vars
  <2> SUFFICES ASSUME IInv, Next, NEW t \in Threads, issues'[t] # issues[t]
               PROVE  ConfirmedIssue(t)
    OBVIOUS
  <2> USE CliAssumption
  <2>0. TypeOK /\ GraphInv /\ ProcessInv /\ ChoiceInv
    BY DEF IInv, TypeInv
  <2>1. \/ Work
        \/ Fail
    BY DEF Next, Launch, Quit, AskQuestion, Invoke, Reply, HandleInterrupt, Resume, Finish,
           Crash, Kill, graph
  <2>2. /\ CreateIssue(Run1) /\ ~Settings.dry_run /\ run[Run1].resume = "create"
        /\ Phase = "going"
    <3>1. CASE Work
      BY <3>1, WorkReturns DEF Returned, Pause
    <3>2. CASE Fail
      BY <3>2 DEF Fail, Raise, Confirmed, Phase
    <3> QED BY <2>1, <3>1, <3>2
  <2>3. t = thread /\ thread \in Threads
    BY <2>0, <2>2 DEF CreateIssue, ProcessInv, GraphInv, GraphTypeOK
  <2>4. "create" \in choices[t] /\ "cancel" \notin choices[t]
    BY <2>0, <2>2, <2>3 DEF ChoiceInv
  <2>5. env.word \in {"false", "0", "no"}
    BY <2>2 DEF Settings, ParseDryRun
  <2> QED BY <2>4, <2>5 DEF ConfirmedIssue
<1> QED BY <1>1, Invariance, PTL DEF Spec, NoIssueUnconfirmed

-----------------------------------------------------------------------------
(* The promise of SupportRequest.  What a question's user sees depends on  *)
(* the checkpointer only while it is open, and at most one is.             *)

Tries(t) == IF told[t] = "nothing" THEN ckpt[t].attempts ELSE 0
St == [t \in Threads |-> Status(t)]
Tr == [t \in Threads |-> Tries(t)]

\* A question that nobody works on, before a step and after it.
LEMMA AtRest ==
  ASSUME ProcessInv, NEW t \in Threads, t # thread
  PROVE  /\ Tries(t) = 0
         /\ Status(t) = IF told[t] = "nothing" THEN "new"
                        ELSE IF told[t] = "resolved" THEN "resolved"
                        ELSE IF told[t] = "crashed" THEN "lost" ELSE "escalated"
<1>1. told[t] = "nothing" => t \notin asked /\ ckpt[t] = AbsentState
  BY DEF ProcessInv
<1>2. t \notin asked => told[t] = "nothing"
  BY DEF ProcessInv
<1> QED BY <1>1, <1>2, FirstStates DEF Tries, Status

LEMMA AtRestThen ==
  ASSUME ProcessInv', NEW t \in Threads, t # thread'
  PROVE  /\ Tries(t)' = 0
         /\ Status(t)' = IF told'[t] = "nothing" THEN "new"
                         ELSE IF told'[t] = "resolved" THEN "resolved"
                         ELSE IF told'[t] = "crashed" THEN "lost" ELSE "escalated"
<1>1. told'[t] = "nothing" => t \notin asked' /\ ckpt'[t] = AbsentState
  BY DEF ProcessInv
<1>2. t \notin asked' => told'[t] = "nothing"
  BY DEF ProcessInv
<1> QED BY <1>1, <1>2, FirstStates DEF Tries, Status

\* The question that is worked on, before a step and after it.
Place(s) ==
  IF s.next \in {"retrieve", "answer"} THEN "searching"
  ELSE IF s.next = "confirm_resolution" \/ s.resolved THEN "asking"
  ELSE "escalating"

LEMMA AtWork ==
  ASSUME ProcessInv, NEW t \in Threads, thread = t
  PROVE  Tries(t) = S.attempts /\ Status(t) = Place(S)
<1>1. /\ S = ckpt[t] /\ t \in asked /\ told[t] = "nothing"
  BY DEF ProcessInv
<1> QED BY <1>1 DEF Tries, Status, Place

LEMMA AtWorkThen ==
  ASSUME ProcessInv', NEW t \in Threads, thread' = t
  PROVE  Tries(t)' = S'.attempts /\ Status(t)' = Place(S')
<1>1. /\ S' = ckpt'[t] /\ t \in asked' /\ told'[t] = "nothing"
  BY DEF ProcessInv
<1> QED BY <1>1 DEF Tries, Status, Place

\* A step that tells the user of t's outcome at most concerns no other question.
LEMMA OneMoves ==
  ASSUME ProcessInv, ProcessInv', NEW t \in Threads, thread \in Threads => thread = t,
         thread' \in Threads => thread' = t,
         \A u \in Threads : u # t => told'[u] = told[u]
  PROVE  /\ St' = [St EXCEPT ![t] = Status(t)'] /\ St[t] = Status(t)
         /\ Tr' = [Tr EXCEPT ![t] = Tries(t)'] /\ Tr[t] = Tries(t)
<1>1. ASSUME NEW u \in Threads, u # t
      PROVE  Status(u)' = Status(u) /\ Tries(u)' = Tries(u)
  BY <1>1, AtRest, AtRestThen
<1> QED BY <1>1 DEF St, Tr

\* A step that leaves the question on the screen where it was stutters.
LEMMA NoneMoves ==
  ASSUME ProcessInv, ProcessInv', NEW t \in Threads, thread \in Threads => thread = t,
         thread' \in Threads => thread' = t,
         \A u \in Threads : u # t => told'[u] = told[u],
         Status(t)' = Status(t), Tries(t)' = Tries(t)
  PROVE  St' = St /\ Tr' = Tr
BY OneMoves DEF St, Tr

RequestStep == [Request!Next]_(Request!requests)

LEMMA StutterMaps ==
  ASSUME St' = St, Tr' = Tr, UNCHANGED issues
  PROVE  RequestStep
BY DEF RequestStep, Request!requests, St, Tr, Tries

\* What a node that returns does to the question worked on, but for what it files.
LEMMA NodeMoves ==
  ASSUME IInv, ProcessInv', Work, NEW s \in State, Advance(Run1, s)
  PROVE  /\ thread \in Threads /\ Old(Run1) = S /\ S.attempts \in Nat
         /\ issues \in [Threads -> Nat] /\ issues[thread] = 0 /\ run[Run1].thread = thread
         /\ St[thread] = Place(S) /\ St' = [St EXCEPT ![thread] = Place(s)]
         /\ Tr[thread] = S.attempts /\ Tr' = [Tr EXCEPT ![thread] = s.attempts]
         /\ Place(s) = Place(S) => St' = St
         /\ s.attempts = S.attempts => Tr' = Tr
<1> USE CliAssumption
<1>1. /\ thread \in Threads /\ Phase = "going" /\ ProcessInv /\ GraphInv
      /\ issues[thread] = 0
      /\ UNCHANGED <<thread, told>>
  BY WorkReturns DEF IInv, TypeInv, IssueInv, Work, cliVars
<1>2. S' = s
  BY <1>1 DEF Advance, S, GraphInv, GraphTypeOK
<1>3. PICK t \in Threads : t = thread /\ t = thread'
  BY <1>1
<1>4. Tries(t) = S.attempts /\ Status(t) = Place(S)
  BY <1>1, <1>3, AtWork
<1>5. Tries(t)' = s.attempts /\ Status(t)' = Place(s)
  BY <1>2, <1>3, AtWorkThen
<1>6. /\ St' = [St EXCEPT ![t] = Status(t)'] /\ St[t] = Status(t)
      /\ Tr' = [Tr EXCEPT ![t] = Tries(t)'] /\ Tr[t] = Tries(t)
  BY <1>1, <1>3, OneMoves
<1>7. Old(Run1) = S /\ S.attempts \in Nat /\ issues \in [Threads -> Nat]
      /\ run[Run1].thread = thread
  BY <1>1 DEF Old, S, GraphInv, GraphTypeOK, Run, State, ProcessInv
<1>8. [St EXCEPT ![t] = St[t]] = St /\ [Tr EXCEPT ![t] = Tr[t]] = Tr
  BY DEF St, Tr
<1> QED BY <1>1, <1>3, <1>4, <1>5, <1>6, <1>7, <1>8

LEMMA WorkMaps ==
  ASSUME IInv, ProcessInv', Work
  PROVE  RequestStep
<1> USE CliAssumption
<1>0. /\ GraphInv /\ ProcessInv /\ Settings \in Config /\ Execute(Run1, Settings)
      /\ thread \in Threads
  BY SettingsType, WorkReturns DEF IInv, TypeInv, Work
<1>t. PICK t \in Threads : t = thread
  BY <1>0
<1>1. CASE Retrieve(Run1)
  <2>1. PICK s \in State :
          /\ Advance(Run1, s) /\ s.next \in {"answer", "escalate"} /\ ~s.resolved
          /\ s.attempts = Old(Run1).attempts + 1 /\ s.attempts <= MaxAttempts
    BY <1>0, <1>1, RetrieveMakes
  <2>2. S.next = "retrieve" /\ UNCHANGED issues
    BY <1>1 DEF Retrieve, At, S
  <2>3. St[thread] = "searching" /\ Place(s) \in {"searching", "escalating"}
    BY <2>1, <2>2, NodeMoves DEF Place
  <2>4. /\ Tr[thread] < MaxAttempts /\ Tr' = [Tr EXCEPT ![thread] = Tr[thread] + 1]
        /\ St' = [St EXCEPT ![thread] = Place(s)]
    BY <2>1, NodeMoves, MaxAttemptsAssumption
  <2>5. Request!Search(t)
    BY <1>t, <2>2, <2>3, <2>4 DEF Request!Search, Request!Move, St, Tr, Tries
  <2> QED BY <2>5 DEF RequestStep, Request!Next
<1>2. CASE Answer(Run1)
  <2>1. PICK s \in State :
          /\ Advance(Run1, s) /\ s.next = "confirm_resolution" /\ ~s.resolved
          /\ s.attempts = Old(Run1).attempts /\ s.attempts > 0
    BY <1>0, <1>2, AnswerMakes
  <2>2. S.next = "answer" /\ UNCHANGED issues
    BY <1>2 DEF Answer, At, S
  <2>3. St[thread] = "searching" /\ Place(s) = "asking"
    BY <2>1, <2>2, NodeMoves DEF Place
  <2>4. Tr' = Tr /\ Tr[thread] > 0
    BY <2>1, NodeMoves
  <2>5. Request!Offer(t)
    BY <1>t, <2>1, <2>2, <2>3, <2>4, NodeMoves DEF Request!Offer, Request!Move, St, Tr, Tries
  <2> QED BY <2>5 DEF RequestStep, Request!Next
<1>3. CASE ConfirmResolution(Run1)
  <2>1. PICK s \in State :
          /\ Advance(Run1, s) /\ s.attempts = Old(Run1).attempts
          /\ \/ s.next = "END" /\ s.resolved
             \/ s.next = "retrieve" /\ s.attempts < MaxAttempts /\ ~s.resolved
             \/ s.next = "escalate" /\ ~s.resolved
    BY <1>0, <1>3, ConfirmMakes
  <2>2. S.next = "confirm_resolution" /\ UNCHANGED issues
    BY <1>3 DEF ConfirmResolution, At, S
  <2>3. /\ Place(S) = "asking" /\ St[thread] = "asking"
        /\ Tr' = Tr /\ Tr[thread] = s.attempts
    BY <2>1, <2>2, NodeMoves DEF Place
  <2>4. CASE s.next = "END" /\ s.resolved
    <3>1. St' = St
      BY <2>1, <2>3, <2>4, NodeMoves DEF Place
    <3> QED BY <2>2, <2>3, <3>1, StutterMaps
  <2>5. CASE s.next = "retrieve" /\ s.attempts < MaxAttempts
    <3>1. Place(s) = "searching"
      BY <2>5 DEF Place
    <3>2. Request!SearchAgain(t)
      BY <1>t, <2>1, <2>2, <2>3, <2>5, <3>1, NodeMoves
         DEF Request!SearchAgain, Request!Move, St, Tr, Tries
    <3> QED BY <3>2 DEF RequestStep, Request!Next
  <2>6. CASE s.next = "escalate" /\ ~s.resolved
    <3>1. Place(s) = "escalating"
      BY <2>6 DEF Place
    <3>2. Request!GiveUp(t)
      BY <1>t, <2>1, <2>2, <2>3, <3>1, NodeMoves DEF Request!GiveUp, Request!Move, St, Tr, Tries
    <3> QED BY <3>2 DEF RequestStep, Request!Next
  <2> QED BY <2>1, <2>4, <2>5, <2>6
<1>4. CASE Escalate(Run1, Settings)
  <2>1. PICK s \in State :
          /\ Advance(Run1, s) /\ s.next = "END" /\ ~s.resolved
          /\ s.attempts = Old(Run1).attempts
          /\ UNCHANGED issues \/ CreateIssue(Run1)
    BY <1>0, <1>4, EscalateMakes
  <2>2. S.next = "escalate" /\ ~S.resolved
    BY <1>0, <1>4 DEF Escalate, At, S, GraphInv, Sound
  <2>3. /\ St[thread] = "escalating" /\ Place(s) = "escalating"
        /\ St' = St /\ Tr' = Tr
    BY <2>1, <2>2, NodeMoves DEF Place
  <2>4. CASE UNCHANGED issues
    BY <2>3, <2>4, StutterMaps
  <2>5. CASE CreateIssue(Run1)
    <3>0. issues[thread] = 0 /\ run[Run1].thread = thread /\ issues \in [Threads -> Nat]
      BY <2>1, NodeMoves
    <3>1. issues' = [issues EXCEPT ![thread] = 1]
      BY <1>0, <2>5, <3>0 DEF CreateIssue
    <3>2. Request!File(t)
      BY <1>t, <2>3, <3>0, <3>1 DEF Request!File, St, Tr, Tries
    <3> QED BY <3>2 DEF RequestStep, Request!Next
  <2> QED BY <2>1, <2>4, <2>5
<1>5. CASE Pause(Run1, Settings)
  <2>1. UNCHANGED <<ckpt, issues, asked, told>>
    BY <1>5 DEF Pause, Work, cliVars
  <2>2. St' = St /\ Tr' = Tr
    BY <2>1 DEF St, Tr, Status, Tries
  <2> QED BY <2>1, <2>2, StutterMaps
<1> QED BY <1>0, <1>1, <1>2, <1>3, <1>4, <1>5 DEF Execute

\* The question's last step: the outcome is on the screen, or the process died.
LEMMA CloseMaps ==
  ASSUME ProcessInv, ProcessInv', NEW t \in Threads, thread = t, thread' \notin Threads,
         \A u \in Threads : u # t => told'[u] = told[u], UNCHANGED issues,
         \/ Place(S) = "asking" /\ told'[t] = "resolved"
         \/ Place(S) = "escalating" /\ told'[t] \notin {"nothing", "resolved", "crashed"}
         \/ told'[t] = "crashed"
  PROVE  RequestStep
<1>1. /\ St' = [St EXCEPT ![t] = Status(t)'] /\ St[t] = Place(S)
      /\ Tr' = [Tr EXCEPT ![t] = 0]
  BY OneMoves, AtWork, AtRestThen
<1>2. \/ Place(S) = "asking" /\ Status(t)' = "resolved"
      \/ Place(S) = "escalating" /\ Status(t)' = "escalated"
      \/ Status(t)' = "lost"
  BY AtRestThen
<1>3. Place(S) \in {"searching", "asking", "escalating"}
  BY DEF Place
<1>4. Request!Close(t)
  BY <1>1, <1>2, <1>3 DEF Request!Close, Request!Move, Request!Open, St, Tr, Tries
<1> QED BY <1>4 DEF RequestStep, Request!Next

LEMMA StepMaps == IInv /\ IInv' /\ [Next]_vars => RequestStep
<1> SUFFICES ASSUME IInv, IInv', [Next]_vars PROVE RequestStep
  OBVIOUS
<1> USE CliAssumption
<1>0. TypeOK /\ GraphInv /\ ProcessInv /\ PhaseInv /\ IssueInv /\ ProcessInv'
  BY DEF IInv, TypeInv
<1>1. CASE Launch \/ Quit
  <2>1. /\ thread \notin Threads /\ thread' \notin Threads
        /\ UNCHANGED <<issues, told>>
    BY <1>1, NoThreadAssumption DEF Launch, Quit, Exit, graph
  <2>2. \A t \in Threads : Status(t)' = Status(t) /\ Tries(t)' = Tries(t)
    BY <1>0, <2>1, AtRest, AtRestThen
  <2> QED BY <2>1, <2>2, StutterMaps DEF St, Tr
<1>2. ASSUME NEW t \in Threads, AskQuestion(t) PROVE RequestStep
  <2>1. /\ thread \notin Threads /\ t \notin asked /\ thread' = t /\ UNCHANGED <<issues, told>>
        /\ run'[Run1].state = InitialState
    BY <1>0, <1>2, NoThreadAssumption DEF AskQuestion, Invoke, GraphInv, GraphTypeOK
  <2>2. S' = InitialState /\ told[t] = "nothing"
    BY <1>0, <2>1 DEF S, ProcessInv
  <2>3. Status(t) = "new" /\ Tries(t) = 0
    BY <1>0, <2>1, <2>2, AtRest
  <2>4. Status(t)' = "searching" /\ Tries(t)' = 0
    BY <1>0, <2>1, <2>2, AtWorkThen, FirstStates DEF Place
  <2>5. /\ St[t] = "new" /\ St' = [St EXCEPT ![t] = "searching"]
        /\ Tr' = [Tr EXCEPT ![t] = 0] /\ Tr[t] = 0
    BY <1>0, <2>1, <2>3, <2>4, OneMoves
  <2>6. Tr' = Tr
    BY <2>5 DEF Tr
  <2>7. Request!Accept(t)
    BY <2>1, <2>5, <2>6 DEF Request!Accept, Request!Move, St, Tr, Tries
  <2> QED BY <2>7 DEF RequestStep, Request!Next
<1>3. CASE Reply
  <2>1. UNCHANGED <<ckpt, issues, asked, told>>
    BY <1>3 DEF Reply, HandleInterrupt, Resume
  <2> QED BY <2>1, StutterMaps DEF St, Tr, Status, Tries
<1>4. CASE Finish
  <2>1. PICK t \in Threads : t = thread
    BY <1>4 DEF Finish
  <2>2. /\ thread' = NoThread /\ Phase = "ended" /\ UNCHANGED issues
        /\ told'[t] = Outcome(S) /\ \A u \in Threads : u # t => told'[u] = told[u]
    BY <1>0, <1>4, <2>1 DEF Finish, TypeOK, Phase, S
  <2>3. S.next = "END" /\ Sound(S) /\ S \in State
    BY <1>0, <2>2 DEF PhaseInv, GraphInv, GraphTypeOK, Run, S
  <2>4. \/ Place(S) = "asking" /\ Outcome(S) = "resolved"
        \/ /\ Place(S) = "escalating"
           /\ Outcome(S) \in {"cancelled", "not_configured", "dry_run", "created"}
    BY <2>3 DEF Place, Outcome, Sound, State
  <2> QED BY <1>0, <2>1, <2>2, <2>4, CloseMaps, NoThreadAssumption
<1>5. CASE Fail
  <2>1. PICK t \in Threads : t = thread
    BY <1>0, <1>5 DEF Fail, Raise, ProcessInv, Phase
  <2>2. UNCHANGED <<ckpt, asked, told>> /\ Phase = "going" /\ run[Run1].thread = t
    BY <1>0, <1>5, <2>1 DEF Fail, Raise, cliVars, ProcessInv, Phase
  <2>3. St' = St /\ Tr' = Tr
    BY <2>2 DEF St, Tr, Status, Tries
  <2>4. CASE UNCHANGED issues
    BY <2>3, <2>4, StutterMaps
  <2>5. CASE S.next = "escalate" /\ CreateIssue(Run1)
    <3>1. issues[t] = 0 /\ issues' = [issues EXCEPT ![t] = 1]
      BY <1>0, <2>1, <2>2, <2>5 DEF IssueInv, CreateIssue, GraphInv, GraphTypeOK
    <3>2. Place(S) = "escalating"
      BY <1>0, <2>5 DEF Place, GraphInv, Sound, S
    <3>3. St[t] = "escalating"
      BY <1>0, <2>1, <3>2, AtWork DEF St
    <3>4. Request!File(t)
      BY <2>3, <3>1, <3>3 DEF Request!File, St, Tr, Tries
    <3> QED BY <3>4 DEF RequestStep, Request!Next
  <2> QED BY <1>5, <2>4, <2>5 DEF Fail, Raise, At, S
<1>6. CASE Crash \/ Kill
  <2>1. PICK t \in Threads : t = thread
    BY <1>0, <1>6 DEF Crash, Kill, ProcessInv, Phase
  <2>2. /\ thread' = Off /\ UNCHANGED issues /\ told'[t] = "crashed"
        /\ \A u \in Threads : u # t => told'[u] = told[u]
    BY <1>0, <1>6, <2>1 DEF Crash, Kill, Exit, TypeOK
  <2> QED BY <1>0, <2>1, <2>2, CloseMaps
<1>7. CASE UNCHANGED vars
  <2>1. UNCHANGED <<ckpt, issues, asked, told>>
    BY <1>7 DEF vars, graph, cliVars
  <2> QED BY <2>1, StutterMaps DEF St, Tr, Status, Tries
<1>8. CASE Work
  BY <1>0, <1>8, WorkMaps
<1> QED BY <1>1, <1>2, <1>3, <1>4, <1>5, <1>6, <1>7, <1>8 DEF Next

\* The command line implements SupportRequest, whatever fails and whenever the
\* process dies.
THEOREM Refinement == Spec => ImplementsRequest
<1>1. Init => Request!Init
  BY FirstStates
     DEF Init, GraphInit, Request!Init, Status
<1>2. IInv /\ IInv' /\ [Next]_vars => [Request!Next]_(Request!requests)
  BY StepMaps DEF RequestStep
<1> QED BY <1>1, <1>2, Invariance, PTL DEF Spec, ImplementsRequest, Request!Spec
=============================================================================
