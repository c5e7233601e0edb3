------------------------- MODULE StreamlitAppProofs -------------------------
(***************************************************************************)
(* Theorems about the Streamlit demo, for any questions, any number of     *)
(* runs of one thread at once, a patient user or one who clicks while a    *)
(* script runs, and any faults: types, the bound on retrievals, that Jira  *)
(* is never reached, and what the page says of a question's end.           *)
(*                                                                         *)
(* A run that lost its script still works on its own copy of the state     *)
(* and still writes checkpoints, so what is said of states (Sound, Dry,    *)
(* UserInv) is said of every copy, and what is said of the session         *)
(* (ScriptInv, PageInv) only of the run the current script waits for.      *)
(*                                                                         *)
(* A patient user has one run at a time (PatientInv): of that user it is   *)
(* proved that the page shows the state, or the answer whose retry raised, *)
(* and that the demo implements SupportRequest.                            *)
(***************************************************************************)
EXTENDS StreamlitApp, AgentGraphProofs

TypeInv == TypeOK /\ GraphInv

ScriptInv ==
  /\ step = "rest" <=> script = NoThread
  /\ step = "invoke" => run[script].phase # "idle"
  /\ step = "handled" => run[script].phase \in {"paused", "ended"}
  /\ \A r \in Runs : run[r].phase = "ended" => run[r].state.next = "END"

\* Under a dry run no ticket is created and none cancelled.
Dry(s) == s.result \in {"none", "dry_run", "not_configured"}
DemoInv ==
  /\ DemoNeverReachesJira
  /\ \A t \in Threads : Dry(ckpt[t])
  /\ \A r \in Runs : Dry(run[r].state)

PageInv ==
  /\ pending # NoThread => shown[pending] > 0 /\ pending \in asked
  /\ step = "handled" /\ run[script].phase = "paused" => shown[run[script].thread] > 0
  /\ step = "handled" /\ run[script].phase = "ended" => pending = NoThread
  /\ step # "rest" => run[script].thread \in asked
  /\ \A t \in Threads :
       /\ clicks[t] # {} => shown[t] > 0
       /\ outcome[t] # {} =>
            /\ t \in asked /\ pending # t
            /\ step # "rest" => run[script].thread # t
            /\ \E m \in OutcomeMessages : outcome[t] = {m}

UserInv ==
  /\ \A t \in Threads : ckpt[t].resolved => "resolved" \in clicks[t]
  /\ \A r \in Runs : run[r].phase # "idle" /\ (run[r].state.resolved \/ run[r].resume = "resolved")
       => "resolved" \in clicks[run[r].thread]
  /\ ResolvedByUser

SessionInv == ScriptInv /\ DemoInv /\ PageInv /\ UserInv

\* A thread that no two invokes have shared: one run works on it at most, with
\* the state the checkpointer has, which counts every retrieval made.
LoopInv ==
  /\ \A r \in Runs : run[r].phase # "idle" => run[r].thread \in asked
  /\ \A t \in Threads \ overlapped :
       /\ retrieved[t] = ckpt[t].attempts
       /\ \A r \in Runs : run[r].phase = "going" /\ run[r].thread = t =>
            /\ run[r].state = ckpt[t]
            /\ \A q \in Runs : run[q].phase = "going" /\ run[q].thread = t => q = r

IInv == TypeInv /\ SessionInv

LEMMA DemoConfig == demo_config \in Config /\ demo_config.dry_run
BY StreamlitAssumption DEF demo_config, ForceDryRun, Config

LEMMA Start == Init => IInv
<1> SUFFICES ASSUME Init PROVE IInv
  OBVIOUS
<1>1. TypeInv
  BY GraphStart DEF Init, TypeInv, TypeOK, GraphInv
<1>2. ScriptInv /\ DemoInv /\ PageInv /\ UserInv
  BY FirstStates, NoThreadAssumption
  DEF Init, GraphInit, ScriptInv, DemoInv, PageInv, UserInv, Dry, DemoNeverReachesJira,
      ResolvedByUser
<1> QED BY <1>1, <1>2 DEF IInv, SessionInv

\* What the current script waits for.
LEMMA Waiting ==
  ASSUME IInv, step # "rest"
  PROVE  /\ script \in Runs /\ run[script].thread \in Threads
         /\ run[script] \in Run /\ run[script].state \in State /\ Sound(run[script].state)
         /\ Dry(run[script].state)
BY DEF IInv, TypeInv, TypeOK, SessionInv, ScriptInv, DemoInv, GraphInv, GraphTypeOK, Bound, Run

\* A node that returns, of a dry run: nothing reaches Jira, and only a click on
\* "resolved" resolves.
LEMMA WorkReturns ==
  ASSUME IInv, NEW r \in Runs, Work(r)
  PROVE  /\ run[r].phase = "going" /\ run[r].thread \in Threads
         /\ UNCHANGED <<issues, session>>
         /\ \/ Pause(r, demo_config)
            \/ \E s \in State : /\ Sound(s) /\ Advance(r, s) /\ Dry(s)
                                /\ s.resolved => run[r].resume = "resolved"
<1>0. /\ GraphInv /\ Execute(r, demo_config) /\ UNCHANGED session
      /\ demo_config \in Config /\ demo_config.dry_run
  BY DemoConfig DEF IInv, TypeInv, Work
<1>1. run[r].phase = "going"
  BY <1>0 DEF Execute, Retrieve, Answer, ConfirmResolution, Escalate, Pause, At
<1>2. run[r].thread \in Threads
  BY <1>0, <1>1 DEF GraphInv, Bound
<1>3. CASE Retrieve(r) \/ Answer(r) \/ ConfirmResolution(r)
  <2>1. UNCHANGED issues
    BY <1>3 DEF Retrieve, Answer, ConfirmResolution
  <2> QED BY <1>0, <1>1, <1>2, <1>3, <2>1, RetrieveMakes, AnswerMakes, ConfirmMakes DEF Dry
<1>4. CASE Escalate(r, demo_config)
  BY <1>0, <1>1, <1>2, <1>4, EscalateMakes DEF Dry
<1>5. CASE Pause(r, demo_config)
  BY <1>0, <1>1, <1>2, <1>5 DEF Pause
<1> QED BY <1>0, <1>3, <1>4, <1>5 DEF Execute

LEMMA FailRaises ==
  ASSUME IInv, NEW r \in Runs, Fail(r)
  PROVE  /\ run[r].phase = "going" /\ run[r].thread \in Threads
         /\ UNCHANGED <<ckpt, issues, session>>
         /\ run' = [run EXCEPT ![r].phase = "raised"]
BY DemoConfig DEF Fail, Raise, At, IInv, TypeInv, GraphInv, Bound

-----------------------------------------------------------------------------
(* Types                                                                   *)

LEMMA TypeStep == IInv /\ [Next]_vars => TypeInv'
<1> SUFFICES ASSUME IInv, [Next]_vars PROVE TypeInv'
  OBVIOUS
<1>0. TypeInv /\ TypeOK /\ GraphInv /\ demo_config \in Config
  BY DemoConfig DEF IInv, TypeInv
<1>1. ASSUME NEW t \in Threads, AskQuestion(t) PROVE TypeInv'
  BY <1>0, <1>1, InvokeKeeps DEF AskQuestion, StartScript, tally, TypeInv, TypeOK, GraphInv
<1>2. ASSUME NEW action \in USER_ACTIONS, Click(action) PROVE TypeInv'
  <2>1. pending \in Threads
    BY <1>0, <1>2 DEF Click, TypeOK
  <2>2. GraphInv'
    BY <1>0, <1>2, <2>1, ResumeKeeps DEF Click
  <2> QED BY <1>0, <1>2, <2>1, <2>2 DEF Click, StartScript, TypeInv, TypeOK, GraphInv
<1>3. CASE ClickTooLate
  BY <1>0, <1>3 DEF ClickTooLate, graph, tally, TypeInv, TypeOK, GraphInv, GraphTypeOK, Bound
<1>4. CASE ShowAnswer \/ ClearPending
  <2>1. step # "rest"
    BY <1>4 DEF ShowAnswer, ClearPending
  <2>2. run[script].thread \in Threads /\ run[script].state.answer \in Nat
    BY <2>1, Waiting DEF State
  <2> QED BY <1>0, <1>4, <2>2
          DEF ShowAnswer, ClearPending, graph, tally, TypeInv, TypeOK, GraphInv, GraphTypeOK,
              Bound
<1>5. CASE SetPending \/ ShowOutcome \/ ShowException
  <2>1. step # "rest"
    BY <1>5 DEF SetPending, ShowOutcome, ShowException
  <2>2. script \in Runs /\ run[script].thread \in Threads
    BY <2>1, Waiting
  <2>3. GraphInv'
    BY <1>0, <1>5, <2>2, DropKeeps DEF SetPending, ShowOutcome, ShowException, EndScript
  <2>4. CASE ShowOutcome
    <3>1. render_outcome(run[script].state) \in OutcomeMessages
      <4>1. Sound(run[script].state) /\ Dry(run[script].state)
            /\ run[script].state.next = "END"
        BY <2>1, <2>2, <2>4, Waiting DEF ShowOutcome, IInv, SessionInv, ScriptInv
      <4> QED BY <4>1 DEF render_outcome, OutcomeMessages, Sound, Dry
    <3> QED BY <1>0, <2>2, <2>3, <2>4, <3>1
            DEF ShowOutcome, EndScript, tally, TypeInv, TypeOK, GraphInv
  <2> QED BY <1>0, <1>5, <2>2, <2>3, <2>4
          DEF SetPending, ShowException, EndScript, tally, TypeInv, TypeOK, GraphInv
<1>6. ASSUME NEW r \in Runs, Work(r) \/ Fail(r) \/ Drop(r) PROVE TypeInv'
  <2>1. GraphInv'
    BY <1>0, <1>6, ExecuteKeeps, RaiseKeeps, DropKeeps DEF Work, Fail, Drop
  <2> QED BY <1>0, <1>6, <2>1 DEF Work, Fail, Drop, session, tally, TypeInv, TypeOK, GraphInv
<1>7. CASE UNCHANGED vars
  BY <1>0, <1>7 DEF vars, graph, session, tally, TypeInv, TypeOK, GraphInv, GraphTypeOK, Bound
<1> QED BY <1>1, <1>2, <1>3, <1>4, <1>5, <1>6, <1>7 DEF Next, Press, Handle

-----------------------------------------------------------------------------
(* The session, step by step                                               *)

LEMMA AskKeeps ==
  ASSUME IInv, NEW t \in Threads, AskQuestion(t)
  PROVE  SessionInv'
<1>0. TypeOK /\ GraphInv /\ ScriptInv /\ DemoInv /\ PageInv /\ UserInv
  BY DEF IInv, TypeInv, SessionInv
<1>1. PICK r \in Runs : Invoke(r, t) /\ StartScript(r)
  BY DEF AskQuestion
<1>2. /\ t \notin asked /\ asked' = asked \cup {t}
      /\ UNCHANGED <<pending, shown, clicks, outcome, issues>>
      /\ script' = r /\ step' = "invoke" /\ r # NoThread
  BY <1>1, NoThreadAssumption DEF AskQuestion, StartScript, Invoke
<1>3. /\ run'[r] = [thread |-> t, state |-> InitialState, resume |-> "none", phase |-> "going"]
      /\ \A q \in Runs : q # r => run'[q] = run[q]
      /\ ckpt'[t] = InitialState /\ \A u \in Threads : u # t => ckpt'[u] = ckpt[u]
  BY <1>0, <1>1 DEF Invoke, GraphInv, GraphTypeOK
<1>4. /\ run'[r].thread = t /\ run'[r].state = InitialState
      /\ run'[r].resume = "none" /\ run'[r].phase = "going"
  BY <1>3
<1>5. ScriptInv'
  BY <1>0, <1>2, <1>3, <1>4 DEF ScriptInv
<1>6. DemoInv'
  BY <1>0, <1>2, <1>3, <1>4, FirstStates DEF DemoInv, DemoNeverReachesJira, Dry
<1>7. PageInv'
  BY <1>0, <1>2, <1>3, <1>4 DEF PageInv
<1>8. UserInv'
  BY <1>0, <1>2, <1>3, <1>4, FirstStates DEF UserInv, ResolvedByUser
<1> QED BY <1>5, <1>6, <1>7, <1>8 DEF SessionInv

LEMMA ClickKeeps ==
  ASSUME IInv, NEW action \in USER_ACTIONS, Click(action)
  PROVE  SessionInv'
<1>0. TypeOK /\ GraphInv /\ ScriptInv /\ DemoInv /\ PageInv /\ UserInv
  BY DEF IInv, TypeInv, SessionInv
<1>1. PICK t \in Threads : t = pending
  BY <1>0 DEF Click, TypeOK
<1>2. PICK r \in Runs : run[r].phase = "idle" /\ Resume(r, t, action) /\ StartScript(r)
  BY <1>1 DEF Click
<1>3. /\ UNCHANGED <<pending, asked, shown, outcome, ckpt, issues>>
      /\ script' = r /\ step' = "invoke" /\ r # NoThread
  BY <1>2, NoThreadAssumption DEF Click, StartScript, Resume
<1>4. /\ clicks'[t] = clicks[t] \cup {action}
      /\ \A u \in Threads : u # t => clicks'[u] = clicks[u]
  BY <1>0, <1>1 DEF Click, TypeOK
<1>5. /\ run'[r].thread = t /\ run'[r].state = ckpt[t] /\ run'[r].resume = action
      /\ run'[r].phase = IF ckpt[t].next = "END" THEN "ended" ELSE "going"
      /\ \A q \in Runs : q # r => run'[q] = run[q]
  BY <1>0, <1>2 DEF Resume, GraphInv, GraphTypeOK
<1>6. shown[t] > 0 /\ t \in asked /\ outcome[t] = {}
  BY <1>0, <1>1, NoThreadAssumption DEF PageInv
<1>7. ScriptInv'
  BY <1>0, <1>3, <1>5 DEF ScriptInv
<1>8. DemoInv'
  BY <1>0, <1>3, <1>5 DEF DemoInv, DemoNeverReachesJira
<1>9. PageInv'
  BY <1>0, <1>1, <1>3, <1>4, <1>5, <1>6 DEF PageInv
<1>10. UserInv'
  <2>1. \A u \in Threads : clicks[u] \subseteq clicks'[u]
    BY <1>4
  <2>2. \A q \in Runs : run[q].phase # "idle" => run[q].thread \in Threads
    BY <1>0 DEF GraphInv, Bound
  <2> QED BY <1>0, <1>3, <1>4, <1>5, <2>1, <2>2 DEF UserInv, ResolvedByUser
<1> QED BY <1>7, <1>8, <1>9, <1>10 DEF SessionInv

LEMMA WorkKeeps ==
  ASSUME IInv, NEW r \in Runs, Work(r)
  PROVE  SessionInv'
<1>0. /\ TypeOK /\ GraphInv /\ ScriptInv /\ DemoInv /\ PageInv /\ UserInv
      /\ run[r].phase = "going" /\ run[r].thread \in Threads
      /\ UNCHANGED <<pending, script, step, asked, shown, clicks, outcome, issues>>
      /\ step # "rest" => script \in Runs
  BY WorkReturns, Waiting DEF IInv, TypeInv, SessionInv, session
<1>1. PICK t \in Threads : t = run[r].thread
  BY <1>0
<1>2. CASE Pause(r, demo_config)
  <2>1. UNCHANGED ckpt /\ run' = [run EXCEPT ![r].phase = "paused"]
    BY <1>2 DEF Pause
  <2>2. /\ run'[r].thread = t /\ run'[r].state = run[r].state
        /\ run'[r].resume = run[r].resume /\ run'[r].phase = "paused"
        /\ \A q \in Runs : q # r => run'[q] = run[q]
    BY <1>0, <1>1, <2>1 DEF GraphInv, GraphTypeOK, Run
  <2>3. run[r].state.next = "confirm_resolution"
    BY <1>2, DemoConfig DEF Pause, At
  <2>4. ScriptInv'
    BY <1>0, <2>2 DEF ScriptInv
  <2>5. DemoInv'
    BY <1>0, <2>1, <2>2, <2>3 DEF DemoInv, DemoNeverReachesJira
  <2>6. PageInv'
    BY <1>0, <1>1, <2>2 DEF PageInv, ScriptInv
  <2>7. UserInv'
    BY <1>0, <1>1, <2>1, <2>2 DEF UserInv, ResolvedByUser
  <2> QED BY <2>4, <2>5, <2>6, <2>7 DEF SessionInv
<1>3. ASSUME NEW s \in State, Advance(r, s), Dry(s), s.resolved => run[r].resume = "resolved"
      PROVE  SessionInv'
  <2>1. /\ run'[r].thread = t /\ run'[r].state = s /\ run'[r].resume = "none"
        /\ run'[r].phase = IF s.next = "END" THEN "ended" ELSE "going"
        /\ \A q \in Runs : q # r => run'[q] = run[q]
        /\ ckpt'[t] = s /\ \A u \in Threads : u # t => ckpt'[u] = ckpt[u]
    BY <1>0, <1>1, <1>3 DEF Advance, GraphInv, GraphTypeOK
  <2>2. s.resolved => "resolved" \in clicks[t]
    BY <1>0, <1>1, <1>3 DEF UserInv
  <2>3. ScriptInv'
    BY <1>0, <2>1 DEF ScriptInv
  <2>4. DemoInv'
    BY <1>0, <1>3, <2>1 DEF DemoInv, DemoNeverReachesJira
  <2>5. PageInv'
    BY <1>0, <1>1, <2>1 DEF PageInv, ScriptInv
  <2>6. UserInv'
    BY <1>0, <2>1, <2>2 DEF UserInv, ResolvedByUser
  <2> QED BY <2>3, <2>4, <2>5, <2>6 DEF SessionInv
<1> QED BY <1>2, <1>3, WorkReturns

LEMMA FailKeeps ==
  ASSUME IInv, NEW r \in Runs, Fail(r)
  PROVE  SessionInv'
<1>0. /\ TypeOK /\ GraphInv /\ ScriptInv /\ DemoInv /\ PageInv /\ UserInv
      /\ run[r].phase = "going" /\ run[r].thread \in Threads
      /\ UNCHANGED <<ckpt, pending, script, step, asked, shown, clicks, outcome, issues>>
      /\ step # "rest" => script \in Runs
  BY FailRaises, Waiting DEF IInv, TypeInv, SessionInv, session
<1>1. /\ run'[r].thread = run[r].thread /\ run'[r].state = run[r].state
      /\ run'[r].resume = run[r].resume /\ run'[r].phase = "raised"
      /\ \A q \in Runs : q # r => run'[q] = run[q]
  BY <1>0, FailRaises DEF GraphInv, GraphTypeOK, Run
<1>2. ScriptInv' /\ DemoInv'
  BY <1>0, <1>1 DEF ScriptInv, DemoInv, DemoNeverReachesJira
<1>3. PageInv'
  BY <1>0, <1>1 DEF PageInv, ScriptInv
<1>4. UserInv'
  BY <1>0, <1>1 DEF UserInv, ResolvedByUser
<1> QED BY <1>2, <1>3, <1>4 DEF SessionInv

LEMMA DropSessionKeeps ==
  ASSUME IInv, NEW r \in Runs, Drop(r)
  PROVE  SessionInv'
<1>0. /\ TypeOK /\ GraphInv /\ ScriptInv /\ DemoInv /\ PageInv /\ UserInv
      /\ UNCHANGED <<ckpt, pending, script, step, asked, shown, clicks, outcome, issues>>
      /\ step # "rest" => script \in Runs
  BY Waiting DEF Drop, IInv, TypeInv, SessionInv, session
<1>1. run'[r] = NoRun /\ \A q \in Runs : q # r => run'[q] = run[q]
  BY <1>0 DEF Drop, GraphInv, GraphTypeOK
<1>2. r # script
  BY DEF Drop
<1>3. ScriptInv' /\ DemoInv'
  BY <1>0, <1>1, <1>2, FirstStates DEF ScriptInv, DemoInv, DemoNeverReachesJira, Dry
<1>4. PageInv'
  BY <1>0, <1>1, <1>2 DEF PageInv, ScriptInv
<1>5. UserInv'
  BY <1>0, <1>1, FirstStates DEF UserInv, ResolvedByUser
<1> QED BY <1>3, <1>4, <1>5 DEF SessionInv

LEMMA HandledKeeps ==
  ASSUME IInv, ShowAnswer \/ ClearPending
  PROVE  SessionInv'
<1>0. /\ TypeOK /\ GraphInv /\ ScriptInv /\ DemoInv /\ PageInv /\ UserInv
      /\ UNCHANGED <<ckpt, run, issues, script, asked, clicks, outcome>>
      /\ step = "invoke" /\ step' = "handled" /\ script # NoThread
  BY DEF IInv, TypeInv, SessionInv, ShowAnswer, ClearPending, graph, ScriptInv
<1>1. PICK t \in Threads : t = run[script].thread
  BY <1>0, Waiting
<1>2. ScriptInv'
  BY <1>0 DEF ScriptInv, ShowAnswer, ClearPending
<1>3. DemoInv'
  BY <1>0 DEF DemoInv, DemoNeverReachesJira
<1>4. CASE ShowAnswer
  <2>1. run[script].phase = "paused" /\ UNCHANGED pending
    BY <1>4 DEF ShowAnswer
  <2>2. run[script].state.answer > 0
    BY <1>0, <2>1, Waiting DEF DemoInv, DemoNeverReachesJira, Sound
  <2>3. shown'[t] > 0 /\ \A u \in Threads : u # t => shown'[u] = shown[u]
    BY <1>0, <1>1, <1>4, <2>2 DEF ShowAnswer, TypeOK
  <2>4. pending # NoThread => pending \in Threads
    BY <1>0 DEF TypeOK
  <2>5. PageInv' /\ UserInv'
    BY <1>0, <1>1, <2>1, <2>3, <2>4 DEF PageInv, UserInv, ResolvedByUser
  <2> QED BY <1>2, <1>3, <2>5 DEF SessionInv
<1>5. CASE ClearPending
  <2>1. run[script].phase = "ended" /\ pending' = NoThread /\ UNCHANGED shown
    BY <1>5 DEF ClearPending
  <2>2. PageInv' /\ UserInv'
    BY <1>0, <2>1, NoThreadAssumption DEF PageInv, UserInv, ResolvedByUser
  <2> QED BY <1>2, <1>3, <2>2 DEF SessionInv
<1> QED BY <1>4, <1>5

LEMMA ScriptEndKeeps ==
  ASSUME IInv, SetPending \/ ShowOutcome \/ ShowException
  PROVE  SessionInv'
<1>0. /\ TypeOK /\ GraphInv /\ ScriptInv /\ DemoInv /\ PageInv /\ UserInv
      /\ UNCHANGED <<ckpt, issues, asked, clicks, shown>>
      /\ step # "rest" /\ step' = "rest" /\ script' = NoThread /\ script \in Runs
  BY Waiting DEF IInv, TypeInv, SessionInv, SetPending, ShowOutcome, ShowException, EndScript
<1>1. PICK t \in Threads : t = run[script].thread
  BY <1>0, Waiting
<1>2. run'[script] = NoRun /\ \A q \in Runs : q # script => run'[q] = run[q]
  BY <1>0 DEF SetPending, ShowOutcome, ShowException, EndScript, GraphInv, GraphTypeOK
<1>3. ScriptInv'
  BY <1>0, <1>2, FirstStates DEF ScriptInv
<1>4. DemoInv'
  BY <1>0, <1>2, FirstStates DEF DemoInv, DemoNeverReachesJira, Dry
<1>5. CASE SetPending \/ ShowException
  <2>1. /\ UNCHANGED outcome
        /\ \/ pending' = pending
           \/ pending' = t /\ step = "handled" /\ run[script].phase = "paused"
    BY <1>1, <1>5 DEF SetPending, ShowException, EndScript
  <2>2. PageInv'
    BY <1>0, <1>1, <2>1 DEF PageInv
  <2>3. UserInv'
    BY <1>0, <1>2, <2>1, FirstStates DEF UserInv, ResolvedByUser
  <2> QED BY <1>3, <1>4, <2>2, <2>3 DEF SessionInv
<1>6. CASE ShowOutcome
  <2> DEFINE m == render_outcome(run[script].state)
  <2>1. /\ step = "handled" /\ run[script].phase = "ended" /\ pending' = pending
        /\ pending = NoThread /\ outcome[t] = {}
    BY <1>0, <1>1, <1>6 DEF ShowOutcome, EndScript, PageInv
  <2>2. outcome'[t] = {m} /\ \A u \in Threads : u # t => outcome'[u] = outcome[u]
    BY <1>0, <1>1, <1>6, <2>1 DEF ShowOutcome, TypeOK
  <2>3. m \in OutcomeMessages /\ (m = "resolved" => run[script].state.resolved)
    <3>1. /\ Sound(run[script].state) /\ Dry(run[script].state)
          /\ run[script].state.next = "END"
      BY <1>0, <2>1, Waiting DEF ScriptInv
    <3> QED BY <3>1 DEF render_outcome, OutcomeMessages, Sound, Dry
  <2>4. PageInv'
    BY <1>0, <1>1, <2>1, <2>2, <2>3, NoThreadAssumption DEF PageInv
  <2>5. m = "resolved" => "resolved" \in clicks[t] /\ shown[t] > 0
    BY <1>0, <1>1, <2>1, <2>3 DEF UserInv, PageInv
  <2>6. UserInv'
    BY <1>0, <1>2, <2>2, <2>5, FirstStates DEF UserInv, ResolvedByUser
  <2> QED BY <1>3, <1>4, <2>4, <2>6 DEF SessionInv
<1> QED BY <1>5, <1>6

LEMMA SessionStep == IInv /\ [Next]_vars => SessionInv'
<1> SUFFICES ASSUME IInv, [Next]_vars PROVE SessionInv'
  OBVIOUS
<1>0. ScriptInv /\ DemoInv /\ PageInv /\ UserInv
  BY DEF IInv, SessionInv
<1>1. CASE ClickTooLate
  <2>1. /\ UNCHANGED <<ckpt, run, issues, pending, asked, shown, clicks, outcome>>
        /\ script' = NoThread /\ step' = "rest"
    BY <1>1 DEF ClickTooLate, graph
  <2> QED BY <1>0, <2>1 DEF SessionInv, ScriptInv, DemoInv, DemoNeverReachesJira, PageInv,
                             UserInv, ResolvedByUser
<1>2. CASE UNCHANGED vars
  BY <1>0, <1>2 DEF vars, graph, session, SessionInv, ScriptInv, DemoInv,
                    DemoNeverReachesJira, PageInv, UserInv, ResolvedByUser
<1> QED BY <1>1, <1>2, AskKeeps, ClickKeeps, WorkKeeps, FailKeeps, DropSessionKeeps,
           HandledKeeps, ScriptEndKeeps
        DEF Next, Press, Handle

LEMMA Invariance == Spec => []IInv
<1>1. IInv /\ [Next]_vars => IInv'
  BY TypeStep, SessionStep DEF IInv
<1> QED BY <1>1, Start, PTL DEF Spec

\* Every variable of the page, its session and its runs keeps its type.
THEOREM TypeCorrect == Spec => []TypeOK
<1>1. IInv => TypeOK
  BY DEF IInv, TypeInv
<1> QED BY <1>1, Invariance, PTL

-----------------------------------------------------------------------------
(* The retrievals of a thread, and the attempts its states count           *)

LEMMA StartLoop == Init => LoopInv
BY FirstStates DEF Init, GraphInit, LoopInv

\* A node counts the attempt it makes, in its own state and in the tally.
LEMMA WorkCounts ==
  ASSUME IInv, NEW r \in Runs, Work(r), ~Pause(r, demo_config)
  PROVE  \E s \in State :
           /\ Advance(r, s)
           /\ s.attempts = Old(r).attempts + (IF At(r, "retrieve") THEN 1 ELSE 0)
<1>0. /\ GraphInv /\ Execute(r, demo_config) /\ demo_config \in Config
      /\ Old(r).attempts \in Nat
  BY DemoConfig DEF IInv, TypeInv, Work, GraphInv, GraphTypeOK, Run, State, Old
<1>1. CASE Retrieve(r)
  <2>1. At(r, "retrieve")
    BY <1>1 DEF Retrieve
  <2> QED BY <1>0, <1>1, <2>1, RetrieveMakes
<1>2. CASE Answer(r) \/ ConfirmResolution(r) \/ Escalate(r, demo_config)
  <2>1. ~At(r, "retrieve")
    BY <1>2 DEF Answer, ConfirmResolution, Escalate, At
  <2> QED BY <1>0, <1>2, <2>1, AnswerMakes, ConfirmMakes, EscalateMakes
<1> QED BY <1>0, <1>1, <1>2 DEF Execute

LEMMA WorkLoop ==
  ASSUME IInv, LoopInv, NEW r \in Runs, Work(r)
  PROVE  LoopInv'
<1>0. /\ TypeOK /\ GraphInv /\ UNCHANGED <<asked, overlapped>>
      /\ run[r].phase = "going" /\ run[r].thread \in Threads
      /\ retrieved' = [t \in Threads |->
           IF /\ At(r, "retrieve") /\ t \in {run[r].thread} \ overlapped
              /\ retrieved[t] <= MaxAttempts
           THEN retrieved[t] + 1 ELSE retrieved[t]]
  BY WorkReturns DEF IInv, TypeInv, Work, session
<1>1. CASE Pause(r, demo_config)
  <2>1. /\ UNCHANGED ckpt /\ run'[r].phase = "paused" /\ run'[r].thread = run[r].thread
        /\ \A q \in Runs : q # r => run'[q] = run[q]
    BY <1>0, <1>1 DEF Pause, GraphInv, GraphTypeOK, Run
  <2>2. ~At(r, "retrieve")
    BY <1>1 DEF Pause, At
  <2> QED BY <1>0, <2>1, <2>2 DEF LoopInv
<1>2. CASE ~Pause(r, demo_config)
  <2>1. PICK s \in State :
          /\ Advance(r, s)
          /\ s.attempts = Old(r).attempts + (IF At(r, "retrieve") THEN 1 ELSE 0)
    BY <1>2, WorkCounts
  <2>2. PICK t \in Threads : t = run[r].thread
    BY <1>0
  <2>3. /\ run'[r].thread = t /\ run'[r].state = s
        /\ \A q \in Runs : q # r => run'[q] = run[q]
        /\ ckpt'[t] = s /\ \A u \in Threads : u # t => ckpt'[u] = ckpt[u]
    BY <1>0, <2>1, <2>2 DEF Advance, GraphInv, GraphTypeOK
  <2>4. t \notin overlapped => retrieved[t] = Old(r).attempts /\ retrieved'[t] = s.attempts
    <3>1. t \notin overlapped => retrieved[t] = Old(r).attempts
      BY <1>0, <2>2 DEF LoopInv, Old
    <3>2. Old(r).attempts \in Nat /\ Old(r).attempts <= MaxAttempts
      BY <1>0 DEF GraphInv, GraphTypeOK, Run, State, Old, Sound
    <3> QED BY <1>0, <2>1, <2>2, <3>1, <3>2
  <2>5. \A u \in Threads : u # t => retrieved'[u] = retrieved[u]
    BY <1>0, <2>2
  <2> QED BY <1>0, <2>2, <2>3, <2>4, <2>5 DEF LoopInv
<1> QED BY <1>1, <1>2

LEMMA LoopStep == IInv /\ LoopInv /\ [Next]_vars => LoopInv'
<1> SUFFICES ASSUME IInv, LoopInv, [Next]_vars PROVE LoopInv'
  OBVIOUS
<1>0. TypeOK /\ GraphInv /\ PageInv
  BY DEF IInv, TypeInv, SessionInv
<1>1. ASSUME NEW t \in Threads, AskQuestion(t) PROVE LoopInv'
  <2>1. PICK r \in Runs : Invoke(r, t)
    BY <1>1 DEF AskQuestion
  <2>2. /\ run'[r].thread = t /\ run'[r].state = InitialState /\ ckpt[t].next = "absent"
        /\ \A q \in Runs : q # r => run'[q] = run[q]
        /\ ckpt'[t] = InitialState /\ \A u \in Threads : u # t => ckpt'[u] = ckpt[u]
    BY <1>0, <2>1 DEF Invoke, GraphInv, GraphTypeOK
  <2>3. t \notin asked /\ asked' = asked \cup {t} /\ UNCHANGED tally
    BY <1>1 DEF AskQuestion
  <2>4. ckpt[t].attempts = 0 /\ ckpt'[t].attempts = 0
    BY <1>0, <2>2, FirstStates DEF GraphInv, Sound
  <2> QED BY <2>2, <2>3, <2>4 DEF LoopInv, tally
<1>2. ASSUME NEW action \in USER_ACTIONS, Click(action) PROVE LoopInv'
  <2>1. PICK t \in Threads : t = pending
    BY <1>0, <1>2 DEF Click, TypeOK
  <2>2. PICK r \in Runs : Resume(r, t, action) /\ run[r].phase = "idle"
    BY <1>2, <2>1 DEF Click
  <2>3. /\ run'[r].thread = t /\ run'[r].state = ckpt[t] /\ UNCHANGED <<ckpt, asked>>
        /\ \A q \in Runs : q # r => run'[q] = run[q]
    BY <1>0, <1>2, <2>2 DEF Click, Resume, GraphInv, GraphTypeOK
  <2>4. overlapped' = overlapped \cup {u \in {t} : AtWork(u)}
    BY <1>2, <2>1 DEF Click
  <2>5. \A u \in Threads \ overlapped' : retrieved'[u] = retrieved[u]
    BY <1>2 DEF Click
  <2>6. t \in asked
    BY <1>0, <2>1, NoThreadAssumption DEF PageInv
  <2>7. t \notin overlapped' => \A q \in Runs : ~(run[q].phase = "going" /\ run[q].thread = t)
    BY <2>4 DEF AtWork
  <2> QED BY <2>3, <2>4, <2>5, <2>6, <2>7 DEF LoopInv
<1>3. ASSUME NEW r \in Runs, Work(r) PROVE LoopInv'
  BY <1>3, WorkLoop
<1>4. ASSUME NEW r \in Runs, Fail(r) PROVE LoopInv'
  <2>1. /\ run'[r].phase = "raised" /\ run'[r].thread = run[r].thread
        /\ \A q \in Runs : q # r => run'[q] = run[q]
        /\ UNCHANGED <<ckpt, asked, overlapped, retrieved>> /\ run[r].phase = "going"
    BY <1>0, <1>4, FailRaises DEF Fail, session, tally, GraphInv, GraphTypeOK, Run
  <2> QED BY <2>1 DEF LoopInv
<1>5. ASSUME NEW r \in Runs, run' = [run EXCEPT ![r] = NoRun],
             UNCHANGED <<ckpt, asked, overlapped, retrieved>>
      PROVE  LoopInv'
  <2>1. run'[r].phase = "idle" /\ \A q \in Runs : q # r => run'[q] = run[q]
    BY <1>0, <1>5, FirstStates DEF GraphInv, GraphTypeOK
  <2> QED BY <1>5, <2>1 DEF LoopInv
<1>6. ASSUME NEW r \in Runs, Drop(r) PROVE LoopInv'
  BY <1>5, <1>6 DEF Drop, session, tally
<1>7. CASE SetPending \/ ShowOutcome \/ ShowException
  <2>1. step # "rest"
    BY <1>7 DEF SetPending, ShowOutcome, ShowException
  <2>2. script \in Runs
    BY <2>1, Waiting
  <2> QED BY <1>5, <1>7, <2>2 DEF SetPending, ShowOutcome, ShowException, EndScript, tally
<1>8. CASE ClickTooLate \/ ShowAnswer \/ ClearPending \/ UNCHANGED vars
  <2>1. UNCHANGED <<ckpt, run, asked, overlapped, retrieved>>
    BY <1>8 DEF ClickTooLate, ShowAnswer, ClearPending, vars, graph, session, tally
  <2> QED BY <2>1 DEF LoopInv
<1> QED BY <1>1, <1>2, <1>3, <1>4, <1>6, <1>7, <1>8 DEF Next, Press, Handle

LEMMA LoopInvariance == Spec => []LoopInv
<1>1. IInv /\ LoopInv /\ [Next]_vars => LoopInv'
  BY LoopStep
<1> QED BY <1>1, StartLoop, Invariance, PTL DEF Spec

\* However many nodes raise and are run again, no thread is retrieved for more than
\* MaxAttempts times while no click resumes it under an invoke that is still at work on
\* it (graph.py:39-41, 68-76; nodes.py:90).
THEOREM LoopBounded == Spec => []AttemptsBounded
<1>1. IInv /\ LoopInv => AttemptsBounded
  BY DEF IInv, TypeInv, GraphInv, Sound, LoopInv, AttemptsBounded
<1> QED BY <1>1, Invariance, LoopInvariance, PTL

\* A thread asks about its state's own last and confident attempt, which is the last
\* that anyone made for it unless two invokes shared the thread (graph.py:60-64).
THEOREM AsksOfTheLatest == Spec => []AsksAboutLatestAnswer
<1>1. IInv /\ LoopInv => AsksAboutLatestAnswer
  <2>1. IInv => AsksOfOwnAttempt
    BY GraphPromises DEF IInv, TypeInv
  <2>2. IInv /\ LoopInv => \A t \in Threads \ overlapped :
          ckpt[t].next = "confirm_resolution" => ckpt[t].answer = retrieved[t]
    BY DEF IInv, TypeInv, GraphInv, Sound, LoopInv
  <2> QED BY <2>1, <2>2 DEF AsksAboutLatestAnswer
<1> QED BY <1>1, Invariance, LoopInvariance, PTL

-----------------------------------------------------------------------------
(* What the page says of a question's end                                  *)

\* Whatever the environment says, the demo creates no issue and never pauses for a
\* ticket (streamlit_app.py:28-30).
THEOREM StaysDry == Spec => []DemoNeverReachesJira
<1>1. IInv => DemoNeverReachesJira
  BY DEF IInv, SessionInv, DemoInv
<1> QED BY <1>1, Invariance, PTL

\* Whoever clicks whenever, a question gets one outcome and its buttons do not come
\* back (streamlit_app.py:89-101).
THEOREM EndsOnce == Spec => []OneOutcome
<1>1. IInv => OneOutcome
  BY DEF IInv, SessionInv, PageInv, OneOutcome
<1> QED BY <1>1, Invariance, PTL

\* A question is shown as resolved only to a user who said so of an answer on the page
\* (nodes.py:115-132).
THEOREM UserResolves == Spec => []ResolvedByUser
<1>1. IInv => ResolvedByUser
  BY DEF IInv, SessionInv, UserInv
<1> QED BY <1>1, Invariance, PTL

-----------------------------------------------------------------------------
(* A user who waits: one run at a time, and a page that shows its state    *)

\* A retry is under way for the user who asked for it.
Retrying(t) ==
  /\ ckpt[t].next \in {"retrieve", "answer"} /\ ckpt[t].user_action = "retry"
  /\ 0 < shown[t] /\ shown[t] = ckpt[t].answer

RetryFailed(t) == Retrying(t) /\ ckpt[t].next \in Faults

\* What the click under an answer has led to so far.
Answering(r, t) ==
  /\ run[r].phase = "going" =>
       \/ /\ ckpt[t].next = "confirm_resolution"
          /\ run[r].resume = "none" \/ (run[r].resume \in USER_ACTIONS /\ shown[t] = ckpt[t].answer)
       \/ Retrying(t)
       \/ ckpt[t].next = "escalate"
  /\ run[r].phase = "raised" => RetryFailed(t)

\* The session of the current script, whose thread is t.
Serving(t) ==
  /\ run[script].thread = t /\ run[script].state = ckpt[t]
  /\ step = "invoke" => pending \in {NoThread, t}
  /\ step = "invoke" /\ pending = t => Answering(script, t)
  /\ step = "handled" /\ run[script].phase = "paused" => ShowsState(t)

RestInv ==
  /\ step # "handled" => page = pending
  /\ \A r \in Runs : r # script => run[r].phase = "idle"
  /\ \A t \in Threads \ asked : ckpt[t] = AbsentState
  /\ step = "rest" /\ pending # NoThread => ShowsState(pending) \/ RetryFailed(pending)
PatientInv == RestInv /\ (step # "rest" => \E t \in Threads : Serving(t))

LEMMA StartPatient == Init => PatientInv
BY FirstStates, NoThreadAssumption DEF Init, GraphInit, PatientInv, RestInv

LEMMA AskPatient ==
  ASSUME IInv, PatientInv, Patient, NEW t \in Threads, AskQuestion(t)
  PROVE  PatientInv'
<1>0. /\ TypeOK /\ GraphInv /\ ScriptInv /\ RestInv /\ step = "rest"
      /\ page = NoThread /\ pending = NoThread
  BY DEF IInv, TypeInv, SessionInv, PatientInv, RestInv, AskQuestion, Interactive
<1>1. PICK r \in Runs : Invoke(r, t) /\ StartScript(r)
  BY DEF AskQuestion
<1>2. /\ t \notin asked /\ asked' = asked \cup {t} /\ pending' = NoThread /\ shown' = shown
      /\ script' = r /\ step' = "invoke" /\ page' = NoThread /\ script = NoThread
  BY <1>0, <1>1 DEF AskQuestion, StartScript, ScriptInv
<1>3. /\ run'[r] = [thread |-> t, state |-> InitialState, resume |-> "none", phase |-> "going"]
      /\ \A q \in Runs : q # r => run'[q] = run[q]
      /\ ckpt'[t] = InitialState /\ \A u \in Threads : u # t => ckpt'[u] = ckpt[u]
  BY <1>0, <1>1 DEF Invoke, GraphInv, GraphTypeOK
<1>4. RestInv'
  BY <1>0, <1>2, <1>3, NoThreadAssumption DEF RestInv
<1>5. Serving(t)'
  BY <1>2, <1>3, NoThreadAssumption DEF Serving
<1> QED BY <1>4, <1>5 DEF PatientInv

LEMMA ClickPatient ==
  ASSUME IInv, PatientInv, Patient, NEW action \in USER_ACTIONS, Click(action)
  PROVE  PatientInv'
<1>0. TypeOK /\ GraphInv /\ ScriptInv /\ RestInv /\ step = "rest" /\ pending # NoThread
  BY DEF IInv, TypeInv, SessionInv, PatientInv, Click, Interactive
<1>1. PICK t \in Threads : t = pending
  BY <1>0 DEF TypeOK
<1>2. PICK r \in Runs : run[r].phase = "idle" /\ Resume(r, t, action) /\ StartScript(r)
  BY <1>1 DEF Click
<1>3. /\ UNCHANGED <<pending, asked, shown, ckpt>> /\ page' = pending
      /\ script' = r /\ step' = "invoke" /\ script = NoThread
  BY <1>0, <1>2 DEF Click, StartScript, Resume, ScriptInv
<1>4. /\ run'[r].thread = t /\ run'[r].state = ckpt[t] /\ run'[r].resume = action
      /\ run'[r].phase = IF ckpt[t].next = "END" THEN "ended" ELSE "going"
      /\ \A q \in Runs : q # r => run'[q] = run[q]
  BY <1>0, <1>2 DEF Resume, GraphInv, GraphTypeOK
<1>5. ShowsState(t) \/ Retrying(t)
  BY <1>0, <1>1 DEF RestInv, RetryFailed
<1>6. RestInv'
  BY <1>0, <1>3, <1>4, NoThreadAssumption DEF RestInv
<1>7. Answering(r, t)'
  BY <1>3, <1>4, <1>5 DEF Answering, Retrying, ShowsState
<1>8. Serving(t)'
  BY <1>1, <1>3, <1>4, <1>7 DEF Serving
<1> QED BY <1>6, <1>8 DEF PatientInv

\* Only the current script's run does anything.
LEMMA OnlyTheScript ==
  ASSUME IInv, PatientInv, NEW r \in Runs, run[r].phase # "idle"
  PROVE  /\ r = script /\ step # "rest" /\ RestInv
         /\ \E t \in Threads : Serving(t) /\ t \in asked /\ outcome[t] = {}
<1>1. r = script /\ script # NoThread
  BY NoThreadAssumption DEF PatientInv, RestInv
<1>2. step # "rest"
  BY <1>1 DEF IInv, SessionInv, ScriptInv
<1>3. PICK t \in Threads : Serving(t)
  BY <1>2 DEF PatientInv
<1>4. t \in asked /\ outcome[t] = {}
  BY <1>2, <1>3 DEF Serving, IInv, SessionInv, PageInv
<1> QED BY <1>1, <1>2, <1>3, <1>4 DEF PatientInv

LEMMA AdvancePatient ==
  ASSUME IInv, PatientInv, NEW r \in Runs, Work(r), NEW s \in State, Sound(s), Advance(r, s),
         NEW t \in Threads, Serving(t), r = script, step = "invoke", RestInv, t \in asked,
         pending = t => \/ s.next \in {"confirm_resolution", "escalate", "END"}
                        \/ /\ s.next \in {"retrieve", "answer"} /\ s.user_action = "retry"
                           /\ 0 < shown[t] /\ shown[t] = s.answer
  PROVE  PatientInv'
<1>0. TypeOK /\ GraphInv /\ UNCHANGED session /\ script \in Runs
  BY DEF IInv, TypeInv, Work
<1>1. run[r].thread = t /\ run[r].state = ckpt[t] /\ pending \in {NoThread, t}
  BY DEF Serving
<1>2. /\ run'[r] = [thread |-> t, state |-> s, resume |-> "none",
                    phase |-> IF s.next = "END" THEN "ended" ELSE "going"]
      /\ \A q \in Runs : q # r => run'[q] = run[q]
      /\ ckpt'[t] = s /\ \A u \in Threads : u # t => ckpt'[u] = ckpt[u]
  BY <1>0, <1>1 DEF Advance, GraphInv, GraphTypeOK
<1>3. RestInv'
  BY <1>0, <1>2 DEF RestInv, session
<1>4. pending = t => Answering(r, t)'
  BY <1>0, <1>2 DEF Answering, Retrying, session
<1>5. Serving(t)'
  BY <1>0, <1>1, <1>2, <1>4 DEF Serving, session
<1> QED BY <1>3, <1>5 DEF PatientInv

LEMMA WorkPatient ==
  ASSUME IInv, PatientInv, NEW r \in Runs, Work(r)
  PROVE  PatientInv'
<1>0. /\ TypeOK /\ GraphInv /\ ScriptInv /\ Execute(r, demo_config) /\ UNCHANGED session
      /\ demo_config \in Config /\ demo_config.dry_run /\ run[r].phase = "going"
  BY DemoConfig, WorkReturns DEF IInv, TypeInv, SessionInv, Work
<1>1. r = script /\ step # "rest" /\ RestInv
  BY <1>0, OnlyTheScript
<1>2. PICK t \in Threads : Serving(t) /\ t \in asked
  BY <1>0, OnlyTheScript
<1>3. step = "invoke"
  BY <1>0, <1>1 DEF ScriptInv, TypeOK
<1>4. /\ run[r].state = ckpt[t] /\ Old(r) = ckpt[t] /\ run[r].thread = t
      /\ Sound(ckpt[t]) /\ ckpt[t] \in State
      /\ pending \in {NoThread, t} /\ (pending = t => Answering(r, t))
  BY <1>0, <1>1, <1>2, <1>3 DEF Serving, Old, GraphInv, GraphTypeOK
<1>5. CASE Retrieve(r)
  <2>1. PICK s \in State :
          /\ Sound(s) /\ Advance(r, s) /\ s.next \in {"answer", "escalate"}
          /\ s.answer = ckpt[t].answer /\ s.user_action = ckpt[t].user_action
    BY <1>0, <1>4, <1>5, RetrieveMakes
  <2>2. ckpt[t].next = "retrieve"
    BY <1>4, <1>5 DEF Retrieve, At
  <2>3. pending = t => Retrying(t)
    BY <1>0, <1>4, <2>2 DEF Answering
  <2> QED BY <1>1, <1>2, <1>3, <2>1, <2>3, AdvancePatient DEF Retrying
<1>6. CASE Answer(r)
  <2>1. PICK s \in State : Sound(s) /\ Advance(r, s) /\ s.next = "confirm_resolution"
    BY <1>0, <1>6, AnswerMakes
  <2> QED BY <1>1, <1>2, <1>3, <2>1, AdvancePatient
<1>7. CASE ConfirmResolution(r)
  <2>1. PICK s \in State :
          /\ Sound(s) /\ Advance(r, s) /\ s.answer = ckpt[t].answer
          /\ s.next = "retrieve" => s.user_action = "retry"
          /\ s.next \in {"END", "retrieve", "escalate"}
    BY <1>0, <1>4, <1>7, ConfirmMakes
  <2>2. ckpt[t].next = "confirm_resolution" /\ run[r].resume \in USER_ACTIONS
    BY <1>4, <1>7 DEF ConfirmResolution, At
  <2>3. run[r].resume # "none"
    BY <2>2 DEF USER_ACTIONS
  <2>4. ckpt[t].answer > 0 /\ (pending = t => shown[t] = ckpt[t].answer)
    BY <1>0, <1>4, <2>2, <2>3 DEF Sound, Answering, Retrying
  <2> QED BY <1>1, <1>2, <1>3, <2>1, <2>4, AdvancePatient
<1>8. CASE Escalate(r, demo_config)
  <2>1. PICK s \in State : Sound(s) /\ Advance(r, s) /\ s.next = "END"
    BY <1>0, <1>8, EscalateMakes
  <2> QED BY <1>1, <1>2, <1>3, <2>1, AdvancePatient
<1>9. CASE Pause(r, demo_config)
  <2>1. UNCHANGED ckpt /\ run' = [run EXCEPT ![r].phase = "paused"]
    BY <1>9 DEF Pause
  <2>2. /\ run'[r].thread = t /\ run'[r].state = ckpt[t] /\ run'[r].phase = "paused"
        /\ \A q \in Runs : q # r => run'[q] = run[q]
    BY <1>0, <1>4, <2>1 DEF GraphInv, GraphTypeOK, Run
  <2>3. RestInv'
    BY <1>0, <1>1, <2>1, <2>2 DEF RestInv, session
  <2>4. Answering(r, t)'
    BY <2>2 DEF Answering
  <2>5. Serving(t)'
    BY <1>0, <1>1, <1>3, <1>4, <2>1, <2>2, <2>4 DEF Serving, session
  <2> QED BY <2>3, <2>5 DEF PatientInv
<1> QED BY <1>0, <1>5, <1>6, <1>7, <1>8, <1>9 DEF Execute

LEMMA FailPatient ==
  ASSUME IInv, PatientInv, NEW r \in Runs, Fail(r)
  PROVE  PatientInv'
<1>0. /\ TypeOK /\ GraphInv /\ ScriptInv /\ run[r].phase = "going"
      /\ UNCHANGED <<ckpt, session>> /\ run' = [run EXCEPT ![r].phase = "raised"]
  BY FailRaises DEF IInv, TypeInv, SessionInv
<1>1. r = script /\ step # "rest" /\ RestInv
  BY <1>0, OnlyTheScript
<1>2. PICK t \in Threads : Serving(t)
  BY <1>0, OnlyTheScript
<1>3. step = "invoke"
  BY <1>0, <1>1 DEF ScriptInv, TypeOK
<1>4. /\ run[r].state = ckpt[t] /\ run[r].thread = t
      /\ pending \in {NoThread, t} /\ (pending = t => Answering(r, t))
  BY <1>1, <1>2, <1>3 DEF Serving
<1>5. ckpt[t].next \in Faults /\ ckpt[t].next \in {"retrieve", "answer"}
  BY <1>4, DemoConfig DEF Fail, Raise, At
<1>6. /\ run'[r].thread = t /\ run'[r].state = ckpt[t] /\ run'[r].phase = "raised"
      /\ \A q \in Runs : q # r => run'[q] = run[q]
  BY <1>0, <1>4 DEF GraphInv, GraphTypeOK, Run
<1>7. RestInv'
  BY <1>0, <1>1, <1>6 DEF RestInv, session
<1>8. pending = t => Answering(r, t)'
  BY <1>0, <1>4, <1>5, <1>6 DEF Answering, RetryFailed, Retrying, session
<1>9. Serving(t)'
  BY <1>0, <1>1, <1>3, <1>4, <1>6, <1>8 DEF Serving, session
<1> QED BY <1>7, <1>9 DEF PatientInv

LEMMA HandlePatient ==
  ASSUME IInv, PatientInv, Handle
  PROVE  PatientInv'
<1>0. /\ TypeOK /\ GraphInv /\ ScriptInv /\ DemoInv /\ RestInv /\ step # "rest" /\ script \in Runs
  BY Waiting DEF IInv, TypeInv, SessionInv, PatientInv, Handle, ShowAnswer, ClearPending,
                 SetPending, ShowOutcome, ShowException
<1>1. PICK t \in Threads : Serving(t)
  BY <1>0 DEF PatientInv
<1>2. /\ run[script].thread = t /\ run[script].state = ckpt[t] /\ Sound(ckpt[t])
      /\ (run[script].phase = "paused" => ckpt[t].next = "confirm_resolution")
  BY <1>0, <1>1 DEF Serving, DemoInv, DemoNeverReachesJira, GraphInv
<1>3. CASE ShowAnswer
  <2>1. /\ UNCHANGED <<ckpt, run, pending, page, script, asked>> /\ step' = "handled"
        /\ run[script].phase = "paused" /\ shown'[t] = ckpt[t].answer
    BY <1>0, <1>2, <1>3 DEF ShowAnswer, graph, TypeOK
  <2>2. RestInv' /\ Serving(t)'
    BY <1>0, <1>2, <2>1 DEF RestInv, Serving, ShowsState
  <2> QED BY <2>2 DEF PatientInv
<1>4. CASE ClearPending
  <2>1. /\ UNCHANGED <<ckpt, run, page, script, asked, shown>> /\ step' = "handled"
        /\ run[script].phase = "ended"
    BY <1>4 DEF ClearPending, graph
  <2>2. RestInv' /\ Serving(t)'
    BY <1>0, <1>2, <2>1 DEF RestInv, Serving
  <2> QED BY <2>2 DEF PatientInv
<1>5. CASE SetPending \/ ShowOutcome \/ ShowException
  <2>1. /\ UNCHANGED <<ckpt, asked, shown>> /\ step' = "rest"
        /\ page' = pending' /\ \A q \in Runs : run'[q].phase = "idle"
    <3>1. step = "invoke" => page = pending
      BY <1>0 DEF RestInv
    <3>2. \A q \in Runs : run'[q] = IF q = script THEN NoRun ELSE run[q]
      BY <1>0, <1>5 DEF SetPending, ShowOutcome, ShowException, EndScript, GraphInv, GraphTypeOK
    <3> QED BY <1>0, <1>5, <3>1, <3>2, FirstStates
            DEF SetPending, ShowOutcome, ShowException, EndScript, RestInv
  <2>2. pending' # NoThread => ShowsState(pending)' \/ RetryFailed(pending)'
    <3>1. CASE SetPending
      <4>1. pending' = t /\ ShowsState(t)
        BY <1>1, <1>2, <3>1 DEF SetPending, EndScript, Serving
      <4> QED BY <2>1, <4>1 DEF ShowsState
    <3>2. CASE ShowOutcome
      BY <3>2 DEF ShowOutcome, EndScript, IInv, SessionInv, PageInv
    <3>3. CASE ShowException
      <4>1. pending' = pending /\ step = "invoke" /\ run[script].phase = "raised"
        BY <3>3 DEF ShowException
      <4>2. pending # NoThread => pending = t /\ RetryFailed(t)
        BY <1>1, <4>1 DEF Serving, Answering
      <4> QED BY <2>1, <4>1, <4>2 DEF RetryFailed, Retrying
    <3> QED BY <1>5, <3>1, <3>2, <3>3
  <2> QED BY <1>0, <2>1, <2>2 DEF RestInv, PatientInv
<1> QED BY <1>3, <1>4, <1>5 DEF Handle

LEMMA PatientStep ==
  ASSUME Patient
  PROVE  IInv /\ PatientInv /\ [Next]_vars => PatientInv'
<1> SUFFICES ASSUME IInv, PatientInv, [Next]_vars PROVE PatientInv'
  OBVIOUS
<1>1. CASE ClickTooLate
  <2>1. page # NoThread /\ pending = NoThread /\ step = "rest"
    BY <1>1 DEF ClickTooLate, Interactive
  <2> QED BY <2>1 DEF PatientInv, RestInv
<1>2. ASSUME NEW r \in Runs, Drop(r) PROVE PatientInv'
  <2>1. run[r].phase # "idle" /\ r # script
    BY <1>2 DEF Drop, Returned
  <2> QED BY <2>1 DEF PatientInv, RestInv
<1>3. CASE UNCHANGED vars
  BY <1>3 DEF vars, graph, session, PatientInv, RestInv, Serving, Answering, RetryFailed,
              Retrying, ShowsState
<1> QED BY <1>1, <1>2, <1>3, AskPatient, ClickPatient, WorkPatient, FailPatient, HandlePatient
        DEF Next, Press

LEMMA PatientInvariance ==
  ASSUME Patient
  PROVE  Spec => []PatientInv
<1>1. IInv /\ PatientInv /\ [Next]_vars => PatientInv'
  BY PatientStep
<1> QED BY <1>1, StartPatient, Invariance, PTL DEF Spec

\* Whoever waits for the page sees the state the graph was left in, or the answer whose
\* retry raised (streamlit_app.py:89-101).
THEOREM PageIsTrue ==
  ASSUME Patient
  PROVE  Spec => []PageShowsStateOrRetry
<1>1. PatientInv => PageShowsStateOrRetry
  BY DEF PatientInv, RestInv, PageShowsStateOrRetry, RetryFailed, Retrying
<1> QED BY <1>1, PatientInvariance, PTL

-----------------------------------------------------------------------------
(* The demo of a patient user implements SupportRequest                    *)

\* Where a question without an outcome stands, by its state.
Place(s) ==
  IF s.next \in {"retrieve", "answer"} THEN "searching"
  ELSE IF s.next = "confirm_resolution" \/ s.resolved THEN "asking"
  ELSE "escalating"

Tries(t) == IF outcome[t] = {} THEN ckpt[t].attempts ELSE 0
St == [t \in Threads |-> Status(t)]
Tr == [t \in Threads |-> Tries(t)]

RequestStep == [Request!Next]_(Request!requests)

LEMMA StutterMaps ==
  ASSUME UNCHANGED <<ckpt, asked, outcome, issues>>
  PROVE  RequestStep
<1>1. \A t \in Threads : Status(t)' = Status(t) /\ Tries(t)' = Tries(t)
  BY DEF Status, Tries
<1>2. St' = St /\ Tr' = Tr
  BY <1>1 DEF St, Tr
<1> QED BY <1>2 DEF RequestStep, Request!requests, St, Tr, Tries

\* A node that returns moves the question the script is about, and no other.
LEMMA NodeMoves ==
  ASSUME IInv, PatientInv, NEW r \in Runs, Work(r), NEW s \in State, Advance(r, s)
  PROVE  \E t \in Threads :
           /\ run[r].thread = t /\ Old(r) = ckpt[t] /\ Sound(ckpt[t]) /\ ckpt[t].attempts \in Nat
           /\ St[t] = Place(ckpt[t]) /\ St' = [St EXCEPT ![t] = Place(s)]
           /\ Tr[t] = ckpt[t].attempts /\ Tr' = [Tr EXCEPT ![t] = s.attempts]
           /\ Place(s) = Place(ckpt[t]) => St' = St
           /\ s.attempts = ckpt[t].attempts => Tr' = Tr
<1>1. /\ run[r].phase # "idle" /\ UNCHANGED <<asked, outcome, issues>> /\ GraphInv
  BY WorkReturns DEF session, IInv, TypeInv
<1>2. PICK t \in Threads : Serving(t) /\ t \in asked /\ outcome[t] = {} /\ r = script
  BY <1>1, OnlyTheScript
<1>3. run[r].thread = t /\ Old(r) = ckpt[t] /\ Sound(ckpt[t]) /\ ckpt[t].attempts \in Nat
  BY <1>1, <1>2 DEF Serving, Old, GraphInv, GraphTypeOK, State
<1>4. ckpt'[t] = s /\ \A u \in Threads : u # t => ckpt'[u] = ckpt[u]
  BY <1>1, <1>3 DEF Advance, GraphInv, GraphTypeOK
<1>5. /\ Status(t) = Place(ckpt[t]) /\ Status(t)' = Place(s)
      /\ Tries(t) = ckpt[t].attempts /\ Tries(t)' = s.attempts
  BY <1>1, <1>2, <1>4 DEF Status, Tries, Place
<1>6. \A u \in Threads : u # t => Status(u)' = Status(u) /\ Tries(u)' = Tries(u)
  BY <1>1, <1>4 DEF Status, Tries
<1>7. /\ St[t] = Place(ckpt[t]) /\ St' = [St EXCEPT ![t] = Place(s)]
      /\ Tr[t] = ckpt[t].attempts /\ Tr' = [Tr EXCEPT ![t] = s.attempts]
  BY <1>5, <1>6 DEF St, Tr
<1>8. [St EXCEPT ![t] = St[t]] = St /\ [Tr EXCEPT ![t] = Tr[t]] = Tr
  BY DEF St, Tr
<1> QED BY <1>3, <1>7, <1>8

LEMMA Unmoved ==
  ASSUME St' = St, Tr' = Tr, UNCHANGED issues
  PROVE  RequestStep
BY DEF RequestStep, Request!requests, St, Tr, Tries

LEMMA WorkMaps ==
  ASSUME IInv, PatientInv, NEW r \in Runs, Work(r)
  PROVE  RequestStep
<1>0. /\ GraphInv /\ demo_config \in Config /\ Execute(r, demo_config)
      /\ UNCHANGED <<issues, session>>
  BY DemoConfig, WorkReturns DEF IInv, TypeInv, Work
<1>1. CASE Retrieve(r)
  <2>1. PICK s \in State :
          /\ Advance(r, s) /\ s.next \in {"answer", "escalate"} /\ ~s.resolved
          /\ s.attempts = Old(r).attempts + 1 /\ s.attempts <= MaxAttempts
    BY <1>0, <1>1, RetrieveMakes
  <2>2. PICK t \in Threads :
          /\ run[r].thread = t /\ Old(r) = ckpt[t] /\ ckpt[t].attempts \in Nat
          /\ St[t] = Place(ckpt[t]) /\ St' = [St EXCEPT ![t] = Place(s)]
          /\ Tr[t] = ckpt[t].attempts /\ Tr' = [Tr EXCEPT ![t] = s.attempts]
    BY <2>1, NodeMoves
  <2>3. St[t] = "searching" /\ Place(s) \in {"searching", "escalating"}
    BY <1>1, <2>1, <2>2 DEF Place, Retrieve, At, Old
  <2>4. Tr[t] < MaxAttempts /\ Tr' = [Tr EXCEPT ![t] = Tr[t] + 1]
    <3>1. s.attempts = Tr[t] + 1 /\ Tr[t] \in Nat /\ s.attempts <= MaxAttempts
      BY <2>1, <2>2
    <3>2. Tr' = [Tr EXCEPT ![t] = Tr[t] + 1]
      BY <2>2, <3>1, Zenon
    <3>3. \A n \in Nat : n + 1 <= MaxAttempts => n < MaxAttempts
      BY MaxAttemptsAssumption
    <3> QED BY <3>1, <3>2, <3>3
  <2>5. Request!Search(t)
    BY <1>0, <2>2, <2>3, <2>4 DEF Request!Search, Request!Move, St, Tr, Tries
  <2> QED BY <2>5 DEF RequestStep, Request!Next
<1>2. CASE Answer(r)
  <2>1. PICK s \in State :
          /\ Advance(r, s) /\ s.next = "confirm_resolution" /\ ~s.resolved
          /\ s.attempts = Old(r).attempts /\ s.attempts > 0
    BY <1>0, <1>2, AnswerMakes
  <2>2. PICK t \in Threads :
          /\ run[r].thread = t /\ Old(r) = ckpt[t]
          /\ St[t] = Place(ckpt[t]) /\ St' = [St EXCEPT ![t] = Place(s)]
          /\ Tr[t] = ckpt[t].attempts /\ (s.attempts = ckpt[t].attempts => Tr' = Tr)
    BY <2>1, NodeMoves
  <2>3. St[t] = "searching" /\ Place(s) = "asking"
    BY <1>2, <2>1, <2>2 DEF Place, Answer, At, Old
  <2>4. Tr' = Tr /\ Tr[t] > 0
    BY <2>1, <2>2
  <2>5. Request!Offer(t)
    BY <1>0, <2>2, <2>3, <2>4 DEF Request!Offer, Request!Move, St, Tr, Tries
  <2> QED BY <2>5 DEF RequestStep, Request!Next
<1>3. CASE ConfirmResolution(r)
  <2>1. PICK s \in State :
          /\ Advance(r, s) /\ s.attempts = Old(r).attempts
          /\ \/ s.next = "END" /\ s.resolved
             \/ s.next = "retrieve" /\ s.attempts < MaxAttempts /\ ~s.resolved
             \/ s.next = "escalate" /\ ~s.resolved
    BY <1>0, <1>3, ConfirmMakes
  <2>2. PICK t \in Threads :
          /\ run[r].thread = t /\ Old(r) = ckpt[t]
          /\ St[t] = Place(ckpt[t]) /\ St' = [St EXCEPT ![t] = Place(s)]
          /\ Tr[t] = ckpt[t].attempts /\ Tr' = Tr
          /\ Place(s) = Place(ckpt[t]) => St' = St
    BY <2>1, NodeMoves
  <2>3. Place(ckpt[t]) = "asking"
    BY <1>3, <2>2 DEF Place, ConfirmResolution, At, Old
  <2>4. CASE s.next = "END" /\ s.resolved
    <3>1. St' = St
      BY <2>2, <2>3, <2>4 DEF Place
    <3> QED BY <1>0, <2>2, <3>1, Unmoved
  <2>5. CASE s.next = "retrieve" /\ s.attempts < MaxAttempts
    <3>1. Place(s) = "searching" /\ Tr[t] < MaxAttempts
      BY <2>1, <2>2, <2>5 DEF Place
    <3>2. Request!SearchAgain(t)
      BY <1>0, <2>2, <2>3, <3>1 DEF Request!SearchAgain, Request!Move, St, Tr, Tries
    <3> QED BY <3>2 DEF RequestStep, Request!Next
  <2>6. CASE s.next = "escalate" /\ ~s.resolved
    <3>1. Place(s) = "escalating"
      BY <2>6 DEF Place
    <3>2. Request!GiveUp(t)
      BY <1>0, <2>2, <2>3, <3>1 DEF Request!GiveUp, Request!Move, St, Tr, Tries
    <3> QED BY <3>2 DEF RequestStep, Request!Next
  <2> QED BY <2>1, <2>4, <2>5, <2>6
<1>4. CASE Escalate(r, demo_config)
  <2>1. PICK s \in State :
          /\ Advance(r, s) /\ s.next = "END" /\ ~s.resolved /\ s.attempts = Old(r).attempts
    BY <1>0, <1>4, EscalateMakes
  <2>2. PICK t \in Threads :
          /\ Old(r) = ckpt[t] /\ Sound(ckpt[t])
          /\ Place(s) = Place(ckpt[t]) => St' = St
          /\ s.attempts = ckpt[t].attempts => Tr' = Tr
    BY <2>1, NodeMoves
  <2>3. ckpt[t].next = "escalate" /\ ~ckpt[t].resolved
    BY <1>4, <2>2 DEF Escalate, At, Old, Sound
  <2>4. Place(s) = "escalating" /\ Place(ckpt[t]) = "escalating"
    BY <2>1, <2>3 DEF Place
  <2> QED BY <1>0, <2>1, <2>2, <2>4, Unmoved
<1>5. CASE Pause(r, demo_config)
  BY <1>0, <1>5, StutterMaps DEF Pause, session
<1> QED BY <1>0, <1>1, <1>2, <1>3, <1>4, <1>5 DEF Execute

LEMMA AskMaps ==
  ASSUME IInv, PatientInv, NEW t \in Threads, AskQuestion(t)
  PROVE  RequestStep
<1>1. /\ GraphInv /\ t \notin asked /\ asked' = asked \cup {t}
      /\ UNCHANGED <<outcome, issues>> /\ ckpt[t] = AbsentState
  BY DEF IInv, TypeInv, AskQuestion, Invoke, PatientInv, RestInv
<1>2. ckpt'[t] = InitialState /\ \A u \in Threads : u # t => ckpt'[u] = ckpt[u]
  BY <1>1 DEF AskQuestion, Invoke, GraphInv, GraphTypeOK
<1>3. outcome[t] = {}
  BY <1>1 DEF IInv, SessionInv, PageInv
<1>4. /\ Status(t) = "new" /\ Status(t)' = "searching" /\ Tries(t) = 0 /\ Tries(t)' = 0
  BY <1>1, <1>2, <1>3, FirstStates DEF Status, Tries
<1>5. \A u \in Threads : u # t => Status(u)' = Status(u) /\ Tries(u)' = Tries(u)
  BY <1>1, <1>2 DEF Status, Tries
<1>6. St[t] = "new" /\ St' = [St EXCEPT ![t] = "searching"] /\ Tr' = Tr
  BY <1>4, <1>5 DEF St, Tr
<1>7. Request!Accept(t)
  BY <1>1, <1>6 DEF Request!Accept, Request!Move, St, Tr, Tries
<1> QED BY <1>7 DEF RequestStep, Request!Next

LEMMA OutcomeMaps ==
  ASSUME IInv, PatientInv, ShowOutcome
  PROVE  RequestStep
<1>1. /\ TypeOK /\ GraphInv /\ ScriptInv /\ DemoInv /\ PageInv /\ step # "rest" /\ script \in Runs
      /\ run[script].phase = "ended" /\ UNCHANGED <<ckpt, issues, asked>>
  BY Waiting DEF IInv, TypeInv, SessionInv, ShowOutcome, EndScript
<1>2. PICK t \in Threads : Serving(t)
  BY <1>1 DEF PatientInv
<1>3. /\ run[script].thread = t /\ run[script].state = ckpt[t] /\ ckpt[t].next = "END"
      /\ t \in asked /\ outcome[t] = {} /\ Sound(ckpt[t]) /\ Dry(ckpt[t])
  BY <1>1, <1>2 DEF Serving, ScriptInv, PageInv, GraphInv, DemoInv
<1> DEFINE m == render_outcome(ckpt[t])
<1>4. outcome'[t] = {m} /\ \A u \in Threads : u # t => outcome'[u] = outcome[u]
  BY <1>1, <1>3 DEF ShowOutcome, TypeOK
<1>5. \/ ckpt[t].resolved /\ m = "resolved"
      \/ ~ckpt[t].resolved /\ m # "resolved"
  BY <1>3 DEF render_outcome, Sound, Dry
<1> HIDE DEF m
<1>6. /\ Status(t) = Place(ckpt[t]) /\ Tries(t)' = 0
      /\ Status(t)' = IF m = "resolved" THEN "resolved" ELSE "escalated"
  BY <1>3, <1>4 DEF Status, Tries, Place
<1>7. \A u \in Threads : u # t => Status(u)' = Status(u) /\ Tries(u)' = Tries(u)
  BY <1>1, <1>4 DEF Status, Tries
<1>8. /\ St[t] = Place(ckpt[t]) /\ Tr' = [Tr EXCEPT ![t] = 0]
      /\ St' = [St EXCEPT ![t] = IF m = "resolved" THEN "resolved" ELSE "escalated"]
  BY <1>6, <1>7 DEF St, Tr
<1>9. Place(ckpt[t]) = IF m = "resolved" THEN "asking" ELSE "escalating"
  BY <1>3, <1>5 DEF Place
<1>10. Request!Close(t)
  BY <1>1, <1>8, <1>9 DEF Request!Close, Request!Move, St, Tr, Tries
<1> QED BY <1>10 DEF RequestStep, Request!Next

LEMMA StepMaps == IInv /\ PatientInv /\ [Next]_vars => RequestStep
<1> SUFFICES ASSUME IInv, PatientInv, [Next]_vars PROVE RequestStep
  OBVIOUS
<1>1. CASE Press \/ ClickTooLate \/ UNCHANGED vars
  BY <1>1, StutterMaps DEF Press, Click, Resume, ClickTooLate, vars, graph, session
<1>2. CASE ShowAnswer \/ ClearPending \/ SetPending \/ ShowException
  BY <1>2, StutterMaps DEF ShowAnswer, ClearPending, SetPending, ShowException, EndScript, graph
<1>3. ASSUME NEW r \in Runs, Fail(r) \/ Drop(r) PROVE RequestStep
  BY <1>3, FailRaises, StutterMaps DEF Drop, session
<1> QED BY <1>1, <1>2, <1>3, AskMaps, WorkMaps, OutcomeMaps DEF Next, Handle

\* For a user who waits, the demo implements SupportRequest, through nodes that raise
\* and are run again by the next click.
THEOREM Refinement ==
  ASSUME Patient
  PROVE  Spec => ImplementsRequest
<1>1. Init => Request!Init
  BY FirstStates DEF Init, GraphInit, Request!Init, Status
<1>2. IInv /\ PatientInv /\ [Next]_vars => [Request!Next]_(Request!requests)
  BY StepMaps DEF RequestStep
<1> QED BY <1>1, <1>2, Invariance, PatientInvariance, PTL
        DEF Spec, ImplementsRequest, Request!Spec
=============================================================================
