-------------------------- MODULE AgentGraphProofs --------------------------
(***************************************************************************)
(* Lemmas about the agent's graph, for whatever driver: what a call of     *)
(* invoke, a node or a fault does to the threads.  The drivers' theorems   *)
(* are in CliAppProofs and StreamlitAppProofs.                             *)
(*                                                                         *)
(* Sound says what is so of a state wherever the graph stands with it.  It *)
(* speaks of one state alone, so it holds of every copy that runs of a     *)
(* thread and the checkpointer have of it, however old.                    *)
(***************************************************************************)
EXTENDS AgentGraph, TLAPS

Sound(s) ==
  /\ s.attempts <= MaxAttempts
  /\ s.next = "retrieve" => s.attempts < MaxAttempts
  /\ s.next = "answer" => s.confident /\ s.attempts > 0
  /\ s.next = "confirm_resolution" =>
       s.confident /\ s.answer = s.attempts /\ s.answer > 0
  /\ s.next = "absent" => s = AbsentState
  /\ s.resolved => s.next = "END" /\ s.result = "none"
  /\ s.result # "none" => s.next = "END"
  /\ s.next = "END" => s.resolved \/ s.result # "none"

Bound == \A r \in Runs : run[r].phase # "idle" => run[r].thread \in Threads

GraphInv ==
  /\ GraphTypeOK
  /\ Bound
  /\ \A t \in Threads : Sound(ckpt[t])
  /\ \A r \in Runs : Sound(run[r].state)

LEMMA FirstStates ==
  /\ InitialState \in State /\ Sound(InitialState) /\ InitialState.next = "retrieve"
  /\ AbsentState \in State /\ Sound(AbsentState) /\ AbsentState.next = "absent"
  /\ InitialState.attempts = 0 /\ AbsentState.attempts = 0 /\ ~AbsentState.resolved
  /\ ~InitialState.resolved /\ InitialState.result = "none" /\ AbsentState.result = "none"
  /\ NoRun \in Run /\ NoRun.phase = "idle" /\ NoRun.state = AbsentState
<1>1. InitialState \in State
  BY DEF InitialState, State, Nodes, USER_ACTIONS
<1>2. /\ AbsentState \in State /\ AbsentState.next = "absent"
      /\ AbsentState.attempts = 0 /\ AbsentState.resolved = FALSE
      /\ AbsentState.result = "none"
  BY <1>1 DEF AbsentState, InitialState, State
<1>3. NoRun \in Run /\ NoRun.phase = "idle" /\ NoRun.state = AbsentState
  BY <1>2 DEF NoRun, Run, Phases
<1>4. Sound(InitialState) /\ Sound(AbsentState)
  BY <1>2, MaxAttemptsAssumption DEF InitialState, Sound
<1> QED BY <1>1, <1>2, <1>3, <1>4 DEF InitialState

LEMMA GraphStart == GraphInit => GraphInv
BY FirstStates DEF GraphInit, GraphInv, GraphTypeOK, Bound

\* An emptied run, or an emptied process, is as sound as before.
LEMMA DropKeeps ==
  ASSUME GraphInv, NEW r \in Runs, run' = [run EXCEPT ![r] = NoRun], UNCHANGED <<ckpt, issues>>
  PROVE  GraphInv'
BY FirstStates DEF GraphInv, GraphTypeOK, Bound

LEMMA InvokeKeeps ==
  ASSUME GraphInv, NEW r \in Runs, NEW t \in Threads, Invoke(r, t)
  PROVE  GraphInv'
<1>1. [thread |-> t, state |-> InitialState, resume |-> "none", phase |-> "going"] \in Run
  BY FirstStates DEF Run, Phases
<1> QED BY <1>1, FirstStates DEF Invoke, GraphInv, GraphTypeOK, Bound

LEMMA ResumeKeeps ==
  ASSUME GraphInv, NEW r \in Runs, NEW t \in Threads,
         NEW v \in USER_ACTIONS \cup TICKET_ACTIONS, Resume(r, t, v)
  PROVE  GraphInv'
<1> DEFINE resumed == [thread |-> t, state |-> ckpt[t], resume |-> v,
                       phase |-> IF ckpt[t].next = "END" THEN "ended" ELSE "going"]
<1>1. resumed \in Run /\ resumed.thread \in Threads /\ Sound(resumed.state)
  BY DEF Run, Phases, GraphInv, GraphTypeOK
<1>2. run' = [run EXCEPT ![r] = resumed] /\ UNCHANGED <<ckpt, issues>>
  BY DEF Resume
<1> QED BY <1>1, <1>2 DEF GraphInv, GraphTypeOK, Bound

LEMMA AdvanceKeeps ==
  ASSUME GraphInv, NEW r \in Runs, run[r].phase = "going", NEW s \in State, Sound(s),
         Advance(r, s), issues' \in [Threads -> Nat]
  PROVE  GraphInv'
<1> DEFINE moved == [thread |-> run[r].thread, state |-> s, resume |-> "none",
                     phase |-> IF s.next = "END" THEN "ended" ELSE "going"]
<1>1. run[r].thread \in Threads
  BY DEF GraphInv, Bound
<1>2. moved \in Run /\ moved.thread \in Threads /\ moved.state = s
  BY <1>1 DEF Run, Phases
<1>3. ckpt' = [ckpt EXCEPT ![run[r].thread] = s] /\ run' = [run EXCEPT ![r] = moved]
  BY DEF Advance
<1> QED BY <1>1, <1>2, <1>3 DEF GraphInv, GraphTypeOK, Bound

-----------------------------------------------------------------------------
(* What each node makes of the state it is given.                          *)

Old(r) == run[r].state

LEMMA RetrieveMakes ==
  ASSUME GraphInv, NEW r \in Runs, Retrieve(r)
  PROVE  \E s \in State :
           /\ Sound(s) /\ Advance(r, s)
           /\ s.next \in {"answer", "escalate"} /\ s.attempts = Old(r).attempts + 1
           /\ s.attempts <= MaxAttempts /\ s.result = "none" /\ ~s.resolved
           /\ s.answer = Old(r).answer /\ s.user_action = Old(r).user_action
<1> PICK confident \in BOOLEAN :
      Advance(r, [run[r].state EXCEPT !.confident = confident, !.attempts = @ + 1,
                                      !.next = RouteAfterRetrieve(confident)])
  BY DEF Retrieve
<1> DEFINE s == [run[r].state EXCEPT !.confident = confident, !.attempts = @ + 1,
                                     !.next = RouteAfterRetrieve(confident)]
<1>1. /\ Old(r) \in State /\ Sound(Old(r)) /\ Old(r).next = "retrieve"
      /\ Old(r).attempts < MaxAttempts
  BY DEF Retrieve, At, GraphInv, GraphTypeOK, Run, Old, Sound
<1>2. /\ s.attempts = Old(r).attempts + 1 /\ s.confident = confident
      /\ s.next = RouteAfterRetrieve(confident)
      /\ s.resolved = Old(r).resolved /\ s.result = Old(r).result
      /\ s.answer = Old(r).answer /\ s.user_action = Old(r).user_action
  BY <1>1 DEF State, Old
<1>3. s \in State
  <2>1. RouteAfterRetrieve(confident) \in Nodes /\ Old(r).attempts + 1 \in Nat
    BY <1>1 DEF State, Nodes, RouteAfterRetrieve
  <2> QED BY <1>1, <2>1 DEF State, Old
<1>4. Sound(s) /\ s.result = "none" /\ ~s.resolved /\ s.attempts <= MaxAttempts
  BY <1>1, <1>2, <1>3, MaxAttemptsAssumption DEF Sound, RouteAfterRetrieve, State
<1> QED BY <1>2, <1>3, <1>4 DEF RouteAfterRetrieve

LEMMA AnswerMakes ==
  ASSUME GraphInv, NEW r \in Runs, Answer(r)
  PROVE  \E s \in State :
           /\ Sound(s) /\ Advance(r, s)
           /\ s.next = "confirm_resolution" /\ s.attempts = Old(r).attempts
           /\ s.attempts > 0 /\ s.result = "none" /\ ~s.resolved
<1> DEFINE s == [run[r].state EXCEPT !.answer = run[r].state.attempts,
                                     !.next = "confirm_resolution"]
<1>1. Old(r) \in State /\ Sound(Old(r)) /\ Old(r).next = "answer"
  BY DEF Answer, At, GraphInv, GraphTypeOK, Run, Old
<1>2. /\ s.attempts = Old(r).attempts /\ s.confident = Old(r).confident
      /\ s.next = "confirm_resolution" /\ s.answer = Old(r).attempts
      /\ s.resolved = Old(r).resolved /\ s.result = Old(r).result
  BY <1>1 DEF State, Old
<1>3. s \in State
  BY <1>1 DEF State, Nodes, Old
<1>4. Sound(s) /\ s.result = "none" /\ ~s.resolved /\ s.attempts > 0
  BY <1>1, <1>2 DEF Sound
<1> QED BY <1>2, <1>3, <1>4 DEF Answer

LEMMA ConfirmMakes ==
  ASSUME GraphInv, NEW r \in Runs, ConfirmResolution(r)
  PROVE  \E s \in State :
           /\ Sound(s) /\ Advance(r, s)
           /\ s.attempts = Old(r).attempts /\ s.result = "none"
           /\ s.answer = Old(r).answer
           /\ s.next = "retrieve" => s.user_action = "retry"
           /\ \/ run[r].resume = "resolved" /\ s.next = "END" /\ s.resolved
              \/ s.next = "retrieve" /\ s.attempts < MaxAttempts /\ ~s.resolved
              \/ s.next = "escalate" /\ ~s.resolved
<1> DEFINE action == run[r].resume
           s == [run[r].state EXCEPT
                   !.user_action = action, !.resolved = (action = "resolved"),
                   !.next = RouteAfterConfirm(action, run[r].state.attempts)]
<1>1. /\ Old(r) \in State /\ Sound(Old(r)) /\ Old(r).next = "confirm_resolution"
      /\ action \in USER_ACTIONS /\ Advance(r, s)
  BY DEF ConfirmResolution, At, GraphInv, GraphTypeOK, Run, Old
<1>2. /\ s.attempts = Old(r).attempts /\ s.confident = Old(r).confident
      /\ s.next = RouteAfterConfirm(action, Old(r).attempts) /\ s.answer = Old(r).answer
      /\ s.resolved = (action = "resolved") /\ s.result = Old(r).result
      /\ s.user_action = action
  BY <1>1 DEF State, Old
<1>3. s \in State
  BY <1>1 DEF State, Nodes, RouteAfterConfirm, Old
<1>4. Old(r).result = "none" /\ Old(r).attempts <= MaxAttempts
  BY <1>1 DEF Sound
<1>5. CASE action = "resolved"
  <2>1. s.next = "END" /\ s.resolved
    BY <1>2, <1>5 DEF RouteAfterConfirm
  <2>2. Sound(s)
    BY <1>2, <1>4, <2>1 DEF Sound
  <2> QED BY <1>1, <1>2, <1>3, <1>4, <1>5, <2>1, <2>2
<1>6. CASE action = "retry" /\ Old(r).attempts < MaxAttempts
  <2>1. s.next = "retrieve" /\ ~s.resolved
    BY <1>2, <1>6 DEF RouteAfterConfirm
  <2>2. Sound(s)
    BY <1>2, <1>4, <1>6, <2>1 DEF Sound
  <2> QED BY <1>1, <1>2, <1>3, <1>4, <1>6, <2>1, <2>2
<1>7. CASE action # "resolved" /\ ~(action = "retry" /\ Old(r).attempts < MaxAttempts)
  <2>1. s.next = "escalate" /\ ~s.resolved
    BY <1>2, <1>7 DEF RouteAfterConfirm
  <2>2. Sound(s)
    BY <1>2, <1>4, <2>1 DEF Sound
  <2> QED BY <1>1, <1>2, <1>3, <1>4, <2>1, <2>2
<1> QED BY <1>5, <1>6, <1>7

\* A ticket is created at most here, once, and then the state says so.
LEMMA EscalateMakes ==
  ASSUME GraphInv, NEW r \in Runs, NEW cfg \in Config, Escalate(r, cfg)
  PROVE  /\ issues' \in [Threads -> Nat]
         /\ \E s \in State :
              /\ Sound(s) /\ Advance(r, s)
              /\ s.next = "END" /\ ~s.resolved /\ s.attempts = Old(r).attempts
              /\ \/ s.result \in {"not_configured", "dry_run"} /\ UNCHANGED issues
                 \/ s.result = "cancelled" /\ ~cfg.dry_run /\ UNCHANGED issues
                 \/ /\ s.result = "created" /\ CreateIssue(r)
                    /\ ~cfg.dry_run /\ run[r].resume = "create"
<1>1. /\ Old(r) \in State /\ Sound(Old(r)) /\ Old(r).next = "escalate"
      /\ run[r].thread \in Threads
  BY DEF Escalate, At, GraphInv, GraphTypeOK, Bound, Run, Old
<1>2. ASSUME NEW result \in {"cancelled", "not_configured", "dry_run", "created"},
             EscalateWith(r, result)
      PROVE  \E s \in State :
               /\ Sound(s) /\ Advance(r, s) /\ s.next = "END" /\ ~s.resolved
               /\ s.attempts = Old(r).attempts /\ s.result = result
  <2> DEFINE s == [run[r].state EXCEPT !.result = result, !.next = "END"]
  <2>1. /\ s.attempts = Old(r).attempts /\ s.next = "END" /\ s.result = result
        /\ s.resolved = Old(r).resolved
    BY <1>1 DEF State, Old
  <2>2. s \in State
    BY <1>1 DEF State, Old
  <2>3. Sound(s) /\ ~s.resolved
    BY <1>1, <2>1 DEF Sound
  <2> QED BY <1>2, <2>1, <2>2, <2>3 DEF EscalateWith
<1>3. CreateIssue(r) => issues' \in [Threads -> Nat]
  BY <1>1 DEF CreateIssue, GraphInv, GraphTypeOK
<1>4. \/ ~cfg.dry_run /\ EscalateCancel(r)
      \/ cfg.dry_run /\ EscalateDryRun(r, cfg)
      \/ ~cfg.dry_run /\ run[r].resume = "create" /\ EscalatePost(r, cfg)
      \/ EscalateUnsent(r, cfg)
  BY DEF Escalate, Confirmed
<1>5. CASE ~cfg.dry_run /\ EscalateCancel(r)
  BY <1>2, <1>5 DEF EscalateCancel, GraphInv, GraphTypeOK
<1>6. CASE EscalateDryRun(r, cfg) \/ EscalateUnsent(r, cfg)
  <2>1. /\ UNCHANGED issues
        /\ \E result \in {"not_configured", "dry_run"} : EscalateWith(r, result)
    BY <1>6 DEF EscalateDryRun, EscalateUnsent
  <2> QED BY <1>2, <2>1 DEF GraphInv, GraphTypeOK
<1>7. CASE ~cfg.dry_run /\ run[r].resume = "create" /\ EscalatePost(r, cfg)
  BY <1>2, <1>3, <1>7 DEF EscalatePost
<1> QED BY <1>4, <1>5, <1>6, <1>7

LEMMA PauseKeeps ==
  ASSUME GraphInv, NEW r \in Runs, NEW cfg, Pause(r, cfg)
  PROVE  GraphInv'
BY DEF Pause, At, GraphInv, GraphTypeOK, Bound, Run, Phases

LEMMA ExecuteKeeps ==
  ASSUME GraphInv, NEW r \in Runs, NEW cfg \in Config, Execute(r, cfg)
  PROVE  GraphInv'
<1>1. CASE Retrieve(r) \/ Answer(r) \/ ConfirmResolution(r)
  <2>1. UNCHANGED issues /\ run[r].phase = "going"
    BY <1>1 DEF Retrieve, Answer, ConfirmResolution, At
  <2> QED BY <1>1, <2>1, RetrieveMakes, AnswerMakes, ConfirmMakes, AdvanceKeeps
          DEF GraphInv, GraphTypeOK
<1>2. CASE Escalate(r, cfg)
  BY <1>2, EscalateMakes, AdvanceKeeps DEF Escalate, At
<1> QED BY <1>1, <1>2, PauseKeeps DEF Execute

LEMMA RaiseKeeps ==
  ASSUME GraphInv, NEW r \in Runs, NEW cfg, Raise(r, cfg)
  PROVE  GraphInv'
<1>1. run[r].thread \in Threads
  BY DEF Raise, GraphInv, Bound
<1>2. issues' \in [Threads -> Nat]
  BY <1>1 DEF Raise, CreateIssue, GraphInv, GraphTypeOK
<1>3. run' = [run EXCEPT ![r].phase = "raised"] /\ UNCHANGED ckpt
  BY DEF Raise
<1> QED BY <1>1, <1>2, <1>3 DEF GraphInv, GraphTypeOK, Bound, Run, Phases

\* No state counts too many attempts, and one that asks asks about its own last,
\* confident one, wherever the invariant holds.
LEMMA GraphPromises == GraphInv => CountBounded /\ AsksOfOwnAttempt
BY DEF GraphInv, Sound, CountBounded, AsksOfOwnAttempt
=============================================================================
