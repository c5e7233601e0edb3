--------------------------- MODULE SupportRequest ---------------------------
(***************************************************************************)
(* What the support agent promises about a question, whatever the driver:  *)
(* it is searched for at most MaxAttempts times, the user is asked after   *)
(* an answer, it ends resolved or escalated and stays so, and at most one  *)
(* Jira issue is filed, only while it is being escalated.  A process that  *)
(* dies loses its open questions.  CliApp and StreamlitApp implement it.   *)
(***************************************************************************)
EXTENDS Naturals

CONSTANTS Threads, MaxAttempts

VARIABLES
  status,   \* where the question is, as its user sees it
  tries,    \* searches so far, 0 when the question is not open
  filed     \* Jira issues filed for it

requests == <<status, tries, filed>>

Open == {"searching", "asking", "escalating"}
Closed == {"resolved", "escalated", "lost"}

Init ==
  /\ status = [t \in Threads |-> "new"]
  /\ tries = [t \in Threads |-> 0]
  /\ filed = [t \in Threads |-> 0]

Move(t, from, to) == status[t] = from /\ status' = [status EXCEPT ![t] = to]

Accept(t) == Move(t, "new", "searching") /\ UNCHANGED <<tries, filed>>

\* A search is good enough to answer from, or it is not.
Search(t) ==
  /\ tries[t] < MaxAttempts
  /\ Move(t, "searching", "searching") \/ Move(t, "searching", "escalating")
  /\ tries' = [tries EXCEPT ![t] = @ + 1]
  /\ UNCHANGED filed

Offer(t) == tries[t] > 0 /\ Move(t, "searching", "asking") /\ UNCHANGED <<tries, filed>>

\* The user asks again, or wants a ticket.
SearchAgain(t) ==
  tries[t] < MaxAttempts /\ Move(t, "asking", "searching") /\ UNCHANGED <<tries, filed>>
GiveUp(t) == Move(t, "asking", "escalating") /\ UNCHANGED <<tries, filed>>

File(t) ==
  /\ status[t] = "escalating"
  /\ filed[t] = 0
  /\ filed' = [filed EXCEPT ![t] = 1]
  /\ UNCHANGED <<status, tries>>

Close(t) ==
  /\ \/ Move(t, "asking", "resolved")
     \/ Move(t, "escalating", "escalated")
     \/ \E from \in Open : Move(t, from, "lost")
  /\ tries' = [tries EXCEPT ![t] = 0]
  /\ UNCHANGED filed

Next ==
  \E t \in Threads :
    Accept(t) \/ Search(t) \/ Offer(t) \/ SearchAgain(t) \/ GiveUp(t) \/ File(t) \/ Close(t)

Spec == Init /\ [][Next]_requests
=============================================================================
