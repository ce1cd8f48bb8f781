-------------------------- MODULE AssistantTurnsProof --------------------------
(* Proofs about AssistantTurns, for any number of turns, answers and operator  *)
(* sessions.                                                                   *)
EXTENDS AssistantTurns, TLAPS

USE TurnsAssumption

(* The columns and records keep their types.                                   *)
TypeOK ==
  /\ active \in ActiveTurns \cup {NoTurn}
  /\ controller \in Turns \cup {None}
  /\ turn \in [Turns -> Runs]
  /\ approval \in [Turns -> Approvals]
  /\ response \in [Responders -> Responses]
  /\ written \in [Turns -> Nat]
  /\ stranded \subseteq Turns

(* A turn that has asked for an approval is over.                              *)
AskingEndsTheTurn ==
  \A t \in Turns : approval[t].status # "none" => turn[t].pc = "ended"

(* An approval is carried out by one handler, which has yet to run its tool,   *)
(* even if another approval is carried out meanwhile.                          *)
AnswersAreApproved ==
  \A x \in Responders : response[x].pc # "idle" =>
    /\ response[x].turn \in Turns
    /\ approval[response[x].turn].status = "approved"
    /\ response[x].pc = "executing" => written[response[x].turn] = 0
    /\ \A y \in Responders :
         response[y].pc # "idle" /\ response[y].turn = response[x].turn => y = x

OneAtATime ==
  /\ TypeOK
  /\ WorkHoldsTheRow
  /\ PendingIsAwaited
  /\ OnlyApprovedWritesRun
  /\ AskingEndsTheTurn
  /\ AnswersAreApproved

USE DEF TypeOK, ActiveTurns, NoTurn, Runs, Approvals, Responses

LEMMA InitOneAtATime == Init => OneAtATime
BY DEF Init, OneAtATime, WorkHoldsTheRow, PendingIsAwaited, OnlyApprovedWritesRun,
       AskingEndsTheTurn, AnswersAreApproved, Waits

USE DEF OneAtATime, WorkHoldsTheRow, PendingIsAwaited, OnlyApprovedWritesRun,
        AskingEndsTheTurn, AnswersAreApproved, Waits

LEMMA UnapprovedIsUnwritten ==
  ASSUME OneAtATime, NEW t \in Turns, approval[t].status # "approved"
  PROVE  written[t] = 0
<1>1. written[t] \in Nat /\ written[t] <= 1 /\ written[t] # 1
  OBVIOUS
<1> QED
  BY ONLY <1>1

-------------------------------------------------------------------------------
(* A message takes a row that is free, so that nothing else is at work.        *)
LEMMA SendMessageKeeps ==
  ASSUME OneAtATime, NEW t \in Turns, NEW s \in Sessions, SendMessage(t, s)
  PROVE  OneAtATime'
<1>1. CASE LockIsFree
  <2>1. stranded = {} =>
          /\ \A u \in Turns : ~Waits(u) /\ approval[u].status # "pending"
          /\ \A x \in Responders : response[x].pc = "idle"
    BY <1>1 DEF LockIsFree
  <2>2. active' = [turn |-> t, session |-> s, state |-> "running"]
    BY <1>1 DEF SendMessage
  <2>3. /\ controller' = t
        /\ turn' = [turn EXCEPT ![t].pc = "asking"]
        /\ UNCHANGED <<approval, response, written, stranded>>
    BY <1>1 DEF SendMessage, history
  <2>4. approval[t].status = "none"
    BY DEF SendMessage
  <2> QED
    BY <2>1, <2>2, <2>3, <2>4
<1>2. CASE ~LockIsFree
  BY <1>2 DEF SendMessage, history
<1> QED
  BY <1>1, <1>2

(* What a turn that waits may rely on: nobody else is at work or awaited.      *)
LEMMA WaitingAlone ==
  ASSUME OneAtATime, NEW t \in Turns, Waits(t)
  PROVE  /\ approval[t].status = "none"
         /\ stranded = {} => /\ active.turn = t /\ active # NoTurn
                         /\ \A u \in Turns : u # t => ~Waits(u)
                         /\ \A v \in Turns : approval[v].status # "pending"
                         /\ \A x \in Responders : response[x].pc = "idle"
OBVIOUS

LEMMA TurnStepKeeps ==
  ASSUME OneAtATime, NEW t \in Turns, TurnStep(t)
  PROVE  OneAtATime'
<1>0. Waits(t)
  BY DEF TurnStep, EndTurn, CallReadTool, StoreApproval, AskApproval, AskFails
<1>1. CASE EndTurn(t)
  <2>1. /\ active' = NoTurn /\ controller' = None
        /\ turn' = [turn EXCEPT ![t].pc = "ended"]
        /\ UNCHANGED <<approval, response, written, stranded>>
    BY <1>1 DEF EndTurn, Returns, Finally, ClearTurn
  <2> QED
    BY <1>0, <2>1, WaitingAlone
<1>2. CASE CallReadTool(t)
  <2>1. /\ turn' = [turn EXCEPT ![t].pc = "reading", ![t].calls = @ + 1]
        /\ turn[t].calls + 1 \in 0 .. MaxToolCalls
        /\ UNCHANGED <<active, controller, approval, response, written, stranded>>
    BY <1>2 DEF CallReadTool, history
  <2> QED
    BY <1>0, <2>1, WaitingAlone
<1>3. CASE AskApproval(t) \/ AskFails(t)
  <2>1. /\ approval' = [approval EXCEPT ![t].status = "pending"]
        /\ turn' = [turn EXCEPT ![t].pc = "ended"]
        /\ UNCHANGED <<response, written>>
        /\ ~turn[t].aborted
    BY <1>3 DEF AskApproval, AskFails, StoreApproval, Returns, GoesOn
  <2>2. /\ \/ active' = NoTurn
           \/ active' = active
           \/ active # NoTurn /\ active' = [active EXCEPT !.state = "awaiting_approval"]
        /\ controller' \in {None, controller} /\ stranded' \in {stranded \cup {t}, stranded}
        /\ stranded' # {} \/ (active # NoTurn
                           => active' = [active EXCEPT !.state = "awaiting_approval"])
    BY <1>3 DEF AskApproval, AskFails, RetainTurnLock, Marked, Finally, ClearTurn, history
  <2>3. approval[t].status = "none"
    BY <1>0, WaitingAlone
  <2>4. TypeOK'
    <3>1. active' \in ActiveTurns \cup {NoTurn}
      BY <2>2
    <3>2. approval' \in [Turns -> Approvals] /\ turn' \in [Turns -> Runs]
      BY <2>1
    <3> QED
      BY <2>1, <2>2, <3>1, <3>2
  <2>5. WorkHoldsTheRow' /\ PendingIsAwaited'
    BY <1>0, <2>1, <2>2, WaitingAlone
  <2>6. OnlyApprovedWritesRun' /\ AskingEndsTheTurn' /\ AnswersAreApproved'
    BY <2>1, <2>3
  <2> QED
    BY <2>4, <2>5, <2>6
<1> QED
  BY <1>1, <1>2, <1>3 DEF TurnStep

-------------------------------------------------------------------------------
(* A cancel withdraws whatever can still be answered.                          *)
LEMMA CancelTurnKeeps ==
  ASSUME OneAtATime, NEW s \in Sessions, CancelTurn(s)
  PROVE  OneAtATime'
<1>1. active # NoTurn /\ active' = [active EXCEPT !.state = "cancelled"]
  BY DEF CancelTurn
<1>2. /\ approval' \in [Turns -> Approvals]
      /\ \A t \in Turns : /\ approval'[t].status # "pending"
                          /\ approval[t].status = "approved" <=> approval'[t].status = "approved"
                          /\ approval[t].status = "none" <=> approval'[t].status = "none"
  <2>1. /\ DOMAIN approval' = Turns
        /\ \A t \in Turns :
             approval'[t] = IF approval[t].status = "pending"
                            THEN [approval[t] EXCEPT !.status = "withdrawn"] ELSE approval[t]
    BY DEF CancelTurn
  <2>2. approval' = [t \in Turns |-> approval'[t]]
    BY DEF CancelTurn
  <2>3. ASSUME NEW t \in Turns
        PROVE  /\ approval'[t] \in Approvals /\ approval'[t].status # "pending"
               /\ approval[t].status = "approved" <=> approval'[t].status = "approved"
               /\ approval[t].status = "none" <=> approval'[t].status = "none"
    <3>1. approval[t] \in Approvals
      OBVIOUS
    <3> QED
      BY ONLY <2>1, <3>1 DEF Approvals
  <2> QED
    BY <2>2, <2>3
<1>3. /\ turn' \in [Turns -> Runs]
      /\ \A t \in Turns : turn'[t].pc = turn[t].pc
  <2>1. CASE controller = None
    BY <2>1 DEF CancelTurn
  <2>2. CASE controller \in Turns
    <3>1. turn' = [turn EXCEPT ![controller].aborted = TRUE]
      BY <2>2 DEF CancelTurn
    <3>2. turn \in [Turns -> Runs]
      OBVIOUS
    <3> QED
      BY ONLY <2>2, <3>1, <3>2 DEF Runs
  <2> QED
    BY <2>1, <2>2
<1>4. UNCHANGED <<controller, response, written, stranded>>
  BY DEF CancelTurn, history
<1>5. TypeOK'
  BY <1>1, <1>2, <1>3, <1>4
<1>6. WorkHoldsTheRow' /\ PendingIsAwaited'
  BY <1>1, <1>2, <1>3, <1>4
<1>7. OnlyApprovedWritesRun' /\ AskingEndsTheTurn' /\ AnswersAreApproved'
  BY <1>2, <1>3, <1>4
<1> QED
  BY <1>5, <1>6, <1>7

LEMMA AgeKeeps ==
  ASSUME OneAtATime, NEW t \in Turns, Age(t)
  PROVE  OneAtATime'
<1>1. approval' = [approval EXCEPT ![t].stale = TRUE]
  BY DEF Age
<1>2. UNCHANGED <<active, controller, turn, response, written, stranded>>
  BY DEF Age, history
<1>3. approval \in [Turns -> Approvals]
  OBVIOUS
<1>4. /\ approval' \in [Turns -> Approvals]
      /\ \A u \in Turns : approval'[u].status = approval[u].status
  BY ONLY <1>1, <1>3 DEF Approvals
<1> QED
  BY <1>2, <1>4

-------------------------------------------------------------------------------
(* Answers.                                                                    *)

(* Unless one was stranded, a pending approval is all there is in the          *)
(* conversation.                                                               *)
LEMMA PendingAlone ==
  ASSUME OneAtATime, NEW t \in Turns, approval[t].status = "pending"
  PROVE  /\ written[t] = 0
         /\ \A x \in Responders : response[x].pc # "idle" => response[x].turn # t
         /\ stranded = {} => /\ active.turn = t /\ active # NoTurn
                         /\ \A u \in Turns : ~Waits(u)
                         /\ \A v \in Turns : approval[v].status = "pending" => v = t
                         /\ \A x \in Responders : response[x].pc = "idle"
<1>1. stranded = {} => active.turn = t /\ active # NoTurn
  OBVIOUS
<1>2. stranded = {} => \A u \in Turns : ~Waits(u) /\ (approval[u].status = "pending" => u = t)
  BY <1>1
<1>3. \A x \in Responders : response[x].pc # "idle" => response[x].turn # t
  OBVIOUS
<1>4. stranded = {} => \A x \in Responders : response[x].pc = "idle"
  BY <1>1, <1>3
<1> QED
  BY <1>1, <1>2, <1>3, <1>4, UnapprovedIsUnwritten

LEMMA RefusalKeeps ==
  ASSUME OneAtATime, NEW t \in Turns,
         RespondTooLate(t) \/ \E s \in Sessions : Decline(t, s)
  PROVE  OneAtATime'
<1>1. approval[t].status = "pending"
  BY DEF RespondTooLate, Decline, InTime, Answerable
<1>2. PICK status \in {"expired", "declined"} :
        approval' = [approval EXCEPT ![t].status = status]
  BY DEF RespondTooLate, Decline
<1>3. /\ active' = NoTurn /\ controller' = None
      /\ UNCHANGED <<turn, response, written, stranded>>
  BY DEF RespondTooLate, Decline, ClearTurn
<1> QED
  BY <1>1, <1>2, <1>3, PendingAlone

LEMMA ApproveKeeps ==
  ASSUME OneAtATime, NEW x \in Responders, NEW t \in Turns, NEW s \in Sessions,
         Approve(x, t, s)
  PROVE  OneAtATime'
<1>1. approval[t].status = "pending"
  BY DEF Approve, InTime, Answerable
<1>2. /\ approval' = [approval EXCEPT ![t].status = "approved"]
      /\ response' = [response EXCEPT ![x] = [pc |-> "executing", turn |-> t]]
      /\ UNCHANGED <<controller, turn, written, stranded>>
  BY DEF Approve, history
<1>3. active # NoTurn /\ active' = [active EXCEPT !.state = "running"]
  BY DEF Approve, InTime, Marked
<1>4. TypeOK'
  <2>1. active \in ActiveTurns /\ active' \in ActiveTurns
    BY <1>3
  <2>2. approval' \in [Turns -> Approvals] /\ response' \in [Responders -> Responses]
    BY <1>2
  <2> QED
    BY <1>2, <2>1, <2>2
<1>5. WorkHoldsTheRow' /\ PendingIsAwaited'
  BY <1>1, <1>2, <1>3, PendingAlone
<1>6. OnlyApprovedWritesRun' /\ AskingEndsTheTurn'
  BY <1>1, <1>2, PendingAlone
<1>7. AnswersAreApproved'
  BY <1>1, <1>2, PendingAlone
<1> QED
  BY <1>4, <1>5, <1>6, <1>7

LEMMA ResponseStepKeeps ==
  ASSUME OneAtATime, NEW x \in Responders, ResponseStep(x)
  PROVE  OneAtATime'
<1>0. response[x].pc # "idle"
  BY DEF ResponseStep, ExecuteTool, EndResponse, EndFails
<1>1. /\ response[x].turn \in Turns
      /\ approval[response[x].turn].status = "approved"
      /\ \A y \in Responders :
           response[y].pc # "idle" /\ response[y].turn = response[x].turn => y = x
      /\ stranded = {} => /\ active.turn = response[x].turn
                      /\ \A y \in Responders : response[y].pc # "idle" => y = x
                      /\ \A t \in Turns : ~Waits(t) /\ approval[t].status # "pending"
  BY <1>0
<1>2. CASE ExecuteTool(x)
  <2>1. /\ written' = [written EXCEPT ![response[x].turn] = @ + 1]
        /\ written[response[x].turn] = 0
        /\ response' = [response EXCEPT ![x].pc = "executed"]
        /\ UNCHANGED <<active, controller, turn, approval, stranded>>
    BY <1>2 DEF ExecuteTool, history
  <2> QED
    BY <1>1, <2>1
<1>3. CASE EndResponse(x) \/ EndFails(x)
  <2>1. /\ response' = [response EXCEPT ![x] = [pc |-> "idle", turn |-> None]]
        /\ active' \in {NoTurn, active} /\ controller' \in {None, controller}
        /\ UNCHANGED <<turn, approval, written, stranded>>
    BY <1>3 DEF EndResponse, EndFails, ClearTurn, tables
  <2> QED
    BY <1>1, <2>1
<1> QED
  BY <1>2, <1>3 DEF ResponseStep

(* The tables stay, and nothing that is left in them is at work.               *)
LEMMA CrashKeeps ==
  ASSUME OneAtATime, Crash
  PROVE  OneAtATime'
<1>1. /\ turn' \in [Turns -> Runs]
      /\ \A t \in Turns : /\ ~Waits(t)' /\ turn'[t].aborted = turn[t].aborted
                          /\ turn[t].pc = "ended" => turn'[t].pc = "ended"
  <2>1. turn' = [t \in Turns |-> IF Waits(t) THEN [turn[t] EXCEPT !.pc = "ended"] ELSE turn[t]]
    BY DEF Crash
  <2>2. turn \in [Turns -> Runs]
    OBVIOUS
  <2> QED
    BY ONLY <2>1, <2>2 DEF Runs, Waits
<1>2. /\ response' = [x \in Responders |-> [pc |-> "idle", turn |-> None]]
      /\ controller' = None
      /\ UNCHANGED <<active, approval, written, stranded>>
  BY DEF Crash, tables
<1> QED
  BY <1>1, <1>2

-------------------------------------------------------------------------------
(* The inductive invariant of the turns of a conversation: whoever is at work  *)
(* or awaited holds the row, and every approval is answered by one handler.    *)
THEOREM ConversationsAreOrderly == Spec => []OneAtATime
<1>1. OneAtATime /\ [Next]_vars => OneAtATime'
  <2> SUFFICES ASSUME OneAtATime, [Next]_vars PROVE OneAtATime'
    OBVIOUS
  <2>1. ASSUME NEW t \in Turns, TurnStep(t) \/ Age(t) \/ RespondTooLate(t)
        PROVE  OneAtATime'
    BY ONLY <2>1, OneAtATime, TurnStepKeeps, AgeKeeps, RefusalKeeps
  <2>2. ASSUME NEW t \in Turns, NEW s \in Sessions,
               SendMessage(t, s) \/ Decline(t, s) \/ \E x \in Responders : Approve(x, t, s)
        PROVE  OneAtATime'
    BY ONLY <2>2, OneAtATime, SendMessageKeeps, RefusalKeeps, ApproveKeeps
  <2>3. ASSUME NEW s \in Sessions, CancelTurn(s) PROVE OneAtATime'
    BY ONLY <2>3, OneAtATime, CancelTurnKeeps
  <2>4. ASSUME NEW x \in Responders, ResponseStep(x) PROVE OneAtATime'
    BY ONLY <2>4, OneAtATime, ResponseStepKeeps
  <2>5. CASE Crash
    BY ONLY <2>5, OneAtATime, CrashKeeps
  <2>6. CASE UNCHANGED vars
    BY <2>6 DEF vars, history
  <2> QED
    BY <2>1, <2>2, <2>3, <2>4, <2>5, <2>6 DEF Next
<1> QED
  BY <1>1, InitOneAtATime, PTL DEF Spec

(* Until an approval is stranded, one piece of work at a time holds the row of *)
(* its conversation, through cancels, late answers, long results and crashes.  *)
THEOREM WorkAlwaysHoldsTheRow == Spec => []WorkHoldsTheRow
BY ConversationsAreOrderly, PTL DEF OneAtATime

(* Until one is stranded, what can still be answered belongs to the turn that  *)
(* waits for it.                                                               *)
THEOREM PendingApprovalsAreAwaited == Spec => []PendingIsAwaited
BY ConversationsAreOrderly, PTL DEF OneAtATime

(* A tool that writes runs once, and only when it was approved.                *)
THEOREM WritesAreApproved == Spec => []OnlyApprovedWritesRun
BY ConversationsAreOrderly, PTL DEF OneAtATime

-------------------------------------------------------------------------------
(* Tools that write keep the promise of ApprovedWrites.                        *)

HIDE DEF TypeOK, ActiveTurns, NoTurn, Runs, Approvals, Responses, OneAtATime, WorkHoldsTheRow,
         PendingIsAwaited, OnlyApprovedWritesRun, AskingEndsTheTurn, AnswersAreApproved, Waits

(* How far a tool is, from what is recorded of its approval.                   *)
SentSays ==
  \A t \in Turns :
    /\ approval[t].status
         \in {"none", "pending", "approved", "declined", "expired", "withdrawn"}
    /\ written[t] \in {0, 1}
    /\ approval[t].status # "approved" => written[t] = 0 /\ ~ToolRuns(t)
    /\ ToolRuns(t) => written[t] = 0

LEMMA SentIsSo == OneAtATime => SentSays
<1> SUFFICES ASSUME OneAtATime PROVE SentSays
  OBVIOUS
<1>1. TypeOK /\ OnlyApprovedWritesRun /\ AnswersAreApproved
  BY DEF OneAtATime
<1>2. ASSUME NEW t \in Turns
      PROVE  /\ written[t] \in {0, 1}
             /\ approval[t].status # "approved" => written[t] = 0
             /\ approval[t].status
                  \in {"none", "pending", "approved", "declined", "expired", "withdrawn"}
  BY <1>1 DEF TypeOK, OnlyApprovedWritesRun, Approvals
<1>3. ASSUME NEW t \in Turns, ToolRuns(t)
      PROVE  written[t] = 0 /\ approval[t].status = "approved"
  BY <1>1, <1>3 DEF ToolRuns, AnswersAreApproved
<1> QED
  BY <1>2, <1>3 DEF SentSays

(* What a step may do to an approval and its tool.                             *)
Moves(t) ==
  LET was == approval[t].status
      is  == approval'[t].status
  IN \/ is = was /\ written'[t] = written[t] /\ (ToolRuns(t)' <=> ToolRuns(t))
     \/ was = "none" /\ is = "pending"
     \/ was = "pending" /\ is \in {"declined", "expired", "withdrawn"}
     \/ was = "pending" /\ is = "approved" /\ written'[t] = written[t] /\ ToolRuns(t)'
     \/ is = was /\ ToolRuns(t) /\ written'[t] = written[t] + 1
     \/ is = was /\ ToolRuns(t) /\ ~ToolRuns(t)' /\ written'[t] = written[t]

LEMMA MovesAreSteps ==
  ASSUME SentSays, SentSays', \A t \in Turns : Moves(t)
  PROVE  Promise!Next
<1> SUFFICES ASSUME NEW t \in Turns
             PROVE  Promise!Step(t)
  BY DEF Promise!Next
<1>1. Moves(t)
  OBVIOUS
<1>2. /\ Sent(t) = IF written[t] = 1 THEN "yes" ELSE IF ToolRuns(t) THEN "maybe"
                   ELSE IF approval[t].status = "approved" THEN "never" ELSE "no"
      /\ Sent(t)' = IF written'[t] = 1 THEN "yes" ELSE IF ToolRuns(t)' THEN "maybe"
                    ELSE IF approval'[t].status = "approved" THEN "never" ELSE "no"
  BY DEF Sent, SentSays, ToolRuns
<1>3. /\ Told("none") = "none" /\ Told("pending") = "pending"
      /\ Told("approved") = "approved"
      /\ \A no \in {"declined", "expired", "withdrawn"} : Told(no) = "declined"
  BY DEF Told
<1> QED
  BY <1>1, <1>2, <1>3
     DEF Moves, SentSays, Promise!Step, Promise!Rest, Promise!Ask, Promise!Decline,
         Promise!Approve, Promise!Turn, Promise!At, Promise!Becomes

LEMMA ResponseMoves ==
  ASSUME OneAtATime, NEW x \in Responders, ResponseStep(x), NEW t \in Turns
  PROVE  Moves(t)
<1>1. /\ response \in [Responders -> Responses] /\ written \in [Turns -> Nat]
      /\ AnswersAreApproved
  BY DEF OneAtATime, TypeOK
<1>2. response[x].pc # "idle" /\ approval' = approval
  BY DEF ResponseStep, ExecuteTool, EndResponse, EndFails, tables
<1>3. /\ response[x].turn \in Turns
      /\ \A y \in Responders :
           y # x /\ response[y].pc # "idle" => response[y].turn # response[x].turn
  BY <1>1, <1>2 DEF AnswersAreApproved
<1>4. CASE t # response[x].turn
  <2>1. /\ \A y \in Responders : y # x => response'[y] = response[y]
        /\ response'[x] # [pc |-> "executing", turn |-> t]
        /\ response[x] # [pc |-> "executing", turn |-> t]
        /\ written'[t] = written[t]
    BY <1>1, <1>3, <1>4 DEF ResponseStep, ExecuteTool, EndResponse, EndFails, Responses
  <2>2. ToolRuns(t)' <=> ToolRuns(t)
    BY <2>1 DEF ToolRuns
  <2> QED
    BY <1>2, <2>1, <2>2 DEF Moves
<1>5. CASE t = response[x].turn
  <2>1. \A y \in Responders : y # x => /\ response'[y] = response[y]
                                       /\ response[y] # [pc |-> "executing", turn |-> t]
    BY <1>1, <1>3, <1>5 DEF ResponseStep, ExecuteTool, EndResponse, EndFails
  <2>2. response[x].pc = "executing" <=> ToolRuns(t)
    <3>1. response[x] \in Responses
      BY <1>1
    <3>2. response[x] = [pc |-> "executing", turn |-> t] <=> response[x].pc = "executing"
      BY <1>5, <3>1 DEF Responses
    <3> QED
      BY <2>1, <3>2 DEF ToolRuns
  <2>3. ~ToolRuns(t)'
    <3>1. response'[x].pc # "executing"
      BY <1>1 DEF ResponseStep, ExecuteTool, EndResponse, EndFails, Responses
    <3> QED
      BY <2>1, <3>1 DEF ToolRuns
  <2>4. CASE ExecuteTool(x)
    BY <1>1, <1>2, <1>5, <2>2, <2>4 DEF ExecuteTool, Moves
  <2>5. CASE EndResponse(x) \/ EndFails(x)
    BY <1>2, <2>2, <2>3, <2>5 DEF EndResponse, EndFails, Moves
  <2> QED
    BY <2>4, <2>5 DEF ResponseStep
<1> QED
  BY <1>4, <1>5

(* An answer of the operator, an approval that is asked for or withdrawn.      *)
LEMMA AnswerMoves ==
  ASSUME OneAtATime, NEW u \in Turns, NEW status,
         approval' = [approval EXCEPT ![u].status = status], UNCHANGED <<response, written>>,
         \/ approval[u].status = "none" /\ status = "pending"
         \/ approval[u].status = "pending" /\ status \in {"declined", "expired"},
         NEW t \in Turns
  PROVE  Moves(t)
<1>1. approval \in [Turns -> Approvals]
  BY DEF OneAtATime, TypeOK
<1>2. /\ t # u => approval'[t] = approval[t]
      /\ approval'[u].status = status
  BY <1>1 DEF Approvals
<1>3. ToolRuns(t)' <=> ToolRuns(t)
  BY DEF ToolRuns
<1> QED
  BY <1>2, <1>3 DEF Moves

LEMMA ApproveMoves ==
  ASSUME OneAtATime, NEW x \in Responders, NEW u \in Turns, NEW s \in Sessions,
         Approve(x, u, s), NEW t \in Turns
  PROVE  Moves(t)
<1>1. /\ approval \in [Turns -> Approvals] /\ response \in [Responders -> Responses]
  BY DEF OneAtATime, TypeOK
<1>2. /\ approval[u].status = "pending" /\ response[x].pc = "idle"
      /\ approval' = [approval EXCEPT ![u].status = "approved"]
      /\ response' = [response EXCEPT ![x] = [pc |-> "executing", turn |-> u]]
      /\ written' = written
  BY DEF Approve, InTime, Answerable
<1>3. approval'[u].status = "approved" /\ (t # u => approval'[t] = approval[t])
  BY <1>1, <1>2 DEF Approvals
<1>4. response'[x] = [pc |-> "executing", turn |-> u]
      /\ \A y \in Responders : y # x => response'[y] = response[y]
  BY <1>1, <1>2
<1>5. CASE t = u
  <2>1. ToolRuns(t)'
    BY <1>4, <1>5 DEF ToolRuns
  <2> QED
    BY <1>2, <1>3, <1>5, <2>1 DEF Moves
<1>6. CASE t # u
  <2>1. ToolRuns(t)' <=> ToolRuns(t)
    <3>1. response[x] # [pc |-> "executing", turn |-> t]
          /\ response'[x] # [pc |-> "executing", turn |-> t]
      BY <1>2, <1>4, <1>6
    <3> QED
      BY <1>4, <3>1 DEF ToolRuns
  <2> QED
    BY <1>2, <1>3, <1>6, <2>1 DEF Moves
<1> QED
  BY <1>5, <1>6

LEMMA NextMoves ==
  ASSUME OneAtATime, [Next]_vars, NEW t \in Turns
  PROVE  Moves(t)
<1>1. approval \in [Turns -> Approvals] /\ AskingEndsTheTurn
  BY DEF OneAtATime, TypeOK
<1>2. CASE /\ UNCHANGED <<response, written>>
           /\ approval'[t].status = approval[t].status
  <2>1. ToolRuns(t)' <=> ToolRuns(t)
    BY <1>2 DEF ToolRuns
  <2> QED
    BY <1>2, <2>1 DEF Moves
<1>3. ASSUME NEW u \in Turns, TurnStep(u) \/ Age(u) \/ RespondTooLate(u)
      PROVE  Moves(t)
  <2>1. CASE EndTurn(u) \/ CallReadTool(u)
    BY <1>2, <2>1 DEF EndTurn, CallReadTool
  <2>2. CASE AskApproval(u) \/ AskFails(u)
    <3>1. StoreApproval(u)
      BY <2>2 DEF AskApproval, AskFails
    <3>2. approval[u].status = "none"
      BY <1>1, <3>1 DEF StoreApproval, Waits, AskingEndsTheTurn
    <3> QED
      BY <3>1, <3>2, AnswerMoves DEF StoreApproval
  <2>3. CASE Age(u)
    BY <1>1, <1>2, <2>3 DEF Age, Approvals
  <2>4. CASE RespondTooLate(u)
    BY <2>4, AnswerMoves DEF RespondTooLate, Answerable
  <2> QED
    BY <1>3, <2>1, <2>2, <2>3, <2>4 DEF TurnStep
<1>4. ASSUME NEW u \in Turns, NEW s \in Sessions,
             SendMessage(u, s) \/ Decline(u, s) \/ \E x \in Responders : Approve(x, u, s)
      PROVE  Moves(t)
  <2>1. CASE SendMessage(u, s)
    BY <1>2, <2>1 DEF SendMessage
  <2>2. CASE Decline(u, s)
    BY <2>2, AnswerMoves DEF Decline, InTime, Answerable
  <2> QED
    BY <1>4, <2>1, <2>2, ApproveMoves
<1>5. ASSUME NEW s \in Sessions, CancelTurn(s) PROVE Moves(t)
  <2>1. /\ UNCHANGED <<response, written>>
        /\ approval'[t] = IF approval[t].status = "pending"
                          THEN [approval[t] EXCEPT !.status = "withdrawn"] ELSE approval[t]
    BY <1>5 DEF CancelTurn
  <2>2. CASE approval[t].status = "pending"
    <3>1. approval'[t].status = "withdrawn"
      BY <1>1, <2>1, <2>2 DEF Approvals
    <3> QED
      BY <2>2, <3>1 DEF Moves
  <2> QED
    BY <1>2, <2>1, <2>2
<1>6. CASE Crash
  <2>1. /\ response' = [x \in Responders |-> [pc |-> "idle", turn |-> None]]
        /\ UNCHANGED <<approval, written>>
    BY <1>6 DEF Crash, tables
  <2>2. ~ToolRuns(t)'
    BY <2>1 DEF ToolRuns
  <2> QED
    BY <2>1, <2>2 DEF Moves
<1>7. CASE UNCHANGED vars
  BY <1>2, <1>7 DEF vars
<1> QED
  BY <1>3, <1>4, <1>5, <1>6, <1>7, ResponseMoves DEF Next

(* A tool that writes waits for the operator's yes, runs once at most and not  *)
(* after a no, whatever is cancelled, expires, is answered late or crashes.    *)
THEOREM ToolsKeepThePromise == Spec => ToolsRunAsPromised
<1>1. Init => Promise!Init
  BY DEF Init, Promise!Init, Told, Sent, ToolRuns
<1>2. SentSays /\ SentSays' /\ OneAtATime /\ [Next]_vars
        => [Promise!Next]_<<[t \in Turns |-> Told(approval[t].status)],
                            [t \in Turns |-> Sent(t)]>>
  BY NextMoves, MovesAreSteps
<1> QED
  BY <1>1, <1>2, SentIsSo, ConversationsAreOrderly, PTL
     DEF Spec, ToolsRunAsPromised, Promise!Spec
===============================================================================
