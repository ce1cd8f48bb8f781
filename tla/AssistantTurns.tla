---------------------------- MODULE AssistantTurns -----------------------------
(* The turns of the Command AI assistant in one conversation                   *)
(* (server/agent-assistant/turn.ts).                                           *)
(*                                                                             *)
(* A message of the operator starts a turn, which takes the conversation's row *)
(* of assistant_active_turns, waits for the provider, and then for each tool   *)
(* the provider calls.  A tool that writes is not run: the turn stores an      *)
(* approval, leaves the row to it and ends.  The operator, in the session that *)
(* sent the message, approves or declines, and may cancel at any moment.       *)
(* The row is found by the conversation, never by the turn, so everything      *)
(* rests on there being one piece of work in the conversation at a time.       *)
(*                                                                             *)
(* A message holds 4000 characters (a CHECK of the table), and nothing cuts    *)
(* what the provider or a tool wrote: inserting it may throw.                  *)
EXTENDS Integers

CONSTANTS
  Turns,       \* the ids that new turns may draw
  Responders,  \* the HTTP handlers of answers to approvals
  Sessions,    \* operator sessions
  MaxToolCalls,
  DailyTurnCap,
  None

ASSUME TurnsAssumption ==
  /\ MaxToolCalls \in Nat /\ DailyTurnCap \in Nat
  /\ None \notin Turns /\ None \notin Sessions

VARIABLES
  queued,      \* the conversation is in turnQueue
  turnCount,   \* assistant_daily_usage.turn_count
  active,      \* the row of assistant_active_turns, or NoTurn
  controller,  \* the turn whose AbortController is in activeControllers, or None
  turn,        \* turn[t]: the run of runAssistantTurn
  approval,    \* approval[t]: the approval that turn t asked for
  response,    \* response[x]: the approval that handler x carries out
  written,     \* written[t]: how often the tool of t's approval ran (history)
  stranded,    \* the turns that failed after storing their approval (history)
  left         \* the row was left by whoever had to remove it (history)

history == <<stranded, left>>
vars == <<queued, turnCount, active, controller, turn, approval, response, written, history>>
tables == <<turnCount, active, approval>>

ActiveTurns == [turn : Turns, session : Sessions,
                state : {"running", "awaiting_approval", "cancelled"}]
NoTurn == [turn |-> None, session |-> None, state |-> "none"]

Runs == [pc : {"new", "asking", "reading", "ended"}, calls : 0 .. MaxToolCalls,
         aborted : BOOLEAN]

Approvals == [status : {"none", "pending", "approved", "declined", "expired", "withdrawn"},
              stale : BOOLEAN]        \* expires_at has passed

Responses == [pc : {"idle", "executing", "executed"}, turn : Turns \cup {None}]

Init ==
  /\ queued = FALSE
  /\ turnCount = 0
  /\ active = NoTurn
  /\ controller = None
  /\ turn = [t \in Turns |-> [pc |-> "new", calls |-> 0, aborted |-> FALSE]]
  /\ approval = [t \in Turns |-> [status |-> "none", stale |-> FALSE]]
  /\ response = [x \in Responders |-> [pc |-> "idle", turn |-> None]]
  /\ written = [t \in Turns |-> 0]
  /\ stranded = {}
  /\ left = FALSE

-------------------------------------------------------------------------------
AcquiredAnyway == TRUE                                               \* mutant

(* acquireTurnLock.                                                            *)
LockIsFree == active = NoTurn

(* updateTurnRow: no effect when the conversation has no row.                  *)
Marked(state) == IF active = NoTurn THEN NoTurn ELSE [active EXCEPT !.state = state]

ClearTurn == active' = NoTurn /\ controller' = None /\ left' = FALSE

(* startTurnAfterOperatorMessage and runAssistantTurn up to the provider.  The *)
(* turn is counted before the lock is tried.                                   *)
SendMessage(t, s) ==
  /\ ~queued
  /\ turn[t].pc = "new"
  /\ turnCount < DailyTurnCap
  /\ turnCount' = turnCount + 1
  /\ IF LockIsFree
     THEN /\ active' = [turn |-> t, session |-> s, state |-> "running"]
          /\ controller' = t
          /\ turn' = [turn EXCEPT ![t].pc = "asking"]
          /\ queued' = TRUE
     ELSE UNCHANGED <<active, controller, turn, queued>>
  /\ UNCHANGED <<approval, response, written, history>>

Waits(t) == turn[t].pc \in {"asking", "reading"}

Returns(t) == turn' = [turn EXCEPT ![t].pc = "ended"] /\ queued' = FALSE

ClearsIfNotAborted(t) ==                                             \* mutant
  IF turn[t].aborted THEN UNCHANGED <<active, controller, left>> ELSE ClearTurn

(* The finally block: the row goes however the turn ended.                     *)
Finally(t) == ClearTurn

(* Text without another tool call, a limit, an error of the provider or of a   *)
(* tool, a text too long, or the abort found before the next call: a message,  *)
(* and it is over.                                                             *)
EndTurn(t) ==
  /\ Waits(t)
  /\ Returns(t)
  /\ Finally(t)
  /\ UNCHANGED <<turnCount, approval, response, written, stranded>>

NeverStops(t) == TRUE                                                \* mutant

(* The abort signal is looked at before every tool call, and nothing is waited *)
(* for between that and the call.                                              *)
GoesOn(t) == ~turn[t].aborted

CallReadTool(t) ==
  /\ Waits(t)
  /\ GoesOn(t)
  /\ turn[t].calls < MaxToolCalls
  /\ turn' = [turn EXCEPT ![t].pc = "reading", ![t].calls = @ + 1]
  /\ UNCHANGED <<queued, turnCount, active, controller, approval, response, written, history>>

(* retainTurnLock: the row stays, in its new state, for the approval.          *)
RetainTurnLock(t) == active' = Marked("awaiting_approval") /\ UNCHANGED controller

(* A tool that writes: the calls after it are dropped.                         *)
StoreApproval(t) ==
  /\ Waits(t)
  /\ GoesOn(t)
  /\ turn[t].calls < MaxToolCalls
  /\ approval' = [approval EXCEPT ![t].status = "pending"]
  /\ Returns(t)
  /\ UNCHANGED <<turnCount, response, written>>

AskApproval(t) == StoreApproval(t) /\ RetainTurnLock(t) /\ UNCHANGED history

(* The text that came with the call is inserted after the approval is stored   *)
(* and before the lock is retained.  When it is too long the turn fails and    *)
(* its row goes, but the approval stays and can be answered over another row.  *)
AskFails(t) == StoreApproval(t) /\ Finally(t) /\ stranded' = stranded \cup {t}

(* cancelTurn, by the session that sent the message.                           *)
CancelTurn(s) ==
  /\ active.session = s
  /\ active' = [active EXCEPT !.state = "cancelled"]
  /\ turn' = IF controller = None THEN turn ELSE [turn EXCEPT ![controller].aborted = TRUE]
  /\ approval' = [t \in Turns |->
                    IF approval[t].status = "pending"
                    THEN [approval[t] EXCEPT !.status = "withdrawn"] ELSE approval[t]]
  /\ UNCHANGED <<queued, turnCount, controller, response, written, history>>

(* Fifteen minutes pass.                                                       *)
Age(t) ==
  /\ approval[t].status = "pending"
  /\ approval' = [approval EXCEPT ![t].stale = TRUE]
  /\ UNCHANGED <<queued, turnCount, active, controller, turn, response, written, history>>

-------------------------------------------------------------------------------
(* respondToApproval.                                                          *)

AnsweredOnce(t) == approval[t].status \notin {"none", "declined", "expired"}  \* mutant

Answerable(t) == approval[t].status = "pending"

(* An answer that comes too late expires the approval, whoever sends it.       *)
RespondTooLate(t) ==
  /\ Answerable(t)
  /\ approval[t].stale
  /\ approval' = [approval EXCEPT ![t].status = "expired"]
  /\ ClearTurn
  /\ UNCHANGED <<queued, turnCount, turn, response, written, stranded>>

InTime(t, s) == Answerable(t) /\ ~approval[t].stale /\ active # NoTurn /\ active.session = s

Decline(t, s) ==
  /\ InTime(t, s)
  /\ approval' = [approval EXCEPT ![t].status = "declined"]
  /\ ClearTurn
  /\ UNCHANGED <<queued, turnCount, turn, response, written, stranded>>

(* The tool is awaited without a signal: a cancel does not stop it any more.   *)
Approve(x, t, s) ==
  /\ response[x].pc = "idle"
  /\ InTime(t, s)
  /\ approval' = [approval EXCEPT ![t].status = "approved"]
  /\ active' = Marked("running")
  /\ response' = [response EXCEPT ![x] = [pc |-> "executing", turn |-> t]]
  /\ UNCHANGED <<queued, turnCount, controller, turn, written, history>>

ExecuteTool(x) ==
  /\ response[x].pc = "executing"
  /\ written' = [written EXCEPT ![response[x].turn] = @ + 1]
  /\ response' = [response EXCEPT ![x].pc = "executed"]
  /\ UNCHANGED <<queued, turnCount, active, controller, turn, approval, history>>

(* The tool's result or its error becomes a message, and the row goes.         *)
EndResponse(x) ==
  /\ response[x].pc # "idle"
  /\ response' = [response EXCEPT ![x] = [pc |-> "idle", turn |-> None]]
  /\ ClearTurn
  /\ UNCHANGED <<queued, turnCount, turn, approval, written, stranded>>

(* The result does not fit a message, and the row stays as it is.              *)
EndFails(x) ==
  /\ response[x].pc # "idle"
  /\ response' = [response EXCEPT ![x] = [pc |-> "idle", turn |-> None]]
  /\ left' = (active.state \in {"running", "cancelled"})
  /\ UNCHANGED <<queued, tables, controller, turn, written, stranded>>

(* The process stops: what is in memory goes, the tables stay.                 *)
Crash ==
  /\ queued' = FALSE
  /\ controller' = None
  /\ turn' = [t \in Turns |-> IF Waits(t) THEN [turn[t] EXCEPT !.pc = "ended"] ELSE turn[t]]
  /\ response' = [x \in Responders |-> [pc |-> "idle", turn |-> None]]
  /\ left' = (active.state \in {"running", "cancelled"})
  /\ UNCHANGED <<tables, written, stranded>>

TurnStep(t) == EndTurn(t) \/ CallReadTool(t) \/ AskApproval(t) \/ AskFails(t)

ResponseStep(x) == ExecuteTool(x) \/ EndResponse(x) \/ EndFails(x)

Next ==
  \/ \E t \in Turns : TurnStep(t) \/ Age(t) \/ RespondTooLate(t)
  \/ \E t \in Turns, s \in Sessions :
       SendMessage(t, s) \/ Decline(t, s) \/ \E x \in Responders : Approve(x, t, s)
  \/ \E s \in Sessions : CancelTurn(s)
  \/ \E x \in Responders : ResponseStep(x)
  \/ Crash

(* Providers and tools answer or fail, and the process goes on from there.     *)
Spec ==
  /\ Init /\ [][Next]_vars
  /\ \A t \in Turns : WF_vars(TurnStep(t))
  /\ \A x \in Responders : WF_vars(ResponseStep(x))

-------------------------------------------------------------------------------
(* Properties.                                                                 *)

(* Until an approval is stranded, whoever is at work in the conversation, a    *)
(* turn or the execution of an approval, holds its row, so that no two are:    *)
(* clearTurn and updateTurnRow, which never ask whose row it is, reach their   *)
(* own, also after results that could not be told and after restarts.          *)
WorkHoldsTheRow ==
  stranded = {} =>
    /\ \A t \in Turns : Waits(t) => active.turn = t
    /\ \A x \in Responders : response[x].pc # "idle" =>
         active.turn = response[x].turn /\ \A t \in Turns : ~Waits(t)

(* An approval that can be answered belongs to the turn that waits for it, and *)
(* none survives its turn, unless by the one error path that strands it.       *)
PendingIsAwaited ==
  \A t \in Turns : approval[t].status = "pending" /\ stranded = {} =>
    active.turn = t /\ active.state = "awaiting_approval" /\ ~turn[t].aborted

(* A tool that writes runs at most once, and only when the operator approved   *)
(* it: not after a cancel, a refusal or the quarter of an hour.                *)
OnlyApprovedWritesRun ==
  \A t \in Turns : written[t] <= 1 /\ (written[t] = 1 => approval[t].status = "approved")

Told(status) ==
  CASE status = "none" -> "none"
    [] status = "pending" -> "pending"
    [] status = "approved" -> "approved"
    [] OTHER -> "declined"

ToolRuns(t) == \E x \in Responders : response[x] = [pc |-> "executing", turn |-> t]

Sent(t) ==
  IF written[t] > 1 THEN "twice"
  ELSE IF written[t] = 1 THEN "yes"
  ELSE IF ToolRuns(t) THEN "maybe"
  ELSE IF approval[t].status = "approved" THEN "never"
  ELSE "no"

(* The tools of the assistant are approved writes, though their outcome is     *)
(* told by a message: an answer to an approval is final, and a tool runs after *)
(* a yes, at most once.                                                        *)
Promise == INSTANCE ApprovedWrites
             WITH Requests <- Turns,
                  told <- [t \in Turns |-> Told(approval[t].status)],
                  sent <- [t \in Turns |-> Sent(t)]

ToolsRunAsPromised == Promise!Spec

(* The row of a turn under way, or of an approval carried out, goes or comes   *)
(* to wait for the operator, if the process goes on and the result fits a      *)
(* message: nobody else removes a row that was left, and the conversation with *)
(* it takes no turn any more.  (A turn cancelled while it waits for the        *)
(* operator has nobody left to remove its row either.)                         *)
TurnsEnd ==
  \A t \in Turns :
    active.turn = t /\ active.state = "running"
      ~> \/ active.turn # t
         \/ active.state = "awaiting_approval"
         \/ left
===============================================================================
