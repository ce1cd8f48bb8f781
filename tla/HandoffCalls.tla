----------------------------- MODULE HandoffCalls -----------------------------
(* Calls of agents that carry a client_request_id, over Coordination.          *)
(*                                                                             *)
(* An agent whose answer was lost sends the call again.  The server keeps the  *)
(* newest keys (agent, client_request_id, tool) with their results in          *)
(* agent_handoff_mutations (server/agent-coordination/mutations.ts), and looks *)
(* a key up before it looks at the handoff, so that a retry is answered as the *)
(* call was even when the handoff has ended since.  The key of a post is a     *)
(* column of the handoff itself.                                               *)
EXTENDS Coordination, Sequences

CONSTANTS
  RequestIds,  \* client_request_id
  KeyLimit,    \* AGENT_HANDOFF_MUTATION_LIMIT
  MaxNotes     \* a bound on the notes of all handoffs

ASSUME CallsAssumption == KeyLimit \in Nat \ {0} /\ MaxNotes \in Nat

Note     == "coordination_add_note"
Finish   == "coordination_complete_handoff"
Withdraw == "coordination_cancel_handoff"

Requests == [agent : Agents, id : RequestIds, tool : {Note, Finish, Withdraw}]

VARIABLES
  keys,     \* the rows of agent_handoff_mutations, oldest first
  notes,    \* the rows of agent_handoff_notes, in the order of their insertion
  postKey,  \* postKey[h]: from_agent_label and client_request_id, or None
  answer,   \* the latest call and what it was answered (history)
  result,   \* result[r]: what was recorded for r the last time (history)
  younger   \* younger[r]: the keys recorded since, up to KeyLimit (history)

callVars == <<keys, notes, postKey, answer, result, younger>>
allVars == <<now, handoff, session, keys, notes, postKey, answer, result, younger>>

CallsInit ==
  /\ Init
  /\ keys = <<>>
  /\ notes = <<>>
  /\ postKey = [h \in Handoffs |-> None]
  /\ answer = [req |-> None, result |-> None]
  /\ result = [r \in Requests |-> None]
  /\ younger = [r \in Requests |-> KeyLimit]

-------------------------------------------------------------------------------
SameRequestId(r, q) == r.id = q.id /\ r.tool = q.tool                \* mutant

(* The replay key: the same id from another label is a distinct request.       *)
SameKey(r, q) == r = q

(* findHandoffMutation.                                                        *)
Stored(r) == {i \in DOMAIN keys : SameKey(r, keys[i].req)}

StateComesFirst(r, h) ==                                             \* mutant
  Stored(r) # {} /\ handoff[h].state \in {"OPEN", "CLAIMED"}

(* The key is looked up before the handoff is.                                 *)
IsReplay(r, h) == Stored(r) # {}

OldestKeysKept(rows) ==                                              \* mutant
  IF Len(rows) > KeyLimit THEN SubSeq(rows, 1, KeyLimit) ELSE rows

NewestKeys(rows) == IF Len(rows) > KeyLimit THEN Tail(rows) ELSE rows

RecordHandoffMutation(r, outcome) ==
  /\ keys' = NewestKeys(Append(keys, [req |-> r, result |-> outcome]))
  /\ result' = [result EXCEPT ![r] = outcome]
  /\ younger' = [q \in Requests |->
                   IF q = r THEN 0
                   ELSE IF younger[q] < KeyLimit THEN younger[q] + 1 ELSE KeyLimit]

Answer(r, outcome) == answer' = [req |-> r, result |-> outcome]

Replay(r, h) ==
  /\ IsReplay(r, h)
  /\ Answer(r, keys[CHOOSE i \in Stored(r) : TRUE].result)
  /\ UNCHANGED <<vars, keys, notes, postKey, result, younger>>

(* A call that finds its work done by itself records its key all the same.     *)
Fresh(r, h, outcome) ==
  /\ handoff[h].state # "NONE"
  /\ ~IsReplay(r, h)
  /\ RecordHandoffMutation(r, outcome)
  /\ Answer(r, outcome)

AddHandoffNote(r, h) ==
  /\ r.tool = Note
  /\ handoff[h].state # "CANCELLED"
  /\ Len(notes) < MaxNotes
  /\ Fresh(r, h, Len(notes) + 1)
  /\ notes' = Append(notes, [handoff |-> h, req |-> r])
  /\ UNCHANGED <<vars, postKey>>

CompleteHandoff(r, h) ==
  /\ r.tool = Finish
  /\ Fresh(r, h, h)
  /\ \/ Complete(h, r.agent)
     \/ /\ handoff[h].state = "COMPLETED" /\ handoff[h].claimedBy = r.agent
        /\ UNCHANGED vars
  /\ UNCHANGED <<notes, postKey>>

CancelHandoff(r, h) ==
  /\ r.tool = Withdraw
  /\ Fresh(r, h, h)
  /\ \/ CancelAsAgent(h, r.agent)
     \/ /\ handoff[h].state = "CANCELLED"
        /\ r.agent \in {handoff[h].from, handoff[h].claimedBy}
        /\ UNCHANGED vars
  /\ UNCHANGED <<notes, postKey>>

Refusable(r, h) ==
  \/ r.tool = Note /\ handoff[h].state = "CANCELLED"
  \/ r.tool = Finish /\ (handoff[h].state = "OPEN" \/ handoff[h].state = "CANCELLED"
                         \/ handoff[h].claimedBy # r.agent)
  \/ r.tool = Withdraw /\ (handoff[h].state = "COMPLETED"
                           \/ r.agent \notin {handoff[h].from, handoff[h].claimedBy})

(* A refusal rolls the transaction back: its key is not recorded.              *)
Refuse(r, h) ==
  /\ handoff[h].state # "NONE"
  /\ ~IsReplay(r, h)
  /\ Refusable(r, h)
  /\ Answer(r, None)
  /\ UNCHANGED <<vars, keys, notes, postKey, result, younger>>

PostedUnder(key) == {h \in Handoffs : postKey[h] = key}

(* insertHandoff: the row with this key, whatever became of it, or a new one.  *)
PostKeyed(h, from, to, id) ==
  LET key == [from |-> from, id |-> id]
  IN IF PostedUnder(key) # {}
     THEN UNCHANGED allVars
     ELSE /\ Post(h, from, to)
          /\ postKey' = [postKey EXCEPT ![h] = key]
          /\ UNCHANGED <<keys, notes, answer, result, younger>>

Call(r, h) ==
  \/ Replay(r, h)
  \/ AddHandoffNote(r, h)
  \/ CompleteHandoff(r, h)
  \/ CancelHandoff(r, h)
  \/ Refuse(r, h)

(* Claims and the operator's cancellation carry no key.  The work sessions of  *)
(* Coordination and its clock are left out here: no keyed call reads them.     *)
Unkeyed ==
  /\ \E h \in Handoffs : (\E a \in Agents : Claim(h, a)) \/ CancelAsOperator(h)
  /\ UNCHANGED callVars

CallsNext ==
  \/ \E r \in Requests, h \in Handoffs : Call(r, h)
  \/ \E h \in Handoffs, from \in Agents, to \in Agents \cup {None}, id \in RequestIds :
       PostKeyed(h, from, to, id)
  \/ Unkeyed

CallsSpec == CallsInit /\ [][CallsNext]_allVars

-------------------------------------------------------------------------------
(* Properties.                                                                 *)

CallsTypeOK ==
  /\ keys \in Seq([req : Requests, result : Handoffs \cup 1 .. MaxNotes])
  /\ Len(keys) <= KeyLimit
  /\ notes \in Seq([handoff : Handoffs, req : Requests])
  /\ postKey \in [Handoffs -> [from : Agents, id : RequestIds] \cup {None}]
  /\ result \in [Requests -> Handoffs \cup 1 .. MaxNotes \cup {None}]
  /\ younger \in [Requests -> 0 .. KeyLimit]

Remembered(r) == younger[r] < KeyLimit

(* Until KeyLimit younger keys have been recorded, every retry is answered as  *)
(* the call was, by its own record and though the handoff has ended since.     *)
RetriesAreAnsweredAlike ==
  answer.req # None /\ Remembered(answer.req) => answer.result = result[answer.req]

NotesOf(r) == {i \in DOMAIN notes : notes[i].req = r}

(* No agent is answered with the outcome of another's request.                 *)
AnswersAreOnesOwn ==
  answer.result # None /\ answer.req.tool = Note
    => notes[answer.result].req = answer.req

(* A note is appended a second time only after its key has left the table.     *)
NotesRepeatOnlyWhenForgotten ==
  [][\A r \in Requests : NotesOf(r)' # NotesOf(r) => ~Remembered(r)]_allVars
===============================================================================
