----------------------------- MODULE Coordination -----------------------------
(* Handoffs between agents (server/agent-coordination/service.ts) and the      *)
(* leased work sessions on them (server/agent-coordination/work-sessions.ts).  *)
(*                                                                             *)
(* Every operation is one synchronous transaction, so each is one action.      *)
(* What remains hard is their order: agents and the operator call in any       *)
(* order, a lease runs out without anybody noticing, and the two tables are    *)
(* written by operations that seldom look at both.  Requests here carry no     *)
(* client_request_id, so nothing is replayed.                                  *)
EXTENDS Integers

CONSTANTS
  Handoffs,   \* the handoff ids that posts may draw
  Agents,     \* agent labels
  Sessions,   \* the work session ids that starts may draw
  Leases,     \* the leaseSeconds a call may ask for, in ticks of the clock
  MaxTime,    \* a bound on the clock
  None        \* a column that is NULL

ASSUME CoordinationAssumption ==
  /\ Leases \subseteq Nat \ {0}
  /\ MaxTime \in Nat
  /\ None \notin Agents \cup Handoffs \cup Nat

VARIABLES
  now,      \* the clock each operation reads once
  handoff,  \* handoff[h]: the row of agent_handoffs, state "NONE" before INSERT
  session   \* session[s]: the row of agent_work_sessions, likewise

vars == <<now, handoff, session>>

HandoffState == {"OPEN", "CLAIMED", "COMPLETED", "CANCELLED"}

HandoffRows == [state     : HandoffState \cup {"NONE"},
                from      : Agents \cup {None},   \* from_agent_label
                to        : Agents \cup {None},   \* to_agent_label, NULL for the open pool
                claimedBy : Agents \cup {None}]

ActiveStates == {"IN_PROGRESS", "NEEDS_INPUT", "BLOCKED"}

SessionState == ActiveStates \cup {"COMPLETED", "ABANDONED"}

SessionRows == [state     : SessionState \cup {"NONE"},
                handoff   : Handoffs \cup {None},
                agent     : Agents \cup {None},
                created   : Nat,
                heartbeat : Nat,                  \* last_heartbeat_at
                lease     : Nat,                  \* lease_expires_at
                abandoned : Nat \cup {None}]      \* abandoned_at

NoHandoff == [state |-> "NONE", from |-> None, to |-> None, claimedBy |-> None]
NoSession == [state |-> "NONE", handoff |-> None, agent |-> None, created |-> 0,
              heartbeat |-> 0, lease |-> 0, abandoned |-> None]

Init ==
  /\ now = 0
  /\ handoff = [h \in Handoffs |-> NoHandoff]
  /\ session = [s \in Sessions |-> NoSession]

-------------------------------------------------------------------------------
(* Handoffs.                                                                   *)

Post(h, from, to) ==
  /\ handoff[h].state = "NONE"
  /\ handoff' = [handoff EXCEPT ![h] = [state |-> "OPEN", from |-> from, to |-> to,
                                        claimedBy |-> None]]
  /\ UNCHANGED <<now, session>>

(* A second claim by the claimer is answered with the row and changes nothing. *)
Claim(h, a) ==
  /\ handoff[h].state = "OPEN"
  /\ handoff[h].to \in {None, a}
  /\ handoff' = [handoff EXCEPT ![h] = [@ EXCEPT !.state = "CLAIMED", !.claimedBy = a]]
  /\ UNCHANGED <<now, session>>

(* Complete and cancel end the handoff; its sessions are not looked at.        *)
Ends(h, state) ==
  /\ handoff' = [handoff EXCEPT ![h] = [@ EXCEPT !.state = state]]
  /\ UNCHANGED <<now, session>>

Complete(h, a) ==
  /\ handoff[h].state = "CLAIMED"
  /\ handoff[h].claimedBy = a
  /\ Ends(h, "COMPLETED")

CancelAsAgent(h, a) ==
  /\ handoff[h].state \in {"OPEN", "CLAIMED"}
  /\ a \in {handoff[h].from, handoff[h].claimedBy}
  /\ Ends(h, "CANCELLED")

CancelAsOperator(h) ==
  /\ handoff[h].state \in {"OPEN", "CLAIMED"}
  /\ Ends(h, "CANCELLED")

-------------------------------------------------------------------------------
(* Work sessions.                                                              *)

Active(s) == session[s].state \in ActiveStates

(* Active, and within its lease.                                               *)
LiveSession(s) == Active(s) /\ session[s].lease > now

FreeForAll(h) == TRUE                                                \* mutant

HandoffIsFree(h) == \A s \in Sessions : session[s].handoff = h => ~LiveSession(s)

(* startWorkSession: the handoff must be claimed by the caller, and no session *)
(* on it may be live.                                                          *)
Start(s, h, a, lease) ==
  /\ session[s].state = "NONE"
  /\ handoff[h].state = "CLAIMED"
  /\ handoff[h].claimedBy = a
  /\ HandoffIsFree(h)
  /\ session' = [session EXCEPT ![s] =
                   [state |-> "IN_PROGRESS", handoff |-> h, agent |-> a, created |-> now,
                    heartbeat |-> now, lease |-> now + lease, abandoned |-> None]]
  /\ UNCHANGED <<now, handoff>>

(* canMutate: the owner, while the session is active.  The lease is not asked. *)
MayMutate(s, a) == session[s].agent = a /\ Active(s)

Heartbeat(s, a, lease) ==
  /\ MayMutate(s, a)
  /\ session' = [session EXCEPT ![s] = [@ EXCEPT !.lease = now + lease, !.heartbeat = now]]
  /\ UNCHANGED <<now, handoff>>

(* The owner waits for input, is blocked, finishes or releases the work.       *)
Transition(s, a, state) ==
  /\ MayMutate(s, a)
  /\ session' = [session EXCEPT ![s] =
                   [@ EXCEPT !.state = state,
                             !.abandoned = IF state = "ABANDONED" THEN now ELSE None]]
  /\ UNCHANGED <<now, handoff>>

(* The operator takes an expired session away, and its handoff goes back to    *)
(* the pool where it is still claimed, by whomever.                            *)
ReopenedAnyway(row) ==                                               \* mutant
  [row EXCEPT !.state = "OPEN", !.claimedBy = None]

ReopenedStillClaimed(row) ==                                         \* mutant
  IF row.state = "CLAIMED" THEN [row EXCEPT !.state = "OPEN"] ELSE row

Reopened(row) ==
  IF row.state = "CLAIMED"
  THEN [row EXCEPT !.state = "OPEN", !.claimedBy = None]
  ELSE row

ReclaimableAnytime(s) == Active(s)                                   \* mutant

Reclaimable(s) == Active(s) /\ session[s].lease <= now

Reclaim(s) ==
  /\ Reclaimable(s)
  /\ session' = [session EXCEPT ![s] = [@ EXCEPT !.state = "ABANDONED", !.abandoned = now]]
  /\ handoff' = [handoff EXCEPT ![session[s].handoff] = Reopened(@)]
  /\ UNCHANGED now

(* Time passes; a lease runs out by itself.                                    *)
Tick ==
  /\ now < MaxTime
  /\ now' = now + 1
  /\ UNCHANGED <<handoff, session>>

-------------------------------------------------------------------------------
HandoffStep(h) ==
  \/ \E from \in Agents, to \in Agents \cup {None} : Post(h, from, to)
  \/ \E a \in Agents : Claim(h, a) \/ Complete(h, a) \/ CancelAsAgent(h, a)
  \/ CancelAsOperator(h)

SessionStep(s) ==
  \/ \E h \in Handoffs, a \in Agents, lease \in Leases : Start(s, h, a, lease)
  \/ \E a \in Agents, lease \in Leases : Heartbeat(s, a, lease)
  \/ \E a \in Agents, state \in SessionState \ {"IN_PROGRESS"} : Transition(s, a, state)
  \/ Reclaim(s)

Next ==
  \/ \E h \in Handoffs : HandoffStep(h)
  \/ \E s \in Sessions : SessionStep(s)
  \/ Tick

Spec == Init /\ [][Next]_vars

-------------------------------------------------------------------------------
(* Properties.                                                                 *)

(* Every column keeps its type, and a handoff nobody has claimed, or that was  *)
(* taken back, names no claimer.                                               *)
TypeOK ==
  /\ now \in 0 .. MaxTime
  /\ handoff \in [Handoffs -> HandoffRows]
  /\ \A h \in Handoffs : handoff[h].state \in {"NONE", "OPEN"} => handoff[h].claimedBy = None
  /\ session \in [Sessions -> SessionRows]

LiveTogether(s, t) ==
  LiveSession(s) /\ LiveSession(t) /\ session[s].handoff = session[t].handoff

(* The check at the start of a session is defeated by nothing but a late       *)
(* heartbeat: of two live sessions on one handoff, the older has been renewed  *)
(* since the younger began.                                                    *)
SharedOnlyByLateRenewal ==
  \A s, t \in Sessions :
    LiveTogether(s, t) /\ session[s].created <= session[t].created
      => s = t \/ session[s].heartbeat >= session[t].created

(* An active session's agent still holds the claim, or the operator has since  *)
(* reclaimed an expired session of the same handoff: no claim, cancellation or *)
(* completion hands the work to another agent while the first is at it.        *)
ClaimMovesOnlyByReclaim ==
  \A t \in Sessions : Active(t) =>
    \/ handoff[session[t].handoff].claimedBy = session[t].agent
    \/ \E s \in Sessions :
         /\ session[s].state = "ABANDONED"
         /\ session[s].handoff = session[t].handoff
         /\ session[s].lease <= session[s].abandoned
         /\ session[t].created <= session[s].abandoned

(* What is over stays over: a late reclaim does not reopen a completed or      *)
(* cancelled handoff, and a late call of an agent whose work was taken away    *)
(* does not bring its session back.                                            *)
OverStaysOver ==
  [][/\ \A h \in Handoffs : handoff[h].state \in {"COMPLETED", "CANCELLED"}
          => handoff'[h] = handoff[h]
     /\ \A s \in Sessions : session[s].state \in {"COMPLETED", "ABANDONED"}
          => session'[s] = session[s]]_vars

-------------------------------------------------------------------------------
(* The inductive invariant.                                                    *)

(* A session belongs to an agent and a handoff, and was last renewed between   *)
(* its start and now.                                                          *)
RowsAreWhole ==
  \A s \in Sessions : session[s].state # "NONE" =>
    /\ session[s].handoff \in Handoffs
    /\ session[s].agent \in Agents
    /\ session[s].created <= session[s].heartbeat
    /\ session[s].heartbeat <= now

(* When the younger of two active sessions began, the older had expired; or it *)
(* has been renewed since.                                                     *)
OlderHadLapsed ==
  \A s, t \in Sessions :
    ( /\ Active(s) /\ Active(t) /\ s # t
      /\ session[s].handoff = session[t].handoff
      /\ session[s].created <= session[t].created
      /\ session[s].heartbeat < session[t].created )
    => session[s].lease <= session[t].created

Accountable == TypeOK /\ RowsAreWhole /\ OlderHadLapsed /\ ClaimMovesOnlyByReclaim
===============================================================================
