--------------------------- MODULE CoordinationProof ---------------------------
(* Proofs about Coordination and HandoffCalls, for any number of handoffs,     *)
(* agents and sessions, any lease lengths and any bound on the clock.          *)
EXTENDS HandoffCalls, TLAPS

USE CoordinationAssumption

LEMMA InitAccountable == Init => Accountable
<1> SUFFICES ASSUME Init PROVE Accountable
  OBVIOUS
<1> USE DEF Init, NoHandoff, NoSession
<1>1. TypeOK
  BY DEF TypeOK, HandoffRows, SessionRows
<1>2. RowsAreWhole /\ OlderHadLapsed /\ ClaimMovesOnlyByReclaim
  BY DEF RowsAreWhole, OlderHadLapsed, ClaimMovesOnlyByReclaim, Active, ActiveStates
<1> QED
  BY <1>1, <1>2 DEF Accountable

-------------------------------------------------------------------------------
(* Handoffs.  The sessions stay; what could go wrong is that an agent at work  *)
(* loses its claim, or a handoff that is over comes back.                      *)

(* A change of one handoff's row that keeps its claimer, or gives it one.      *)
LEMMA HandoffWritten ==
  ASSUME Accountable, NEW h \in Handoffs, NEW row \in HandoffRows,
         UNCHANGED <<now, session>>,
         handoff' = [handoff EXCEPT ![h] = row],
         row.claimedBy = handoff[h].claimedBy \/ handoff[h].claimedBy = None,
         row.state \in {"NONE", "OPEN"} => row.claimedBy = None
  PROVE  Accountable'
<1>0. TypeOK /\ RowsAreWhole /\ OlderHadLapsed /\ ClaimMovesOnlyByReclaim
  BY DEF Accountable
<1>1. /\ handoff' \in [Handoffs -> HandoffRows] /\ handoff'[h] = row
      /\ \A g \in Handoffs \ {h} : handoff'[g] = handoff[g]
  BY <1>0 DEF TypeOK
<1>2. TypeOK' /\ RowsAreWhole' /\ OlderHadLapsed'
  BY <1>0, <1>1 DEF TypeOK, RowsAreWhole, OlderHadLapsed, Active
<1>3. ClaimMovesOnlyByReclaim'
  <2> SUFFICES ASSUME NEW t \in Sessions, Active(t),
                      handoff'[session[t].handoff].claimedBy # session[t].agent
               PROVE  \E s \in Sessions :
                        /\ session[s].state = "ABANDONED"
                        /\ session[s].handoff = session[t].handoff
                        /\ session[s].lease <= session[s].abandoned
                        /\ session[t].created <= session[s].abandoned
    BY DEF ClaimMovesOnlyByReclaim, Active
  <2>1. session[t].handoff \in Handoffs /\ session[t].agent \in Agents
    BY <1>0 DEF RowsAreWhole, Active, ActiveStates
  <2>2. handoff[session[t].handoff].claimedBy # session[t].agent
    BY <1>1, <2>1
  <2> QED
    BY <1>0, <2>2 DEF ClaimMovesOnlyByReclaim
<1> QED
  BY <1>2, <1>3 DEF Accountable

(* A handoff that is over is in no handoff operation's way.                    *)
LEMMA HandoffStepKeeps ==
  ASSUME Accountable, NEW h \in Handoffs, HandoffStep(h)
  PROVE  /\ Accountable' /\ UNCHANGED <<now, session>>
         /\ \E row : /\ handoff' = [handoff EXCEPT ![h] = row]
                     /\ handoff[h].state \notin {"COMPLETED", "CANCELLED"}
<1>0. handoff[h] \in HandoffRows
  BY DEF Accountable, TypeOK
<1>1. CASE \E from \in Agents, to \in Agents \cup {None} : Post(h, from, to)
  <2> PICK from \in Agents, to \in Agents \cup {None} : Post(h, from, to)
    BY <1>1
  <2> DEFINE row == [state |-> "OPEN", from |-> from, to |-> to, claimedBy |-> None]
  <2>1. row \in HandoffRows /\ row.state = "OPEN" /\ row.claimedBy = None
    BY DEF HandoffRows, HandoffState
  <2>2. /\ handoff[h].state = "NONE" /\ UNCHANGED <<now, session>>
        /\ handoff' = [handoff EXCEPT ![h] = row]
    BY DEF Post
  <2> HIDE DEF row
  <2>3. handoff[h].claimedBy = None
    BY <2>2 DEF Accountable, TypeOK
  <2> QED
    BY <2>1, <2>2, <2>3, HandoffWritten
<1>2. CASE \E a \in Agents : Claim(h, a)
  <2> PICK a \in Agents : Claim(h, a)
    BY <1>2
  <2> DEFINE row == [handoff[h] EXCEPT !.state = "CLAIMED", !.claimedBy = a]
  <2>1. row \in HandoffRows /\ row.state = "CLAIMED"
    BY <1>0, Zenon DEF HandoffRows, HandoffState
  <2>2. /\ handoff[h].state = "OPEN" /\ UNCHANGED <<now, session>>
        /\ handoff' = [handoff EXCEPT ![h] = row]
    BY Zenon DEF Claim
  <2> HIDE DEF row
  <2>3. handoff[h].claimedBy = None
    BY <2>2 DEF Accountable, TypeOK
  <2> QED
    BY <2>1, <2>2, <2>3, HandoffWritten
<1>3. ASSUME NEW state \in {"COMPLETED", "CANCELLED"}, Ends(h, state),
             handoff[h].state \in {"OPEN", "CLAIMED"}
      PROVE  /\ Accountable' /\ UNCHANGED <<now, session>>
             /\ \E row : /\ handoff' = [handoff EXCEPT ![h] = row]
                         /\ handoff[h].state \notin {"COMPLETED", "CANCELLED"}
  <2> DEFINE row == [handoff[h] EXCEPT !.state = state]
  <2>1. row \in HandoffRows /\ row.state = state /\ row.claimedBy = handoff[h].claimedBy
    BY <1>0, <1>3, Zenon DEF HandoffRows, HandoffState
  <2>2. handoff' = [handoff EXCEPT ![h] = row] /\ UNCHANGED <<now, session>>
    BY <1>3, Zenon DEF Ends
  <2> HIDE DEF row
  <2> QED
    BY <1>3, <2>1, <2>2, HandoffWritten
<1>4. CASE \E a \in Agents : Complete(h, a) \/ CancelAsAgent(h, a)
  BY <1>3, <1>4 DEF Complete, CancelAsAgent
<1>5. CASE CancelAsOperator(h)
  BY <1>3, <1>5 DEF CancelAsOperator
<1> QED
  BY <1>1, <1>2, <1>4, <1>5 DEF HandoffStep

-------------------------------------------------------------------------------
(* Work sessions.                                                              *)

(* A row that carries session s on, renewed or not.                            *)
Carries(s, row) ==
  /\ Active(s)
  /\ row.handoff = session[s].handoff
  /\ row.agent = session[s].agent
  /\ row.created = session[s].created
  /\ \/ row.heartbeat = now
     \/ row.heartbeat = session[s].heartbeat /\ row.lease = session[s].lease

(* A row that begins a session on a handoff its agent has claimed.             *)
Begins(row) ==
  /\ row.created = now
  /\ row.heartbeat = now
  /\ handoff[row.handoff].claimedBy = row.agent
  /\ HandoffIsFree(row.handoff)

(* A change of one session that is not over.  The reclaimed sessions that      *)
(* others answer for are over, and stay.                                       *)
LEMMA SessionWritten ==
  ASSUME Accountable, NEW s \in Sessions, NEW row \in SessionRows,
         session[s].state \notin {"COMPLETED", "ABANDONED"},
         session' = [session EXCEPT ![s] = row],
         UNCHANGED <<now, handoff>>,
         /\ row.handoff \in Handoffs /\ row.agent \in Agents
         /\ row.created <= row.heartbeat /\ row.heartbeat <= now,
         row.state \in ActiveStates => Carries(s, row) \/ Begins(row)
  PROVE  Accountable'
<1>0. TypeOK /\ RowsAreWhole /\ OlderHadLapsed /\ ClaimMovesOnlyByReclaim
  BY DEF Accountable
<1>1. /\ session' \in [Sessions -> SessionRows] /\ session'[s] = row
      /\ \A t \in Sessions \ {s} : session'[t] = session[t]
  BY <1>0 DEF TypeOK
<1>2. TypeOK' /\ RowsAreWhole'
  BY <1>0, <1>1 DEF TypeOK, RowsAreWhole
<1>3. OlderHadLapsed'
  BY <1>0, <1>1
     DEF OlderHadLapsed, Carries, Begins, HandoffIsFree, Active, LiveSession, TypeOK,
         RowsAreWhole, SessionRows, ActiveStates
<1>4. ClaimMovesOnlyByReclaim'
  BY <1>0, <1>1 DEF ClaimMovesOnlyByReclaim, Carries, Begins, Active, ActiveStates
<1> QED
  BY <1>2, <1>3, <1>4 DEF Accountable

LEMMA StartKeeps ==
  ASSUME Accountable, NEW s \in Sessions, NEW h \in Handoffs, NEW a \in Agents,
         NEW lease \in Leases, Start(s, h, a, lease)
  PROVE  Accountable'
<1> DEFINE row == [state |-> "IN_PROGRESS", handoff |-> h, agent |-> a, created |-> now,
                   heartbeat |-> now, lease |-> now + lease, abandoned |-> None]
<1>1. now \in Nat /\ lease \in Nat
  BY DEF Accountable, TypeOK
<1>2. row \in SessionRows
  BY <1>1 DEF SessionRows, SessionState, ActiveStates
<1>3. /\ session[s].state = "NONE" /\ handoff[h].claimedBy = a /\ HandoffIsFree(h)
      /\ session' = [session EXCEPT ![s] = row] /\ UNCHANGED <<now, handoff>>
  BY DEF Start
<1>4. Begins(row)
  BY <1>3 DEF Begins
<1>5. row.handoff = h /\ row.agent = a /\ row.created <= row.heartbeat /\ row.heartbeat <= now
  BY <1>1
<1> HIDE DEF row
<1> QED
  BY <1>2, <1>3, <1>4, <1>5, SessionWritten

LEMMA HeartbeatKeeps ==
  ASSUME Accountable, NEW s \in Sessions, NEW a \in Agents, NEW lease \in Leases,
         Heartbeat(s, a, lease)
  PROVE  Accountable'
<1> DEFINE row == [session[s] EXCEPT !.lease = now + lease, !.heartbeat = now]
<1>1. now \in Nat /\ lease \in Nat /\ now + lease \in Nat /\ session[s] \in SessionRows
  BY DEF Accountable, TypeOK
<1>2. row \in SessionRows
  BY <1>1, Zenon DEF SessionRows
<1>3. /\ row.state = session[s].state /\ row.handoff = session[s].handoff
      /\ row.agent = session[s].agent /\ row.created = session[s].created
      /\ row.heartbeat = now
  BY <1>1, Zenon DEF SessionRows
<1>4. Active(s) /\ session' = [session EXCEPT ![s] = row] /\ UNCHANGED <<now, handoff>>
  BY Zenon DEF Heartbeat, MayMutate
<1> HIDE DEF row
<1>5. /\ session[s].state \notin {"NONE", "COMPLETED", "ABANDONED"}
      /\ row.handoff \in Handoffs /\ row.agent \in Agents
      /\ row.created <= row.heartbeat /\ row.heartbeat <= now
  BY <1>1, <1>3, <1>4 DEF Accountable, RowsAreWhole, SessionRows, Active, ActiveStates
<1>6. Carries(s, row)
  BY <1>3, <1>4 DEF Carries
<1> QED
  BY <1>2, <1>4, <1>5, <1>6, SessionWritten

(* A session that changes its state and the moment it was abandoned.           *)
LEMMA StateWritten ==
  ASSUME Accountable, NEW s \in Sessions, NEW state \in SessionState,
         NEW abandoned \in Nat \cup {None}, Active(s),
         session' = [session EXCEPT ![s] =
                       [session[s] EXCEPT !.state = state, !.abandoned = abandoned]],
         UNCHANGED <<now, handoff>>
  PROVE  Accountable'
<1> DEFINE row == [session[s] EXCEPT !.state = state, !.abandoned = abandoned]
<1>1. session[s] \in SessionRows
  BY DEF Accountable, TypeOK
<1>2. row \in SessionRows
  BY <1>1, Zenon DEF SessionRows
<1>3. /\ row.handoff = session[s].handoff /\ row.agent = session[s].agent
      /\ row.created = session[s].created /\ row.heartbeat = session[s].heartbeat
      /\ row.lease = session[s].lease
  BY <1>1, Zenon DEF SessionRows
<1>4. session' = [session EXCEPT ![s] = row]
  OBVIOUS
<1> HIDE DEF row
<1>5. /\ session[s].state \notin {"NONE", "COMPLETED", "ABANDONED"}
      /\ row.handoff \in Handoffs /\ row.agent \in Agents
      /\ row.created <= row.heartbeat /\ row.heartbeat <= now
  BY <1>3 DEF Accountable, RowsAreWhole, Active, ActiveStates
<1>6. Carries(s, row)
  BY <1>3 DEF Carries
<1> QED
  BY <1>2, <1>4, <1>5, <1>6, SessionWritten

LEMMA TransitionKeeps ==
  ASSUME Accountable, NEW s \in Sessions, NEW a \in Agents, NEW state \in SessionState,
         Transition(s, a, state)
  PROVE  Accountable'
<1>1. now \in Nat
  BY DEF Accountable, TypeOK
<1> DEFINE abandoned == IF state = "ABANDONED" THEN now ELSE None
<1>2. abandoned \in Nat \cup {None}
  BY <1>1
<1>3. /\ Active(s) /\ UNCHANGED <<now, handoff>>
      /\ session' = [session EXCEPT ![s] =
                       [session[s] EXCEPT !.state = state, !.abandoned = abandoned]]
  BY Zenon DEF Transition, MayMutate
<1> HIDE DEF abandoned
<1> QED
  BY <1>2, <1>3, StateWritten

(* The operator takes session s away: its agent's claim goes, and s answers    *)
(* for that from now on.                                                       *)
LEMMA ReclaimKeeps ==
  ASSUME Accountable, NEW s \in Sessions, Reclaim(s)
  PROVE  Accountable'
<1> DEFINE h == session[s].handoff
           row == [session[s] EXCEPT !.state = "ABANDONED", !.abandoned = now]
           reopened == Reopened(handoff[h])
<1>0. TypeOK /\ RowsAreWhole /\ OlderHadLapsed /\ ClaimMovesOnlyByReclaim
  BY DEF Accountable
<1>1. /\ Active(s) /\ session[s].lease <= now /\ UNCHANGED now
      /\ session' = [session EXCEPT ![s] = row]
      /\ handoff' = [handoff EXCEPT ![h] = reopened]
  BY Zenon DEF Reclaim, Reclaimable
<1>2. session[s] \in SessionRows /\ now \in Nat /\ h \in Handoffs
  BY <1>0, <1>1 DEF TypeOK, RowsAreWhole, Active, ActiveStates
<1>3. /\ row \in SessionRows /\ row.state = "ABANDONED" /\ row.abandoned = now
      /\ row.handoff = h /\ row.agent = session[s].agent /\ row.lease = session[s].lease
      /\ row.created = session[s].created /\ row.heartbeat = session[s].heartbeat
  BY <1>2, Zenon DEF SessionRows, SessionState
<1>4. reopened \in HandoffRows /\ (reopened.state \in {"NONE", "OPEN"} => reopened.claimedBy = None)
  <2>1. handoff[h] \in HandoffRows
    BY <1>0, <1>2 DEF TypeOK
  <2>2. CASE handoff[h].state = "CLAIMED"
    BY <2>1, <2>2, Zenon DEF Reopened, HandoffRows, HandoffState
  <2>3. CASE handoff[h].state # "CLAIMED"
    BY <1>0, <1>2, <2>1, <2>3 DEF Reopened, TypeOK
  <2> QED
    BY <2>2, <2>3
<1>5. \A t \in Sessions : Active(t)' => t # s /\ Active(t) /\ session'[t] = session[t]
  BY <1>0, <1>1, <1>3 DEF Active, ActiveStates, TypeOK
<1> HIDE DEF row, reopened, h
<1>6. /\ session' \in [Sessions -> SessionRows] /\ session'[s] = row
      /\ \A t \in Sessions \ {s} : session'[t] = session[t]
      /\ handoff' \in [Handoffs -> HandoffRows] /\ handoff'[h] = reopened
      /\ \A g \in Handoffs \ {h} : handoff'[g] = handoff[g]
  BY <1>0, <1>1, <1>2, <1>3, <1>4 DEF TypeOK
<1>7. TypeOK' /\ OlderHadLapsed'
  BY <1>0, <1>1, <1>4, <1>5, <1>6 DEF TypeOK, OlderHadLapsed
<1>8. RowsAreWhole'
  BY <1>0, <1>1, <1>2, <1>3, <1>4, <1>6 DEF RowsAreWhole, Active, ActiveStates
<1>9. ClaimMovesOnlyByReclaim'
  <2> SUFFICES ASSUME NEW t \in Sessions, Active(t)'
               PROVE  \/ handoff'[session'[t].handoff].claimedBy = session'[t].agent
                      \/ \E r \in Sessions :
                           /\ session'[r].state = "ABANDONED"
                           /\ session'[r].handoff = session'[t].handoff
                           /\ session'[r].lease <= session'[r].abandoned
                           /\ session'[t].created <= session'[r].abandoned
    BY DEF ClaimMovesOnlyByReclaim
  <2>1. t # s /\ Active(t) /\ session'[t] = session[t]
    BY <1>5
  <2>2. session[t].handoff \in Handoffs /\ session[t].created <= now
    BY <1>0, <2>1 DEF RowsAreWhole, TypeOK, SessionRows, Active, ActiveStates
  <2>3. CASE session[t].handoff = h
    BY <1>1, <1>3, <1>6, <2>1, <2>2, <2>3
  <2>4. CASE session[t].handoff # h
    <3>1. handoff'[session'[t].handoff] = handoff[session[t].handoff]
      BY <1>6, <2>1, <2>2, <2>4
    <3>2. \A r \in Sessions : session[r].state = "ABANDONED" => session'[r] = session[r]
      BY <1>1, <1>6 DEF Active, ActiveStates
    <3> QED
      BY <1>0, <2>1, <3>1, <3>2 DEF ClaimMovesOnlyByReclaim
  <2> QED
    BY <2>3, <2>4
<1> QED
  BY <1>7, <1>8, <1>9 DEF Accountable

LEMMA SessionStepKeeps ==
  ASSUME Accountable, NEW s \in Sessions, SessionStep(s)
  PROVE  Accountable'
<1>1. CASE \E h \in Handoffs, a \in Agents, lease \in Leases : Start(s, h, a, lease)
  BY <1>1, StartKeeps
<1>2. CASE \E a \in Agents, lease \in Leases : Heartbeat(s, a, lease)
  BY <1>2, HeartbeatKeeps
<1>3. CASE \E a \in Agents, state \in SessionState \ {"IN_PROGRESS"} : Transition(s, a, state)
  BY <1>3, TransitionKeeps
<1>4. CASE Reclaim(s)
  BY <1>4, ReclaimKeeps
<1> QED
  BY <1>1, <1>2, <1>3, <1>4 DEF SessionStep

LEMMA TickKeeps == ASSUME Accountable, Tick PROVE Accountable'
<1>0. TypeOK /\ RowsAreWhole /\ OlderHadLapsed /\ ClaimMovesOnlyByReclaim
  BY DEF Accountable
<1>1. now \in 0 .. MaxTime /\ now < MaxTime /\ now' = now + 1 /\ UNCHANGED <<handoff, session>>
  BY <1>0 DEF Tick, TypeOK
<1>2. TypeOK'
  BY <1>0, <1>1 DEF TypeOK
<1>3. RowsAreWhole'
  BY <1>0, <1>1 DEF RowsAreWhole, TypeOK, SessionRows
<1>4. OlderHadLapsed' /\ ClaimMovesOnlyByReclaim'
  BY <1>0, <1>1 DEF OlderHadLapsed, ClaimMovesOnlyByReclaim, Active
<1> QED
  BY <1>2, <1>3, <1>4 DEF Accountable

LEMMA NextKeepsAccounts == Accountable /\ [Next]_vars => Accountable'
<1> SUFFICES ASSUME Accountable, [Next]_vars PROVE Accountable'
  OBVIOUS
<1>1. CASE \E h \in Handoffs : HandoffStep(h)
  BY <1>1, HandoffStepKeeps
<1>2. CASE \E s \in Sessions : SessionStep(s)
  BY <1>2, SessionStepKeeps
<1>3. CASE Tick
  BY <1>3, TickKeeps
<1>4. CASE UNCHANGED vars
  BY <1>4 DEF vars, Accountable, TypeOK, RowsAreWhole, OlderHadLapsed,
              ClaimMovesOnlyByReclaim, Active
<1> QED
  BY <1>1, <1>2, <1>3, <1>4 DEF Next

-------------------------------------------------------------------------------
(* The theorems.                                                               *)

(* Whatever the agents and the operator call, in whatever order, what the two  *)
(* tables say of each other stays true.                                        *)
THEOREM TablesAreAccountable == Spec => []Accountable
<1> QED
  BY InitAccountable, NextKeepsAccounts, PTL DEF Spec

(* Every column keeps its type.                                                *)
THEOREM ColumnsKeepTheirTypes == Spec => []TypeOK
<1>1. Accountable => TypeOK
  BY DEF Accountable
<1> QED
  BY <1>1, TablesAreAccountable, PTL

(* Two sessions are live on one handoff only when the older was renewed after  *)
(* the younger began: nothing but a late heartbeat defeats the check.          *)
THEOREM OnlyLateRenewalShares == Spec => []SharedOnlyByLateRenewal
<1>1. Accountable => SharedOnlyByLateRenewal
  BY DEF Accountable, SharedOnlyByLateRenewal, OlderHadLapsed, LiveTogether, LiveSession,
         TypeOK, RowsAreWhole, SessionRows, Active, ActiveStates
<1> QED
  BY <1>1, TablesAreAccountable, PTL

(* An agent at work loses its claim only to the operator's reclaim of an       *)
(* expired session of the same handoff.                                        *)
THEOREM OnlyReclaimMovesClaims == Spec => []ClaimMovesOnlyByReclaim
<1>1. Accountable => ClaimMovesOnlyByReclaim
  BY DEF Accountable
<1> QED
  BY <1>1, TablesAreAccountable, PTL

(* A session step changes one session that is not over, and no handoff that    *)
(* is over.                                                                    *)
LEMMA SessionStepStays ==
  ASSUME Accountable, NEW s \in Sessions, SessionStep(s)
  PROVE  /\ \A h \in Handoffs : handoff[h].state \in {"COMPLETED", "CANCELLED"}
               => handoff'[h] = handoff[h]
         /\ session[s].state \notin {"COMPLETED", "ABANDONED"}
         /\ \A t \in Sessions \ {s} : session'[t] = session[t]
<1>0. TypeOK
  BY DEF Accountable
<1>1. CASE \E h \in Handoffs, a \in Agents, lease \in Leases : Start(s, h, a, lease)
  BY <1>0, <1>1 DEF Start, TypeOK
<1>2. CASE \E a \in Agents, lease \in Leases : Heartbeat(s, a, lease)
  BY <1>0, <1>2 DEF Heartbeat, MayMutate, Active, ActiveStates, TypeOK
<1>3. CASE \E a \in Agents, state \in SessionState \ {"IN_PROGRESS"} : Transition(s, a, state)
  BY <1>0, <1>3 DEF Transition, MayMutate, Active, ActiveStates, TypeOK
<1>4. CASE Reclaim(s)
  BY <1>0, <1>4 DEF Reclaim, Reclaimable, Reopened, Active, ActiveStates, TypeOK
<1> QED
  BY <1>1, <1>2, <1>3, <1>4 DEF SessionStep

(* A handoff that was completed or cancelled and a session that was completed, *)
(* released or reclaimed are never changed again.                              *)
THEOREM WhatIsOverStaysOver == Spec => OverStaysOver
<1> DEFINE Stays ==
      /\ \A h \in Handoffs : handoff[h].state \in {"COMPLETED", "CANCELLED"}
           => handoff'[h] = handoff[h]
      /\ \A s \in Sessions : session[s].state \in {"COMPLETED", "ABANDONED"}
           => session'[s] = session[s]
<1>1. Accountable /\ [Next]_vars => [Stays]_vars
  <2> SUFFICES ASSUME Accountable, Next PROVE Stays
    OBVIOUS
  <2>1. CASE \E h \in Handoffs : HandoffStep(h)
    <3> PICK h \in Handoffs : HandoffStep(h)
      BY <2>1
    <3> PICK row : /\ handoff' = [handoff EXCEPT ![h] = row]
                   /\ handoff[h].state \notin {"COMPLETED", "CANCELLED"}
      BY HandoffStepKeeps
    <3> QED
      BY HandoffStepKeeps DEF Accountable, TypeOK
  <2>2. CASE \E s \in Sessions : SessionStep(s)
    BY <2>2, SessionStepStays
  <2>3. CASE Tick
    BY <2>3 DEF Tick
  <2> QED
    BY <2>1, <2>2, <2>3 DEF Next
<1> QED
  BY <1>1, TablesAreAccountable, PTL DEF Spec, OverStaysOver

-------------------------------------------------------------------------------
(* Keyed calls, for any agents and requests, and any number of keys that are   *)
(* kept.                                                                       *)

USE CallsAssumption

Results == Handoffs \cup 1 .. MaxNotes

KeyRows == [req : Requests, result : Results]

IsStored(r) == \E i \in DOMAIN keys : keys[i].req = r

(* Every key is kept once, and with what was recorded for it the last time.    *)
KeysAreResults ==
  /\ \A i, j \in DOMAIN keys : keys[i].req = keys[j].req => i = j
  /\ \A i \in DOMAIN keys : keys[i].result = result[keys[i].req]

(* A request is remembered for as long as its key is among the newest, where   *)
(* it stands behind those recorded since.                                      *)
RememberedAreStored ==
  \A r \in Requests : Remembered(r) =>
    younger[r] < Len(keys) /\ keys[Len(keys) - younger[r]].req = r

IsNoteOf(outcome, r) == outcome \in DOMAIN notes /\ notes[outcome].req = r

(* What is kept, and what was answered, for a note is a note of that request.  *)
NotesAreOnesOwn ==
  /\ \A i \in DOMAIN keys : keys[i].req.tool = Note => IsNoteOf(keys[i].result, keys[i].req)
  /\ answer.result # None /\ answer.req.tool = Note => IsNoteOf(answer.result, answer.req)

AnswersAreResults ==
  answer.req # None => answer.req \in Requests
                       /\ (Remembered(answer.req) => answer.result = result[answer.req])

KeysAnswerForCalls ==
  /\ CallsTypeOK
  /\ KeysAreResults
  /\ RememberedAreStored
  /\ NotesAreOnesOwn
  /\ AnswersAreResults

LEMMA InitKeys == CallsInit => KeysAnswerForCalls
<1> SUFFICES ASSUME CallsInit PROVE KeysAnswerForCalls
  OBVIOUS
<1>1. /\ keys = <<>> /\ notes = <<>> /\ answer = [req |-> None, result |-> None]
      /\ postKey = [h \in Handoffs |-> None]
      /\ result = [r \in Requests |-> None] /\ younger = [r \in Requests |-> KeyLimit]
  BY DEF CallsInit
<1>2. CallsTypeOK
  BY <1>1 DEF CallsTypeOK
<1>3. KeysAreResults /\ NotesAreOnesOwn /\ AnswersAreResults
  BY <1>1 DEF KeysAreResults, NotesAreOnesOwn, AnswersAreResults
<1>4. RememberedAreStored
  BY <1>1 DEF RememberedAreStored, Remembered
<1> QED
  BY <1>2, <1>3, <1>4 DEF KeysAnswerForCalls

LEMMA ReplayIsStored == ASSUME NEW r, NEW h PROVE IsReplay(r, h) <=> IsStored(r)
BY DEF IsReplay, Stored, SameKey, IsStored

LEMMA RememberedIsStored ==
  ASSUME KeysAnswerForCalls, NEW r \in Requests, ~IsStored(r)
  PROVE  ~Remembered(r)
<1>1. keys \in Seq(KeyRows) /\ younger[r] \in 0 .. KeyLimit
  BY DEF KeysAnswerForCalls, CallsTypeOK, KeyRows, Results
<1> QED
  BY <1>1 DEF KeysAnswerForCalls, RememberedAreStored, IsStored

-------------------------------------------------------------------------------
(* The newest keys after one more: where each of them was before.              *)
KeptFrom(kept, rows, key) ==
  /\ kept \in Seq(KeyRows) /\ Len(kept) <= KeyLimit /\ Len(kept) > 0
  /\ kept[Len(kept)] = key
  /\ \A i \in DOMAIN kept : i # Len(kept) =>
       /\ i + Len(rows) + 1 - Len(kept) \in DOMAIN rows
       /\ kept[i] = rows[i + Len(rows) + 1 - Len(kept)]
  /\ Len(kept) \in {Len(rows), Len(rows) + 1}
  /\ Len(kept) = Len(rows) => Len(kept) = KeyLimit

LEMMA NewestKept ==
  ASSUME NEW rows \in Seq(KeyRows), NEW key \in KeyRows, Len(rows) <= KeyLimit,
         NEW kept, kept = NewestKeys(Append(rows, key))
  PROVE  KeptFrom(kept, rows, key)
<1> DEFINE all == Append(rows, key)
<1>1. /\ all \in Seq(KeyRows) /\ Len(all) = Len(rows) + 1 /\ all[Len(all)] = key
      /\ \A i \in DOMAIN rows : all[i] = rows[i]
  OBVIOUS
<1> HIDE DEF all
<1>2. CASE Len(all) > KeyLimit
  <2>1. kept = Tail(all)
    BY <1>2 DEF NewestKeys, all
  <2>2. /\ kept \in Seq(KeyRows) /\ Len(kept) = Len(all) - 1
        /\ \A i \in DOMAIN kept : kept[i] = all[i + 1]
    BY <1>1, <2>1
  <2> QED
    BY <1>1, <1>2, <2>2 DEF KeptFrom
<1>3. CASE ~(Len(all) > KeyLimit)
  <2>1. kept = all
    BY <1>3 DEF NewestKeys, all
  <2> QED
    BY <1>1, <1>3, <2>1 DEF KeptFrom
<1> QED
  BY <1>2, <1>3

(* A key is recorded for a call that had none.                                 *)
LEMMA RecordKeeps ==
  ASSUME KeysAnswerForCalls, NEW r \in Requests, NEW outcome \in Results,
         ~IsStored(r), RecordHandoffMutation(r, outcome)
  PROVE  /\ keys' \in Seq(KeyRows) /\ Len(keys') <= KeyLimit
         /\ result' = [result EXCEPT ![r] = outcome]
         /\ result' \in [Requests -> Results \cup {None}]
         /\ younger' \in [Requests -> 0 .. KeyLimit] /\ younger'[r] = 0
         /\ \A i \in DOMAIN keys' :
              \/ keys'[i] = [req |-> r, result |-> outcome]
              \/ \E j \in DOMAIN keys : keys'[i] = keys[j]
         /\ KeysAreResults' /\ RememberedAreStored'
<1>1. /\ keys \in Seq(KeyRows) /\ Len(keys) <= KeyLimit
      /\ result \in [Requests -> Results \cup {None}] /\ younger \in [Requests -> 0 .. KeyLimit]
      /\ KeysAreResults /\ RememberedAreStored
  BY DEF KeysAnswerForCalls, CallsTypeOK, KeyRows, Results
<1> DEFINE key == [req |-> r, result |-> outcome]
           moved == Len(keys) + 1 - Len(keys')
<1>2. /\ keys' = NewestKeys(Append(keys, key))
      /\ result' = [result EXCEPT ![r] = outcome]
      /\ younger' = [q \in Requests |->
                       IF q = r THEN 0
                       ELSE IF younger[q] < KeyLimit THEN younger[q] + 1 ELSE KeyLimit]
  BY DEF RecordHandoffMutation
<1>3. key \in KeyRows
  BY DEF KeyRows
<1>4. /\ keys' \in Seq(KeyRows) /\ Len(keys') <= KeyLimit
      /\ Len(keys') > 0 /\ keys'[Len(keys')] = key
      /\ \A i \in DOMAIN keys' : i # Len(keys') =>
           /\ i + Len(keys) + 1 - Len(keys') \in DOMAIN keys
           /\ keys'[i] = keys[i + Len(keys) + 1 - Len(keys')]
      /\ Len(keys') \in {Len(keys), Len(keys) + 1}
      /\ Len(keys') = Len(keys) => Len(keys') = KeyLimit
  <2>1. keys \in Seq(KeyRows) /\ key \in KeyRows
    BY <1>1, <1>3
  <2> HIDE DEF key
  <2>2. Len(keys) <= KeyLimit
    BY <1>1
  <2>3. KeptFrom(keys', keys, key)
    BY ONLY <1>2, <2>1, <2>2, NewestKept
  <2> QED
    BY ONLY <2>3 DEF KeptFrom
<1>5. moved \in {0, 1} /\ Len(keys) \in Nat /\ Len(keys') \in Nat
  BY <1>1, <1>4
<1>6. \A i \in DOMAIN keys' : i # Len(keys') =>
        i + moved \in DOMAIN keys /\ keys'[i] = keys[i + moved]
  <2>1. ASSUME NEW i \in DOMAIN keys'
        PROVE  i + moved = i + Len(keys) + 1 - Len(keys')
    BY <1>4, <1>5
  <2> QED
    BY <1>4, <2>1
<1>7. /\ result' \in [Requests -> Results \cup {None}] /\ result'[r] = outcome
      /\ \A q \in Requests \ {r} : result'[q] = result[q]
  BY <1>1, <1>2
<1>8. /\ younger' \in [Requests -> 0 .. KeyLimit] /\ younger'[r] = 0
      /\ \A q \in Requests \ {r} : younger'[q] < KeyLimit => younger'[q] = younger[q] + 1
  BY <1>1, <1>2
<1>9. \A i \in DOMAIN keys : keys[i].req # r /\ keys[i].req \in Requests
  <2>1. ASSUME NEW i \in DOMAIN keys PROVE keys[i] \in KeyRows
    BY <1>1, <2>1
  <2> QED
    BY <2>1 DEF IsStored, KeyRows
<1> HIDE DEF key
<1>10. key.req = r /\ key.result = outcome
  BY DEF key
<1>11. KeysAreResults'
  <2>1. ASSUME NEW i \in DOMAIN keys', NEW j \in DOMAIN keys', keys'[i].req = keys'[j].req
        PROVE  i = j
    <3>1. CASE i = Len(keys') \/ j = Len(keys')
      BY <1>4, <1>6, <1>9, <1>10, <2>1, <3>1
    <3>2. CASE i # Len(keys') /\ j # Len(keys')
      <4>1. /\ i + moved \in DOMAIN keys /\ j + moved \in DOMAIN keys
            /\ keys[i + moved].req = keys[j + moved].req
        BY <1>6, <2>1, <3>2
      <4>2. i + moved = j + moved
        BY <1>1, <4>1 DEF KeysAreResults
      <4> QED
        BY <1>4, <1>5, <4>2
    <3> QED
      BY <3>1, <3>2
  <2>2. ASSUME NEW i \in DOMAIN keys' PROVE keys'[i].result = result'[keys'[i].req]
    <3>1. CASE i = Len(keys')
      BY <1>4, <1>7, <1>10, <3>1
    <3>2. CASE i # Len(keys')
      <4>1. i + moved \in DOMAIN keys /\ keys'[i] = keys[i + moved]
        BY <1>6, <3>2
      <4> QED
        BY <1>1, <1>7, <1>9, <4>1 DEF KeysAreResults
    <3> QED
      BY <3>1, <3>2
  <2> QED
    BY <2>1, <2>2 DEF KeysAreResults
<1>12. RememberedAreStored'
  <2> SUFFICES ASSUME NEW q \in Requests, younger'[q] < KeyLimit
               PROVE  younger'[q] < Len(keys') /\ keys'[Len(keys') - younger'[q]].req = q
    BY DEF RememberedAreStored, Remembered
  <2>1. CASE q = r
    BY <1>4, <1>5, <1>8, <1>10, <2>1
  <2>2. CASE q # r
    <3>1. younger'[q] = younger[q] + 1 /\ younger[q] \in Nat /\ younger[q] < KeyLimit
      BY <1>1, <1>8, <2>2
    <3>2. younger[q] < Len(keys) /\ keys[Len(keys) - younger[q]].req = q
      BY <1>1, <3>1 DEF RememberedAreStored, Remembered
    <3> DEFINE i == Len(keys') - younger'[q]
    <3>3. i = Len(keys) - younger[q] - moved
      BY <1>5, <3>1
    <3>4. i \in 1 .. Len(keys') /\ i # Len(keys')
      <4>1. i \in Int /\ i < Len(keys')
        BY <1>5, <3>1
      <4>2. CASE moved = 0
        <5>1. younger[q] < Len(keys) /\ Len(keys) \in Nat /\ younger[q] \in Nat
          BY <1>5, <3>1, <3>2
        <5>2. i = Len(keys) - younger[q]
          BY ONLY <3>3, <4>2, <5>1
        <5> QED
          BY ONLY <4>1, <5>1, <5>2
      <4>3. CASE moved = 1
        <5>1. Len(keys') = KeyLimit
          BY <1>4, <1>5, <4>3
        <5> QED
          BY <1>5, <3>1, <3>3, <4>1, <4>3, <5>1
      <4> QED
        BY <1>5, <4>2, <4>3
    <3>5. i \in DOMAIN keys'
      BY <1>4, <3>4
    <3>6. keys'[i] = keys[i + moved] /\ i + moved = Len(keys) - younger[q]
      BY <1>5, <1>6, <3>1, <3>3, <3>4, <3>5
    <3> QED
      BY <1>4, <1>5, <3>1, <3>2, <3>4, <3>6
  <2> QED
    BY <2>1, <2>2
<1> QED
  BY <1>2, <1>4, <1>6, <1>7, <1>8, <1>11, <1>12 DEF key

(* A call that is done: its key, its answer and, for a note, the note.         *)
LEMMA FreshKeeps ==
  ASSUME KeysAnswerForCalls, NEW r \in Requests, NEW h \in Handoffs,
         AddHandoffNote(r, h) \/ CompleteHandoff(r, h) \/ CancelHandoff(r, h)
  PROVE  KeysAnswerForCalls'
<1>1. /\ notes \in Seq([handoff : Handoffs, req : Requests])
      /\ keys \in Seq(KeyRows) /\ postKey' = postKey
  BY DEF KeysAnswerForCalls, CallsTypeOK, KeyRows, Results, AddHandoffNote, CompleteHandoff, CancelHandoff
<1>2. PICK outcome \in Results :
        /\ Fresh(r, h, outcome)
        /\ \/ /\ r.tool = Note /\ outcome = Len(notes) + 1
              /\ notes' = Append(notes, [handoff |-> h, req |-> r])
           \/ r.tool # Note /\ notes' = notes
  <2>1. CASE AddHandoffNote(r, h)
    <3>1. Len(notes) + 1 \in Results
      BY <1>1, <2>1 DEF AddHandoffNote, Results
    <3> QED
      BY <2>1, <3>1 DEF AddHandoffNote
  <2>2. CASE CompleteHandoff(r, h) \/ CancelHandoff(r, h)
    BY <2>2 DEF CompleteHandoff, CancelHandoff, Results, Note, Finish, Withdraw
  <2> QED
    BY <2>1, <2>2
<1>3. /\ ~IsStored(r) /\ RecordHandoffMutation(r, outcome)
      /\ answer' = [req |-> r, result |-> outcome]
  BY <1>2, ReplayIsStored DEF Fresh, Answer
<1>4. /\ keys' \in Seq(KeyRows) /\ Len(keys') <= KeyLimit
      /\ result' \in [Requests -> Results \cup {None}] /\ result'[r] = outcome
      /\ younger' \in [Requests -> 0 .. KeyLimit]
      /\ \A i \in DOMAIN keys' :
           \/ keys'[i] = [req |-> r, result |-> outcome]
           \/ \E j \in DOMAIN keys : keys'[i] = keys[j]
      /\ KeysAreResults' /\ RememberedAreStored'
  <2>1. result \in [Requests -> Results \cup {None}]
    BY DEF KeysAnswerForCalls, CallsTypeOK, KeyRows, Results
  <2> QED
    BY <1>3, <2>1, RecordKeeps
<1>5. /\ notes' \in Seq([handoff : Handoffs, req : Requests])
      /\ \A i \in DOMAIN notes : i \in DOMAIN notes' /\ notes'[i] = notes[i]
      /\ r.tool = Note => outcome \in DOMAIN notes' /\ notes'[outcome].req = r
  <2>1. CASE notes' = notes /\ r.tool # Note
    BY <1>1, <2>1
  <2>2. CASE notes' = Append(notes, [handoff |-> h, req |-> r]) /\ outcome = Len(notes) + 1
    <3> DEFINE note == [handoff |-> h, req |-> r]
    <3>1. note \in [handoff : Handoffs, req : Requests] /\ note.req = r
      OBVIOUS
    <3> HIDE DEF note
    <3>2. notes' = Append(notes, note)
      BY <2>2 DEF note
    <3>3. /\ notes' \in Seq([handoff : Handoffs, req : Requests])
          /\ Len(notes') = Len(notes) + 1 /\ notes'[Len(notes) + 1] = note
          /\ \A i \in DOMAIN notes : i \in DOMAIN notes' /\ notes'[i] = notes[i]
      BY <1>1, <3>1, <3>2
    <3> QED
      BY <1>1, <2>2, <3>1, <3>3
  <2> QED
    BY <1>2, <2>1, <2>2
<1>6. CallsTypeOK'
  BY <1>1, <1>4, <1>5 DEF KeysAnswerForCalls, CallsTypeOK, KeyRows, Results
<1>7. NotesAreOnesOwn'
  <2>1. ASSUME NEW told, NEW q, q.tool = Note,
               \/ told = outcome /\ q = r
               \/ \E j \in DOMAIN keys : told = keys[j].result /\ q = keys[j].req
        PROVE  told \in DOMAIN notes' /\ notes'[told].req = q
    BY <1>5, <2>1 DEF KeysAnswerForCalls, NotesAreOnesOwn, IsNoteOf
  <2>2. ASSUME NEW i \in DOMAIN keys', keys'[i].req.tool = Note
        PROVE  keys'[i].result \in DOMAIN notes' /\ notes'[keys'[i].result].req = keys'[i].req
    <3>1. CASE keys'[i] = [req |-> r, result |-> outcome]
      BY <2>1, <2>2, <3>1
    <3>2. CASE \E j \in DOMAIN keys : keys'[i] = keys[j]
      BY <2>1, <2>2, <3>2
    <3> QED
      BY <1>4, <3>1, <3>2
  <2>3. answer'.req.tool = Note
          => answer'.result \in DOMAIN notes' /\ notes'[answer'.result].req = answer'.req
    BY <1>3, <2>1
  <2> QED
    BY <2>2, <2>3 DEF NotesAreOnesOwn, IsNoteOf
<1>8. AnswersAreResults'
  BY <1>3, <1>4 DEF AnswersAreResults
<1> QED
  BY <1>4, <1>6, <1>7, <1>8 DEF KeysAnswerForCalls

-------------------------------------------------------------------------------
(* A call that is answered from its key, or refused.                           *)
LEMMA AnsweredKeeps ==
  ASSUME KeysAnswerForCalls, NEW r \in Requests, NEW h \in Handoffs, Replay(r, h) \/ Refuse(r, h)
  PROVE  KeysAnswerForCalls'
<1>1. UNCHANGED <<keys, notes, postKey, result, younger>>
  BY DEF Replay, Refuse
<1>2. PICK outcome : answer' = [req |-> r, result |-> outcome]
  BY DEF Replay, Refuse, Answer
<1>3. CASE Replay(r, h)
  <2>1. Stored(r) # {} /\ outcome = keys[CHOOSE i \in Stored(r) : TRUE].result
    BY <1>2, <1>3 DEF Replay, IsReplay, Answer
  <2>2. PICK i \in Stored(r) : outcome = keys[i].result
    BY <2>1
  <2>3. i \in DOMAIN keys /\ keys[i].req = r
    BY DEF Stored, SameKey
  <2>4. outcome = result[r] /\ (r.tool = Note => IsNoteOf(outcome, r))
    BY <2>2, <2>3 DEF KeysAnswerForCalls, KeysAreResults, NotesAreOnesOwn
  <2> QED
    BY <1>1, <1>2, <2>4 DEF KeysAnswerForCalls, CallsTypeOK, KeysAreResults,
       RememberedAreStored, Remembered, NotesAreOnesOwn, IsNoteOf, AnswersAreResults
<1>4. CASE Refuse(r, h)
  <2>1. outcome = None /\ ~Remembered(r)
    BY <1>2, <1>4, ReplayIsStored, RememberedIsStored DEF Refuse, Answer
  <2> QED
    BY <1>1, <1>2, <2>1 DEF KeysAnswerForCalls, CallsTypeOK, KeysAreResults,
       RememberedAreStored, Remembered, NotesAreOnesOwn, IsNoteOf, AnswersAreResults
<1> QED
  BY <1>3, <1>4

(* What leaves the keys and the answers alone.                                 *)
LEMMA OthersKeep ==
  ASSUME KeysAnswerForCalls, UNCHANGED <<keys, notes, answer, result, younger>>,
         postKey' \in [Handoffs -> [from : Agents, id : RequestIds] \cup {None}]
  PROVE  KeysAnswerForCalls'
BY DEF KeysAnswerForCalls, CallsTypeOK, KeysAreResults, RememberedAreStored, Remembered,
       NotesAreOnesOwn, IsNoteOf, AnswersAreResults

LEMMA PostKeeps ==
  ASSUME KeysAnswerForCalls, NEW h \in Handoffs, NEW from \in Agents,
         NEW to \in Agents \cup {None}, NEW id \in RequestIds, PostKeyed(h, from, to, id)
  PROVE  KeysAnswerForCalls'
<1>1. postKey \in [Handoffs -> [from : Agents, id : RequestIds] \cup {None}]
  BY DEF KeysAnswerForCalls, CallsTypeOK
<1> QED
  BY <1>1, OthersKeep DEF PostKeyed, allVars

(* The inductive invariant: the table of keys answers for the calls it         *)
(* remembers, and an answer about a note is about the caller's own.            *)
THEOREM KeysAreKept == CallsSpec => []KeysAnswerForCalls
<1>1. KeysAnswerForCalls /\ [CallsNext]_allVars => KeysAnswerForCalls'
  <2> SUFFICES ASSUME KeysAnswerForCalls, [CallsNext]_allVars PROVE KeysAnswerForCalls'
    OBVIOUS
  <2>1. ASSUME NEW r \in Requests, NEW h \in Handoffs, Call(r, h) PROVE KeysAnswerForCalls'
    BY <2>1, AnsweredKeeps, FreshKeeps DEF Call
  <2>2. ASSUME NEW h \in Handoffs, NEW from \in Agents, NEW to \in Agents \cup {None},
               NEW id \in RequestIds, PostKeyed(h, from, to, id)
        PROVE  KeysAnswerForCalls'
    BY <2>2, PostKeeps
  <2>3. CASE UNCHANGED callVars
    <3>1. postKey' = postKey /\ UNCHANGED <<keys, notes, answer, result, younger>>
      BY <2>3 DEF callVars
    <3> QED
      BY <3>1, OthersKeep DEF KeysAnswerForCalls, CallsTypeOK
  <2> QED
    BY <2>1, <2>2, <2>3 DEF CallsNext, Unkeyed, allVars, callVars
<1> QED
  BY <1>1, InitKeys, PTL DEF CallsSpec

(* A retry is answered as the call was, as long as its key is remembered.      *)
THEOREM RetriesGetTheirAnswer == CallsSpec => []RetriesAreAnsweredAlike
<1>1. KeysAnswerForCalls => RetriesAreAnsweredAlike
  BY DEF KeysAnswerForCalls, AnswersAreResults, RetriesAreAnsweredAlike
<1> QED
  BY <1>1, KeysAreKept, PTL

(* No agent is answered with a note of another request.                        *)
THEOREM AnswersAreOfTheCaller == CallsSpec => []AnswersAreOnesOwn
<1>1. KeysAnswerForCalls => AnswersAreOnesOwn
  BY DEF KeysAnswerForCalls, NotesAreOnesOwn, IsNoteOf, AnswersAreOnesOwn
<1> QED
  BY <1>1, KeysAreKept, PTL

(* A note is written twice only when its key had left the table.               *)
THEOREM NotesAreWrittenOnce == CallsSpec => NotesRepeatOnlyWhenForgotten
<1> DEFINE Once == \A r \in Requests : NotesOf(r)' # NotesOf(r) => ~Remembered(r)
<1>1. KeysAnswerForCalls /\ [CallsNext]_allVars => Once
  <2> SUFFICES ASSUME KeysAnswerForCalls, [CallsNext]_allVars,
                      NEW q \in Requests, NotesOf(q)' # NotesOf(q)
               PROVE  ~Remembered(q)
    OBVIOUS
  <2>1. notes \in Seq([handoff : Handoffs, req : Requests])
    BY DEF KeysAnswerForCalls, CallsTypeOK
  <2>2. notes' # notes
    BY DEF NotesOf
  <2>3. PICK r \in Requests, h \in Handoffs : AddHandoffNote(r, h)
    BY <2>2 DEF CallsNext, Call, Replay, CompleteHandoff, CancelHandoff, Refuse, PostKeyed,
                Unkeyed, callVars, allVars
  <2>4. notes' = Append(notes, [handoff |-> h, req |-> r]) /\ ~IsStored(r)
    BY <2>3, ReplayIsStored DEF AddHandoffNote, Fresh
  <2>5. q = r
    BY <2>1, <2>4 DEF NotesOf
  <2> QED
    BY <2>4, <2>5, RememberedIsStored
<1>2. CallsSpec => [][Once]_allVars
  BY <1>1, KeysAreKept, PTL DEF CallsSpec
<1> QED
  BY <1>2 DEF NotesRepeatOnlyWhenForgotten

-------------------------------------------------------------------------------
(* Keyed calls do to the handoffs what the operations of Coordination do.      *)

(* A call is one operation of its agent, or leaves the handoffs alone.         *)
LEMMA CallsAreSteps ==
  ASSUME NEW r \in Requests, NEW h \in Handoffs, Call(r, h)
  PROVE  [Next]_vars
<1>1. r.agent \in Agents
  BY DEF Requests
<1>2. CASE UNCHANGED vars
  BY <1>2
<1>3. CASE Complete(h, r.agent) \/ CancelAsAgent(h, r.agent)
  BY <1>1, <1>3 DEF Next, HandoffStep
<1> QED
  BY <1>2, <1>3 DEF Call, Replay, AddHandoffNote, CompleteHandoff, CancelHandoff, Refuse

(* Retries, replays and refusals add nothing to what Coordination allows: a    *)
(* keyed behaviour is one of Coordination, and what is proved of handoffs      *)
(* there holds of agents that repeat their calls (mutations.ts).               *)
THEOREM CallsAreOperations == CallsSpec => Spec
<1>1. CallsInit => Init
  BY DEF CallsInit
<1>2. [CallsNext]_allVars => [Next]_vars
  <2> SUFFICES ASSUME [CallsNext]_allVars PROVE [Next]_vars
    OBVIOUS
  <2>1. CASE \E r \in Requests, h \in Handoffs : Call(r, h)
    BY <2>1, CallsAreSteps
  <2>2. CASE \E h \in Handoffs, from \in Agents, to \in Agents \cup {None}, id \in RequestIds :
               PostKeyed(h, from, to, id)
    BY <2>2 DEF PostKeyed, allVars, vars, Next, HandoffStep
  <2>3. CASE Unkeyed
    BY <2>3 DEF Unkeyed, Next, HandoffStep
  <2>4. CASE UNCHANGED allVars
    BY <2>4 DEF allVars, vars
  <2> QED
    BY <2>1, <2>2, <2>3, <2>4 DEF CallsNext
<1> QED
  BY <1>1, <1>2, PTL DEF CallsSpec, Spec

(* Under retries, too, a handoff that is over is never changed again.          *)
THEOREM RetriesLeaveTheFinished == CallsSpec => OverStaysOver
BY CallsAreOperations, WhatIsOverStaysOver
===============================================================================
