------------------------- MODULE BufferPublishingProof -------------------------
(* Proofs about BufferPublishing, for any number of publications and targets.  *)
EXTENDS BufferPublishing, TLAPS

USE BufferAssumption

States == PublicationState \cup {"NONE"}
Targets == [Accounts -> TargetRows]
Posts == [Accounts -> PostStates]
Places == 0 .. Len(Order)
Checks == [pub : Publications \cup {Nobody}, at : Nat \ {0}, saw : Posts, was : Targets]

(* What Buffer will not change any more.                                       *)
Terminal == {"REFUSED", "PUBLISHED", "FAILED", "DELETED"}

(* Nothing of the publication is still to go out, save what never was answered. *)
IsSettled(t, po, su, isEarly) ==
  isEarly \/ \A a \in Accounts : po[a] \in Terminal \/ (~t[a].known /\ su = 0)

(* The submission is over, and the verdict Buffer's of all it answered for.    *)
IsBuffers(st, t, po, su) ==
  su = 0 /\ \A a \in Accounts :
    t[a].known => po[a] = IF st = "CONFIRMED" THEN "PUBLISHED" ELSE "FAILED"

(* A publication's row, its targets' rows, its posts and its submission.       *)
IsTrue(st, t, po, su, isEarly) ==
  /\ st = "NONE" => su = 0 /\ \A a \in Accounts : po[a] = "NONE" /\ t[a] = NewTarget
  /\ su # 0 => \A i \in DOMAIN Order : i > su => po[Order[i]] = "NONE"
  /\ st \in {"FAILED", "CONFIRMED"} /\ ~isEarly => IsBuffers(st, t, po, su)
  /\ \A a \in Accounts : t[a].cancelled => po[a] = "DELETED"
  /\ st = "CANCELLED" => \A a \in Accounts : po[a] = "DELETED"
  /\ st \in {"FAILED", "CONFIRMED", "CANCELLED"} => IsSettled(t, po, su, isEarly)

Settled(p) == IsSettled(target[p], post[p], submit[p], p \in early)

PublicationIsTrue(p) == IsTrue(state[p], target[p], post[p], submit[p], p \in early)

(* Of two publications one is settled.                                         *)
OneIsSettled ==
  \A p, q \in Publications :
    p # q /\ state[p] # "NONE" /\ state[q] # "NONE" => Settled(p) \/ Settled(q)

(* What a check has seen is so, and unless it began too early it sees every    *)
(* post that was ever answered for.                                            *)
CheckIsTrue ==
  /\ check \in Checks
  /\ check.pub # Nobody =>
       /\ state[check.pub] # "NONE"
       /\ \A a \in Accounts : check.was[a].known => target[check.pub][a].known
       /\ check.pub \notin early =>
            /\ submit[check.pub] = 0
            /\ \A a \in Accounts : target[check.pub][a].known => check.was[a].known
       /\ \A i \in DOMAIN Order :
            i < check.at /\ check.was[Order[i]].known /\ check.saw[Order[i]] \in Terminal
              => post[check.pub][Order[i]] = check.saw[Order[i]]

ActionIsTrue ==
  /\ action \in [pub : Publications \cup {Nobody}, kind : {"CANCEL", "UPDATE"},
                 acct : Accounts, pc : {"idle", "asking", "done"}]
  /\ action.pc # "idle" =>
       /\ action.pub # Nobody /\ state[action.pub] # "NONE"
       /\ target[action.pub][action.acct].known
  /\ action.pc = "done" /\ action.kind = "CANCEL"
       => post[action.pub][action.acct] = "DELETED"

ColumnsAreTyped ==
  /\ state \in [Publications -> States]
  /\ target \in [Publications -> Targets]
  /\ post \in [Publications -> Posts]
  /\ submit \in [Publications -> Places]
  /\ early \subseteq Publications

RowsFollowBuffer ==
  /\ ColumnsAreTyped
  /\ \A p \in Publications : PublicationIsTrue(p)
  /\ OneIsSettled
  /\ CheckIsTrue
  /\ ActionIsTrue

LEMMA OrderFacts ==
  /\ Len(Order) \in Nat \ {0} /\ DOMAIN Order = 1 .. Len(Order)
  /\ \A i \in DOMAIN Order : Order[i] \in Accounts
BY DEF BufferAssumption

LEMMA NoCheckIsTyped == NoCheck \in Checks
BY DEF NoCheck, Checks, Targets, Posts, TargetRows, NewTarget, PostStates

LEMMA InitRows == Init => RowsFollowBuffer
<1> SUFFICES ASSUME Init PROVE RowsFollowBuffer
  OBVIOUS
<1>1. ColumnsAreTyped
  BY OrderFacts DEF Init, ColumnsAreTyped, States, Targets, Posts, Places, TargetRows, NewTarget,
                    PostStates
<1>2. \A p \in Publications : PublicationIsTrue(p)
  BY DEF Init, PublicationIsTrue, IsTrue, NewTarget
<1>3. OneIsSettled
  BY DEF Init, OneIsSettled
<1>4. CheckIsTrue
  BY NoCheckIsTyped DEF Init, CheckIsTrue, NoCheck
<1>5. ActionIsTrue
  BY OrderFacts DEF Init, ActionIsTrue, NoAction
<1> QED
  BY <1>1, <1>2, <1>3, <1>4, <1>5 DEF RowsFollowBuffer

-------------------------------------------------------------------------------
(* What no step undoes: a post that is at its end, a target that is answered,  *)
(* a row, and that a submission is over.                                       *)
Goes(p, st, t, po, su) ==
  /\ \A a \in Accounts : post[p][a] \in Terminal => po[a] = post[p][a]
  /\ \A a \in Accounts : target[p][a].known => t[a].known
  /\ state[p] # "NONE" =>
       /\ st # "NONE"
       /\ submit[p] = 0 => su = 0 /\ \A a \in Accounts : t[a].known => target[p][a].known

GoesOn(p) == Goes(p, state'[p], target'[p], post'[p], submit'[p])

LEMMA SettledStays ==
  ASSUME NEW p \in Publications, state[p] # "NONE", Settled(p), GoesOn(p), early \subseteq early'
  PROVE  Settled(p)'
BY DEF Settled, IsSettled, GoesOn, Goes

(* A step that leaves every publication true and undoes nothing; one that is   *)
(* new finds all others settled.                                               *)
LEMMA RowsStep ==
  ASSUME RowsFollowBuffer, ColumnsAreTyped', early \subseteq early',
         \A p \in Publications : PublicationIsTrue(p)' /\ GoesOn(p),
         \A p, q \in Publications :
           p # q /\ state[p] = "NONE" /\ state'[p] # "NONE" /\ state'[q] # "NONE"
             => state[q] # "NONE" /\ Settled(q),
         CheckIsTrue', ActionIsTrue'
  PROVE  RowsFollowBuffer'
<1>1. ASSUME NEW p \in Publications, NEW q \in Publications,
             p # q, state'[p] # "NONE", state'[q] # "NONE"
      PROVE  Settled(p)' \/ Settled(q)'
  <2>1. CASE state[p] # "NONE" /\ state[q] # "NONE"
    BY <1>1, <2>1, SettledStays DEF RowsFollowBuffer, OneIsSettled
  <2>2. CASE state[p] = "NONE"
    BY <1>1, <2>2, SettledStays
  <2>3. CASE state[q] = "NONE"
    BY <1>1, <2>3, SettledStays
  <2> QED
    BY <2>1, <2>2, <2>3
<1>2. OneIsSettled'
  BY <1>1 DEF OneIsSettled
<1> QED
  BY <1>2 DEF RowsFollowBuffer

LEMMA CheckStays ==
  ASSUME RowsFollowBuffer, early \subseteq early', \A p \in Publications : GoesOn(p),
         check' = check \/ check' = NoCheck
  PROVE  CheckIsTrue'
<1>1. CASE check' = NoCheck
  BY <1>1, NoCheckIsTyped DEF CheckIsTrue, NoCheck
<1>2. CASE check' = check /\ check.pub = Nobody
  BY <1>2 DEF RowsFollowBuffer, CheckIsTrue
<1>3. CASE check' = check /\ check.pub # Nobody
  <2>1. PICK p \in Publications : p = check.pub
    BY <1>3 DEF RowsFollowBuffer, CheckIsTrue, Checks
  <2>2. CheckIsTrue /\ GoesOn(p)
    BY DEF RowsFollowBuffer
  <2> QED
    BY <1>3, <2>1, <2>2, OrderFacts DEF CheckIsTrue, GoesOn, Goes
<1> QED
  BY <1>1, <1>2, <1>3

LEMMA ActionStays ==
  ASSUME RowsFollowBuffer, \A p \in Publications : GoesOn(p),
         action' = action \/ action' = NoAction
  PROVE  ActionIsTrue'
<1>1. CASE action' = NoAction
  BY <1>1, OrderFacts DEF ActionIsTrue, NoAction
<1>2. CASE action' = action
  <2>1. ActionIsTrue
    BY DEF RowsFollowBuffer
  <2>2. CASE action.pc = "idle"
    BY <1>2, <2>1, <2>2 DEF ActionIsTrue
  <2>3. CASE action.pc # "idle"
    <3>1. PICK p \in Publications : p = action.pub
      BY <2>1, <2>3 DEF ActionIsTrue
    <3> QED
      BY <1>2, <2>1, <2>3, <3>1 DEF ActionIsTrue, GoesOn, Goes, Terminal
  <2> QED
    BY <2>2, <2>3
<1> QED
  BY <1>1, <1>2

-------------------------------------------------------------------------------
(* A step on one publication, which alone may be new.                          *)
OneWritten(p, st, t, po, su) ==
  /\ state' = [state EXCEPT ![p] = st] /\ target' = [target EXCEPT ![p] = t]
  /\ post' = [post EXCEPT ![p] = po] /\ submit' = [submit EXCEPT ![p] = su]

LEMMA OneColumns ==
  ASSUME ColumnsAreTyped, NEW p \in Publications, NEW st \in States, NEW t \in Targets,
         NEW po \in Posts, NEW su \in Places, OneWritten(p, st, t, po, su), early' = early
  PROVE  /\ ColumnsAreTyped'
         /\ state'[p] = st /\ target'[p] = t /\ post'[p] = po /\ submit'[p] = su
         /\ \A q \in Publications \ {p} :
              /\ state'[q] = state[q] /\ target'[q] = target[q]
              /\ post'[q] = post[q] /\ submit'[q] = submit[q]
BY DEF ColumnsAreTyped, OneWritten

(* Its rows, whatever the check and the action of the step are.                *)
LEMMA OneGoesOn ==
  ASSUME RowsFollowBuffer, NEW p \in Publications, NEW st \in States, NEW t \in Targets,
         NEW po \in Posts, NEW su \in Places, OneWritten(p, st, t, po, su), early' = early,
         Goes(p, st, t, po, su), IsTrue(st, t, po, su, p \in early)
  PROVE  /\ ColumnsAreTyped'
         /\ \A q \in Publications : PublicationIsTrue(q)' /\ GoesOn(q)
<1>1. /\ ColumnsAreTyped'
      /\ state'[p] = st /\ target'[p] = t /\ post'[p] = po /\ submit'[p] = su
      /\ \A q \in Publications \ {p} :
           /\ state'[q] = state[q] /\ target'[q] = target[q]
           /\ post'[q] = post[q] /\ submit'[q] = submit[q]
  BY OneColumns DEF RowsFollowBuffer
<1>2. PublicationIsTrue(p)' /\ GoesOn(p)
  BY <1>1 DEF PublicationIsTrue, GoesOn
<1>3. ASSUME NEW q \in Publications \ {p} PROVE PublicationIsTrue(q)' /\ GoesOn(q)
  <2>1. PublicationIsTrue(q)
    BY DEF RowsFollowBuffer
  <2> QED
    BY <1>1, <2>1 DEF PublicationIsTrue, GoesOn, Goes
<1> QED
  BY <1>1, <1>2, <1>3

LEMMA OneStep ==
  ASSUME RowsFollowBuffer, NEW p \in Publications, NEW st \in States, NEW t \in Targets,
         NEW po \in Posts, NEW su \in Places, OneWritten(p, st, t, po, su), early' = early,
         Goes(p, st, t, po, su), IsTrue(st, t, po, su, p \in early),
         state[p] # "NONE" \/ (\A q \in Publications \ {p} : state[q] # "NONE" => Settled(q)),
         check' = check \/ check' = NoCheck, action' = action \/ action' = NoAction
  PROVE  RowsFollowBuffer'
<1>1. /\ ColumnsAreTyped'
      /\ \A q \in Publications : PublicationIsTrue(q)' /\ GoesOn(q)
  BY OneGoesOn
<1>2. \A q \in Publications \ {p} : state'[q] = state[q]
  BY OneColumns DEF RowsFollowBuffer
<1>3. CheckIsTrue' /\ ActionIsTrue'
  BY <1>1, CheckStays, ActionStays
<1> QED
  BY <1>1, <1>2, <1>3, RowsStep

(* One column of one publication as an update of its row.                      *)
LEMMA Unwritten ==
  ASSUME ColumnsAreTyped, NEW p \in Publications
  PROVE  /\ state[p] \in States /\ target[p] \in Targets /\ post[p] \in Posts
         /\ submit[p] \in Places
         /\ state = [state EXCEPT ![p] = state[p]] /\ target = [target EXCEPT ![p] = target[p]]
         /\ post = [post EXCEPT ![p] = post[p]] /\ submit = [submit EXCEPT ![p] = submit[p]]
BY DEF ColumnsAreTyped

LEMMA StateSet ==
  ASSUME ColumnsAreTyped, NEW p \in Publications, NEW to \in PublicationState, SetState(p, to)
  PROVE  \E st \in {to, state[p]} : state' = [state EXCEPT ![p] = st]
BY Unwritten DEF SetState

-------------------------------------------------------------------------------
(* Submitting.                                                                 *)

LEMMA SubmitKeeps ==
  ASSUME RowsFollowBuffer, NEW p \in Publications, SubmitBuffer(p)
  PROVE  RowsFollowBuffer'
<1> DEFINE first == Order[1]
           po == [post[p] EXCEPT ![first] = "SENT"]
<1>1. /\ ColumnsAreTyped /\ PublicationIsTrue(p)
      /\ post[p] \in Posts /\ target[p] \in Targets /\ first \in Accounts
  BY Unwritten, OrderFacts DEF RowsFollowBuffer
<1>2. /\ state[p] = "NONE" /\ UNCHANGED <<check, action, early>>
      /\ OneWritten(p, "SUBMITTING", target[p], po, 1)
  BY <1>1, Unwritten DEF SubmitBuffer, OneWritten
<1>3. /\ po \in Posts /\ po[first] = "SENT"
      /\ \A a \in Accounts \ {first} : po[a] = post[p][a]
  BY <1>1 DEF Posts, PostStates
<1> HIDE DEF po
<1>4. \A a \in Accounts : post[p][a] = "NONE" /\ target[p][a] = NewTarget
  BY <1>1, <1>2 DEF PublicationIsTrue, IsTrue
<1>5. \A i \in DOMAIN Order : i > 1 => Order[i] # first /\ po[Order[i]] = "NONE"
  BY <1>3, <1>4, OrderFacts
<1>6. IsTrue("SUBMITTING", target[p], po, 1, p \in early)
  BY <1>4, <1>5 DEF IsTrue, NewTarget
<1>7. Goes(p, "SUBMITTING", target[p], po, 1)
  BY <1>2, <1>4 DEF Goes, Terminal
<1>8. \A q \in Publications \ {p} : state[q] # "NONE" => Settled(q)
  <2> SUFFICES ASSUME NEW q \in Publications \ {p}, state[q] # "NONE" PROVE Settled(q)
    OBVIOUS
  <2>1. state[q] \in States /\ state[q] \notin Blocking /\ PublicationIsTrue(q)
    BY DEF SubmitBuffer, RowsFollowBuffer, ColumnsAreTyped
  <2>2. state[q] \in {"FAILED", "CONFIRMED", "CANCELLED"}
    BY <2>1 DEF States, PublicationState, Blocking, LiveStates
  <2> QED
    BY <2>1, <2>2 DEF PublicationIsTrue, IsTrue, Settled
<1>9. "SUBMITTING" \in States /\ 1 \in Places
  BY OrderFacts DEF States, PublicationState, Places
<1> QED
  BY <1>1, <1>2, <1>3, <1>6, <1>7, <1>8, <1>9, OneStep

LEMMA SubmittedStates ==
  ASSUME NEW p, NEW t
  PROVE  /\ SubmittedState(p, t) \in {"PARTIAL", "UNCONFIRMED", "FAILED", "SUBMITTED"}
         /\ SubmittedState(p, t) = "FAILED" => \A a \in Accounts : ~t[a].known
<1> DEFINE sent == {Order[i] : i \in 1 .. submit[p]}
           successes == {a \in sent : t[a].known}
           failures == {a \in sent : ~t[a].known /\ t[a].outcome = "FAILURE"}
           ambiguous == sent # successes \cup failures
<1>1. failures = Accounts => \A a \in Accounts : ~t[a].known
  OBVIOUS
<1>2. SubmittedState(p, t) =
        CASE ambiguous /\ successes # {} -> "PARTIAL"
          [] ambiguous /\ successes = {} -> "UNCONFIRMED"
          [] ~ambiguous /\ failures = Accounts -> "FAILED"
          [] ~ambiguous /\ failures \notin {{}, Accounts} -> "PARTIAL"
          [] OTHER -> "SUBMITTED"
  BY DEF SubmittedState
<1> HIDE DEF ambiguous, successes, failures
<1> QED
  BY <1>1, <1>2

(* The answer to one target is recorded.                                       *)
LEMMA SubmissionGoesOn ==
  ASSUME RowsFollowBuffer, NEW p \in Publications, Waits(p), NEW t \in Targets,
         NEW here \in Accounts, here = Order[submit[p]],
         \A a \in Accounts \ {here} : t[a] = target[p][a],
         target[p][here].known => t[here].known,
         t[here].cancelled => post[p][here] = "DELETED",
         NEW stops \in BOOLEAN, SubmitGoesOn(p, t, stops)
  PROVE  RowsFollowBuffer'
<1>1. /\ ColumnsAreTyped /\ PublicationIsTrue(p)
      /\ post[p] \in Posts /\ submit[p] \in Places /\ state[p] \in States
  BY Unwritten DEF RowsFollowBuffer
<1>2. /\ state[p] # "NONE" /\ submit[p] # 0
      /\ target' = [target EXCEPT ![p] = t] /\ UNCHANGED <<check, action, early>>
  BY <1>1 DEF Waits, PublicationIsTrue, IsTrue, SubmitGoesOn
<1>3. /\ state[p] \in {"FAILED", "CONFIRMED"} => p \in early
      /\ \A a \in Accounts : t[a].cancelled => post[p][a] = "DELETED"
      /\ \A a \in Accounts : target[p][a].known => t[a].known
  BY <1>1, <1>2 DEF PublicationIsTrue, IsTrue, IsBuffers
<1>4. CASE /\ SetState(p, SubmittedState(p, t))
           /\ submit' = [submit EXCEPT ![p] = 0] /\ post' = post
  <2>1. PICK st \in States :
          /\ state' = [state EXCEPT ![p] = st]
          /\ st \in {"PARTIAL", "UNCONFIRMED", "FAILED", "SUBMITTED"} \/ st = state[p]
          /\ st = "FAILED" => state[p] = "FAILED" \/ \A a \in Accounts : ~t[a].known
    <3>1. SubmittedState(p, t) \in PublicationState
      BY SubmittedStates DEF PublicationState
    <3> QED
      BY <1>1, <1>4, <3>1, StateSet, SubmittedStates DEF States
  <2>2. OneWritten(p, st, t, post[p], 0)
    BY <1>1, <1>2, <1>4, <2>1, Unwritten DEF OneWritten
  <2>3. Goes(p, st, t, post[p], 0)
    BY <1>2, <1>3, <2>1 DEF Goes
  <2>4. IsTrue(st, t, post[p], 0, p \in early)
    <3>1. st = "CANCELLED" => \A a \in Accounts : post[p][a] = "DELETED"
      BY <1>1, <2>1 DEF PublicationIsTrue, IsTrue
    <3>2. st \in {"FAILED", "CONFIRMED", "CANCELLED"} => IsSettled(t, post[p], 0, p \in early)
      <4>1. CASE state[p] \in {"FAILED", "CONFIRMED", "CANCELLED"}
        BY <1>1, <1>2, <4>1 DEF PublicationIsTrue, IsTrue, IsSettled
      <4>2. CASE state[p] \notin {"FAILED", "CONFIRMED", "CANCELLED"}
        BY <2>1, <4>2 DEF IsSettled
      <4> QED
        BY <4>1, <4>2
    <3>3. st \in {"FAILED", "CONFIRMED"} /\ p \notin early => IsBuffers(st, t, post[p], 0)
      BY <1>3, <2>1 DEF IsBuffers
    <3> QED
      BY <1>2, <1>3, <2>1, <3>1, <3>2, <3>3 DEF IsTrue
  <2>5. 0 \in Places
    BY OrderFacts DEF Places
  <2> QED
    BY <1>1, <1>2, <2>2, <2>3, <2>4, <2>5, OneStep
<1>5. CASE /\ submit[p] # Len(Order) /\ submit' = [submit EXCEPT ![p] = submit[p] + 1]
           /\ post' = [post EXCEPT ![p][Order[submit[p] + 1]] = "SENT"] /\ state' = state
  <2> DEFINE i == submit[p]
             po == [post[p] EXCEPT ![Order[i + 1]] = "SENT"]
  <2>1. i + 1 \in DOMAIN Order /\ Order[i + 1] \in Accounts /\ i \in Nat /\ i + 1 \in Places
    BY <1>1, <1>2, <1>5, OrderFacts DEF Places
  <2>2. OneWritten(p, state[p], t, po, i + 1)
    BY <1>1, <1>2, <1>5, Unwritten DEF OneWritten
  <2>3. post[p][Order[i + 1]] = "NONE"
    BY <1>1, <1>2, <2>1 DEF PublicationIsTrue, IsTrue
  <2>4. /\ po \in Posts /\ po[Order[i + 1]] = "SENT"
        /\ \A a \in Accounts \ {Order[i + 1]} : po[a] = post[p][a]
    BY <1>1, <2>1 DEF Posts, PostStates
  <2>5. \A j \in DOMAIN Order : j > i + 1 => po[Order[j]] = "NONE"
    <3> SUFFICES ASSUME NEW j \in DOMAIN Order, j > i + 1 PROVE po[Order[j]] = "NONE"
      OBVIOUS
    <3>1. j > submit[p] /\ Order[j] # Order[i + 1] /\ Order[j] \in Accounts
      BY <2>1, OrderFacts
    <3> QED
      BY <1>1, <1>2, <2>4, <3>1 DEF PublicationIsTrue, IsTrue
  <2> HIDE DEF po
  <2>6. Goes(p, state[p], t, po, i + 1)
    BY <1>2, <1>3, <2>3, <2>4 DEF Goes, Terminal
  <2>7. state[p] # "CANCELLED"
    BY <1>1, <2>1, <2>3 DEF PublicationIsTrue, IsTrue
  <2>8. state[p] \in {"FAILED", "CONFIRMED", "CANCELLED"} => p \in early
    BY <1>1, <1>2, <2>1, <2>3 DEF PublicationIsTrue, IsTrue, IsSettled, Terminal
  <2>9. IsTrue(state[p], t, po, i + 1, p \in early)
    <3>1. \A a \in Accounts : t[a].cancelled => po[a] = "DELETED"
      BY <1>3, <2>3, <2>4
    <3> QED
      BY <1>2, <2>5, <2>7, <2>8, <3>1 DEF IsTrue, IsSettled
  <2> QED
    BY <1>1, <1>2, <2>1, <2>2, <2>4, <2>6, <2>9, OneStep
<1> QED
  BY <1>4, <1>5 DEF SubmitGoesOn

LEMMA AnswerKeeps ==
  ASSUME RowsFollowBuffer, NEW p \in Publications,
         CreateAccepted(p) \/ CreateFailed(p) \/ CreateAmbiguous(p)
  PROVE  RowsFollowBuffer'
<1>1. /\ ColumnsAreTyped /\ PublicationIsTrue(p) /\ Waits(p)
      /\ target[p] \in Targets /\ submit[p] \in Places
  BY Unwritten DEF RowsFollowBuffer, CreateAccepted, CreateFailed, CreateAmbiguous
<1>2. PICK here \in Accounts : here = Order[submit[p]]
  BY <1>1, OrderFacts DEF Waits, Places
<1>3. target[p][here] \in TargetRows
  BY <1>1 DEF Targets
<1>4. CASE CreateAccepted(p)
  <2> DEFINE row == [outcome |-> "SUCCESS", known |-> TRUE, cancelled |-> FALSE]
             t == [target[p] EXCEPT ![here] = row]
  <2>1. /\ t \in Targets /\ t[here] = row /\ row.known /\ ~row.cancelled
        /\ \A a \in Accounts \ {here} : t[a] = target[p][a]
    BY <1>1 DEF Targets, TargetRows
  <2>2. SubmitGoesOn(p, t, FALSE)
    BY <1>2, <1>4 DEF CreateAccepted
  <2> HIDE DEF row, t
  <2> QED
    BY <1>1, <1>2, <2>1, <2>2, SubmissionGoesOn
<1>5. ASSUME NEW outcome \in {"FAILURE", "NULL"}, NEW stops \in BOOLEAN,
             SubmitGoesOn(p, [target[p] EXCEPT ![here].outcome = outcome], stops)
      PROVE  RowsFollowBuffer'
  <2> DEFINE row == [target[p][here] EXCEPT !.outcome = outcome]
             t == [target[p] EXCEPT ![here] = row]
  <2>1. /\ row \in TargetRows /\ row.outcome = outcome
        /\ row.known = target[p][here].known /\ row.cancelled = target[p][here].cancelled
    BY <1>3 DEF TargetRows
  <2>2. SubmitGoesOn(p, t, stops)
    BY <1>5
  <2> HIDE DEF row
  <2>3. /\ t \in Targets /\ t[here] = row
        /\ \A a \in Accounts \ {here} : t[a] = target[p][a]
    BY <1>1, <2>1 DEF Targets
  <2> HIDE DEF t
  <2>4. row.cancelled => post[p][here] = "DELETED"
    BY <1>1, <2>1 DEF PublicationIsTrue, IsTrue
  <2> QED
    BY <1>1, <1>2, <1>5, <2>1, <2>2, <2>3, <2>4, SubmissionGoesOn
<1>6. CASE CreateFailed(p)
  BY <1>2, <1>5, <1>6 DEF CreateFailed
<1>7. CASE CreateAmbiguous(p)
  BY <1>2, <1>5, <1>7 DEF CreateAmbiguous
<1> QED
  BY <1>4, <1>5, <1>6, <1>7

-------------------------------------------------------------------------------
(* Checking.                                                                   *)

(* A step that writes no row of any publication.                               *)
LEMMA NoRowStep ==
  ASSUME RowsFollowBuffer, UNCHANGED <<state, target, post, submit>>,
         early \subseteq early', early' \subseteq Publications
  PROVE  /\ ColumnsAreTyped' /\ \A p \in Publications : PublicationIsTrue(p)' /\ GoesOn(p)
         /\ CheckIsTrue' /\ ActionIsTrue' => RowsFollowBuffer'
<1>1. ColumnsAreTyped' /\ \A p \in Publications : PublicationIsTrue(p)' /\ GoesOn(p)
  BY DEF RowsFollowBuffer, ColumnsAreTyped, PublicationIsTrue, IsTrue, IsSettled, GoesOn, Goes
<1> QED
  BY <1>1, RowsStep

LEMMA StartKeeps ==
  ASSUME RowsFollowBuffer, NEW p \in Publications, StartCheck(p)
  PROVE  RowsFollowBuffer'
<1>1. /\ state[p] # "NONE" /\ check' = [NoCheck EXCEPT !.pub = p, !.was = target[p]]
      /\ early' = (IF Waits(p) THEN early \cup {p} ELSE early)
      /\ UNCHANGED <<state, target, post, submit, action>>
  BY DEF StartCheck, rows
<1>2. early \subseteq early' /\ early' \subseteq Publications
  BY <1>1 DEF RowsFollowBuffer, ColumnsAreTyped
<1>3. target[p] \in Targets
  BY DEF RowsFollowBuffer, ColumnsAreTyped
<1>4. /\ check' \in Checks
      /\ check'.pub = p /\ check'.at = 1 /\ check'.was = target[p]
      /\ \A a \in Accounts : check'.saw[a] = "NONE"
  <2>1. /\ check' \in Checks /\ check'.pub = p /\ check'.was = target[p]
        /\ check'.at = NoCheck.at /\ check'.saw = NoCheck.saw
    BY <1>1, <1>3, NoCheckIsTyped DEF Checks
  <2> QED
    BY <2>1 DEF NoCheck
<1>5. p \notin early' => submit[p] = 0
  BY <1>1 DEF Waits
<1>6. CheckIsTrue'
  BY <1>1, <1>4, <1>5, OrderFacts DEF CheckIsTrue
<1>7. ActionIsTrue'
  BY <1>1 DEF RowsFollowBuffer, ActionIsTrue
<1> QED
  BY <1>1, <1>2, <1>6, <1>7, NoRowStep

LEMMA ReadKeeps ==
  ASSUME RowsFollowBuffer, ReadTarget \/ CheckFails
  PROVE  RowsFollowBuffer'
<1>1. /\ check.pub # Nobody /\ check.at <= Len(Order)
      /\ UNCHANGED <<state, target, post, submit, action, early>> /\ CheckIsTrue /\ ColumnsAreTyped
  BY DEF ReadTarget, CheckFails, Reading, rows, RowsFollowBuffer
<1>2. PICK p \in Publications : p = check.pub
  BY <1>1 DEF CheckIsTrue, Checks
<1> DEFINE here == Order[check.at]
<1>3. \/ check' = NoCheck
      \/ ~check.was[here].known /\ check' = [check EXCEPT !.at = @ + 1]
      \/ check' = [check EXCEPT !.at = @ + 1, !.saw[here] = post[p][here]]
  <2>1. \/ check' = NoCheck
        \/ ~Checked(here) /\ check' = [check EXCEPT !.at = @ + 1]
        \/ check' = [check EXCEPT !.at = @ + 1, !.saw[here] = post[p][here]]
    BY <1>2 DEF ReadTarget, CheckFails
  <2> QED
    BY <2>1 DEF Checked
<1>4. CASE check' = NoCheck
  <2>1. CheckIsTrue' /\ ActionIsTrue'
    BY <1>1, <1>4, CheckStays, ActionStays, NoRowStep DEF ColumnsAreTyped
  <2> QED
    BY <1>1, <2>1, NoRowStep DEF ColumnsAreTyped
<1>5. ASSUME NEW saw \in Posts, check' = [check EXCEPT !.at = @ + 1, !.saw = saw],
             check.was[here].known => saw[here] = post[p][here],
             \A a \in Accounts \ {here} : saw[a] = check.saw[a]
      PROVE  RowsFollowBuffer'
  <2>1. check \in Checks
    BY <1>1 DEF CheckIsTrue
  <2>2. /\ check' \in Checks
        /\ check'.pub = p /\ check'.at = check.at + 1 /\ check'.was = check.was
        /\ check'.saw = saw /\ check.at \in Nat \ {0}
    <3>1. check.at \in Nat \ {0} /\ check.at + 1 \in Nat \ {0}
      BY <2>1 DEF Checks
    <3>2. PICK at \in Nat \ {0} : at = check.at + 1
      BY <3>1
    <3>3. check' = [check EXCEPT !.at = at, !.saw = saw]
      BY <1>5, <3>2
    <3>4. /\ check' \in Checks /\ check'.pub = check.pub /\ check'.at = at
          /\ check'.was = check.was /\ check'.saw = saw
      BY ONLY <2>1, <3>3, at \in Nat \ {0}, saw \in Posts DEF Checks
    <3> QED
      BY <1>2, <3>1, <3>2, <3>4
  <2>3. ASSUME NEW i \in DOMAIN Order, i < check.at + 1, check.was[Order[i]].known,
               saw[Order[i]] \in Terminal
        PROVE  post[p][Order[i]] = saw[Order[i]]
    <3>1. CASE i = check.at
      BY <1>5, <2>3, <3>1
    <3>2. CASE i # check.at
      <4>1. i < check.at /\ Order[i] \in Accounts /\ check.at \in DOMAIN Order
        <5>1. check.at \in DOMAIN Order
          BY <1>1, <2>2, OrderFacts
        <5> QED
          BY <2>2, <2>3, <3>2, <5>1, OrderFacts
      <4>2. Order[i] # here
        BY <2>3, <3>2, <4>1
      <4> QED
        BY <1>1, <1>2, <1>5, <2>3, <4>1, <4>2 DEF CheckIsTrue
    <3> QED
      BY <3>1, <3>2
  <2>4. CheckIsTrue'
    BY <1>1, <1>2, <2>2, <2>3 DEF CheckIsTrue
  <2>5. ActionIsTrue'
    BY <1>1 DEF RowsFollowBuffer, ActionIsTrue
  <2> QED
    BY <1>1, <2>4, <2>5, NoRowStep DEF ColumnsAreTyped
<1>6. /\ check \in Checks
      /\ check.saw \in Posts /\ post[p] \in Posts
  BY <1>1, Unwritten DEF CheckIsTrue, Checks
<1>7. CASE ~check.was[here].known /\ check' = [check EXCEPT !.at = @ + 1]
  <2>1. check' = [check EXCEPT !.at = @ + 1, !.saw = check.saw]
    BY <1>6, <1>7
  <2> QED
    BY <1>5, <1>6, <1>7, <2>1
<1>8. CASE check' = [check EXCEPT !.at = @ + 1, !.saw[here] = post[p][here]]
  <2> DEFINE saw == [check.saw EXCEPT ![here] = post[p][here]]
  <2>1. check' = [check EXCEPT !.at = @ + 1, !.saw = saw]
    BY <1>6, <1>8
  <2>2. CASE here \in Accounts
    <3>1. /\ saw \in Posts /\ saw[here] = post[p][here]
          /\ \A a \in Accounts \ {here} : saw[a] = check.saw[a]
      BY <1>6, <2>2 DEF Posts
    <3> HIDE DEF saw
    <3> QED
      BY <1>5, <2>1, <3>1
  <2>3. here \in Accounts
    BY <1>1, <1>6, OrderFacts DEF Checks
  <2> QED
    BY <2>2, <2>3
<1> QED
  BY <1>3, <1>4, <1>7, <1>8

LEMMA CheckedStates ==
  ASSUME NEW saw
  PROVE  /\ CheckedState(saw) \in {"CONFIRMED", "FAILED", "PARTIAL", "SUBMITTED"}
         /\ CheckedState(saw) = "CONFIRMED" => saw = {"PUBLISHED"}
         /\ CheckedState(saw) = "FAILED" => saw = {"FAILED"}
BY DEF CheckedState

(* What was read is written over the rows: a submission that was over when the *)
(* check began, and whose posts are all at their end, is settled.              *)
LEMMA FinishKeeps ==
  ASSUME RowsFollowBuffer, FinishCheck
  PROVE  RowsFollowBuffer'
<1>1. /\ check.pub # Nobody /\ check.at > Len(Order) /\ check' = NoCheck
      /\ UNCHANGED <<post, submit, action, early>> /\ CheckIsTrue /\ ColumnsAreTyped
  BY DEF FinishCheck, RowsFollowBuffer
<1>2. PICK p \in Publications : p = check.pub
  BY <1>1 DEF CheckIsTrue, Checks
<1> DEFINE read == {a \in Accounts : Checked(a)}
           saw == {check.saw[a] : a \in read}
           to == CheckedState(saw)
           row(a) == [outcome |-> CheckedOutcome(check.saw[a], check.was[a].outcome),
                      known |-> target[p][a].known, cancelled |-> FALSE]
           t == [a \in Accounts |-> IF a \in read THEN row(a) ELSE target[p][a]]
<1>3. /\ SetState(p, to)
      /\ target' = IF ~IndexHolds(p, to) THEN target ELSE [target EXCEPT ![p] = t]
  BY <1>2 DEF FinishCheck
<1>4. /\ PublicationIsTrue(p) /\ state[p] # "NONE"
      /\ target[p] \in Targets /\ post[p] \in Posts /\ submit[p] \in Places
      /\ state[p] \in States /\ check.was \in Targets /\ check.saw \in Posts /\ check.at \in Nat
  BY <1>1, <1>2, Unwritten DEF RowsFollowBuffer, CheckIsTrue, Checks
<1>5. /\ \A a \in read : target[p][a].known
      /\ p \notin early => submit[p] = 0 /\ \A a \in Accounts : target[p][a].known => a \in read
      /\ \A a \in read : check.saw[a] \in Terminal => post[p][a] = check.saw[a]
  <2>1. ASSUME NEW a \in read, check.saw[a] \in Terminal PROVE post[p][a] = check.saw[a]
    <3>1. PICK i \in DOMAIN Order : Order[i] = a
      BY DEF BufferAssumption
    <3>2. i < check.at
      BY <1>1, <1>4, OrderFacts
    <3> QED
      BY <1>1, <1>2, <2>1, <3>1, <3>2 DEF CheckIsTrue, Checked
  <2> QED
    BY <1>1, <1>2, <2>1 DEF CheckIsTrue, Checked
<1>6. ASSUME NEW a \in Accounts
      PROVE  /\ t[a] \in TargetRows /\ t[a].known = target[p][a].known
             /\ a \in read => t[a].known /\ ~t[a].cancelled
             /\ a \notin read => t[a] = target[p][a]
  <2>1. target[p][a] \in TargetRows /\ check.was[a] \in TargetRows
    BY <1>4 DEF Targets
  <2>2. CheckedOutcome(check.saw[a], check.was[a].outcome) \in {"NULL", "SUCCESS", "FAILURE"}
    BY <2>1 DEF CheckedOutcome, TargetRows
  <2>3. row(a) \in TargetRows
    BY <2>1, <2>2 DEF TargetRows
  <2> QED
    BY <1>5, <2>1, <2>3
<1>7. /\ to \in {"CONFIRMED", "FAILED", "PARTIAL", "SUBMITTED"}
      /\ to \in {"CONFIRMED", "FAILED"} => \A a \in read : check.saw[a] \in Terminal
      /\ to = "CONFIRMED" => \A a \in read : check.saw[a] = "PUBLISHED"
      /\ to = "FAILED" => \A a \in read : check.saw[a] = "FAILED"
  <2>1. \A a \in read : check.saw[a] \in saw
    OBVIOUS
  <2> HIDE DEF read, saw
  <2> QED
    BY <2>1, CheckedStates DEF Terminal
<1> HIDE DEF saw, to
<1>8. CASE ~IndexHolds(p, to)
  <2>1. UNCHANGED <<state, target, post, submit, early>>
    BY <1>1, <1>3, <1>8 DEF SetState
  <2>2. \A q \in Publications : GoesOn(q)
    BY <1>1, <2>1, NoRowStep DEF ColumnsAreTyped
  <2>3. CheckIsTrue' /\ ActionIsTrue'
    BY <1>1, <2>1, <2>2, CheckStays, ActionStays
  <2> QED
    BY <1>1, <2>1, <2>3, NoRowStep DEF ColumnsAreTyped
<1>9. CASE IndexHolds(p, to)
  <2>1. state' = [state EXCEPT ![p] = to] /\ target' = [target EXCEPT ![p] = t]
    BY <1>3, <1>9 DEF SetState
  <2>2. t \in Targets
    BY <1>6 DEF Targets
  <2> HIDE DEF t
  <2>3. OneWritten(p, to, t, post[p], submit[p])
    BY <1>1, <2>1, Unwritten DEF OneWritten
  <2>4. Goes(p, to, t, post[p], submit[p])
    BY <1>6, <1>7 DEF Goes
  <2>5. to \in {"CONFIRMED", "FAILED"} => IsSettled(t, post[p], submit[p], p \in early)
    <3> SUFFICES ASSUME to \in {"CONFIRMED", "FAILED"}, p \notin early, NEW a \in Accounts
                 PROVE  post[p][a] \in Terminal \/ (~t[a].known /\ submit[p] = 0)
      BY DEF IsSettled
    <3>1. CASE a \in read
      BY <1>5, <1>7, <3>1
    <3>2. CASE a \notin read
      BY <1>5, <1>6, <3>2
    <3> QED
      BY <3>1, <3>2
  <2>6. /\ to \in {"CONFIRMED", "FAILED"} /\ p \notin early
             => IsBuffers(to, t, post[p], submit[p])
        /\ \A a \in Accounts : t[a].cancelled => post[p][a] = "DELETED"
    <3>1. \A a \in Accounts : t[a].cancelled => post[p][a] = "DELETED"
      BY <1>4, <1>6 DEF PublicationIsTrue, IsTrue
    <3>2. ASSUME to \in {"CONFIRMED", "FAILED"}, p \notin early, NEW a \in Accounts, t[a].known
          PROVE  post[p][a] = IF to = "CONFIRMED" THEN "PUBLISHED" ELSE "FAILED"
      <4>1. a \in read
        BY <1>5, <1>6, <3>2
      <4>2. /\ check.saw[a] \in Terminal
            /\ check.saw[a] = IF to = "CONFIRMED" THEN "PUBLISHED" ELSE "FAILED"
        BY <1>7, <3>2, <4>1
      <4> QED
        BY <1>5, <4>1, <4>2
    <3> QED
      BY <1>5, <3>1, <3>2 DEF IsBuffers
  <2>7. IsTrue(to, t, post[p], submit[p], p \in early)
    BY <1>4, <1>7, <2>5, <2>6 DEF PublicationIsTrue, IsTrue
  <2>8. to \in States
    BY <1>7 DEF States, PublicationState
  <2> QED
    BY <1>1, <1>4, <2>2, <2>3, <2>4, <2>7, <2>8, OneStep
<1> QED
  BY <1>8, <1>9

-------------------------------------------------------------------------------
(* Acting on one target.                                                       *)

LEMMA BeginKeeps ==
  ASSUME RowsFollowBuffer, NEW p \in Publications, NEW a \in Accounts,
         NEW kind \in {"CANCEL", "UPDATE"}, BeginAction(p, a, kind)
  PROVE  RowsFollowBuffer'
<1>1. /\ UNCHANGED <<state, target, post, submit, check, early>> /\ target[p][a].known
      /\ action' = [pub |-> p, acct |-> a, kind |-> kind, pc |-> "asking"]
  BY DEF BeginAction, rows
<1>2. state[p] # "NONE"
  BY <1>1 DEF RowsFollowBuffer, PublicationIsTrue, IsTrue, NewTarget
<1>3. ActionIsTrue'
  BY <1>1, <1>2 DEF ActionIsTrue
<1>4. early \subseteq early' /\ early' \subseteq Publications
  BY <1>1 DEF RowsFollowBuffer, ColumnsAreTyped
<1>5. CheckIsTrue'
  BY <1>1 DEF RowsFollowBuffer, CheckIsTrue
<1> QED
  BY <1>1, <1>3, <1>4, <1>5, NoRowStep

LEMMA ActionAtWork ==
  ASSUME RowsFollowBuffer, action.pc # "idle"
  PROVE  /\ action.pub \in Publications /\ action.acct \in Accounts
         /\ state[action.pub] # "NONE" /\ target[action.pub][action.acct].known
         /\ action.pc = "done" /\ action.kind = "CANCEL"
              => post[action.pub][action.acct] = "DELETED"
BY DEF RowsFollowBuffer, ActionIsTrue

LEMMA ActKeeps ==
  ASSUME RowsFollowBuffer, BufferActs
  PROVE  RowsFollowBuffer'
<1>1. /\ action.pc = "asking" /\ UNCHANGED <<state, target, submit, check, early>>
  BY DEF BufferActs, rows
<1>2. PICK p \in Publications, a \in Accounts :
        p = action.pub /\ a = action.acct /\ state[p] # "NONE" /\ target[p][a].known
  BY <1>1, ActionAtWork
<1>3. /\ ColumnsAreTyped /\ PublicationIsTrue(p) /\ post[p] \in Posts
      /\ target[p] \in Targets /\ submit[p] \in Places /\ state[p] \in States
      /\ early \subseteq Publications
      /\ action \in [pub : Publications \cup {Nobody}, kind : {"CANCEL", "UPDATE"},
                     acct : Accounts, pc : {"idle", "asking", "done"}]
  BY Unwritten DEF RowsFollowBuffer, ColumnsAreTyped, ActionIsTrue
<1>4. CASE post[p][a] # "SCHEDULED"
  <2>1. action' = NoAction /\ post' = post
    BY <1>2, <1>4 DEF BufferActs
  <2>2. \A q \in Publications : GoesOn(q)
    BY <1>1, <1>3, <2>1, NoRowStep
  <2>3. CheckIsTrue' /\ ActionIsTrue'
    BY <1>1, <2>1, <2>2, CheckStays, ActionStays
  <2> QED
    BY <1>1, <1>3, <2>1, <2>3, NoRowStep
<1>5. CASE post[p][a] = "SCHEDULED"
  <2>1. /\ action' = [action EXCEPT !.pc = "done"]
        /\ IF action.kind = "CANCEL" THEN post' = [post EXCEPT ![p][a] = "DELETED"]
                                     ELSE post' = post
    BY <1>2, <1>5 DEF BufferActs
  <2> DEFINE po == IF action.kind = "CANCEL" THEN [post[p] EXCEPT ![a] = "DELETED"] ELSE post[p]
  <2>2. OneWritten(p, state[p], target[p], po, submit[p])
    BY <1>1, <1>3, <2>1, Unwritten DEF OneWritten
  <2>3. /\ po \in Posts
        /\ action.kind = "CANCEL" => po[a] = "DELETED"
        /\ action.kind # "CANCEL" => po = post[p]
        /\ \A b \in Accounts \ {a} : po[b] = post[p][b]
    BY <1>3 DEF Posts, PostStates
  <2> HIDE DEF po
  <2>4. Goes(p, state[p], target[p], po, submit[p])
    BY <1>5, <2>3 DEF Goes, Terminal
  <2>5. IsTrue(state[p], target[p], po, submit[p], p \in early)
    <3>1. ~(target[p][a].cancelled) /\ state[p] # "CANCELLED"
      BY <1>3, <1>5 DEF PublicationIsTrue, IsTrue
    <3>2. submit[p] # 0 => \A i \in DOMAIN Order : i > submit[p] => po[Order[i]] = "NONE"
      BY <1>3, <1>5, <2>3, OrderFacts DEF PublicationIsTrue, IsTrue
    <3>3. state[p] \in {"FAILED", "CONFIRMED"} => p \in early
      BY <1>2, <1>3, <1>5 DEF PublicationIsTrue, IsTrue, IsBuffers
    <3>4. \A b \in Accounts : target[p][b].cancelled => po[b] = "DELETED"
      BY <1>3, <2>3, <3>1 DEF PublicationIsTrue, IsTrue
    <3>5. state[p] \in {"FAILED", "CONFIRMED", "CANCELLED"}
            => IsSettled(target[p], po, submit[p], p \in early)
      <4> SUFFICES ASSUME state[p] \in {"FAILED", "CONFIRMED", "CANCELLED"}, p \notin early,
                          NEW b \in Accounts
                   PROVE  po[b] \in Terminal \/ (~target[p][b].known /\ submit[p] = 0)
        BY DEF IsSettled
      <4>1. post[p][b] \in Terminal \/ (~target[p][b].known /\ submit[p] = 0)
        BY <1>3 DEF PublicationIsTrue, IsTrue, IsSettled
      <4>2. b # a
        BY <1>2, <1>5, <4>1 DEF Terminal
      <4> QED
        BY <2>3, <4>1, <4>2
    <3> QED
      BY <1>2, <3>1, <3>2, <3>3, <3>4, <3>5 DEF IsTrue
  <2>6. /\ ColumnsAreTyped'
        /\ \A q \in Publications : PublicationIsTrue(q)' /\ GoesOn(q)
    BY <1>1, <1>3, <2>2, <2>3, <2>4, <2>5, OneGoesOn
  <2>7. post'[p] = po /\ \A q \in Publications : state'[q] = state[q]
    BY <1>1, <1>3, <2>2, <2>3, OneColumns
  <2>8. /\ action' \in [pub : Publications \cup {Nobody}, kind : {"CANCEL", "UPDATE"},
                        acct : Accounts, pc : {"idle", "asking", "done"}]
        /\ action'.pub = p /\ action'.acct = a /\ action'.kind = action.kind
    BY ONLY <1>2, <1>3, <2>1
  <2>9. ActionIsTrue'
    BY <1>1, <1>2, <2>3, <2>7, <2>8 DEF ActionIsTrue
  <2>10. CheckIsTrue'
    BY <1>1, <2>6, CheckStays
  <2> QED
    BY <1>1, <2>6, <2>7, <2>9, <2>10, RowsStep
<1> QED
  BY <1>4, <1>5

(* A cancel makes the publication CANCELLED only with the last of its targets. *)
LEMMA CancelKeeps ==
  ASSUME RowsFollowBuffer, RecordCancel
  PROVE  RowsFollowBuffer'
<1>1. /\ action.pc = "done" /\ action.kind = "CANCEL" /\ action' = NoAction
      /\ UNCHANGED <<post, submit, check, early>>
  BY DEF RecordCancel
<1>2. PICK p \in Publications, a \in Accounts :
        /\ p = action.pub /\ a = action.acct /\ state[p] # "NONE" /\ target[p][a].known
        /\ post[p][a] = "DELETED"
  BY <1>1, ActionAtWork
<1>3. /\ ColumnsAreTyped /\ PublicationIsTrue(p) /\ post[p] \in Posts /\ target[p] \in Targets
      /\ submit[p] \in Places /\ state[p] \in States /\ early \subseteq Publications
      /\ target[p][a] \in TargetRows
  BY Unwritten DEF RowsFollowBuffer, ColumnsAreTyped, Targets
<1> DEFINE row == [target[p][a] EXCEPT !.outcome = "FAILURE", !.cancelled = TRUE]
           t == [target[p] EXCEPT ![a] = row]
           to == RecomputedState(t)
<1>4. t = [target[p] EXCEPT ![a].outcome = "FAILURE", ![a].cancelled = TRUE]
  BY <1>3 DEF Targets
<1>5. /\ SetState(p, to)
      /\ target' = IF IndexHolds(p, to) THEN [target EXCEPT ![p] = t] ELSE target
  <2> DEFINE u == [target[p] EXCEPT ![a].outcome = "FAILURE", ![a].cancelled = TRUE]
  <2>1. /\ SetState(p, RecomputedState(u))
        /\ target' = IF IndexHolds(p, RecomputedState(u)) THEN [target EXCEPT ![p] = u] ELSE target
    BY <1>2 DEF RecordCancel
  <2>2. u = t
    BY <1>4
  <2> HIDE DEF u, t
  <2> QED
    BY <2>1, <2>2
<1>6. /\ row \in TargetRows /\ row.known
  BY <1>2, <1>3 DEF TargetRows
<1> HIDE DEF row
<1>7. /\ t \in Targets /\ t[a] = row
      /\ \A b \in Accounts \ {a} : t[b] = target[p][b]
  BY <1>3, <1>6 DEF Targets
<1> HIDE DEF t
<1>8. /\ \A b \in Accounts : t[b].cancelled => post[p][b] = "DELETED"
      /\ \A b \in Accounts : t[b].known <=> target[p][b].known
  BY <1>2, <1>3, <1>6, <1>7 DEF PublicationIsTrue, IsTrue
<1>9. /\ to \in {"CANCELLED", "PARTIAL", "SUBMITTED"}
      /\ to = "CANCELLED" => \A b \in Accounts : t[b].cancelled
  BY DEF RecomputedState, AllCancelled
<1> HIDE DEF to
<1>10. CASE ~IndexHolds(p, to)
  <2>1. UNCHANGED <<state, target, post, submit, early>>
    BY <1>1, <1>5, <1>10 DEF SetState
  <2>2. \A q \in Publications : GoesOn(q)
    BY <1>3, <2>1, NoRowStep
  <2>3. CheckIsTrue' /\ ActionIsTrue'
    BY <1>1, <2>1, <2>2, CheckStays, ActionStays
  <2> QED
    BY <1>3, <2>1, <2>3, NoRowStep
<1>11. CASE IndexHolds(p, to)
  <2>1. OneWritten(p, to, t, post[p], submit[p])
    BY <1>1, <1>3, <1>5, <1>11, Unwritten DEF OneWritten, SetState
  <2>2. Goes(p, to, t, post[p], submit[p])
    BY <1>8, <1>9 DEF Goes
  <2>3. to = "CANCELLED" => \A b \in Accounts : post[p][b] = "DELETED"
    BY <1>8, <1>9
  <2>4. IsTrue(to, t, post[p], submit[p], p \in early)
    BY <1>2, <1>3, <1>8, <1>9, <2>3 DEF PublicationIsTrue, IsTrue, IsSettled, Terminal
  <2>5. to \in States
    BY <1>9 DEF States, PublicationState
  <2> QED
    BY <1>1, <1>2, <1>3, <1>7, <2>1, <2>2, <2>4, <2>5, OneStep
<1> QED
  BY <1>10, <1>11

LEMMA EditKeeps ==
  ASSUME RowsFollowBuffer, RecordEdit
  PROVE  RowsFollowBuffer'
<1>1. /\ action.pc = "done" /\ action' = NoAction
      /\ UNCHANGED <<state, post, submit, check, early>>
  BY DEF RecordEdit
<1>2. PICK p \in Publications, a \in Accounts :
        p = action.pub /\ a = action.acct /\ state[p] # "NONE"
  BY <1>1, ActionAtWork
<1>3. /\ ColumnsAreTyped /\ PublicationIsTrue(p) /\ post[p] \in Posts /\ target[p] \in Targets
      /\ submit[p] \in Places /\ state[p] \in States /\ target[p][a] \in TargetRows
  BY Unwritten DEF RowsFollowBuffer, Targets
<1> DEFINE row == [target[p][a] EXCEPT !.cancelled = FALSE]
           t == [target[p] EXCEPT ![a] = row]
<1>4. target' = [target EXCEPT ![p] = t]
  BY <1>2 DEF RecordEdit
<1>5. /\ row \in TargetRows /\ row.known = target[p][a].known
      /\ row.outcome = target[p][a].outcome /\ ~row.cancelled
  BY <1>3 DEF TargetRows
<1> HIDE DEF row
<1>6. /\ t \in Targets /\ t[a] = row
      /\ \A b \in Accounts \ {a} : t[b] = target[p][b]
  BY <1>3, <1>5 DEF Targets
<1> HIDE DEF t
<1>7. OneWritten(p, state[p], t, post[p], submit[p])
  BY <1>1, <1>3, <1>4, Unwritten DEF OneWritten
<1>8. \A b \in Accounts : /\ t[b].known = target[p][b].known
                          /\ t[b].outcome = target[p][b].outcome
                          /\ t[b].cancelled => target[p][b].cancelled
  BY <1>5, <1>6
<1>9. Goes(p, state[p], t, post[p], submit[p])
  BY <1>8 DEF Goes
<1>10. IsTrue(state[p], t, post[p], submit[p], p \in early)
  BY <1>2, <1>3, <1>8 DEF PublicationIsTrue, IsTrue, IsSettled, IsBuffers
<1> QED
  BY <1>1, <1>2, <1>3, <1>6, <1>7, <1>9, <1>10, OneStep

-------------------------------------------------------------------------------
(* Buffer and the process.                                                     *)

LEMMA MoveKeeps ==
  ASSUME RowsFollowBuffer, NEW p \in Publications, NEW a \in Accounts, BufferMoves(p, a)
  PROVE  RowsFollowBuffer'
<1>1. /\ ColumnsAreTyped /\ PublicationIsTrue(p) /\ post[p] \in Posts /\ target[p] \in Targets
      /\ submit[p] \in Places /\ state[p] \in States
  BY Unwritten DEF RowsFollowBuffer
<1>2. PICK move \in {<<"SENT", "SCHEDULED">>, <<"SENT", "REFUSED">>,
                      <<"SCHEDULED", "PUBLISHED">>, <<"SCHEDULED", "FAILED">>} :
        /\ post[p][a] = move[1] /\ post' = [post EXCEPT ![p][a] = move[2]]
        /\ UNCHANGED <<state, target, submit, check, action, early>>
  BY DEF BufferMoves, rows
<1>3. move[1] \in {"SENT", "SCHEDULED"} /\ move[2] \in PostStates
  BY DEF PostStates
<1> DEFINE to == move[2]
<1> DEFINE po == [post[p] EXCEPT ![a] = to]
<1>4. OneWritten(p, state[p], target[p], po, submit[p])
  BY <1>1, <1>2, <1>3, Unwritten DEF OneWritten
<1>5. po \in Posts /\ \A b \in Accounts \ {a} : po[b] = post[p][b]
  BY <1>1, <1>3 DEF Posts
<1> HIDE DEF po
<1>6. Goes(p, state[p], target[p], po, submit[p])
  BY <1>2, <1>3, <1>5 DEF Goes, Terminal
<1>7. state[p] # "NONE" /\ state[p] # "CANCELLED"
  BY <1>1, <1>2, <1>3 DEF PublicationIsTrue, IsTrue
<1>8. IsTrue(state[p], target[p], po, submit[p], p \in early)
  <2>1. submit[p] # 0 => \A i \in DOMAIN Order : i > submit[p] => po[Order[i]] = "NONE"
    BY <1>1, <1>2, <1>3, <1>5, OrderFacts DEF PublicationIsTrue, IsTrue
  <2>2. /\ state[p] \in {"FAILED", "CONFIRMED"} /\ p \notin early
             => IsBuffers(state[p], target[p], po, submit[p])
        /\ \A b \in Accounts : target[p][b].cancelled => po[b] = "DELETED"
    BY <1>1, <1>2, <1>3, <1>5 DEF PublicationIsTrue, IsTrue, IsBuffers
  <2>3. state[p] \in {"FAILED", "CONFIRMED", "CANCELLED"}
          => IsSettled(target[p], po, submit[p], p \in early)
    <3> SUFFICES ASSUME state[p] \in {"FAILED", "CONFIRMED", "CANCELLED"}, p \notin early,
                        NEW b \in Accounts
                 PROVE  po[b] \in Terminal \/ (~target[p][b].known /\ submit[p] = 0)
      BY DEF IsSettled
    <3>1. post[p][b] \in Terminal \/ (~target[p][b].known /\ submit[p] = 0)
      BY <1>1 DEF PublicationIsTrue, IsTrue, IsSettled
    <3> QED
      BY <1>2, <1>3, <1>5, <3>1 DEF Terminal
  <2> QED
    BY <1>7, <2>1, <2>2, <2>3 DEF IsTrue
<1> QED
  BY <1>1, <1>2, <1>4, <1>5, <1>6, <1>7, <1>8, OneStep

LEMMA CrashKeeps ==
  ASSUME RowsFollowBuffer, Crash
  PROVE  RowsFollowBuffer'
<1>1. /\ submit' = [p \in Publications |-> 0] /\ check' = NoCheck /\ action' = NoAction
      /\ UNCHANGED <<state, target, post, early>> /\ ColumnsAreTyped
  BY DEF Crash, rows, RowsFollowBuffer
<1>2. ColumnsAreTyped'
  BY <1>1, OrderFacts DEF ColumnsAreTyped, Places
<1>3. ASSUME NEW p \in Publications PROVE PublicationIsTrue(p)' /\ GoesOn(p)
  <2>1. PublicationIsTrue(p)
    BY DEF RowsFollowBuffer
  <2> QED
    BY <1>1, <2>1 DEF PublicationIsTrue, IsTrue, IsSettled, IsBuffers, GoesOn, Goes
<1>4. CheckIsTrue' /\ ActionIsTrue'
  BY <1>1, <1>3, CheckStays, ActionStays
<1> QED
  BY <1>1, <1>2, <1>3, <1>4, RowsStep

LEMMA LostKeeps ==
  ASSUME RowsFollowBuffer, ActionLost \/ UNCHANGED vars
  PROVE  RowsFollowBuffer'
<1>1. /\ UNCHANGED <<state, target, post, submit, check, early>>
      /\ action' = action \/ action' = NoAction
  BY DEF ActionLost, rows, vars
<1>2. early \subseteq early' /\ early' \subseteq Publications
  BY <1>1 DEF RowsFollowBuffer, ColumnsAreTyped
<1>3. \A q \in Publications : GoesOn(q)
  BY <1>1, <1>2, NoRowStep
<1>4. CheckIsTrue' /\ ActionIsTrue'
  BY <1>1, <1>2, <1>3, CheckStays, ActionStays
<1> QED
  BY <1>1, <1>2, <1>4, NoRowStep

(* The inductive invariant: the rows say of Buffer's posts what is so, and of  *)
(* any two publications one has nothing more to send that was ever answered.   *)
THEOREM RowsAreKept == Spec => []RowsFollowBuffer
<1>1. RowsFollowBuffer /\ [Next]_vars => RowsFollowBuffer'
  <2> SUFFICES ASSUME RowsFollowBuffer, [Next]_vars PROVE RowsFollowBuffer'
    OBVIOUS
  <2>1. ASSUME NEW p \in Publications,
               \/ SubmitBuffer(p) \/ CreateAccepted(p) \/ CreateFailed(p)
               \/ CreateAmbiguous(p) \/ StartCheck(p)
        PROVE  RowsFollowBuffer'
    BY <2>1, SubmitKeeps, AnswerKeeps, StartKeeps
  <2>2. ASSUME NEW p \in Publications, NEW a \in Accounts,
               BufferMoves(p, a) \/ \E kind \in {"CANCEL", "UPDATE"} : BeginAction(p, a, kind)
        PROVE  RowsFollowBuffer'
    BY <2>2, MoveKeeps, BeginKeeps
  <2>3. CASE ReadTarget \/ CheckFails \/ FinishCheck
    BY <2>3, ReadKeeps, FinishKeeps
  <2>4. CASE BufferActs \/ RecordCancel \/ RecordEdit
    BY <2>4, ActKeeps, CancelKeeps, EditKeeps
  <2>5. CASE ActionLost \/ UNCHANGED vars
    BY <2>5, LostKeeps
  <2> QED
    BY <2>1, <2>2, <2>3, <2>4, <2>5, CrashKeeps DEF Next
<1> QED
  BY <1>1, InitRows, PTL DEF Spec

(* Every column keeps its type, and handlers are at work on rows that exist.   *)
THEOREM BufferRowsAreTyped == Spec => []TypeOK
<1>1. RowsFollowBuffer => TypeOK
  BY DEF RowsFollowBuffer, ColumnsAreTyped, PublicationIsTrue, IsTrue, CheckIsTrue, TypeOK,
         States, Targets, Posts, Places
<1> QED
  BY <1>1, RowsAreKept, PTL

(* The verdict of a check that did not begin too early is Buffer's of every    *)
(* target that was ever answered for.                                          *)
THEOREM VerdictsAreBuffers == Spec => []VerdictCoversEveryAnswer
<1>1. RowsFollowBuffer => VerdictCoversEveryAnswer
  BY DEF RowsFollowBuffer, PublicationIsTrue, IsTrue, IsBuffers, VerdictCoversEveryAnswer
<1> QED
  BY <1>1, RowsAreKept, PTL

(* A submission withdrawn target by target has nothing left at Buffer.         *)
THEOREM CancelledPostsAreGone == Spec => []CancelledStayedHome
<1>1. RowsFollowBuffer => CancelledStayedHome
  BY DEF RowsFollowBuffer, PublicationIsTrue, IsTrue, CancelledStayedHome
<1> QED
  BY <1>1, RowsAreKept, PTL

(* An account is to be sent two posts only after a create that went unanswered *)
(* or a check that came too early.                                             *)
THEOREM DoublesHaveACause == Spec => []DoubledOnlyAfterUnknown
<1>1. RowsFollowBuffer => DoubledOnlyAfterUnknown
  <2> SUFFICES ASSUME RowsFollowBuffer, NEW p \in Publications, NEW q \in Publications,
                      NEW a \in Accounts, p # q, post[p][a] = "SCHEDULED",
                      post[q][a] = "SCHEDULED"
               PROVE  \E r \in {p, q} : Unanswered(r) \/ r \in early
    BY DEF DoubledOnlyAfterUnknown
  <2>1. state[p] # "NONE" /\ state[q] # "NONE"
    BY DEF RowsFollowBuffer, PublicationIsTrue, IsTrue
  <2>2. PICK r \in {p, q} : Settled(r)
    BY <2>1 DEF RowsFollowBuffer, OneIsSettled
  <2>3. r \in early \/ ~target[r][a].known
    BY <2>2 DEF Settled, IsSettled, Terminal
  <2> QED
    BY <2>3 DEF Unanswered
<1> QED
  BY <1>1, RowsAreKept, PTL
===============================================================================
