--------------------------- MODULE BufferPublishing ---------------------------
(* The Buffer path of the publisher (server/publish/service.ts): one provider  *)
(* post per target, created one after the other and recorded as each answer    *)
(* arrives, read back and cancelled or edited one by one.                      *)
(*                                                                             *)
(* All publications here are of one Signal post.  Everything between two       *)
(* awaits is one action; between them other requests run.                      *)
EXTENDS Integers, Sequences, FiniteSets, PublicationStates

CONSTANTS
  Publications,   \* the ids a submission may draw
  Accounts,
  Order,          \* the plan's targets, in the order it resolved them
  Nobody          \* no publication: a handler that is not at work

(* Every target has one row (the primary key of signal_publication_targets).   *)
ASSUME BufferAssumption ==
  /\ Order \in Seq(Accounts) /\ Order # <<>>
  /\ \A i, j \in DOMAIN Order : Order[i] = Order[j] => i = j
  /\ \A a \in Accounts : \E i \in DOMAIN Order : Order[i] = a
  /\ Nobody \notin Publications

VARIABLES
  state,    \* state[p]: of the row of signal_publications, "NONE" without one
  target,   \* target[p][a]: the row of signal_publication_targets
  post,     \* post[p][a]: what Buffer has, or will make, of the create
  submit,   \* submit[p]: where its submission stands in Order, 0 without one
  check,    \* the delivery check under way
  action,   \* the cancel or edit under way
  early     \* the publications checked while still being submitted (history)

rows == <<state, target>>
vars == <<state, target, post, submit, check, action, early>>

PostStates == {"NONE", "SENT", "REFUSED", "SCHEDULED", "PUBLISHED", "FAILED", "DELETED"}

(* "Cancelled in Buffer." stands in the error column, which others overwrite.  *)
TargetRows == [outcome : {"NULL", "SUCCESS", "FAILURE"}, known : BOOLEAN, cancelled : BOOLEAN]

NewTarget == [outcome |-> "NULL", known |-> FALSE, cancelled |-> FALSE]

NoCheck == [pub |-> Nobody, at |-> 1, saw |-> [a \in Accounts |-> "NONE"],
            was |-> [a \in Accounts |-> NewTarget]]

NoAction == [pub |-> Nobody, kind |-> "CANCEL", acct |-> Order[1], pc |-> "idle"]

Init ==
  /\ state = [p \in Publications |-> "NONE"]
  /\ target = [p \in Publications |-> [a \in Accounts |-> NewTarget]]
  /\ post = [p \in Publications |-> [a \in Accounts |-> "NONE"]]
  /\ submit = [p \in Publications |-> 0]
  /\ check = NoCheck
  /\ action = NoAction
  /\ early = {}

-------------------------------------------------------------------------------
(* Submitting.                                                                 *)

LiveOnly == LiveStates                                               \* mutant

(* The double-submit check of Buffer asks about PARTIAL as well.               *)
Blocking == LiveStates \cup {"PARTIAL"}

(* The UPDATE of a state, which the unique index over LiveStates may refuse.   *)
IndexHolds(p, to) == to \in LiveStates => \A q \in Publications \ {p} : state[q] \notin LiveStates

SetState(p, to) == state' = IF IndexHolds(p, to) THEN [state EXCEPT ![p] = to] ELSE state

SubmitBuffer(p) ==
  /\ state[p] = "NONE"
  /\ \A q \in Publications : state[q] \notin Blocking
  /\ state' = [state EXCEPT ![p] = "SUBMITTING"]
  /\ submit' = [submit EXCEPT ![p] = 1]
  /\ post' = [post EXCEPT ![p][Order[1]] = "SENT"]
  /\ UNCHANGED <<target, check, action, early>>

(* The state a submission ends in, from what it counted on its way.            *)
SubmittedState(p, t) ==
  LET sent == {Order[i] : i \in 1 .. submit[p]}
      successes == {a \in sent : t[a].known}
      failures == {a \in sent : ~t[a].known /\ t[a].outcome = "FAILURE"}
      ambiguous == sent # successes \cup failures
  IN CASE ambiguous /\ successes # {} -> "PARTIAL"
       [] ambiguous /\ successes = {} -> "UNCONFIRMED"
       [] ~ambiguous /\ failures = Accounts -> "FAILED"
       [] ~ambiguous /\ failures \notin {{}, Accounts} -> "PARTIAL"
       [] OTHER -> "SUBMITTED"

(* The answer is recorded, and the next target sent or the state written.      *)
SubmitGoesOn(p, t, stops) ==
  LET i == submit[p] IN
  /\ target' = [target EXCEPT ![p] = t]
  /\ IF stops \/ i = Len(Order)
     THEN /\ SetState(p, SubmittedState(p, t))
          /\ submit' = [submit EXCEPT ![p] = 0]
          /\ UNCHANGED post
     ELSE /\ submit' = [submit EXCEPT ![p] = i + 1]
          /\ post' = [post EXCEPT ![p][Order[i + 1]] = "SENT"]
          /\ UNCHANGED state
  /\ UNCHANGED <<check, action, early>>

Waits(p) == submit[p] # 0

(* recordBufferAnswer                                                          *)
CreateAccepted(p) ==
  LET a == Order[submit[p]] IN
  /\ Waits(p) /\ post[p][a] \notin {"SENT", "REFUSED"}
  /\ SubmitGoesOn(p, [target[p] EXCEPT ![a] =
                        [outcome |-> "SUCCESS", known |-> TRUE, cancelled |-> FALSE]], FALSE)

(* recordBufferFailure: a refusal, but also an error status after Buffer took  *)
(* the create, and a success whose body could not be read, which the transport *)
(* turns into {} and the write client into a definite refusal.                 *)
CreateFailed(p) ==
  LET a == Order[submit[p]] IN
  /\ Waits(p)
  /\ SubmitGoesOn(p, [target[p] EXCEPT ![a].outcome = "FAILURE"], FALSE)

(* No answer came: Buffer has the request, refused it, or takes it later.      *)
CreateAmbiguous(p) ==
  LET a == Order[submit[p]] IN
  /\ Waits(p)
  /\ SubmitGoesOn(p, [target[p] EXCEPT ![a].outcome = "NULL"], TRUE)

-------------------------------------------------------------------------------
(* Checking: reconcileBuffer.                                                  *)

Readable(p) == {a \in Accounts : target[p][a].known}

StartCheck(p) ==
  /\ check.pub = Nobody /\ state[p] # "NONE" /\ Readable(p) # {}
  /\ check' = [NoCheck EXCEPT !.pub = p, !.was = target[p]]
  /\ early' = IF Waits(p) THEN early \cup {p} ELSE early
  /\ UNCHANGED <<rows, post, submit, action>>

Checked(a) == check.was[a].known

Reading == check.pub # Nobody /\ check.at <= Len(Order)

(* One read after the other.                                                   *)
ReadTarget ==
  LET a == Order[check.at] IN
  /\ Reading /\ (Checked(a) => post[check.pub][a] # "DELETED")
  /\ check' = IF Checked(a) THEN [check EXCEPT !.at = @ + 1, !.saw[a] = post[check.pub][a]]
              ELSE [check EXCEPT !.at = @ + 1]
  /\ UNCHANGED <<rows, post, submit, action, early>>

(* A post that Buffer no longer has, an error status or an answer that cannot  *)
(* be read ends the check, and nothing is written.                             *)
CheckFails ==
  /\ Reading /\ Checked(Order[check.at])
  /\ check' = NoCheck
  /\ UNCHANGED <<rows, post, submit, action, early>>

CheckedStateOfAny(saw) ==                                            \* mutant
  IF "PUBLISHED" \in saw THEN "CONFIRMED" ELSE IF saw = {"FAILED"} THEN "FAILED" ELSE "SUBMITTED"

CheckedState(saw) ==
  CASE saw = {"PUBLISHED"} -> "CONFIRMED"
    [] saw = {"FAILED"} -> "FAILED"
    [] saw \cap {"PUBLISHED", "FAILED"} # {} /\ Cardinality(saw) > 1 -> "PARTIAL"
    [] OTHER -> "SUBMITTED"

CheckedOutcome(saw, outcome) ==
  CASE saw = "FAILED" -> "FAILURE"
    [] saw = "PUBLISHED" -> "SUCCESS"
    [] OTHER -> IF outcome = "NULL" THEN "SUCCESS" ELSE outcome

(* One transaction, with what was read over whatever the rows have become.     *)
FinishCheck ==
  LET p == check.pub
      read == {a \in Accounts : Checked(a)}
      to == CheckedState({check.saw[a] : a \in read})
  IN /\ check.pub # Nobody /\ check.at > Len(Order)
     /\ SetState(p, to)
     /\ target' = IF ~IndexHolds(p, to) THEN target
                  ELSE [target EXCEPT ![p] =
                         [a \in Accounts |->
                            IF a \in read
                            THEN [outcome |-> CheckedOutcome(check.saw[a], check.was[a].outcome),
                                  known |-> @[a].known, cancelled |-> FALSE]
                            ELSE @[a]]]
     /\ check' = NoCheck
     /\ UNCHANGED <<post, submit, action, early>>

-------------------------------------------------------------------------------
(* Acting on one target: applyBufferTargetAction.                              *)

(* The target is read and compared with what the caller had seen of it; only   *)
(* a post that is still scheduled is offered for an edit or a cancel.          *)
BeginAction(p, a, kind) ==
  /\ action.pub = Nobody /\ target[p][a].known /\ post[p][a] = "SCHEDULED"
  /\ action' = [pub |-> p, acct |-> a, kind |-> kind, pc |-> "asking"]
  /\ UNCHANGED <<rows, post, submit, check, early>>

(* Buffer does it unless the post has left its queue meanwhile.                *)
BufferActs ==
  LET p == action.pub a == action.acct IN
  /\ action.pc = "asking"
  /\ IF post[p][a] = "SCHEDULED"
     THEN /\ post' = IF action.kind = "CANCEL" THEN [post EXCEPT ![p][a] = "DELETED"] ELSE post
          /\ action' = [action EXCEPT !.pc = "done"]
     ELSE action' = NoAction /\ UNCHANGED post
  /\ UNCHANGED <<rows, submit, check, early>>

(* A request or its answer is lost: nothing is written.                        *)
ActionLost ==
  /\ action.pub # Nobody
  /\ action' = NoAction
  /\ UNCHANGED <<rows, post, submit, check, early>>

AnyCancelled(t) == \E a \in Accounts : t[a].cancelled                \* mutant

AllCancelled(t) == \A a \in Accounts : t[a].cancelled

RecomputedState(t) ==
  CASE AllCancelled(t) -> "CANCELLED"
    [] ~AllCancelled(t) /\ \E a, b \in Accounts : t[a].cancelled /\ t[b].outcome = "SUCCESS"
         -> "PARTIAL"
    [] OTHER -> "SUBMITTED"

(* The cancel and recomputeBufferPublicationState, in one transaction.         *)
RecordCancel ==
  LET p == action.pub
      t == [target[p] EXCEPT ![action.acct].outcome = "FAILURE", ![action.acct].cancelled = TRUE]
      to == RecomputedState(t)
  IN /\ action.pc = "done" /\ action.kind = "CANCEL"
     /\ SetState(p, to)
     /\ target' = IF IndexHolds(p, to) THEN [target EXCEPT ![p] = t] ELSE target
     /\ action' = NoAction
     /\ UNCHANGED <<post, submit, check, early>>

(* An edit writes what was sent and clears the error.                          *)
RecordEdit ==
  /\ action.pc = "done" /\ action.kind = "UPDATE"
  /\ target' = [target EXCEPT ![action.pub][action.acct].cancelled = FALSE]
  /\ action' = NoAction
  /\ UNCHANGED <<state, post, submit, check, early>>

-------------------------------------------------------------------------------
(* Buffer and the process.                                                     *)

BufferMoves(p, a) ==
  /\ \E from_to \in {<<"SENT", "SCHEDULED">>, <<"SENT", "REFUSED">>,
                     <<"SCHEDULED", "PUBLISHED">>, <<"SCHEDULED", "FAILED">>} :
       post[p][a] = from_to[1] /\ post' = [post EXCEPT ![p][a] = from_to[2]]
  /\ UNCHANGED <<rows, submit, check, action, early>>

(* The process stops: every handler is gone and a row may stay SUBMITTING.     *)
Crash ==
  /\ submit' = [p \in Publications |-> 0]
  /\ check' = NoCheck /\ action' = NoAction
  /\ UNCHANGED <<rows, post, early>>

Next ==
  \/ \E p \in Publications :
       \/ SubmitBuffer(p)
       \/ CreateAccepted(p)
       \/ CreateFailed(p)
       \/ CreateAmbiguous(p)
       \/ StartCheck(p)
       \/ \E a \in Accounts :
            BufferMoves(p, a) \/ \E kind \in {"CANCEL", "UPDATE"} : BeginAction(p, a, kind)
  \/ ReadTarget \/ CheckFails \/ FinishCheck
  \/ BufferActs \/ ActionLost \/ RecordCancel \/ RecordEdit
  \/ Crash

Spec == Init /\ [][Next]_vars

-------------------------------------------------------------------------------
(* Properties.                                                                 *)

(* Every column keeps its type, and handlers are at work on rows that exist.   *)
TypeOK ==
  /\ state \in [Publications -> PublicationState \cup {"NONE"}]
  /\ target \in [Publications -> [Accounts -> TargetRows]]
  /\ post \in [Publications -> [Accounts -> PostStates]]
  /\ submit \in [Publications -> 0 .. Len(Order)]
  /\ \A p \in Publications : (submit[p] # 0 \/ check.pub = p) => state[p] # "NONE"

(* The verdict of a check is Buffer's of every target that was ever answered   *)
(* for, although Buffer moves between two reads and cancels, edits and crashes *)
(* cross them; only a check begun during the submission may miss one.          *)
VerdictCoversEveryAnswer ==
  \A p \in Publications \ early, a \in Accounts :
    target[p][a].known =>
      /\ state[p] = "CONFIRMED" => post[p][a] = "PUBLISHED"
      /\ state[p] = "FAILED" => post[p][a] = "FAILED"

(* A submission withdrawn target by target has nothing left at Buffer, out or  *)
(* to go out, although checks and edits cross the cancels.                     *)
CancelledStayedHome ==
  \A p \in Publications :
    state[p] = "CANCELLED" => \A a \in Accounts : post[p][a] = "DELETED"

Unanswered(p) ==
  \E a \in Accounts : ~target[p][a].known /\ post[p][a] \in {"SENT", "SCHEDULED"}

(* An account has two posts to send only if a create of one was never answered *)
(* with a post, which the code may have told as a failure, or if one was       *)
(* checked before it had been submitted to the end.                            *)
DoubledOnlyAfterUnknown ==
  \A p, q \in Publications, a \in Accounts :
    p # q /\ post[p][a] = "SCHEDULED" /\ post[q][a] = "SCHEDULED"
      => \E r \in {p, q} : Unanswered(r) \/ r \in early

(* docs/publishing-integration.md says of CONFIRMED that "every target         *)
(* reported success": also the ones that a finished submission could not send. *)
ConfirmedMeansEveryTarget ==
  \A p \in Publications :
    state[p] = "CONFIRMED" /\ ~Waits(p) => \A a \in Accounts : target[p][a].outcome = "SUCCESS"
===============================================================================
