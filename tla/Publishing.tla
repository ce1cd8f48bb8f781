------------------------------ MODULE Publishing ------------------------------
(* PublishingService (server/publish/service.ts) on its Post Bridge path,      *)
(* together with the rows it writes and the provider it talks to.              *)
(*                                                                             *)
(* The server is one Node process.  A request handler runs without             *)
(* interruption from one await to the next, so a step below is the code        *)
(* between two awaits, and op[o] keeps what handler o carries across them.     *)
(* The provider, the people editing plans and the people working in Post       *)
(* Bridge itself act between any two steps.                                    *)
EXTENDS PublicationStates, Integers

CONSTANTS
  Posts,        \* Signal posts
  Pubs,         \* the publication ids that submissions may draw
  PostOf,       \* the post an id is drawn for
  Handlers,     \* request handlers that may be in progress at the same time
  Captions,     \* captions a plan may have
  Media,        \* media and per-account tailoring a plan may have
  Instants,     \* publishing instants a plan may have
  NoDate,       \* the instant of a plan taken out of the calendar
  Accounts,     \* the provider accounts every submission goes to
  MaxAttempts,  \* RECONCILE_MAX_ATTEMPTS
  None          \* a field that holds nothing

ASSUME PublishingAssumption ==
  /\ PostOf \in [Pubs -> Posts]
  /\ MaxAttempts \in Nat \ {0}
  /\ None \notin Pubs

VARIABLES
  plan,    \* plan[post]: what Signal holds now
  pub,     \* pub[p]: the row of signal_publications, state "NONE" before INSERT
  remote,  \* remote[p]: the post Post Bridge holds for publication p
  op       \* op[o]: the handler's program counter and local variables

vars == <<plan, pub, remote, op>>

Plans == [caption : Captions, media : Media, instant : Instants \cup {NoDate}]

Rows == [state    : PublicationState \cup {"NONE"},
         id       : BOOLEAN,                  \* provider_post_id IS NOT NULL
         sent     : Plans \cup {None},        \* sent_caption, sent_media, scheduled_instant
         attempts : 0 .. MaxAttempts]         \* check_attempts

Remotes == [state : RemoteState,
            held  : Plans \cup {None},
            ok    : SUBSET Accounts,          \* accounts with a success in post-results
            bad   : SUBSET Accounts]          \* accounts with a failure in post-results

Records == [state : RemoteState, held : Plans \cup {None}]

Kinds == {"SUBMIT", "CHECK", "AUTOMATIC_CHECK"} \cup ProviderAction

Steps == {"idle", "targets", "upload", "posting", "check", "checked", "compare",
          "described", "withdraw", "withdrawn", "replan", "prepare", "patching",
          "patched"}

(* What a handler carries across an await.  A field it will not read again is  *)
(* cleared.                                                                    *)
Locals == [pc       : Steps,
           kind     : Kinds \cup {None},
           pub      : Pubs \cup {None},
           plan     : Plans \cup {None},       \* the plan it read, then the body it sends
           token    : Plans \cup {None},       \* the plan the caller confirmed
           rec      : Records \cup {None},     \* the provider's record as compared
           state    : PublicationState \cup {None}, \* a state read or answered before a write
           attempts : 0 .. MaxAttempts]        \* check_attempts as read before the check

NoRow    == [state |-> "NONE", id |-> FALSE, sent |-> None, attempts |-> 0]
NoRemote == [state |-> "ABSENT", held |-> None, ok |-> {}, bad |-> {}]
Idle     == [pc |-> "idle", kind |-> None, pub |-> None, plan |-> None,
             token |-> None, rec |-> None, state |-> None, attempts |-> 0]

Init ==
  /\ plan \in [Posts -> Plans]
  /\ pub = [p \in Pubs |-> NoRow]
  /\ remote = [p \in Pubs |-> NoRemote]
  /\ op = [o \in Handlers |-> Idle]

-------------------------------------------------------------------------------
(* The partial unique index on (post_id) over the live states.                 *)

Live(p) == pub[p].state \in LiveStates

LiveRival(p) == \E q \in Pubs \ {p} : PostOf[q] = PostOf[p] /\ Live(q)

(* One UPDATE of a row in its transaction: the index refuses a second live row *)
(* for the post, and then the whole transaction is rolled back.                *)
WrittenAnyway(p, row) == [pub EXCEPT ![p] = row]                      \* mutant

Written(p, row) ==
  IF row.state \in LiveStates /\ LiveRival(p)
  THEN pub
  ELSE [pub EXCEPT ![p] = row]

(* An id that no row and no handler has: crypto.randomUUID().                  *)
Unused(p) == pub[p].state = "NONE" /\ \A x \in Handlers : op[x].pub # p

Publishable(s) == s.instant # NoDate

-------------------------------------------------------------------------------
(* Submitting: submit(), with preview() and prepareMedia().                    *)

HashIgnored(l) == TRUE                                               \* mutant

HashAgrees(l) == l.plan = l.token

(* The caller confirms a plan it previewed; preview() reads the post and then  *)
(* awaits the provider's account list.                                         *)
SubmitBegin(o, p) ==
  /\ op[o] = Idle
  /\ Unused(p)
  /\ \E token \in Plans :
       /\ Publishable(token)
       /\ op' = [op EXCEPT ![o] = [Idle EXCEPT !.pc = "targets", !.kind = "SUBMIT",
                                               !.pub = p, !.plan = plan[PostOf[p]],
                                               !.token = token]]
  /\ UNCHANGED <<plan, pub, remote>>

(* The refusals, the hash gate and the double-submit check, one after another  *)
(* without an await; prepareMedia() then uploads.                              *)
SubmitGate(o) ==
  /\ op[o].pc = "targets"
  /\ Publishable(op[o].plan)
  /\ HashAgrees(op[o])
  /\ ~LiveRival(op[o].pub)
  /\ op' = [op EXCEPT ![o].pc = "upload"]
  /\ UNCHANGED <<plan, pub, remote>>

(* The INSERT in SUBMITTING, and the POST that leaves right after it.  Where   *)
(* the index refuses the INSERT the handler gives up (Abandon).                *)
SubmitInsert(o) ==
  LET p == op[o].pub IN
  /\ op[o].pc = "upload"
  /\ ~LiveRival(p)
  /\ pub' = [pub EXCEPT ![p] = [state |-> "SUBMITTING", id |-> FALSE,
                                sent |-> op[o].plan, attempts |-> 0]]
  /\ remote' = [remote EXCEPT ![p] = [state |-> "SENT", held |-> op[o].plan,
                                      ok |-> {}, bad |-> {}]]
  /\ op' = [op EXCEPT ![o] = [@ EXCEPT !.pc = "posting", !.plan = None]]
  /\ UNCHANGED plan

(* The status in the answer to a POST or a PATCH, as it was when the provider  *)
(* wrote the answer: the post may have moved on since.                         *)
AnsweredStates(r) ==
  {"SUBMITTED"} \cup (IF r.state = "PUBLISHED" THEN {"CONFIRMED"} ELSE {})
                \cup (IF r.state = "FAILED" THEN {"FAILED"} ELSE {})

(* The answer is stored with the provider's id.  A clear SUBMITTED goes on to  *)
(* one manual check in the same handler (reconcileAfterAnsweredSubmit).        *)
SubmitAnswered(o) ==
  LET p == op[o].pub IN
  /\ op[o].pc = "posting"
  /\ remote[p].state \notin {"SENT", "REFUSED"}
  /\ \E answer \in AnsweredStates(remote[p]) :
       /\ pub' = Written(p, [pub[p] EXCEPT !.state = answer, !.id = TRUE])
       /\ op' = [op EXCEPT ![o] =
                   IF answer = "SUBMITTED"
                   THEN [Idle EXCEPT !.pc = "check", !.kind = "CHECK", !.pub = p,
                                     !.attempts = pub[p].attempts]
                   ELSE Idle]
  /\ UNCHANGED <<plan, remote>>

(* The handler ends with one write of the row's state.                         *)
EndWith(o, state) ==
  /\ pub' = Written(op[o].pub, [pub[op[o].pub] EXCEPT !.state = state])
  /\ op' = [op EXCEPT ![o] = Idle]
  /\ UNCHANGED <<plan, remote>>

(* Every error status ends in FAILED: a true refusal, a 500 after the provider *)
(* took the post, and a gateway's 504 while the request is still on its way.   *)
SubmitFailed(o) == op[o].pc = "posting" /\ EndWith(o, "FAILED")

(* No answer, or one without an id: the submission is UNCONFIRMED, and the     *)
(* request may still arrive.                                                   *)
SubmitLost(o) == op[o].pc = "posting" /\ EndWith(o, "UNCONFIRMED")

-------------------------------------------------------------------------------
(* Reconciling: reconcile() and PostBridgeProvider.check().                    *)

(* A manual refresh always runs; an automatic check only while the budget      *)
(* lasts.  That its moment has come is left to chance: time is not modelled.   *)
CheckDue(row) == row.state \in ReconcilableStates /\ row.attempts < MaxAttempts

MayCheckWhenDue(kind, row) == CheckDue(row)                          \* mutant

MayCheck(kind, row) == kind = "AUTOMATIC_CHECK" => CheckDue(row)

CheckBegin(o, p, kind) ==
  /\ op[o] = Idle
  /\ pub[p].id
  /\ MayCheck(kind, pub[p])
  /\ op' = [op EXCEPT ![o] = [Idle EXCEPT !.pc = "check", !.kind = kind, !.pub = p,
                                          !.attempts = pub[p].attempts]]
  /\ UNCHANGED <<plan, pub, remote>>

CheckStateTooSoon(r) == IF r.ok = {} THEN "FAILED" ELSE "CONFIRMED"    \* mutant

(* The verdict is taken over the results the provider has reported so far.     *)
CheckState(r) ==
  CASE r.ok = {} /\ r.bad = {} -> IF r.state = "FAILED" THEN "FAILED" ELSE "SUBMITTED"
    [] r.ok # {} /\ r.bad = {} -> "CONFIRMED"
    [] r.ok # {} /\ r.bad # {} -> "PARTIAL"
    [] OTHER -> "FAILED"

CheckTold(o, verdict) ==
  /\ op[o].pc = "check"
  /\ remote[op[o].pub].state # "DELETED"
  /\ op' = [op EXCEPT ![o] = [@ EXCEPT !.pc = "checked", !.state = verdict]]
  /\ UNCHANGED <<plan, pub, remote>>

(* The provider answers; the answer is on its way back.  check() asks for the  *)
(* post and then for its results; the results only grow and a failed post gets *)
(* no more of them, so one reading of both tells as much.                      *)
CheckAnswered(o) == CheckTold(o, CheckState(remote[op[o].pub]))

(* A body that cannot be read counts as an empty one: no result yet.           *)
CheckUnread(o) == CheckTold(o, "SUBMITTED")

(* What the UPDATE writes: the attempts as they were read before the await,    *)
(* and UNCONFIRMED when the automatic budget ends without a result.            *)
CheckedRowAlwaysSpends(l, row) ==                                    \* mutant
  [row EXCEPT !.state = l.state, !.attempts = l.attempts + 1]

CheckedRow(l, row) ==
  LET automatic == l.kind = "AUTOMATIC_CHECK"
      attempts  == IF automatic THEN l.attempts + 1 ELSE l.attempts
      givingUp  == /\ automatic
                   /\ attempts >= MaxAttempts
                   /\ l.state \in ReconcilableStates
  IN  [row EXCEPT !.state = IF givingUp THEN "UNCONFIRMED" ELSE l.state,
                  !.attempts = attempts]

CheckRecorded(o) ==
  LET p == op[o].pub IN
  /\ op[o].pc = "checked"
  /\ pub' = Written(p, CheckedRow(op[o], pub[p]))
  /\ op' = [op EXCEPT ![o] = Idle]
  /\ UNCHANGED <<plan, remote>>

-------------------------------------------------------------------------------
(* Acting on what the provider holds: applyProviderAction() and its            *)
(* comparison, providerPreview() with buildProviderReconcile().                *)

Described(r) == [state |-> r.state, held |-> r.held]

(* A post the provider no longer has may be released, where the stored         *)
(* inventory agrees: it may or may not.                                        *)
ReleaseOfferedOnceSent(kind, rec) ==                                 \* mutant
  kind = "RELEASE_LOCALLY" /\ rec.state \notin {"SCHEDULED", "PROCESSING"}

ReleaseOffered(kind, rec) == kind = "RELEASE_LOCALLY" /\ rec.state = "DELETED"

(* The provider holds content this app did not send.                           *)
RemoteEdited(row, rec) ==
  rec.held.caption # row.sent.caption \/ rec.held.media # row.sent.media

(* Which action the comparison of a row, the plan now and the provider's       *)
(* record offers.                                                              *)
Offered(kind, row, now, rec) ==
  \/ ReleaseOffered(kind, rec)
  \/ kind = "CANCEL" /\ rec.state = "SCHEDULED"
  \/ /\ kind = "RESTORE_AND_RESUBMIT"
     /\ rec.state \in {"SCHEDULED", "FAILED"}
     /\ Publishable(now)
  \/ /\ kind = "UPDATE_CONTENT"
     /\ rec.state = "SCHEDULED"
     /\ Publishable(now)
     /\ now.caption # rec.held.caption \/ now.media # rec.held.media
  \/ /\ kind = "UPDATE_SCHEDULE"
     /\ rec.state = "SCHEDULED"
     /\ Publishable(now)
     /\ now.instant # rec.held.instant
     /\ ~RemoteEdited(row, rec)

(* The caller has compared and confirms an action.  The token of the           *)
(* comparison covers the row's state, the plan and the record, so a handler    *)
(* that gets past it decides on what its caller saw, which is what holds now:  *)
(* only the record is still to be read.                                        *)
CompareBegin(o, p, kind) ==
  LET rec == Described(remote[p]) IN
  /\ op[o] = Idle
  /\ pub[p].id
  /\ Live(p)
  /\ Offered(kind, pub[p], plan[PostOf[p]], rec)
  /\ op' = [op EXCEPT ![o] = [Idle EXCEPT !.pc = "compare", !.kind = kind,
                                          !.pub = p, !.rec = rec]]
  /\ UNCHANGED <<plan, pub, remote>>

(* The record that describe() reads is the one in the token; any other ends    *)
(* in a refusal (Abandon), as does a body that cannot be read: it counts as a  *)
(* post in PROCESSING, for which nothing is offered.                           *)
CompareAnswered(o) ==
  /\ op[o].pc = "compare"
  /\ Described(remote[op[o].pub]) = op[o].rec
  /\ op' = [op EXCEPT ![o].pc = "described"]
  /\ UNCHANGED <<plan, pub, remote>>

Decides(o, kinds) == op[o].pc = "described" /\ op[o].kind \in kinds

(* recordProviderCancel, whatever the row holds by now; a restore goes on to   *)
(* preview the post for the submission that replaces this one.                 *)
RecordCancel(o) ==
  LET p == op[o].pub IN
  /\ pub' = Written(p, [pub[p] EXCEPT !.state = "CANCELLED"])
  /\ op' = [op EXCEPT ![o] =
              IF op[o].kind = "RESTORE_AND_RESUBMIT"
              THEN [Idle EXCEPT !.pc = "replan", !.kind = op[o].kind, !.pub = p,
                                !.plan = plan[PostOf[p]]]
              ELSE Idle]
  /\ UNCHANGED <<plan, remote>>

(* Nothing is left at the provider: one local write.                           *)
Release(o) ==
  /\ Decides(o, {"RELEASE_LOCALLY"})
  /\ RecordCancel(o)

(* DELETE /posts/{id} leaves.                                                  *)
Withdraw(o) ==
  /\ Decides(o, {"CANCEL", "RESTORE_AND_RESUBMIT"})
  /\ op[o].rec.state = "SCHEDULED"
  /\ op' = [op EXCEPT ![o] = [@ EXCEPT !.pc = "withdraw", !.rec = None]]
  /\ UNCHANGED <<plan, pub, remote>>

(* A post the provider has already failed needs no withdrawal.                 *)
ReplaceFailed(o) ==
  /\ Decides(o, {"RESTORE_AND_RESUBMIT"})
  /\ op[o].rec.state = "FAILED"
  /\ RecordCancel(o)

(* The provider withdraws a post that is still waiting; it refuses any other   *)
(* one, and the handler ends without a write (Abandon).                        *)
ProviderWithdraws(o) ==
  LET p == op[o].pub IN
  /\ op[o].pc = "withdraw"
  /\ remote[p].state = "SCHEDULED"
  /\ remote' = [remote EXCEPT ![p].state = "DELETED"]
  /\ op' = [op EXCEPT ![o].pc = "withdrawn"]
  /\ UNCHANGED <<plan, pub>>

(* The withdrawal is recorded once the provider has answered it.               *)
WithdrawAssumed(l) == l.pc \in {"withdraw", "withdrawn"}              \* mutant

WithdrawAnswered(l) == l.pc = "withdrawn"

WithdrawRecorded(o) == WithdrawAnswered(op[o]) /\ RecordCancel(o)

(* The restore hands the hash of the plan it has just read to submit(), which  *)
(* reads the plan again.                                                       *)
Resubmit(o, q) ==
  /\ op[o].pc = "replan"
  /\ Unused(q)
  /\ PostOf[q] = PostOf[op[o].pub]
  /\ op' = [op EXCEPT ![o] = [Idle EXCEPT !.pc = "targets", !.kind = op[o].kind,
                                          !.pub = q, !.plan = plan[PostOf[q]],
                                          !.token = op[o].plan]]
  /\ UNCHANGED <<plan, pub, remote>>

(* An update reads the publication and the plan once more, and uploads.        *)
UpdateBegin(o) ==
  LET p == op[o].pub IN
  /\ Decides(o, {"UPDATE_CONTENT", "UPDATE_SCHEDULE"})
  /\ op' = [op EXCEPT ![o] = [@ EXCEPT !.pc = "prepare", !.state = pub[p].state,
                                       !.plan = plan[PostOf[p]]]]
  /\ UNCHANGED <<plan, pub, remote>>

(* The whole body of the PATCH: Signal's content on the provider's instant, or *)
(* Signal's instant with the provider's caption.                               *)
Outgoing(l) ==
  IF l.kind = "UPDATE_CONTENT"
  THEN [l.plan EXCEPT !.instant = l.rec.held.instant]
  ELSE [l.plan EXCEPT !.caption = l.rec.held.caption]

UpdateSend(o) ==
  /\ op[o].pc = "prepare"
  /\ Publishable(op[o].plan)
  /\ op' = [op EXCEPT ![o] = [@ EXCEPT !.pc = "patching", !.plan = Outgoing(op[o])]]
  /\ UNCHANGED <<plan, pub, remote>>

ProviderPatches(o) ==
  LET p == op[o].pub IN
  /\ op[o].pc = "patching"
  /\ remote[p].state = "SCHEDULED"
  /\ remote' = [remote EXCEPT ![p].held = op[o].plan]
  /\ op' = [op EXCEPT ![o] = [@ EXCEPT !.pc = "patched", !.rec = None]]
  /\ UNCHANGED <<plan, pub>>

(* commitProviderUpdate: the answered update rewrites the snapshot.  Where the *)
(* index refuses that, the catch clause writes the state read before the call. *)
UpdateRecorded(o) ==
  LET p == op[o].pub IN
  /\ op[o].pc = "patched"
  /\ \E answer \in AnsweredStates(remote[p]) :
       pub' = IF answer \in LiveStates /\ LiveRival(p)
              THEN Written(p, [pub[p] EXCEPT !.state = op[o].state])
              ELSE [pub EXCEPT ![p] = [@ EXCEPT !.state = answer, !.sent = op[o].plan]]
  /\ op' = [op EXCEPT ![o] = Idle]
  /\ UNCHANGED <<plan, remote>>

UpdateUnderWay(o) == op[o].pc \in {"patching", "patched"}

(* An error status puts back the state read before the call, though the        *)
(* provider may have taken the update, or may still take it.                   *)
UpdateErredAsFailed(o) == UpdateUnderWay(o) /\ EndWith(o, "FAILED")   \* mutant

UpdateErred(o) == UpdateUnderWay(o) /\ EndWith(o, op[o].state)

(* An update that was never answered, whether or not the provider took it.     *)
UpdateLost(o) == UpdateUnderWay(o) /\ EndWith(o, "UNCONFIRMED")

-------------------------------------------------------------------------------
(* Endings without a write.                                                    *)

(* The handler throws: a plan that refuses, a stale hash, a live publication,  *)
(* an upload, a read or a withdrawal the provider refuses or never answers.    *)
Abandon(o) ==
  /\ op[o].pc \in {"targets", "upload", "check", "checked", "compare",
                   "described", "withdraw", "withdrawn", "replan", "prepare"}
  /\ op' = [op EXCEPT ![o] = Idle]
  /\ UNCHANGED <<plan, pub, remote>>

(* The process stops: every handler is gone, the rows stay, and there is no    *)
(* recovery of what was in flight when it starts again.                        *)
Crash ==
  /\ \E o \in Handlers : op[o] # Idle
  /\ op' = [o \in Handlers |-> Idle]
  /\ UNCHANGED <<plan, pub, remote>>

-------------------------------------------------------------------------------
(* Post Bridge, and the people who edit plans and posts.                       *)

Edit(post) ==
  /\ \E new \in Plans : plan' = [plan EXCEPT ![post] = new]
  /\ UNCHANGED <<pub, remote, op>>

ProviderMoves(p, from, to) ==
  /\ remote[p].state = from
  /\ remote' = [remote EXCEPT ![p].state = to]
  /\ UNCHANGED <<plan, pub, op>>

ProviderAccepts(p) == ProviderMoves(p, "SENT", "SCHEDULED")
ProviderRefuses(p) == ProviderMoves(p, "SENT", "REFUSED")
ProviderStarts(p)  == ProviderMoves(p, "SCHEDULED", "PROCESSING")

(* Somebody deletes the waiting post in Post Bridge itself.                    *)
ExternalDelete(p) == ProviderMoves(p, "SCHEDULED", "DELETED")

(* One account's delivery is reported while the post is being sent.            *)
ProviderReports(p, a) ==
  /\ remote[p].state = "PROCESSING"
  /\ a \notin remote[p].ok \cup remote[p].bad
  /\ \/ remote' = [remote EXCEPT ![p].ok = @ \cup {a}]
     \/ remote' = [remote EXCEPT ![p].bad = @ \cup {a}]
  /\ UNCHANGED <<plan, pub, op>>

(* Every account is reported, or the post fails before any of them succeeds.   *)
ProviderSettles(p) ==
  \/ /\ remote[p].ok \cup remote[p].bad = Accounts
     /\ remote[p].ok # {}
     /\ ProviderMoves(p, "PROCESSING", "PUBLISHED")
  \/ /\ remote[p].ok = {}
     /\ ProviderMoves(p, "PROCESSING", "FAILED")

(* Somebody edits the waiting post in Post Bridge itself.                      *)
ExternalEdit(p) ==
  /\ remote[p].state = "SCHEDULED"
  /\ \E held \in Plans : /\ Publishable(held)
                         /\ remote' = [remote EXCEPT ![p].held = held]
  /\ UNCHANGED <<plan, pub, op>>

-------------------------------------------------------------------------------
HandlerStep(o) ==
  \/ SubmitGate(o) \/ SubmitInsert(o)
  \/ SubmitAnswered(o) \/ SubmitFailed(o) \/ SubmitLost(o)
  \/ CheckAnswered(o) \/ CheckUnread(o) \/ CheckRecorded(o)
  \/ CompareAnswered(o) \/ Release(o)
  \/ Withdraw(o) \/ ReplaceFailed(o) \/ ProviderWithdraws(o) \/ WithdrawRecorded(o)
  \/ \E q \in Pubs : Resubmit(o, q)
  \/ UpdateBegin(o) \/ UpdateSend(o)
  \/ ProviderPatches(o) \/ UpdateRecorded(o) \/ UpdateErred(o) \/ UpdateLost(o)
  \/ Abandon(o)

Request(o, p) ==
  \/ SubmitBegin(o, p)
  \/ \E kind \in {"CHECK", "AUTOMATIC_CHECK"} : CheckBegin(o, p, kind)
  \/ \E kind \in ProviderAction : CompareBegin(o, p, kind)

ProviderStep(p) ==
  \/ ProviderAccepts(p) \/ ProviderRefuses(p) \/ ProviderStarts(p)
  \/ \E a \in Accounts : ProviderReports(p, a)
  \/ ProviderSettles(p)
  \/ ExternalDelete(p) \/ ExternalEdit(p)

Next ==
  \/ \E o \in Handlers : HandlerStep(o)
  \/ \E o \in Handlers, p \in Pubs : Request(o, p)
  \/ \E p \in Pubs : ProviderStep(p)
  \/ \E post \in Posts : Edit(post)
  \/ Crash

Spec == Init /\ [][Next]_vars

(* Handlers do not hang: every await is answered or fails.  For publication p  *)
(* a person keeps pressing Refresh delivery, and neither the provider nor the  *)
(* process fails every single check or makes every answer unreadable.          *)
Fairness ==
  /\ \A o \in Handlers : WF_vars(HandlerStep(o))
  /\ \A p \in Pubs :
       /\ SF_vars(\E o \in Handlers : CheckBegin(o, p, "CHECK"))
       /\ SF_vars(\E o \in Handlers : op[o].pub = p /\ CheckAnswered(o))
       /\ SF_vars(\E o \in Handlers :
                    /\ op[o].pub = p
                    /\ op[o].state = CheckState(remote[p])
                    /\ CheckRecorded(o))

FairSpec == Spec /\ Fairness

-------------------------------------------------------------------------------
(* Properties.                                                                 *)

(* Every variable keeps its type; check_attempts never passes its budget.      *)
TypeOK ==
  /\ plan \in [Posts -> Plans]
  /\ pub \in [Pubs -> Rows]
  /\ remote \in [Pubs -> Remotes]
  /\ op \in [Handlers -> Locals]

Waiting(p) == remote[p].state \in {"SENT", "SCHEDULED"}

(* The submission ended with an error status, which the publisher takes for a  *)
(* refusal.  Its row has no id and nothing ever asks after it again.           *)
Erred(p) == pub[p].state = "FAILED" /\ ~pub[p].id

Watched(p) == Waiting(p) /\ ~Erred(p)

(* A post that may still go out, or whose request may still arrive, has a row  *)
(* that says so: no lost answer, crash, withdrawal, update or stale check lets *)
(* a row settle, and so free its post, while the provider may still send it.   *)
(* An error status on the submission itself is the one way this happens.       *)
WaitingIsLiveOrErred == \A p \in Pubs : Waiting(p) => Live(p) \/ Erred(p)

(* The provider has two posts waiting to go out for one Signal post only where *)
(* an error status hid one of them: no other order of submissions, retries,    *)
(* replacements and crashes makes the duplicate that the rules of submit() are *)
(* there to prevent.                                                           *)
TwiceOnlyAfterAnError ==
  \A p, q \in Pubs :
    Waiting(p) /\ Waiting(q) /\ PostOf[p] = PostOf[q] => p = q \/ Erred(p) \/ Erred(q)

(* CANCELLED is written only for a submission that reached no account and will *)
(* reach none, though the provider may start sending while the withdrawal, the *)
(* release or the replacement is under way.                                    *)
CancelledNeverWentOut ==
  \A p \in Pubs : pub[p].state = "CANCELLED" =>
     remote[p].ok = {} /\ remote[p].state \in {"DELETED", "FAILED"}

(* What a submission sends is the plan its caller confirmed, whatever was      *)
(* edited while the account list was read and the media were uploaded.         *)
SubmitSendsWhatWasConfirmed ==
  \A o \in Handlers : op[o].pc = "posting" /\ op[o].kind = "SUBMIT" =>
     pub[op[o].pub].sent = op[o].token

(* The publisher is the lock that SubmissionLock describes; the lock loses     *)
(* sight of a request where an error status ends the submission.               *)
Lock == INSTANCE SubmissionLock
          WITH locks <- {p \in Pubs : Live(p)},
               waiting <- {p \in Pubs : Watched(p)},
               known <- {p \in Pubs : pub[p].id}

LockSpec == Lock!Spec

(* Once a post with a known id has gone out, its row comes to say what the     *)
(* accounts reported, and comes to say so again after every answer that could  *)
(* not be read or was still under way and put it back.                         *)
DeliveryIsLearned ==
  \A p \in Pubs :
    (pub[p].id /\ remote[p].state = "PUBLISHED") ~> (pub[p].state = CheckState(remote[p]))
===============================================================================
