------------------------- MODULE PublishConfirmations -------------------------
(* What an agent may do about publishing: ask (server/publish/confirmations.ts). *)
(* A request keeps the plan it was previewed with; a person denies it, or      *)
(* approves it, which claims it as EXECUTING, previews the post again, submits *)
(* it as PublishService.submit does, and records how that ended.  The person   *)
(* may also publish without any request, other handlers run between any two    *)
(* waits, and the process may stop.                                            *)
(*                                                                             *)
(* Publishing is here what its caller sees of it: the plan that is read, the   *)
(* row that is inserted, the answer and the check that follows it; module      *)
(* Publishing has the rest, and what the provider makes of what it is sent.    *)
EXTENDS Integers, PublicationStates

CONSTANTS
  Requests,   \* the ids that new requests may draw
  Approvers,  \* the HTTP handlers of approvals
  NoPlan

VARIABLES
  plan,         \* what a preview of the post shows now
  request,      \* request[r]: the row of signal_publish_confirmation_requests
  approval,     \* approval[a]: the handler of an approval
  publication,  \* publication[r]: the row of the publication made for r
  reached,      \* reached[r]: what the provider has made of it
  direct        \* a publication made without any request is live

confirmationVars == <<request, approval, publication, reached, direct>>

Statuses == {"PENDING", "EXECUTING", "APPROVED", "DENIED", "FAILED", "EXPIRED",
             "PROVIDER_UNCERTAIN"}

NoRequest == [status |-> "NONE", plan |-> NoPlan]
NoApproval == [pc |-> "idle", req |-> NoPlan, plan |-> NoPlan, outcome |-> "NONE"]
NoPublication == [state |-> "NONE", known |-> FALSE, plan |-> NoPlan, count |-> 0]

ConfirmationsInit ==
  /\ request = [r \in Requests |-> NoRequest]
  /\ approval = [a \in Approvers |-> NoApproval]
  /\ publication = [r \in Requests |-> NoPublication]
  /\ reached = [r \in Requests |-> "no"]
  /\ direct = FALSE

Of(a) == approval[a].req

(* Another publication of the post is live.                                    *)
Rival(r) == direct \/ \E q \in Requests \ {r} : publication[q].state \in LiveStates

Live == direct \/ \E r \in Requests : publication[r].state \in LiveStates

-------------------------------------------------------------------------------
(* createPublishConfirmation.                                                  *)
Create(r) ==
  /\ request[r].status = "NONE"
  /\ request' = [request EXCEPT ![r] = [status |-> "PENDING", plan |-> plan]]
  /\ UNCHANGED <<approval, publication, reached, direct>>

(* cleanupPublishConfirmations: a day has passed.  Only PENDING rows expire.   *)
Expire(r) ==
  /\ request[r].status = "PENDING"
  /\ request' = [request EXCEPT ![r].status = "EXPIRED"]
  /\ UNCHANGED <<approval, publication, reached, direct>>

Deny(r) ==
  /\ request[r].status = "PENDING"
  /\ request' = [request EXCEPT ![r].status = "DENIED"]
  /\ UNCHANGED <<approval, publication, reached, direct>>

ClaimableTwice(r) == request[r].status \in {"PENDING", "EXECUTING"}  \* mutant

Claimable(r) == request[r].status = "PENDING"

(* decidePublishConfirmation: the conditional UPDATE lets one approval through. *)
Claim(a, r) ==
  /\ approval[a].pc = "idle"
  /\ Claimable(r)
  /\ request' = [request EXCEPT ![r].status = "EXECUTING"]
  /\ approval' = [approval EXCEPT ![a] = [NoApproval EXCEPT !.pc = "claimed", !.req = r]]
  /\ UNCHANGED <<publication, reached, direct>>

Ends(a, outcome) ==
  approval' = [approval EXCEPT ![a].pc = "decided", ![a].outcome = outcome]

(* The route previews again: a plan that moved, or that is refused by now for  *)
(* any other reason, is STALE.                                                 *)
PreviewAgain(a) ==
  /\ approval[a].pc = "claimed"
  /\ \/ /\ plan = request[Of(a)].plan
        /\ approval' = [approval EXCEPT ![a].pc = "previewed"]
     \/ Ends(a, "EXPIRED")
  /\ UNCHANGED <<request, publication, reached, direct>>

HashIgnored(confirmed) == TRUE                                       \* mutant

HashMatches(confirmed) == plan = confirmed

(* submit() reads the plan once more, compares its hash, refuses a post that   *)
(* has a live publication, and uploads the media it has read.                  *)
BeginSubmit(a) ==
  /\ approval[a].pc = "previewed"
  /\ IF HashMatches(request[Of(a)].plan) /\ ~Live
     THEN approval' = [approval EXCEPT ![a].pc = "uploading", ![a].plan = plan]
     ELSE Ends(a, "FAILED")
  /\ UNCHANGED <<request, publication, reached, direct>>

UploadFails(a) ==
  /\ approval[a].pc = "uploading"
  /\ Ends(a, "FAILED")
  /\ UNCHANGED <<request, publication, reached, direct>>

(* The INSERT, under the unique index of live publications; the POST leaves.   *)
Insert(a) ==
  LET r == Of(a) IN
  /\ approval[a].pc = "uploading"
  /\ IF Live
     THEN Ends(a, "FAILED") /\ UNCHANGED <<publication, reached>>
     ELSE /\ publication' = [publication EXCEPT ![r] =
                               [state |-> "SUBMITTING", known |-> FALSE,
                                plan |-> approval[a].plan, count |-> @.count + 1]]
          /\ reached' = [reached EXCEPT ![r] = "maybe"]
          /\ approval' = [approval EXCEPT ![a].pc = "sent"]
  /\ UNCHANGED <<request, direct>>

(* The provider takes the post or will not, whoever still waits for it.        *)
ProviderDecides(r) ==
  /\ reached[r] = "maybe"
  /\ \E verdict \in {"yes", "never"} : reached' = [reached EXCEPT ![r] = verdict]
  /\ UNCHANGED <<request, approval, publication, direct>>

DoneUnlessFailed(state) == IF state = "FAILED" THEN "FAILED" ELSE "APPROVED"   \* mutant

StatusFor(state) ==
  CASE state = "FAILED" -> "FAILED"
    [] state = "UNCONFIRMED" -> "PROVIDER_UNCERTAIN"
    [] OTHER -> "APPROVED"

(* The answer is stored with the provider's id.  After a clear SUBMITTED the   *)
(* handler checks the post once before submit() returns the row.               *)
Answered(a, state) ==
  LET r == Of(a) IN
  /\ approval[a].pc = "sent" /\ reached[r] = "yes"
  /\ publication' = [publication EXCEPT ![r].state = state, ![r].known = TRUE]
  /\ IF state = "SUBMITTED" THEN approval' = [approval EXCEPT ![a].pc = "checking"]
                            ELSE Ends(a, StatusFor(state))
  /\ UNCHANGED <<request, reached, direct>>

(* An error status is FAILED and silence is UNCONFIRMED, whatever the provider *)
(* has done or will do.                                                        *)
Unanswered(a, state) ==
  /\ approval[a].pc = "sent"
  /\ publication' = [publication EXCEPT ![Of(a)].state = state]
  /\ Ends(a, StatusFor(state))
  /\ UNCHANGED <<request, reached, direct>>

(* A write of the row's state, which the unique index may refuse.              *)
Allowed(r, state) == state \in LiveStates => ~Rival(r)

(* The check writes its verdict; where it cannot be read or written, the row   *)
(* is returned as it stands by now.                                            *)
Checked(a, state) ==
  LET r == Of(a) IN
  /\ approval[a].pc = "checking"
  /\ \/ state = publication[r].state
     \/ state \in {"SUBMITTED", "CONFIRMED", "PARTIAL", "FAILED"} /\ Allowed(r, state)
  /\ publication' = [publication EXCEPT ![r].state = state]
  /\ Ends(a, StatusFor(state))
  /\ UNCHANGED <<request, reached, direct>>

(* updateDecision writes over whatever the row holds.                          *)
Decide(a) ==
  /\ approval[a].pc = "decided"
  /\ request' = [request EXCEPT ![Of(a)].status = approval[a].outcome]
  /\ approval' = [approval EXCEPT ![a] = NoApproval]
  /\ UNCHANGED <<publication, reached, direct>>

(* A person publishes the post without a request, and that publication         *)
(* settles, or is found to be live after all.                                  *)
PublishDirectly ==
  /\ direct' = ~direct /\ (direct' => ~Live)
  /\ UNCHANGED <<request, approval, publication, reached>>

(* Later checks, updates, withdrawals and releases move a row whose id is      *)
(* known from any state to any other; nothing moves one without an id.         *)
Settle(r, state) ==
  /\ publication[r].known /\ Allowed(r, state)
  /\ publication' = [publication EXCEPT ![r].state = state]
  /\ UNCHANGED <<request, approval, reached, direct>>

(* The process stops: its handlers are gone, the rows stay.                    *)
Crash ==
  /\ approval' = [a \in Approvers |-> NoApproval]
  /\ UNCHANGED <<request, publication, reached, direct>>

ApprovalStep(a) ==
  \/ PreviewAgain(a)
  \/ BeginSubmit(a)
  \/ UploadFails(a)
  \/ Insert(a)
  \/ \E state \in {"SUBMITTED", "CONFIRMED", "FAILED"} : Answered(a, state)
  \/ \E state \in {"UNCONFIRMED", "FAILED"} : Unanswered(a, state)
  \/ \E state \in PublicationState : Checked(a, state)
  \/ Decide(a)

-------------------------------------------------------------------------------
(* Properties.                                                                 *)

(* What went out for a request is what the person was shown, whatever was      *)
(* edited or rechecked between the preview and the approval.                   *)
ApprovedPlanIsSent ==
  \A r \in Requests :
    publication[r].state # "NONE" => publication[r].plan = request[r].plan

(* Approvals that race, and a person who approves again after a restart, send  *)
(* a request once at most.                                                     *)
RequestIsSentOnce == \A r \in Requests : publication[r].count <= 1

Told(status) ==
  CASE status = "NONE" -> "none"
    [] status = "PENDING" -> "pending"
    [] status = "EXECUTING" -> "approved"
    [] status = "APPROVED" -> "done"
    [] status = "PROVIDER_UNCERTAIN" -> "uncertain"
    [] status = "FAILED" -> "failed"
    [] OTHER -> "declined"

(* Publishing by request is one of approved writes: a person's yes comes       *)
(* first, and what is told of a request as declined, done or uncertain is so   *)
(* of what the provider made of it.                                            *)
Promise == INSTANCE ApprovedWrites
             WITH told <- [r \in Requests |-> Told(request[r].status)],
                  sent <- [r \in Requests |->
                             IF publication[r].count > 1 THEN "twice" ELSE reached[r]]

PublishesAsPromised == Promise!Spec
===============================================================================
