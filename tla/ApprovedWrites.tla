---------------------------- MODULE ApprovedWrites ----------------------------
(* What the three queues of agents' writes promise alike: confirmations to     *)
(* publish, writes to Drive, and the tools of the assistant.  Nothing leaves   *)
(* for the outside before a person has said yes, it leaves once at most, and   *)
(* an answer is final: "declined" only where nothing has left or ever will,    *)
(* "done" only where the outside has acted, "uncertain" only where something   *)
(* has left.  Of a request that "failed" nothing leaves any more; but what had *)
(* left may have been acted upon, or may be later: no answer denies that.      *)
(*                                                                             *)
(* One step of a queue may move several requests, when it cleans up.           *)

CONSTANT Requests

VARIABLES
  told,  \* told[r]: none, pending, approved, declined, failed, done or uncertain
  sent   \* sent[r]: no, maybe while it is open, then yes or never for good

Init ==
  /\ told = [r \in Requests |-> "none"]
  /\ sent = [r \in Requests |-> "no"]

At(r, t, s) == told[r] = t /\ sent[r] = s
Becomes(r, t, s) == told'[r] = t /\ sent'[r] = s

Ask(r) == At(r, "none", "no") /\ Becomes(r, "pending", "no")

Decline(r) == At(r, "pending", "no") /\ Becomes(r, "declined", "no")

(* Approving may be one step with sending.                                     *)
Approve(r) ==
  /\ At(r, "pending", "no")
  /\ Becomes(r, "approved", "no") \/ Becomes(r, "approved", "maybe")

Send(r) == At(r, "approved", "no") /\ Becomes(r, "approved", "maybe")

(* The outside acts or will not, perhaps when nobody waits for it any more.    *)
Turn(r) ==
  /\ told[r] \in {"approved", "failed", "uncertain"} /\ sent[r] = "maybe"
  /\ Becomes(r, told[r], "yes") \/ Becomes(r, told[r], "never")

Tell(r) ==
  /\ told[r] = "approved" /\ sent'[r] = sent[r]
  /\ \/ sent[r] = "yes" /\ told'[r] = "done"
     \/ sent[r] = "no" /\ told'[r] = "declined"
     \/ sent[r] # "no" /\ told'[r] = "uncertain"
     \/ told'[r] = "failed"

Rest(r) == Becomes(r, told[r], sent[r])

Step(r) == Rest(r) \/ Ask(r) \/ Decline(r) \/ Approve(r) \/ Send(r) \/ Turn(r) \/ Tell(r)

Next == \A r \in Requests : Step(r)

Spec == Init /\ [][Next]_<<told, sent>>
===============================================================================
