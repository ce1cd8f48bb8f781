------------------------- MODULE PublishingInvariant --------------------------
(* The inductive invariant behind the safety properties of Publishing.         *)
EXTENDS Publishing

(* An id is drawn for one submission, and the row follows the post it stands   *)
(* for: no row, no post; an id is known only of a post the provider took.      *)
RowFollowsPost ==
  \A p \in Pubs :
    /\ pub[p].state = "NONE" <=> remote[p].state = "ABSENT"
    /\ pub[p].id => remote[p].state \notin {"ABSENT", "SENT", "REFUSED"}
    /\ Waiting(p) => Live(p) \/ Erred(p)
    /\ pub[p].state = "CANCELLED" => remote[p].state \in {"DELETED", "FAILED"}

(* Nothing is reported of a post that has not been sent, and a post that       *)
(* failed as a whole reached no account.                                       *)
ReportsFollowPost ==
  \A p \in Pubs :
    /\ remote[p].state # "ABSENT" => remote[p].held \in Plans
    /\ remote[p].state \notin {"PROCESSING", "PUBLISHED", "FAILED"}
         => remote[p].ok = {} /\ remote[p].bad = {}
    /\ remote[p].state = "FAILED" => remote[p].ok = {}

Submitting == {"targets", "upload", "posting"}
Updating   == {"prepare", "patching", "patched"}

(* A state that a handler is about to write is one the post allows: it settles *)
(* the row only when the provider will not send the post any more.             *)
MayWrite(p, state) ==
  /\ state \in PublicationState
  /\ state \notin LiveStates => ~Waiting(p)
  /\ state = "CANCELLED" => remote[p].state \in {"DELETED", "FAILED"}

(* What each handler knows of the publication it works on.                     *)
HandlerKnows(o) ==
  LET l == op[o]  p == op[o].pub IN
  /\ l.pc # "idle" => p \in Pubs
  /\ l.pc \in {"targets", "upload"} => pub[p].state = "NONE" /\ l.plan \in Plans
  /\ l.pc = "posting" => pub[p].state = "SUBMITTING" /\ ~pub[p].id
  /\ l.pc \notin Submitting \cup {"idle"} => pub[p].id
  /\ l.pc \in {"check", "checked"} /\ l.kind = "AUTOMATIC_CHECK"
       => l.attempts < MaxAttempts
  /\ l.pc = "checked" => MayWrite(p, l.state) /\ l.state # "CANCELLED"
  /\ l.pc \in {"compare", "described"} =>
       /\ l.rec \in Records
       /\ l.rec.state \in {"DELETED", "FAILED"} => remote[p].state = l.rec.state
       /\ l.kind = "RELEASE_LOCALLY" => l.rec.state = "DELETED"
  /\ l.pc \in {"compare", "described", "prepare", "patching"} => l.rec.held \in Plans
  /\ l.pc = "withdrawn" => remote[p].state = "DELETED"
  /\ l.pc \in {"prepare", "patching", "patched"} => l.plan \in Plans
  /\ l.pc \in Updating => MayWrite(p, l.state)

(* Two submissions in progress never work on the same id.                      *)
DistinctIds ==
  \A o, x \in Handlers :
    op[o].pc \in Submitting /\ op[x].pc \in Submitting /\ op[o].pub = op[x].pub
      => o = x

(* Two submissions of one post are never live together, whichever handlers     *)
(* write rows in whatever order (idx_signal_publications_live).                *)
OneLivePublication ==
  \A p, q \in Pubs : Live(p) /\ Live(q) /\ PostOf[p] = PostOf[q] => p = q

(* The inductive invariant: what the rows, the posts and the handlers that are *)
(* under way know of each other.                                               *)
Consistent ==
  /\ TypeOK
  /\ OneLivePublication
  /\ RowFollowsPost
  /\ ReportsFollowPost
  /\ \A o \in Handlers : HandlerKnows(o)
  /\ DistinctIds

(* What a submission is about to send is what its caller confirmed.            *)
Carries(o) ==
  LET l == op[o] IN
  /\ l.pc = "upload" /\ l.kind = "SUBMIT" => l.plan = l.token
  /\ l.pc = "posting" /\ l.kind = "SUBMIT" => pub[l.pub].sent = l.token

(* A submission under way keeps what was confirmed, whoever edits meanwhile.   *)
ContentCarried == \A o \in Handlers : Carries(o)
===============================================================================
