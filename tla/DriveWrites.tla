------------------------------ MODULE DriveWrites ------------------------------
(* The writes that agents ask for in Google Drive                              *)
(* (server/drive/agent-write.ts): a request waits with its bytes until a person *)
(* denies or approves it; an approval claims it under a lease of an hour, calls *)
(* Drive and records the answer.  Every operation on the queue first cleans it *)
(* up: what waited a day expires, and what outlived its lease is uncertain.    *)
(*                                                                             *)
(* An error without an answer leaves open what Drive has done or will still    *)
(* do; the code tells only some of these errors from refusals.                 *)
EXTENDS Integers, FiniteSets

CONSTANTS
  Requests,     \* the agent and client_request_id that a request is found by
  Approvers,    \* the HTTP handlers of approvals
  PendingLimit, \* DRIVE_WRITE_PENDING_LIMIT
  None

ASSUME DriveAssumption == PendingLimit \in Nat \ {0} /\ None \notin Requests

VARIABLES
  row,      \* row[r]: of drive_write_requests
  handler,  \* handler[a]: the approval under way
  late,     \* the calls that nobody waits for any more and Drive may still carry out
  made      \* made[r]: how often Drive has carried out r (history)

vars == <<row, handler, late, made>>

Decided == {"APPROVED", "DENIED", "FAILED", "EXPIRED", "PROVIDER_UNCERTAIN"}

Rows == [status : {"NONE", "PENDING", "EXECUTING"} \cup Decided,
         old    : BOOLEAN,   \* a day since created_at, an hour since executing_at
         bytes  : BOOLEAN]   \* plan_json still has contentBase64

Idle == [pc |-> "idle", req |-> None]

Init ==
  /\ row = [r \in Requests |-> [status |-> "NONE", old |-> FALSE, bytes |-> FALSE]]
  /\ handler = [a \in Approvers |-> Idle]
  /\ late = {}
  /\ made = [r \in Requests |-> 0]

-------------------------------------------------------------------------------
CleanedPending(rows) ==                                              \* mutant
  [r \in Requests |->
     IF rows[r].old /\ rows[r].status = "PENDING"
     THEN [rows[r] EXCEPT !.status = "EXPIRED", !.bytes = FALSE] ELSE rows[r]]

BytesStay(bytes, status) == bytes                                    \* mutant

Purged(bytes, status) == bytes /\ status \notin Decided

ExpiredAlike(status) ==                                              \* mutant
  IF status \in {"PENDING", "EXECUTING"} THEN "EXPIRED" ELSE status

StatusOfOld(status) ==
  CASE status = "PENDING" -> "EXPIRED"
    [] status = "EXECUTING" -> "PROVIDER_UNCERTAIN"
    [] OTHER -> status

(* cleanupDriveWriteRequestsInTransaction.                                     *)
Cleaned(rows) ==
  [r \in Requests |->
     LET status == IF rows[r].old THEN StatusOfOld(rows[r].status) ELSE rows[r].status
     IN [rows[r] EXCEPT !.status = status, !.bytes = Purged(@, status)]]

Pending(rows) == {r \in Requests : rows[r].status = "PENDING"}

(* requestDriveWrite; a retry finds its request, which it leaves as it is.     *)
Request(r) ==
  LET rows == Cleaned(row) IN
  /\ rows[r].status = "NONE"
  /\ Cardinality(Pending(rows)) < PendingLimit
  /\ row' = [rows EXCEPT ![r] = [status |-> "PENDING", old |-> FALSE, bytes |-> TRUE]]
  /\ UNCHANGED <<handler, late, made>>

(* The list, its summary, and every call that is refused after the clean-up.   *)
Look == row' = Cleaned(row) /\ UNCHANGED <<handler, late, made>>

Age(r) ==
  /\ row[r].status \in {"PENDING", "EXECUTING"}
  /\ row' = [row EXCEPT ![r].old = TRUE]
  /\ UNCHANGED <<handler, late, made>>

-------------------------------------------------------------------------------
(* decideDriveWrite.                                                           *)

Deny(r) ==
  LET rows == Cleaned(row) IN
  /\ rows[r].status = "PENDING"
  /\ row' = [rows EXCEPT ![r].status = "DENIED", ![r].bytes = FALSE]
  /\ UNCHANGED <<handler, late, made>>

ClaimableTwice(rows, r) == rows[r].status \in {"PENDING", "EXECUTING"}  \* mutant

Claimable(rows, r) == rows[r].status = "PENDING"

(* The conditional UPDATE lets one approval through, which calls Drive.        *)
Approve(a, r) ==
  LET rows == Cleaned(row) IN
  /\ handler[a] = Idle
  /\ Claimable(rows, r)
  /\ row' = [rows EXCEPT ![r].status = "EXECUTING", ![r].old = FALSE]
  /\ handler' = [handler EXCEPT ![a] = [pc |-> "calling", req |-> r]]
  /\ UNCHANGED <<late, made>>

DriveWrites(a) ==
  /\ handler[a].pc = "calling"
  /\ handler' = [handler EXCEPT ![a].pc = "done"]
  /\ made' = [made EXCEPT ![handler[a].req] = @ + 1]
  /\ UNCHANGED <<row, late>>

DriveRefuses(a) ==
  /\ handler[a].pc = "calling"
  /\ handler' = [handler EXCEPT ![a].pc = "refused"]
  /\ UNCHANGED <<row, late, made>>

(* A time-out or a broken connection, before or after Drive has acted.         *)
AnswerLost(a) ==
  /\ handler[a].pc \in {"calling", "done", "refused"}
  /\ handler' = [handler EXCEPT ![a].pc = "lost"]
  /\ late' = IF handler[a].pc = "calling" THEN late \cup {handler[a].req} ELSE late
  /\ UNCHANGED <<row, made>>

WritesLate(r) ==
  /\ r \in late
  /\ late' = late \ {r}
  /\ made' = [made EXCEPT ![r] = @ + 1]
  /\ UNCHANGED <<row, handler>>

(* What may be told of a call.  isUncertainProviderError knows five codes and a *)
(* few words: other broken connections are told as failures, and some refusals *)
(* as uncertain.  A write that Drive answered for fails when the answer has no *)
(* id, or when its event cannot be recorded.                                   *)
Outcomes(pc) == {"FAILED", IF pc = "done" THEN "APPROVED" ELSE "PROVIDER_UNCERTAIN"}

(* The answer is recorded unless the lease has run out meanwhile; the bytes go *)
(* either way.                                                                 *)
Record(a) ==
  LET r == handler[a].req IN
  /\ handler[a].pc \in {"done", "refused", "lost"}
  /\ \E outcome \in Outcomes(handler[a].pc) :
       row' = [row EXCEPT ![r].status = IF @ = "EXECUTING" THEN outcome ELSE @,
                          ![r].bytes = FALSE]
  /\ handler' = [handler EXCEPT ![a] = Idle]
  /\ UNCHANGED <<late, made>>

(* The process stops: calls under way may arrive, their answers do not.        *)
Crash ==
  /\ late' = late \cup {handler[a].req : a \in {b \in Approvers : handler[b].pc = "calling"}}
  /\ handler' = [a \in Approvers |-> Idle]
  /\ UNCHANGED <<row, made>>

Next ==
  \/ \E r \in Requests : Request(r) \/ Age(r) \/ Deny(r) \/ WritesLate(r)
  \/ \E a \in Approvers :
       \/ \E r \in Requests : Approve(a, r)
       \/ DriveWrites(a) \/ DriveRefuses(a) \/ AnswerLost(a) \/ Record(a)
  \/ Look
  \/ Crash

(* Time passes, and somebody looks at the queue again.                         *)
Spec ==
  /\ Init /\ [][Next]_vars
  /\ \A r \in Requests : WF_vars(Age(r))
  /\ WF_vars(Look)

-------------------------------------------------------------------------------
(* Properties.                                                                 *)

TypeOK ==
  /\ row \in [Requests -> Rows]
  /\ handler \in [Approvers -> [pc : {"idle", "calling", "done", "refused", "lost"},
                                req : Requests \cup {None}]]
  /\ late \subseteq Requests
  /\ made \in [Requests -> Nat]

(* What one agent asked for once is in Drive once, whatever approvals raced,   *)
(* timed out, were repeated after a restart or after their lease had run out.  *)
WrittenOnce == \A r \in Requests : made[r] <= 1

(* A request told as denied or expired has left nothing in Drive, has nothing  *)
(* on its way there and no approval at work, however the denial and the expiry *)
(* raced with approvals.  Of one told as failed this need not be so.           *)
DeclinedWroteNothing ==
  \A r \in Requests : row[r].status \in {"DENIED", "EXPIRED"} =>
    made[r] = 0 /\ r \notin late /\ \A a \in Approvers : handler[a].req # r

(* The bytes of an upload are kept just as long as it may still be approved or *)
(* is being executed, however it ends.                                         *)
BytesGoWhenDecided ==
  \A r \in Requests :
    /\ row[r].status \in Decided => ~row[r].bytes
    /\ row[r].status = "PENDING" => row[r].bytes

Told(status) ==
  CASE status = "NONE" -> "none"
    [] status = "PENDING" -> "pending"
    [] status = "EXECUTING" -> "approved"
    [] status = "APPROVED" -> "done"
    [] status = "PROVIDER_UNCERTAIN" -> "uncertain"
    [] status = "FAILED" -> "failed"
    [] OTHER -> "declined"

(* On its way to Drive, awaited or not.                                        *)
UnderWay(r) == r \in late \/ \E a \in Approvers : handler[a] = [pc |-> "calling", req |-> r]

Sent(r) ==
  IF made[r] > 1 THEN "twice"
  ELSE IF made[r] = 1 THEN "yes"
  ELSE IF UnderWay(r) THEN "maybe"
  ELSE IF row[r].status \in {"NONE", "PENDING", "DENIED", "EXPIRED"} THEN "no"
  ELSE "never"

(* The queue is one of approved writes: a person's yes comes first, the write  *)
(* leaves once at most, and each answer is final and, unless it is "failed", so *)
(* of Drive, then and later.                                                   *)
Promise == INSTANCE ApprovedWrites
             WITH told <- [r \in Requests |-> Told(row[r].status)],
                  sent <- [r \in Requests |-> Sent(r)]

WritesAsPromised == Promise!Spec

(* Every request is decided in the end, also one that was executing when the   *)
(* process stopped.                                                            *)
RequestsAreDecided ==
  \A r \in Requests : row[r].status \in {"PENDING", "EXECUTING"} ~> row[r].status \in Decided
===============================================================================
