---------------------------- MODULE DriveWritesProof ----------------------------
(* Proofs about DriveWrites, for any number of requests and approvals and any  *)
(* limit on the queue.                                                         *)
EXTENDS DriveWrites, TLAPS

USE DriveAssumption

CallsOf(r) == {a \in Approvers : handler[a].req = r}

(* Nothing of the request has left for Drive.                                  *)
Untouched(r) == made[r] = 0 /\ r \notin late /\ CallsOf(r) = {}

(* A handler at work has a request, which no other handler has.                *)
CallsAreDistinct ==
  \A a, b \in Approvers :
    /\ handler[a].pc = "idle" <=> handler[a].req = None
    /\ handler[a].req = handler[b].req => a = b \/ handler[a].req = None

(* What a handler at work knows of Drive.                                      *)
CallsAreCounted ==
  \A a \in Approvers :
    /\ handler[a].pc \in {"calling", "refused"}
         => made[handler[a].req] = 0 /\ handler[a].req \notin late
    /\ handler[a].pc = "done" => made[handler[a].req] = 1 /\ handler[a].req \notin late

LateAreCounted == \A r \in late : made[r] = 0

(* The rows of the queue say what is so.                                       *)
RowsAreTrue(rows) ==
  /\ rows \in [Requests -> Rows]
  /\ \A r \in Requests :
       /\ rows[r].status \in {"NONE", "PENDING", "DENIED", "EXPIRED"} => Untouched(r)
       /\ rows[r].status = "APPROVED" => made[r] = 1
       /\ rows[r].status \in Decided => ~rows[r].bytes
       /\ rows[r].status = "PENDING" => rows[r].bytes

OncePerRequest ==
  /\ TypeOK
  /\ CallsAreDistinct
  /\ CallsAreCounted
  /\ LateAreCounted
  /\ WrittenOnce
  /\ RowsAreTrue(row)

LEMMA InitOncePerRequest == Init => OncePerRequest
BY DEF Init, Idle, OncePerRequest, TypeOK, CallsAreDistinct, CallsAreCounted, LateAreCounted,
       WrittenOnce, RowsAreTrue, Untouched, CallsOf, Rows, Decided

-------------------------------------------------------------------------------
(* The clean-up keeps the rows true: it decides what is abandoned and takes    *)
(* the bytes of what is decided.                                               *)
LEMMA CleanedIsTrue ==
  ASSUME RowsAreTrue(row)
  PROVE  /\ RowsAreTrue(Cleaned(row))
         /\ \A r \in Requests : Cleaned(row)[r].status = "PENDING" => row[r].status = "PENDING"
         /\ \A r \in Requests : Cleaned(row)[r].status = "NONE" => row[r].status = "NONE"
<1> DEFINE rows == Cleaned(row)
<1>1. ASSUME NEW r \in Requests
      PROVE  /\ rows[r] \in Rows
             /\ rows[r].status = "EXPIRED" => row[r].status \in {"EXPIRED", "PENDING"}
             /\ rows[r].status \in {"NONE", "PENDING", "DENIED", "FAILED", "APPROVED"}
                  => rows[r].status = row[r].status
             /\ rows[r].bytes = (row[r].bytes /\ rows[r].status \notin Decided)
  <2>1. row[r] \in Rows
    BY DEF RowsAreTrue
  <2>2. PICK status : status = IF row[r].old THEN StatusOfOld(row[r].status) ELSE row[r].status
    OBVIOUS
  <2>3. rows[r] = [row[r] EXCEPT !.status = status, !.bytes = Purged(@, status)]
    BY <2>2 DEF Cleaned
  <2>4. /\ status \in {"NONE", "PENDING", "EXECUTING"} \cup Decided
        /\ status = "EXPIRED" => row[r].status \in {"EXPIRED", "PENDING"}
        /\ status \in {"NONE", "PENDING", "DENIED", "FAILED", "APPROVED"}
             => status = row[r].status
    BY <2>1, <2>2 DEF StatusOfOld, Rows, Decided
  <2> QED
    BY <2>1, <2>3, <2>4 DEF Rows, Purged
<1>2. rows = [r \in Requests |-> rows[r]]
  BY DEF Cleaned
<1> HIDE DEF rows
<1>3. RowsAreTrue(rows)
  BY <1>1, <1>2 DEF RowsAreTrue, Decided
<1> QED
  BY <1>1, <1>3 DEF rows

(* Whatever is done to rows that are true, handlers and Drive aside.           *)
LEMMA RowsWritten ==
  ASSUME OncePerRequest, UNCHANGED <<handler, late, made>>,
         NEW rows, row' = rows, RowsAreTrue(rows)
  PROVE  OncePerRequest'
BY DEF OncePerRequest, TypeOK, CallsAreDistinct, CallsAreCounted, LateAreCounted, WrittenOnce,
       RowsAreTrue, Untouched, CallsOf

LEMMA QueueStepKeeps ==
  ASSUME OncePerRequest, NEW r \in Requests, Request(r) \/ Age(r) \/ Deny(r) \/ Look
  PROVE  OncePerRequest'
<1> DEFINE rows == Cleaned(row)
<1>1. RowsAreTrue(row)
  BY DEF OncePerRequest
<1>2. /\ RowsAreTrue(rows)
      /\ rows[r].status = "PENDING" => row[r].status = "PENDING"
  BY <1>1, CleanedIsTrue
<1>3. UNCHANGED <<handler, late, made>>
  BY DEF Request, Age, Deny, Look
<1> HIDE DEF rows
<1>4. CASE Request(r)
  <2>1. /\ rows[r].status = "NONE"
        /\ row' = [rows EXCEPT ![r] = [status |-> "PENDING", old |-> FALSE, bytes |-> TRUE]]
    BY <1>4 DEF Request, rows
  <2>2. RowsAreTrue([rows EXCEPT ![r] = [status |-> "PENDING", old |-> FALSE, bytes |-> TRUE]])
    BY <1>2, <2>1 DEF RowsAreTrue, Rows, Decided
  <2> QED
    BY <1>3, <2>1, <2>2, RowsWritten
<1>5. CASE Age(r)
  <2>1. row' = [row EXCEPT ![r].old = TRUE]
    BY <1>5 DEF Age
  <2>2. RowsAreTrue([row EXCEPT ![r].old = TRUE])
    BY <1>1 DEF RowsAreTrue, Rows
  <2> QED
    BY <1>3, <2>1, <2>2, RowsWritten
<1>6. CASE Deny(r)
  <2>1. /\ rows[r].status = "PENDING"
        /\ row' = [rows EXCEPT ![r].status = "DENIED", ![r].bytes = FALSE]
    BY <1>6 DEF Deny, rows
  <2>2. RowsAreTrue([rows EXCEPT ![r].status = "DENIED", ![r].bytes = FALSE])
    BY <1>2, <2>1 DEF RowsAreTrue, Rows, Decided
  <2> QED
    BY <1>3, <2>1, <2>2, RowsWritten
<1>7. CASE Look
  BY <1>2, <1>3, <1>7, RowsWritten DEF Look, rows
<1> QED
  BY <1>4, <1>5, <1>6, <1>7

-------------------------------------------------------------------------------
(* Approvals.                                                                  *)

LEMMA ApproveKeeps ==
  ASSUME OncePerRequest, NEW a \in Approvers, NEW r \in Requests, Approve(a, r)
  PROVE  OncePerRequest'
<1> DEFINE rows == Cleaned(row)
<1>1. RowsAreTrue(rows) /\ TypeOK /\ CallsAreDistinct /\ CallsAreCounted
      /\ LateAreCounted /\ WrittenOnce
  BY CleanedIsTrue DEF OncePerRequest
<1>2. /\ rows[r].status = "PENDING"
      /\ row' = [rows EXCEPT ![r].status = "EXECUTING", ![r].old = FALSE]
      /\ handler[a] = Idle
      /\ handler' = [handler EXCEPT ![a] = [pc |-> "calling", req |-> r]]
      /\ UNCHANGED <<late, made>>
  BY DEF Approve, Claimable
<1> HIDE DEF rows
<1>3. Untouched(r)
  BY <1>1, <1>2 DEF RowsAreTrue
<1>4. \A q \in Requests : q # r /\ Untouched(q) => Untouched(q)'
  BY <1>2 DEF Untouched, CallsOf, Idle
<1>5. RowsAreTrue(row)'
  BY <1>1, <1>2, <1>4 DEF RowsAreTrue, Rows, Decided
<1>6. TypeOK'
  BY <1>1, <1>2, <1>5 DEF TypeOK, RowsAreTrue
<1>7. CallsAreDistinct' /\ CallsAreCounted'
  BY <1>1, <1>2, <1>3 DEF TypeOK, CallsAreDistinct, CallsAreCounted, Untouched, CallsOf, Idle
<1>8. LateAreCounted' /\ WrittenOnce'
  BY <1>1, <1>2 DEF LateAreCounted, WrittenOnce
<1> QED
  BY <1>5, <1>6, <1>7, <1>8 DEF OncePerRequest

(* While Drive is called for a request, its row is none of those that promise  *)
(* that Drive has nothing of it.                                               *)
LEMMA CalledIsTouched ==
  ASSUME OncePerRequest, NEW a \in Approvers, handler[a].pc # "idle"
  PROVE  /\ handler[a].req \in Requests
         /\ row[handler[a].req].status
              \notin {"NONE", "PENDING", "DENIED", "EXPIRED"}
BY DEF OncePerRequest, TypeOK, CallsAreDistinct, RowsAreTrue, Untouched, CallsOf

LEMMA DriveStepKeeps ==
  ASSUME OncePerRequest, NEW a \in Approvers, DriveWrites(a) \/ DriveRefuses(a) \/ AnswerLost(a)
  PROVE  OncePerRequest'
<1>1. TypeOK /\ CallsAreDistinct /\ CallsAreCounted /\ LateAreCounted /\ WrittenOnce
      /\ RowsAreTrue(row)
  BY DEF OncePerRequest
<1>2. handler[a].pc # "idle" /\ row' = row
  BY DEF DriveWrites, DriveRefuses, AnswerLost
<1> DEFINE r == handler[a].req
<1>3. /\ r \in Requests
      /\ row[r].status \notin {"NONE", "PENDING", "DENIED", "EXPIRED"}
      /\ \A b \in Approvers \ {a} : handler[b].req # r
  BY <1>1, <1>2, CalledIsTouched DEF CallsAreDistinct
<1>4. PICK pc \in {"done", "refused", "lost"} : handler' = [handler EXCEPT ![a].pc = pc]
  BY DEF DriveWrites, DriveRefuses, AnswerLost
<1>5. /\ late' \subseteq Requests /\ made' \in [Requests -> Nat]
      /\ \A q \in Requests : q # r => made'[q] = made[q] /\ (q \in late' <=> q \in late)
      /\ made'[r] <= 1
      /\ pc = "refused" => made'[r] = 0
      /\ pc = "done" \/ made[r] = 1 => made'[r] = 1
      /\ pc \in {"done", "refused"} => r \notin late'
      /\ r \in late' => made'[r] = 0
  <2>1. CASE DriveWrites(a)
    <3>1. /\ handler[a].pc = "calling" /\ made' = [made EXCEPT ![r] = @ + 1] /\ late' = late
      BY <2>1 DEF DriveWrites
    <3>2. made[r] = 0 /\ r \notin late
      BY <1>1, <3>1 DEF CallsAreCounted
    <3>3. pc = "done"
      BY <1>1, <1>4, <2>1 DEF DriveWrites, TypeOK
    <3> QED
      BY <1>1, <1>3, <3>1, <3>2, <3>3 DEF TypeOK
  <2>2. CASE DriveRefuses(a)
    <3>1. made[r] = 0 /\ r \notin late /\ pc = "refused"
      BY <1>1, <1>4, <2>2 DEF CallsAreCounted, DriveRefuses, TypeOK
    <3> QED
      BY <1>1, <2>2, <3>1 DEF DriveRefuses, TypeOK
  <2>3. CASE AnswerLost(a)
    <3>1. pc = "lost" /\ made' = made
      BY <1>1, <1>4, <2>3 DEF AnswerLost, TypeOK
    <3>2. late' = late \/ (handler[a].pc = "calling" /\ late' = late \cup {r})
      BY <2>3 DEF AnswerLost
    <3>3. handler[a].pc = "calling" => made[r] = 0
      BY <1>1 DEF CallsAreCounted
    <3> QED
      BY <1>1, <1>3, <3>1, <3>2, <3>3 DEF TypeOK, WrittenOnce, LateAreCounted
  <2> QED
    BY <2>1, <2>2, <2>3
<1> HIDE DEF r
<1>6. /\ handler'[a].pc = pc /\ handler'[a].req = r
      /\ \A b \in Approvers \ {a} : handler'[b] = handler[b]
  BY <1>1, <1>4 DEF TypeOK, r
<1>7. TypeOK'
  BY <1>1, <1>2, <1>4, <1>5 DEF TypeOK
<1>8. CallsAreDistinct'
  BY <1>1, <1>2, <1>6 DEF CallsAreDistinct, r
<1>9. CallsAreCounted' /\ LateAreCounted'
  BY <1>1, <1>3, <1>5, <1>6, <1>7 DEF CallsAreCounted, LateAreCounted, CallsAreDistinct, TypeOK
<1>10. WrittenOnce'
  BY <1>1, <1>5 DEF WrittenOnce
<1>11. \A q \in Requests : q # r /\ Untouched(q) => Untouched(q)'
  BY <1>5, <1>6 DEF Untouched, CallsOf
<1>12. RowsAreTrue(row)'
  BY <1>1, <1>2, <1>3, <1>5, <1>11 DEF RowsAreTrue, r
<1> QED
  BY <1>7, <1>8, <1>9, <1>10, <1>12 DEF OncePerRequest

(* Only a write that Drive answered for is recorded as approved.               *)
LEMMA RecordKeeps ==
  ASSUME OncePerRequest, NEW a \in Approvers, Record(a)
  PROVE  OncePerRequest'
<1>1. TypeOK /\ CallsAreDistinct /\ CallsAreCounted /\ LateAreCounted /\ WrittenOnce
      /\ RowsAreTrue(row)
  BY DEF OncePerRequest
<1>2. /\ handler[a].pc \in {"done", "refused", "lost"}
      /\ handler' = [handler EXCEPT ![a] = Idle]
      /\ UNCHANGED <<late, made>>
  BY DEF Record
<1>3. PICK r \in Requests :
        /\ r = handler[a].req
        /\ row[r].status \notin {"NONE", "PENDING", "DENIED", "EXPIRED"}
        /\ \A b \in Approvers \ {a} : handler[b].req # r
  BY <1>1, <1>2, CalledIsTouched DEF CallsAreDistinct
<1>a. PICK outcome \in Outcomes(handler[a].pc) :
        row' = [row EXCEPT ![r].status = IF @ = "EXECUTING" THEN outcome ELSE @,
                           ![r].bytes = FALSE]
  BY <1>3 DEF Record
<1> DEFINE status == IF row[r].status = "EXECUTING" THEN outcome ELSE row[r].status
<1>4. row' = [row EXCEPT ![r] = [@ EXCEPT !.status = status, !.bytes = FALSE]]
  <2>1. row[r] \in Rows /\ row \in [Requests -> Rows]
    BY <1>1, <1>3 DEF TypeOK
  <2> QED
    BY <1>3, <1>a, <2>1 DEF Rows
<1>5. /\ status \in Decided
      /\ status = "APPROVED" => handler[a].pc = "done" \/ row[r].status = "APPROVED"
      /\ status \notin {"DENIED", "EXPIRED"}
  BY <1>1, <1>2, <1>3, <1>a DEF Outcomes, Decided, TypeOK, Rows
<1>6. status = "APPROVED" => made[r] = 1
  BY <1>1, <1>3, <1>5 DEF CallsAreCounted, RowsAreTrue
<1> HIDE DEF status
<1>7. CallsOf(r)' = {} /\ \A q \in Requests : CallsOf(q)' \subseteq CallsOf(q)
  <2>1. handler'[a] = Idle /\ \A b \in Approvers \ {a} : handler'[b] = handler[b]
    BY <1>1, <1>2 DEF TypeOK
  <2>2. \A q \in Requests : Idle.req # q
    BY DEF Idle
  <2>3. \A b \in Approvers : handler'[b].req = r => b # a /\ handler[b].req = r
    BY <1>3, <2>1, <2>2
  <2>4. \A q \in Requests, b \in Approvers : handler'[b].req = q => handler[b].req = q
    BY <2>1, <2>2
  <2>5. \A b \in Approvers : handler'[b].req # r
    BY ONLY <1>3, <2>3
  <2> QED
    BY <2>4, <2>5 DEF CallsOf
<1>8. row' \in [Requests -> Rows]
  BY <1>1, <1>3, <1>4, <1>5 DEF TypeOK, Rows
<1>9. /\ row'[r].status = status /\ ~row'[r].bytes
      /\ \A q \in Requests \ {r} : row'[q] = row[q]
  BY <1>1, <1>3, <1>4 DEF TypeOK, Rows
<1>10. RowsAreTrue(row)'
  <2>1. ASSUME NEW q \in Requests
        PROVE  /\ row'[q].status \in {"NONE", "PENDING", "DENIED", "EXPIRED"}
                    => Untouched(q)'
               /\ row'[q].status = "APPROVED" => made'[q] = 1
               /\ row'[q].status \in Decided => ~row'[q].bytes
               /\ row'[q].status = "PENDING" => row'[q].bytes
    <3>1. CASE q = r
      <4>1. status \notin {"NONE", "PENDING", "DENIED", "EXPIRED"}
        BY <1>5 DEF Decided
      <4> QED
        BY <1>2, <1>6, <1>9, <3>1, <4>1
    <3>2. CASE q # r
      BY <1>1, <1>2, <1>7, <1>9, <3>2 DEF RowsAreTrue, Untouched
    <3> QED
      BY <3>1, <3>2
  <2> QED
    BY <1>8, <2>1 DEF RowsAreTrue
<1>11. TypeOK' /\ CallsAreDistinct' /\ CallsAreCounted' /\ LateAreCounted' /\ WrittenOnce'
  BY <1>1, <1>2, <1>8
     DEF TypeOK, CallsAreDistinct, CallsAreCounted, LateAreCounted, WrittenOnce, Idle
<1> QED
  BY <1>10, <1>11 DEF OncePerRequest

-------------------------------------------------------------------------------
(* Calls that nobody waits for.                                                *)

LEMMA WritesLateKeeps ==
  ASSUME OncePerRequest, NEW r \in Requests, WritesLate(r)
  PROVE  OncePerRequest'
<1>1. TypeOK /\ CallsAreDistinct /\ CallsAreCounted /\ LateAreCounted /\ WrittenOnce
      /\ RowsAreTrue(row)
  BY DEF OncePerRequest
<1>2. /\ r \in late /\ late' = late \ {r} /\ made' = [made EXCEPT ![r] = @ + 1]
      /\ UNCHANGED <<row, handler>>
  BY DEF WritesLate
<1>3. made[r] = 0
  BY <1>1, <1>2 DEF LateAreCounted
<1>4. /\ made' \in [Requests -> Nat] /\ made'[r] = 1
      /\ \A q \in Requests \ {r} : made'[q] = made[q]
  BY <1>1, <1>2, <1>3 DEF TypeOK
<1>5. TypeOK' /\ CallsAreDistinct' /\ WrittenOnce' /\ LateAreCounted'
  BY <1>1, <1>2, <1>4 DEF TypeOK, CallsAreDistinct, WrittenOnce, LateAreCounted
<1>6. CallsAreCounted'
  BY <1>1, <1>2, <1>4 DEF CallsAreCounted, CallsAreDistinct, TypeOK
<1>7. RowsAreTrue(row)'
  BY <1>1, <1>2, <1>4 DEF RowsAreTrue, Untouched, CallsOf
<1> QED
  BY <1>5, <1>6, <1>7 DEF OncePerRequest

LEMMA CrashKeeps ==
  ASSUME OncePerRequest, Crash
  PROVE  OncePerRequest'
<1>1. TypeOK /\ CallsAreDistinct /\ CallsAreCounted /\ LateAreCounted /\ WrittenOnce
      /\ RowsAreTrue(row)
  BY DEF OncePerRequest
<1>2. /\ handler' = [a \in Approvers |-> Idle] /\ UNCHANGED <<row, made>>
      /\ late' = late \cup {handler[a].req : a \in {b \in Approvers : handler[b].pc = "calling"}}
  BY DEF Crash
<1>3. ASSUME NEW a \in Approvers, handler[a].pc = "calling"
      PROVE  /\ handler[a].req \in Requests /\ made[handler[a].req] = 0
             /\ row[handler[a].req].status
                  \notin {"NONE", "PENDING", "DENIED", "EXPIRED"}
  BY <1>1, <1>3, CalledIsTouched DEF CallsAreCounted
<1>4. late' \subseteq Requests /\ LateAreCounted'
  BY <1>1, <1>2, <1>3 DEF TypeOK, LateAreCounted
<1>5. TypeOK' /\ CallsAreDistinct' /\ CallsAreCounted' /\ WrittenOnce'
  BY <1>1, <1>2, <1>4
     DEF TypeOK, CallsAreDistinct, CallsAreCounted, WrittenOnce, Idle
<1>6. \A q \in Requests :
        row[q].status \in {"NONE", "PENDING", "DENIED", "EXPIRED"} => Untouched(q)'
  BY <1>1, <1>2, <1>3 DEF RowsAreTrue, Untouched, CallsOf, Idle
<1>7. RowsAreTrue(row)'
  BY <1>1, <1>2, <1>6 DEF RowsAreTrue
<1> QED
  BY <1>4, <1>5, <1>7 DEF OncePerRequest

-------------------------------------------------------------------------------
(* The inductive invariant of the queue: a request is called for by one        *)
(* approval, and its row claims no more than is so of Drive.                   *)
THEOREM RequestsAreCalledOnce == Spec => []OncePerRequest
<1>1. OncePerRequest /\ [Next]_vars => OncePerRequest'
  <2> SUFFICES ASSUME OncePerRequest, [Next]_vars PROVE OncePerRequest'
    OBVIOUS
  <2>1. ASSUME NEW r \in Requests, Request(r) \/ Age(r) \/ Deny(r) \/ WritesLate(r)
        PROVE  OncePerRequest'
    BY <2>1, QueueStepKeeps, WritesLateKeeps
  <2>2. ASSUME NEW a \in Approvers, NEW r \in Requests, Approve(a, r) PROVE OncePerRequest'
    BY <2>2, ApproveKeeps
  <2>3. ASSUME NEW a \in Approvers,
               DriveWrites(a) \/ DriveRefuses(a) \/ AnswerLost(a) \/ Record(a)
        PROVE  OncePerRequest'
    BY <2>3, DriveStepKeeps, RecordKeeps
  <2>4. CASE Look
    <3>1. RowsAreTrue(Cleaned(row))
      BY CleanedIsTrue DEF OncePerRequest
    <3> QED
      BY <2>4, <3>1, RowsWritten DEF Look
  <2>5. CASE Crash
    BY <2>5, CrashKeeps
  <2>6. CASE UNCHANGED vars
    BY <2>6, RowsWritten DEF vars, OncePerRequest
  <2> QED
    BY <2>1, <2>2, <2>3, <2>4, <2>5, <2>6 DEF Next
<1> QED
  BY <1>1, InitOncePerRequest, PTL DEF Spec

(* What was asked for once is in Drive once.                                   *)
THEOREM RequestsAreWrittenOnce == Spec => []WrittenOnce
BY RequestsAreCalledOnce, PTL DEF OncePerRequest

(* A request told as denied or expired has left nothing in Drive nor on its    *)
(* way there, whatever approvals it raced with.                                *)
THEOREM DeclinedRequestsWroteNothing == Spec => []DeclinedWroteNothing
<1>1. OncePerRequest => DeclinedWroteNothing
  BY DEF OncePerRequest, RowsAreTrue, Untouched, CallsOf, DeclinedWroteNothing
<1> QED
  BY <1>1, RequestsAreCalledOnce, PTL

(* The bytes of an upload last as long as the request is undecided.            *)
THEOREM BytesLastUntilDecided == Spec => []BytesGoWhenDecided
<1>1. OncePerRequest => BytesGoWhenDecided
  BY DEF OncePerRequest, RowsAreTrue, BytesGoWhenDecided
<1> QED
  BY <1>1, RequestsAreCalledOnce, PTL

-------------------------------------------------------------------------------
(* The queue keeps the promise of ApprovedWrites: the state first, then what a *)
(* step may do to one request.                                                 *)

SentSays ==
  \A r \in Requests :
    /\ row[r].status \in {"NONE", "PENDING", "EXECUTING"} \cup Decided
    /\ made[r] \in {0, 1}
    /\ row[r].status \in {"NONE", "PENDING", "DENIED", "EXPIRED"}
         => made[r] = 0 /\ ~UnderWay(r)
    /\ row[r].status = "APPROVED" => made[r] = 1
    /\ UnderWay(r) => made[r] = 0

LEMMA SentIsSo == OncePerRequest => SentSays
<1> SUFFICES ASSUME OncePerRequest, NEW r \in Requests
             PROVE  /\ row[r].status \in {"NONE", "PENDING", "EXECUTING"} \cup Decided
                    /\ made[r] \in {0, 1}
                    /\ row[r].status \in {"NONE", "PENDING", "DENIED", "EXPIRED"}
                         => made[r] = 0 /\ ~UnderWay(r)
                    /\ row[r].status = "APPROVED" => made[r] = 1
                    /\ UnderWay(r) => made[r] = 0
  BY DEF SentSays
<1>1. row[r] \in Rows /\ made[r] \in Nat /\ made[r] <= 1
  BY DEF OncePerRequest, TypeOK, WrittenOnce
<1>2. Untouched(r) => ~UnderWay(r)
  BY DEF Untouched, CallsOf, UnderWay
<1>3. UnderWay(r) => made[r] = 0
  BY DEF OncePerRequest, CallsAreCounted, LateAreCounted, UnderWay
<1> QED
  BY <1>1, <1>2, <1>3 DEF OncePerRequest, RowsAreTrue, Untouched, Rows

(* Drive, for a request.                                                       *)
DriveRests(r) == made'[r] = made[r] /\ (UnderWay(r)' <=> UnderWay(r))

RowMoves(was, is) ==
  \/ is = was
  \/ was = "NONE" /\ is = "PENDING"
  \/ was = "PENDING" /\ is \in {"DENIED", "EXPIRED"}
  \/ was = "EXECUTING" /\ is \in {"APPROVED", "FAILED", "PROVIDER_UNCERTAIN"}

Moves(r) ==
  LET was == row[r].status
      is  == row'[r].status
  IN \/ RowMoves(was, is) /\ DriveRests(r)
     \/ was = "PENDING" /\ is = "EXECUTING" /\ made'[r] = made[r] /\ UnderWay(r)'
     \/ is = was /\ UnderWay(r) /\ made'[r] = made[r] + 1
     \/ is = was /\ UnderWay(r) /\ ~UnderWay(r)' /\ made'[r] = made[r]

LEMMA MovesAreSteps ==
  ASSUME SentSays, SentSays', \A r \in Requests : Moves(r)
  PROVE  Promise!Next
<1> SUFFICES ASSUME NEW r \in Requests
             PROVE  Promise!Step(r)
  BY DEF Promise!Next
<1> DEFINE none  == {"NONE", "PENDING", "DENIED", "EXPIRED"}
           was   == row[r].status
           is    == row'[r].status
<1>1. Moves(r)
  OBVIOUS
<1>2. /\ Sent(r) = IF made[r] = 1 THEN "yes" ELSE IF UnderWay(r) THEN "maybe"
                   ELSE IF was \in none THEN "no" ELSE "never"
      /\ Sent(r)' = IF made'[r] = 1 THEN "yes" ELSE IF UnderWay(r)' THEN "maybe"
                    ELSE IF is \in none THEN "no" ELSE "never"
  BY DEF Sent, SentSays
<1>3. /\ Told("NONE") = "none" /\ Told("PENDING") = "pending"
      /\ Told("EXECUTING") = "approved" /\ Told("APPROVED") = "done"
      /\ Told("PROVIDER_UNCERTAIN") = "uncertain"
      /\ Told("FAILED") = "failed" /\ Told("DENIED") = "declined"
      /\ Told("EXPIRED") = "declined"
  BY DEF Told
<1>4. CASE is = was
  BY <1>1, <1>2, <1>3, <1>4
     DEF Moves, DriveRests, SentSays, Decided, Promise!Step, Promise!Rest, Promise!Turn,
         Promise!At, Promise!Becomes
<1>5. CASE is # was
  BY <1>1, <1>2, <1>3, <1>5
     DEF Moves, RowMoves, DriveRests, SentSays, Decided, Promise!Step, Promise!Ask,
         Promise!Decline, Promise!Approve, Promise!Tell, Promise!At, Promise!Becomes
<1> QED
  BY <1>4, <1>5

(* A step of the queue alone, which cleans it up first, perhaps.               *)
LEMMA CleanedMoves ==
  ASSUME OncePerRequest, NEW r \in Requests
  PROVE  /\ RowMoves(row[r].status, Cleaned(row)[r].status)
         /\ Cleaned(row)[r].status \in {"NONE", "PENDING"}
              => row[r].status = Cleaned(row)[r].status
         /\ Cleaned(row) \in [Requests -> Rows]
<1> DEFINE status == IF row[r].old THEN StatusOfOld(row[r].status) ELSE row[r].status
<1>1. row[r] \in Rows /\ RowsAreTrue(row)
  BY DEF OncePerRequest, RowsAreTrue
<1>2. Cleaned(row)[r].status = status
  <2>1. Cleaned(row)[r] = [row[r] EXCEPT !.status = status, !.bytes = Purged(@, status)]
    BY DEF Cleaned
  <2> HIDE DEF status
  <2> QED
    BY <1>1, <2>1 DEF Rows
<1>3. Cleaned(row) \in [Requests -> Rows]
  BY <1>1, CleanedIsTrue DEF RowsAreTrue
<1> QED
  BY <1>1, <1>2, <1>3 DEF StatusOfOld, RowMoves, Rows, Decided

LEMMA QueueMoves ==
  ASSUME OncePerRequest, NEW q \in Requests, Request(q) \/ Age(q) \/ Deny(q) \/ Look,
         NEW r \in Requests
  PROVE  Moves(r)
<1> DEFINE rows == Cleaned(row)
<1>1. DriveRests(r)
  BY DEF Request, Age, Deny, Look, DriveRests, UnderWay
<1>2. /\ RowMoves(row[r].status, rows[r].status)
      /\ rows \in [Requests -> Rows] /\ row \in [Requests -> Rows]
      /\ rows[q].status \in {"NONE", "PENDING"} => row[q].status = rows[q].status
  BY CleanedMoves DEF OncePerRequest, TypeOK
<1>3. CASE Request(q)
  <2>1. /\ rows[q].status = "NONE"
        /\ row' = [rows EXCEPT ![q] = [status |-> "PENDING", old |-> FALSE, bytes |-> TRUE]]
    BY <1>3 DEF Request
  <2> HIDE DEF rows
  <2> QED
    BY <1>1, <1>2, <2>1 DEF Moves, RowMoves
<1>4. CASE Age(q)
  <2>1. row'[r].status = row[r].status
    BY <1>2, <1>4 DEF Age, Rows
  <2> QED
    BY <1>1, <2>1 DEF Moves, RowMoves
<1>5. CASE Deny(q)
  <2>1. /\ rows[q].status = "PENDING"
        /\ row' = [rows EXCEPT ![q].status = "DENIED", ![q].bytes = FALSE]
    BY <1>5 DEF Deny
  <2> HIDE DEF rows
  <2>2. row'[q].status = "DENIED" /\ (r # q => row'[r] = rows[r])
    BY <1>2, <2>1 DEF Rows
  <2> QED
    BY <1>1, <1>2, <2>1, <2>2 DEF Moves, RowMoves
<1>6. CASE Look
  BY <1>1, <1>2, <1>6 DEF Look, Moves
<1> QED
  BY <1>3, <1>4, <1>5, <1>6

LEMMA ApproveMoves ==
  ASSUME OncePerRequest, NEW a \in Approvers, NEW q \in Requests, Approve(a, q),
         NEW r \in Requests
  PROVE  Moves(r)
<1> DEFINE rows == Cleaned(row)
<1>1. /\ handler \in [Approvers -> [pc : {"idle", "calling", "done", "refused", "lost"},
                                     req : Requests \cup {None}]]
      /\ RowMoves(row[r].status, rows[r].status) /\ rows \in [Requests -> Rows]
      /\ rows[q].status \in {"NONE", "PENDING"} => row[q].status = rows[q].status
  BY CleanedMoves DEF OncePerRequest, TypeOK
<1>2. /\ handler[a] = Idle /\ rows[q].status = "PENDING"
      /\ row' = [rows EXCEPT ![q].status = "EXECUTING", ![q].old = FALSE]
      /\ handler' = [handler EXCEPT ![a] = [pc |-> "calling", req |-> q]]
      /\ UNCHANGED <<late, made>>
  BY DEF Approve, Claimable
<1> HIDE DEF rows
<1>3. /\ handler'[a] = [pc |-> "calling", req |-> q]
      /\ \A b \in Approvers \ {a} : handler'[b] = handler[b]
      /\ row'[q].status = "EXECUTING" /\ (r # q => row'[r] = rows[r])
  BY <1>1, <1>2 DEF Rows
<1>4. CASE r = q
  <2>1. UnderWay(r)'
    BY <1>3, <1>4 DEF UnderWay
  <2> QED
    BY <1>1, <1>2, <1>3, <1>4, <2>1 DEF Moves
<1>5. CASE r # q
  <2>1. handler[a] # [pc |-> "calling", req |-> r] /\ handler'[a] # [pc |-> "calling", req |-> r]
    BY <1>2, <1>3, <1>5 DEF Idle
  <2>2. DriveRests(r)
    BY <1>2, <1>3, <2>1 DEF DriveRests, UnderWay
  <2> QED
    BY <1>1, <1>3, <1>5, <2>2 DEF Moves
<1> QED
  BY <1>4, <1>5

(* Drive acts or refuses, its answer is lost, or it is recorded.               *)
LEMMA CallMoves ==
  ASSUME OncePerRequest, NEW a \in Approvers,
         DriveWrites(a) \/ DriveRefuses(a) \/ AnswerLost(a) \/ Record(a), NEW r \in Requests
  PROVE  Moves(r)
<1>1. /\ handler[a].pc # "idle" /\ TypeOK /\ CallsAreDistinct /\ CallsAreCounted
  BY DEF DriveWrites, DriveRefuses, AnswerLost, Record, OncePerRequest
<1>2. PICK q \in Requests : /\ q = handler[a].req
                            /\ \A b \in Approvers \ {a} : handler[b].req # q
  BY <1>1, CalledIsTouched DEF CallsAreDistinct
<1>3. \A b \in Approvers \ {a} : handler'[b] = handler[b]
  BY <1>1 DEF TypeOK, DriveWrites, DriveRefuses, AnswerLost, Record
<1>4. CASE r # q
  <2>1. made'[r] = made[r] /\ (r \in late' <=> r \in late) /\ row'[r] = row[r]
    BY <1>1, <1>2, <1>4 DEF TypeOK, DriveWrites, DriveRefuses, AnswerLost, Record
  <2>2. handler[a].req # r /\ handler'[a].req # r
    BY <1>1, <1>2, <1>4 DEF TypeOK, DriveWrites, DriveRefuses, AnswerLost, Record, Idle
  <2>3. DriveRests(r)
    BY <1>3, <2>1, <2>2 DEF DriveRests, UnderWay
  <2> QED
    BY <2>1, <2>3 DEF Moves, RowMoves
<1>5. /\ UnderWay(q) <=> q \in late \/ handler[a].pc = "calling"
      /\ UnderWay(q)' <=> q \in late' \/ handler'[a] = [pc |-> "calling", req |-> q]
  <2>1. \A b \in Approvers \ {a} : /\ handler[b] # [pc |-> "calling", req |-> q]
                                   /\ handler'[b] # [pc |-> "calling", req |-> q]
    BY <1>2, <1>3
  <2>2. handler[a] = [pc |-> "calling", req |-> q] <=> handler[a].pc = "calling"
    <3>1. handler[a] = [pc |-> handler[a].pc, req |-> q]
      BY <1>1, <1>2 DEF TypeOK
    <3> QED
      BY <3>1
  <2> QED
    BY <2>1, <2>2 DEF UnderWay
<1>6. handler[a].pc = "calling" => q \notin late
  BY <1>1, <1>2 DEF CallsAreCounted
<1>7. CASE DriveWrites(a)
  <2>1. made'[q] = made[q] + 1 /\ row' = row /\ UnderWay(q)
    BY <1>1, <1>2, <1>5, <1>7 DEF DriveWrites, TypeOK
  <2> QED
    BY <1>4, <2>1 DEF Moves
<1>8. CASE DriveRefuses(a)
  <2>1. handler[a].pc = "calling" /\ handler'[a].pc = "refused"
        /\ UNCHANGED <<row, late, made>>
    BY <1>1, <1>8 DEF DriveRefuses, TypeOK
  <2>2. UnderWay(q) /\ ~UnderWay(q)'
    BY <1>5, <1>6, <2>1
  <2> QED
    BY <1>4, <2>1, <2>2 DEF Moves
<1>9. CASE AnswerLost(a)
  <2>1. /\ handler'[a].pc = "lost" /\ UNCHANGED <<row, made>>
        /\ late' = IF handler[a].pc = "calling" THEN late \cup {q} ELSE late
    BY <1>1, <1>2, <1>9 DEF AnswerLost, TypeOK
  <2>2. UnderWay(q)' <=> UnderWay(q)
    BY <1>5, <2>1
  <2> QED
    BY <1>4, <2>1, <2>2 DEF Moves, RowMoves, DriveRests
<1>10. CASE Record(a)
  <2>1. /\ handler[a].pc \in {"done", "refused", "lost"} /\ handler'[a] = Idle
        /\ UNCHANGED <<late, made>>
    BY <1>1, <1>10 DEF Record, TypeOK
  <2>2. PICK outcome \in Outcomes(handler[a].pc) :
          row'[q].status = IF row[q].status = "EXECUTING" THEN outcome ELSE row[q].status
    BY <1>1, <1>2, <1>10 DEF Record, TypeOK, Rows
  <2>3. outcome \in {"APPROVED", "FAILED", "PROVIDER_UNCERTAIN"}
    BY <2>1 DEF Outcomes
  <2>4. DriveRests(q)
    BY <1>5, <2>1 DEF DriveRests, Idle
  <2> QED
    BY <1>4, <2>2, <2>3, <2>4 DEF Moves, RowMoves
<1> QED
  BY <1>7, <1>8, <1>9, <1>10

LEMMA NextMoves ==
  ASSUME OncePerRequest, [Next]_vars, NEW r \in Requests
  PROVE  Moves(r)
<1>1. ASSUME NEW q \in Requests, WritesLate(q) PROVE Moves(r)
  <2>1. /\ UNCHANGED <<row, handler>> /\ q \in late /\ late' = late \ {q}
        /\ made' = [made EXCEPT ![q] = @ + 1] /\ made \in [Requests -> Nat]
    BY <1>1 DEF WritesLate, OncePerRequest, TypeOK
  <2>2. CASE r = q
    BY <2>1, <2>2 DEF Moves, UnderWay
  <2>3. CASE r # q
    BY <2>1, <2>3 DEF Moves, RowMoves, DriveRests, UnderWay
  <2> QED
    BY <2>2, <2>3
<1>2. CASE Crash
  <2>1. /\ handler' = [a \in Approvers |-> Idle] /\ UNCHANGED <<row, made>>
        /\ late' = late \cup {handler[a].req : a \in {b \in Approvers : handler[b].pc = "calling"}}
    BY <1>2 DEF Crash
  <2>2. \A a \in Approvers : handler[a] = [pc |-> "calling", req |-> r]
                               <=> handler[a].pc = "calling" /\ handler[a].req = r
    <3>1. ASSUME NEW a \in Approvers
          PROVE  handler[a] = [pc |-> handler[a].pc, req |-> handler[a].req]
      BY DEF OncePerRequest, TypeOK
    <3> QED
      BY <3>1
  <2>3. UnderWay(r)' <=> UnderWay(r)
    BY <2>1, <2>2 DEF UnderWay, Idle
  <2> QED
    BY <2>1, <2>3 DEF Moves, RowMoves, DriveRests
<1>3. CASE UNCHANGED vars
  BY <1>3 DEF vars, Moves, RowMoves, DriveRests, UnderWay
<1> QED
  BY <1>1, <1>2, <1>3, QueueMoves, ApproveMoves, CallMoves DEF Next

(* A write waits for a person's yes, is in Drive once at most, and what its    *)
(* row says of Drive stays true, through time-outs, late calls and crashes.    *)
THEOREM WritesKeepThePromise == Spec => WritesAsPromised
<1>1. Init => Promise!Init
  BY DEF Init, Promise!Init, Told, Sent, UnderWay, Idle
<1>2. SentSays /\ SentSays' /\ OncePerRequest /\ [Next]_vars
        => [Promise!Next]_<<[r \in Requests |-> Told(row[r].status)],
                            [r \in Requests |-> Sent(r)]>>
  BY NextMoves, MovesAreSteps
<1> QED
  BY <1>1, <1>2, SentIsSo, RequestsAreCalledOnce, PTL
     DEF Spec, WritesAsPromised, Promise!Spec
===============================================================================
