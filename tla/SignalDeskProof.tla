---------------------------- MODULE SignalDeskProof ----------------------------
(* Proofs about SignalDesk, for any lists, files and versions, and any number  *)
(* of editors, requests and approvals.                                         *)
EXTENDS SignalDesk, TLAPS

USE PostsAssumption

-------------------------------------------------------------------------------
(* The post and its editors.                                                   *)

Edits == [pc : {"idle", "read", "resolving", "writing"}, kind : {"EDIT", "RECHECK"},
          list : Lists \cup {"none"}, file : Files \cup {"none"}, wants : SUBSET Files,
          expects : 0 .. (MaxRevision - 1), based : 0 .. MaxRevision,
          carried : Contents, found : Contents, saw : [Lists -> SUBSET Files],
          crossed : BOOLEAN]

(* While the revision its caller read is the post's, and no recheck has put a  *)
(* list back, the post is as its caller saw it.                                *)
ReadingIsTrue(o) ==
  /\ o.pc = "read" => o.kind = "EDIT"
  /\ o.pc = "writing" => Holds(o.found) = o.wants
  /\ o.pc # "idle" /\ o.kind = "EDIT" =>
       /\ o.expects <= revision
       /\ o.expects = revision /\ ~o.crossed => o.saw = Shown

(* An edit holds versions that Drive has had, and expects a revision that may  *)
(* still be followed by another.                                               *)
EditsHoldVersions ==
  /\ edit \in [Editors -> Edits]
  /\ \A e \in Editors :
       /\ edit[e].pc \in {"resolving", "writing"} => edit[e].list \in Lists
       /\ \A f \in Files : edit[e].carried[f] <= drive[f] /\ edit[e].found[f] <= drive[f]
       /\ ReadingIsTrue(edit[e])

PostHoldsVersions ==
  /\ revision \in 1 .. MaxRevision
  /\ stored \in [Lists -> Contents]
  /\ drive \in [Files -> 1 .. MaxVersion]
  /\ \A l \in Lists, f \in Files : stored[l][f] <= drive[f]

VersionsAreKnown == PostHoldsVersions /\ EditsHoldVersions

LEMMA InitVersions == PostsInit => VersionsAreKnown
BY DEF PostsInit, VersionsAreKnown, PostHoldsVersions, EditsHoldVersions, Edits, Idle, Contents,
       Absent, ReadingIsTrue

(* What a request becomes, the post aside.                                     *)
LEMMA EditWritten ==
  ASSUME VersionsAreKnown, UNCHANGED <<revision, stored, drive>>, NEW e \in Editors,
         NEW o \in Edits, edit' = [edit EXCEPT ![e] = o],
         o.pc \in {"resolving", "writing"} => o.list \in Lists,
         \A f \in Files : o.carried[f] <= drive[f] /\ o.found[f] <= drive[f],
         ReadingIsTrue(o)
  PROVE  VersionsAreKnown'
<1>1. PostHoldsVersions'
  BY DEF VersionsAreKnown, PostHoldsVersions
<1>2. edit' \in [Editors -> Edits] /\ edit'[e] = o
      /\ \A d \in Editors \ {e} : edit'[d] = edit[d]
  BY DEF VersionsAreKnown, EditsHoldVersions
<1>3. EditsHoldVersions'
  BY <1>2 DEF VersionsAreKnown, EditsHoldVersions, ReadingIsTrue, Shown
<1> QED
  BY <1>1, <1>3 DEF VersionsAreKnown

LEMMA IdleHoldsNothing ==
  ASSUME VersionsAreKnown
  PROVE  /\ Idle \in Edits /\ Idle.pc = "idle" /\ Idle.kind = "EDIT" /\ ReadingIsTrue(Idle)
         /\ \A f \in Files : Idle.carried[f] <= drive[f] /\ Idle.found[f] <= drive[f]
BY DEF VersionsAreKnown, PostHoldsVersions, Edits, Idle, Contents, Absent, ReadingIsTrue

LEMMA EditStepKeeps ==
  ASSUME VersionsAreKnown, NEW e \in Editors, EditStep(e)
  PROVE  VersionsAreKnown'
<1>1. /\ revision \in 1 .. MaxRevision /\ stored \in [Lists -> Contents]
      /\ drive \in [Files -> 1 .. MaxVersion] /\ edit[e] \in Edits
      /\ \A l \in Lists, f \in Files : stored[l][f] <= drive[f]
      /\ edit[e].pc \in {"resolving", "writing"} => edit[e].list \in Lists
      /\ \A f \in Files : edit[e].carried[f] <= drive[f] /\ edit[e].found[f] <= drive[f]
      /\ ReadingIsTrue(edit[e])
  BY DEF VersionsAreKnown, PostHoldsVersions, EditsHoldVersions
<1>2. ASSUME revision < MaxRevision, Read(e) PROVE VersionsAreKnown'
  <2> DEFINE o == [Idle EXCEPT !.pc = "read", !.expects = revision, !.saw = Shown]
  <2>1. edit' = [edit EXCEPT ![e] = o] /\ UNCHANGED <<revision, stored, drive>>
    BY <1>2 DEF Read
  <2>2. /\ o \in Edits /\ o.pc = "read"
        /\ o.carried = Idle.carried /\ o.found = Idle.found /\ o.kind = Idle.kind
        /\ o.expects = revision /\ o.saw = Shown
    <3>1. /\ Idle \in Edits /\ revision \in 0 .. (MaxRevision - 1)
          /\ Shown \in [Lists -> SUBSET Files]
      BY <1>1, <1>2, IdleHoldsNothing DEF Shown, Holds
    <3> QED
      BY ONLY <3>1 DEF Edits
  <2> HIDE DEF o
  <2>3. ReadingIsTrue(o)
    BY <1>1, <2>2, IdleHoldsNothing DEF ReadingIsTrue
  <2> QED
    BY <2>1, <2>2, <2>3, EditWritten, IdleHoldsNothing
<1>3. ASSUME NEW l \in Lists, NEW wants \in SUBSET Files, Begin(e, l, wants)
      PROVE  VersionsAreKnown'
  <2> DEFINE o == [edit[e] EXCEPT !.pc = "resolving", !.kind = "EDIT", !.list = l,
                                  !.wants = wants, !.carried = stored[l], !.based = revision]
  <2>1. edit' = [edit EXCEPT ![e] = o] /\ UNCHANGED <<revision, stored, drive>>
    BY <1>3 DEF Begin
  <2>2. /\ o \in Edits /\ o.list = l /\ o.carried = stored[l] /\ o.found = edit[e].found
        /\ o.pc = "resolving" /\ o.expects = edit[e].expects /\ o.saw = edit[e].saw
        /\ o.crossed = edit[e].crossed
    <3>1. stored[l] \in Contents /\ revision \in 0 .. MaxRevision
      BY <1>1
    <3> QED
      BY ONLY <1>1, <3>1, l \in Lists, wants \in SUBSET Files DEF Edits
  <2> HIDE DEF o
  <2>3. ReadingIsTrue(o)
    BY <1>1, <1>3, <2>2 DEF Begin, ReadingIsTrue
  <2> QED
    BY <1>1, <2>1, <2>2, <2>3, EditWritten
<1>4. ASSUME NEW l \in Lists, NEW f \in Files, BeginRecheck(e, l, f)
      PROVE  VersionsAreKnown'
  <2> DEFINE o == [Idle EXCEPT !.pc = "resolving", !.kind = "RECHECK", !.list = l,
                               !.file = f, !.wants = Holds(stored[l]), !.carried = stored[l]]
  <2>1. edit' = [edit EXCEPT ![e] = o] /\ UNCHANGED <<revision, stored, drive>>
    BY <1>4 DEF BeginRecheck
  <2>2. /\ o \in Edits /\ o.list = l /\ o.carried = stored[l] /\ o.found = Idle.found
        /\ o.pc = "resolving" /\ o.kind = "RECHECK"
    <3>1. Idle \in Edits /\ stored[l] \in Contents /\ Holds(stored[l]) \in SUBSET Files
      BY <1>1, IdleHoldsNothing DEF Holds
    <3> QED
      BY ONLY <3>1, l \in Lists, f \in Files DEF Edits
  <2> HIDE DEF o
  <2> QED
    BY <1>1, <2>1, <2>2, EditWritten, IdleHoldsNothing DEF ReadingIsTrue
<1>5. CASE Resolve(e)
  <2> DEFINE found == [f \in Files |->
                         IF f \notin edit[e].wants THEN Absent
                         ELSE IF CarriedForward(edit[e], f) THEN edit[e].carried[f]
                              ELSE drive[f]]
             o == [edit[e] EXCEPT !.pc = "writing", !.found = found]
  <2>1. edit[e].pc = "resolving" /\ UNCHANGED <<revision, stored, drive>>
    BY <1>5 DEF Resolve
  <2>2. edit' = [edit EXCEPT ![e] = o]
    BY <1>5 DEF Resolve
  <2>3. /\ found \in Contents /\ \A f \in Files : found[f] <= drive[f]
        /\ Holds(found) = edit[e].wants
    <3>1. found \in Contents /\ \A f \in Files : found[f] <= drive[f]
      BY <1>1 DEF Contents, Absent, Edits
    <3>2. ASSUME NEW f \in Files PROVE found[f] # Absent <=> f \in edit[e].wants
      BY <1>1 DEF CarriedForward, Absent
    <3>3. edit[e].wants \in SUBSET Files
      BY <1>1 DEF Edits
    <3> HIDE DEF found
    <3> QED
      BY <3>1, <3>2, <3>3 DEF Holds
  <2> HIDE DEF found
  <2>4. /\ o \in Edits /\ o.list = edit[e].list /\ o.carried = edit[e].carried /\ o.found = found
        /\ o.pc = "writing" /\ o.kind = edit[e].kind /\ o.wants = edit[e].wants
        /\ o.expects = edit[e].expects /\ o.saw = edit[e].saw /\ o.crossed = edit[e].crossed
    BY <1>1, <2>3 DEF Edits
  <2> HIDE DEF o
  <2>5. ReadingIsTrue(o)
    BY <1>1, <2>1, <2>3, <2>4 DEF ReadingIsTrue
  <2> QED
    BY <1>1, <2>1, <2>2, <2>3, <2>4, <2>5, EditWritten
<1>6. CASE Write(e)
  <2> DEFINE o == edit[e]
  <2>1. /\ o.pc = "writing" /\ drive' = drive
        /\ \/ stored' = [stored EXCEPT ![o.list] = o.found]
           \/ stored' = stored /\ revision' = revision /\ o.kind = "EDIT"
        /\ \/ revision' = revision /\ (stored' = stored \/ o.kind # "EDIT")
           \/ revision' = revision + 1 /\ revision = o.expects /\ o.kind = "EDIT"
        /\ edit' = [x \in Editors |->
                     IF x = e THEN Idle
                     ELSE IF Reverts(o) /\ edit[x].kind = "EDIT" /\ edit[x].pc # "idle"
                          THEN [edit[x] EXCEPT !.crossed = TRUE] ELSE edit[x]]
    BY <1>6 DEF Write, RevisionHolds
  <2>2. /\ o.found \in Contents /\ o.expects \in 0 .. (MaxRevision - 1) /\ o.list \in Lists
        /\ Holds(o.found) = o.wants /\ o.kind \in {"EDIT", "RECHECK"}
    BY <1>1, <2>1 DEF Edits, ReadingIsTrue
  <2> HIDE DEF o
  <2>3. revision' \in 1 .. MaxRevision
    BY <1>1, <2>1, <2>2
  <2>4. stored' \in [Lists -> Contents] /\ \A l \in Lists, f \in Files : stored'[l][f] <= drive[f]
    BY <1>1, <2>1, <2>2 DEF o
  <2>5. PostHoldsVersions'
    BY <1>1, <2>1, <2>3, <2>4 DEF PostHoldsVersions
  <2>6. revision' = revision /\ ~Reverts(o) => Shown' = Shown
    BY <1>1, <2>1, <2>2 DEF Shown, Reverts
  <2>7. ASSUME NEW x \in Editors
        PROVE  /\ edit'[x] \in Edits
               /\ edit'[x].pc \in {"resolving", "writing"} => edit'[x].list \in Lists
               /\ \A f \in Files : /\ edit'[x].carried[f] <= drive'[f]
                                   /\ edit'[x].found[f] <= drive'[f]
               /\ ReadingIsTrue(edit[x])'
    <3>1. /\ edit[x] \in Edits
          /\ edit[x].pc \in {"resolving", "writing"} => edit[x].list \in Lists
          /\ \A f \in Files : edit[x].carried[f] <= drive[f] /\ edit[x].found[f] <= drive[f]
          /\ ReadingIsTrue(edit[x])
      BY DEF VersionsAreKnown, EditsHoldVersions
    <3>2. CASE x = e
      BY <2>1, <3>2, IdleHoldsNothing DEF ReadingIsTrue
    <3>3. CASE x # e /\ edit'[x] = edit[x]
      <4>1. ReadingIsTrue(edit[x])'
        <5>1. CASE revision' = revision /\ ~Reverts(o)
          BY <2>6, <3>1, <3>3, <5>1 DEF ReadingIsTrue
        <5>2. CASE revision' = revision + 1
          BY <1>1, <3>1, <3>3, <5>2 DEF ReadingIsTrue, Edits
        <5>3. CASE Reverts(o)
          <6>1. edit[x].kind # "EDIT" \/ edit[x].pc = "idle" \/ edit[x].crossed
            <7>1. SUFFICES ASSUME edit[x].kind = "EDIT", edit[x].pc # "idle"
                           PROVE  edit[x].crossed
              OBVIOUS
            <7>2. edit'[x] = [edit[x] EXCEPT !.crossed = TRUE]
              BY <2>1, <3>3, <5>3, <7>1
            <7> QED
              BY <3>1, <3>3, <7>2 DEF Edits
          <6>2. revision' = revision
            BY <2>1, <5>3 DEF Reverts
          <6> QED
            BY <3>1, <3>3, <6>1, <6>2 DEF ReadingIsTrue
        <5> QED
          BY <2>1, <5>1, <5>2, <5>3
      <4> QED
        BY <2>1, <3>1, <3>3, <4>1
    <3>4. CASE x # e /\ Reverts(o) /\ edit'[x] = [edit[x] EXCEPT !.crossed = TRUE]
      <4>1. /\ edit'[x] \in Edits /\ edit'[x].pc = edit[x].pc /\ edit'[x].list = edit[x].list
            /\ edit'[x].carried = edit[x].carried /\ edit'[x].found = edit[x].found
            /\ edit'[x].kind = edit[x].kind /\ edit'[x].wants = edit[x].wants
            /\ edit'[x].expects = edit[x].expects /\ edit'[x].crossed
        BY <3>1, <3>4 DEF Edits
      <4>2. revision' = revision
        BY <2>1, <3>4 DEF Reverts
      <4> QED
        BY <2>1, <3>1, <4>1, <4>2 DEF ReadingIsTrue
    <3> QED
      BY <2>1, <3>2, <3>3, <3>4
  <2>8. EditsHoldVersions'
    <3>1. edit' \in [Editors -> Edits]
      BY <2>1, <2>7
    <3> QED
      BY <2>7, <3>1 DEF EditsHoldVersions
  <2> QED
    BY <2>5, <2>8 DEF VersionsAreKnown
<1>7. CASE Fail(e)
  BY <1>7, EditWritten, IdleHoldsNothing DEF Fail
<1> QED
  BY <1>2, <1>3, <1>4, <1>5, <1>6, <1>7 DEF EditStep

LEMMA DriveChangesKeeps ==
  ASSUME VersionsAreKnown, NEW f \in Files, DriveChanges(f)
  PROVE  VersionsAreKnown'
<1>1. drive' \in [Files -> 1 .. MaxVersion] /\ \A g \in Files : drive[g] <= drive'[g]
  BY DEF VersionsAreKnown, PostHoldsVersions, DriveChanges
<1>2. UNCHANGED <<revision, stored, edit>> /\ drive \in [Files -> 1 .. MaxVersion]
  BY DEF DriveChanges, VersionsAreKnown, PostHoldsVersions
<1>3. \A l \in Lists : stored[l] \in [Files -> 0 .. MaxVersion]
  BY DEF VersionsAreKnown, PostHoldsVersions, Contents, Absent
<1>4. \A e \in Editors : /\ edit[e].carried \in [Files -> 0 .. MaxVersion]
                         /\ edit[e].found \in [Files -> 0 .. MaxVersion]
  BY DEF VersionsAreKnown, EditsHoldVersions, Edits, Contents, Absent
<1>5. PostHoldsVersions'
  BY <1>1, <1>2, <1>3 DEF VersionsAreKnown, PostHoldsVersions
<1>6. EditsHoldVersions'
  BY <1>1, <1>2, <1>4 DEF VersionsAreKnown, EditsHoldVersions, ReadingIsTrue, Shown
<1> QED
  BY <1>5, <1>6 DEF VersionsAreKnown

LEMMA PostsKeep == VersionsAreKnown /\ [Next]_vars => VersionsAreKnown'
<1> SUFFICES ASSUME VersionsAreKnown, [Next]_vars PROVE VersionsAreKnown'
  OBVIOUS
<1>1. CASE PostsNext
  BY <1>1, EditStepKeeps, DriveChangesKeeps DEF PostsNext
<1>2. CASE Stops
  <2>1. edit' = [e \in Editors |-> Idle] /\ UNCHANGED <<revision, stored, drive>>
    BY <1>2 DEF Stops
  <2>2. EditsHoldVersions'
    BY <2>1, IdleHoldsNothing DEF EditsHoldVersions, ReadingIsTrue
  <2> QED
    BY <2>1, <2>2 DEF VersionsAreKnown, PostHoldsVersions
<1>3. CASE UNCHANGED postVars
  BY <1>3 DEF postVars, VersionsAreKnown, PostHoldsVersions, EditsHoldVersions, ReadingIsTrue,
              Shown
<1> QED
  BY <1>1, <1>2, <1>3 DEF Next, vars

(* An edit replaces the lists that its caller saw, unless a recheck has put an *)
(* older list back since.                                                      *)
THEOREM EditsFollowTheirReading == Spec => EditsReplaceWhatWasSeen
<1> DEFINE Replaces == \A e \in Editors :
                         Writes(e) /\ edit[e].kind = "EDIT" /\ revision' # revision
                           => Shown = edit[e].saw \/ edit[e].crossed
<1>1. VersionsAreKnown /\ [Next]_vars => Replaces
  <2> SUFFICES ASSUME VersionsAreKnown, [Next]_vars, NEW e \in Editors,
                      Writes(e), edit[e].kind = "EDIT", revision' # revision
               PROVE  Shown = edit[e].saw \/ edit[e].crossed
    OBVIOUS
  <2>1. PICK x \in Editors : Write(x)
    <3>1. PostsNext
      BY DEF Next, vars, postVars, Stops
    <3>2. PICK x \in Editors : EditStep(x)
      BY <3>1 DEF PostsNext, DriveChanges
    <3> QED
      BY <3>2 DEF EditStep, Read, Begin, BeginRecheck, Resolve, Fail
  <2>2. edit[e] \in Edits /\ ReadingIsTrue(edit[e])
    BY DEF VersionsAreKnown, EditsHoldVersions
  <2>3. x = e
    <3>1. SUFFICES ASSUME x # e PROVE FALSE
      OBVIOUS
    <3>2. edit'[e] = edit[e] \/ edit'[e] = [edit[e] EXCEPT !.crossed = TRUE]
      BY <2>1, <3>1 DEF Write
    <3>3. edit'[e].pc = edit[e].pc
      BY <2>2, <3>2 DEF Edits
    <3> QED
      BY <3>3 DEF Writes
  <2>4. edit[e].expects = revision
    BY <2>1, <2>3 DEF Write, RevisionHolds
  <2> QED
    BY <2>2, <2>4 DEF Writes, ReadingIsTrue
<1>2. Init => VersionsAreKnown
  BY InitVersions DEF Init
<1>3. Spec => []VersionsAreKnown
  BY <1>2, PostsKeep, PTL DEF Spec
<1>4. Spec => [][Replaces]_vars
  BY <1>1, <1>3, PTL DEF Spec
<1> QED
  BY <1>4 DEF EditsReplaceWhatWasSeen

-------------------------------------------------------------------------------
(* The requests and those who approve them.                                    *)

Plans == [Lists -> Contents] \cup {NoPlan}

RequestRows == [status : Desk!Statuses \cup {"NONE"}, plan : Plans]

Approvals == [pc : {"idle", "claimed", "previewed", "uploading", "sent", "checking", "decided"},
              req : Requests \cup {NoPlan}, plan : Plans,
              outcome : Desk!Statuses \cup {"NONE"}]

PublicationRows ==
  [state : PublicationState \cup {"NONE"}, known : BOOLEAN, plan : Plans, count : Nat]

RowsAreTyped ==
  /\ request \in [Requests -> RequestRows]
  /\ approval \in [Approvers -> Approvals]
  /\ publication \in [Requests -> PublicationRows]
  /\ reached \in [Requests -> {"no", "maybe", "yes", "never"}]

Of(a) == approval[a].req

(* The row of a publication, the plan asked for and what the provider made.    *)
RowIsTrue(asked, out, got) ==
  /\ out.state = "NONE" <=> got = "no"
  /\ out.state = "NONE" => out.count = 0
  /\ out.count <= 1
  /\ out.known => got = "yes"
  /\ out.state # "NONE" => out.plan = asked.plan

(* What the handler of an approval holds of them.                              *)
HandlerIsTrue(o, asked, out, got) ==
  /\ o.pc \in {"claimed", "previewed", "uploading"} => got = "no"
  /\ o.pc = "uploading" => o.plan = asked.plan
  /\ o.pc = "sent" => got # "no"
  /\ o.pc = "checking" => out.known
  /\ o.pc = "decided" =>
       /\ o.outcome \in {"APPROVED", "FAILED", "EXPIRED", "PROVIDER_UNCERTAIN"}
       /\ o.outcome = "EXPIRED" => got = "no"
       /\ o.outcome = "APPROVED" => got = "yes"
       /\ o.outcome = "PROVIDER_UNCERTAIN" => got # "no"

(* What the status of a request tells of them.                                 *)
StatusIsTrue(status, got) ==
  /\ status \in {"NONE", "PENDING", "DENIED", "EXPIRED"} => got = "no"
  /\ status = "APPROVED" => got = "yes"
  /\ status = "PROVIDER_UNCERTAIN" => got # "no"

(* A request under approval is in one pair of hands, and what those hold of it *)
(* is so.                                                                      *)
ApprovalIsTrue(a) ==
  approval[a].pc # "idle" =>
    /\ Of(a) \in Requests /\ request[Of(a)].status = "EXECUTING"
    /\ HandlerIsTrue(approval[a], request[Of(a)], publication[Of(a)], reached[Of(a)])

ApprovalsAreDistinct ==
  \A a, b \in Approvers :
    approval[a].pc # "idle" /\ approval[b].pc # "idle" /\ Of(a) = Of(b) => a = b

RequestIsTrue(r) ==
  /\ StatusIsTrue(request[r].status, reached[r])
  /\ RowIsTrue(request[r], publication[r], reached[r])

RequestsAreHandledOnce ==
  /\ RowsAreTyped
  /\ ApprovalsAreDistinct
  /\ \A a \in Approvers : ApprovalIsTrue(a)
  /\ \A r \in Requests : RequestIsTrue(r)

LEMMA InitHandledOnce == Desk!ConfirmationsInit => RequestsAreHandledOnce
BY DEF Desk!ConfirmationsInit, Desk!NoRequest, Desk!NoApproval, Desk!NoPublication,
       Desk!Statuses, RequestsAreHandledOnce, RowsAreTyped, ApprovalsAreDistinct, ApprovalIsTrue,
       RequestIsTrue, RowIsTrue, StatusIsTrue, RequestRows, Approvals, PublicationRows, Plans

(* A step on the row of a request that no approval has, and nothing else.      *)
LEMMA RequestWritten ==
  ASSUME RequestsAreHandledOnce, NEW r \in Requests, NEW row \in RequestRows,
         request' = [request EXCEPT ![r] = row], UNCHANGED <<approval, publication, reached>>,
         request[r].status # "EXECUTING", reached[r] = "no", row.status \in {"PENDING", "DENIED", "EXPIRED"}
  PROVE  RequestsAreHandledOnce'
<1>1. RowsAreTyped' /\ request'[r] = row /\ \A q \in Requests \ {r} : request'[q] = request[q]
  BY DEF RequestsAreHandledOnce, RowsAreTyped
<1>2. ApprovalsAreDistinct'
  BY DEF RequestsAreHandledOnce, ApprovalsAreDistinct, Of
<1>3. \A a \in Approvers : ApprovalIsTrue(a)'
  BY <1>1 DEF RequestsAreHandledOnce, ApprovalIsTrue, Of
<1>4. \A q \in Requests : RequestIsTrue(q)'
  BY <1>1 DEF RequestsAreHandledOnce, RequestIsTrue, RowIsTrue, StatusIsTrue
<1> QED
  BY <1>1, <1>2, <1>3, <1>4 DEF RequestsAreHandledOnce

LEMMA QueueKeeps ==
  ASSUME RequestsAreHandledOnce, PostHoldsVersions, NEW r \in Requests,
         Desk!Create(r) \/ Desk!Expire(r) \/ Desk!Deny(r)
  PROVE  RequestsAreHandledOnce'
<1>1. request[r] \in RequestRows /\ stored \in Plans
      /\ (request[r].status \in {"NONE", "PENDING"} => reached[r] = "no")
  BY DEF RequestsAreHandledOnce, RowsAreTyped, RequestIsTrue, StatusIsTrue, PostHoldsVersions,
         Plans
<1>2. UNCHANGED <<approval, publication, reached>> /\ request[r].status \in {"NONE", "PENDING"}
  BY DEF Desk!Create, Desk!Expire, Desk!Deny
<1>3. PICK row \in RequestRows :
        /\ row.status \in {"PENDING", "DENIED", "EXPIRED"}
        /\ request' = [request EXCEPT ![r] = row]
  <2>1. CASE Desk!Create(r)
    <3>1. [status |-> "PENDING", plan |-> stored] \in RequestRows
      BY <1>1 DEF RequestRows, Desk!Statuses
    <3> QED
      BY <2>1, <3>1 DEF Desk!Create
  <2>2. ASSUME NEW status \in {"DENIED", "EXPIRED"},
               request' = [request EXCEPT ![r].status = status]
        PROVE  \E row \in RequestRows : /\ row.status \in {"PENDING", "DENIED", "EXPIRED"}
                                        /\ request' = [request EXCEPT ![r] = row]
    <3>1. [request[r] EXCEPT !.status = status] \in RequestRows
          /\ [request[r] EXCEPT !.status = status].status = status
      BY <1>1 DEF RequestRows, Desk!Statuses
    <3> QED
      BY <2>2, <3>1
  <2> QED
    BY <2>1, <2>2 DEF Desk!Expire, Desk!Deny
<1> QED
  BY <1>1, <1>2, <1>3, RequestWritten

(* A step on a publication that has been sent, of the row's state or of what   *)
(* the provider has made of it.                                                *)
SentMoves(r) ==
  /\ UNCHANGED <<request, approval>>
  /\ \A q \in Requests \ {r} : publication'[q] = publication[q] /\ reached'[q] = reached[q]
  /\ reached'[r] = reached[r] \/ (reached[r] = "maybe" /\ reached'[r] \in {"yes", "never"})
  /\ publication[r].state # "NONE" /\ publication'[r].state # "NONE"
  /\ publication'[r].known = publication[r].known /\ publication'[r].plan = publication[r].plan
  /\ publication'[r].count = publication[r].count

LEMMA LaterMoves ==
  ASSUME RequestsAreHandledOnce, NEW r \in Requests,
         Desk!ProviderDecides(r) \/ \E state \in PublicationState : Desk!Settle(r, state)
  PROVE  RowsAreTyped' /\ SentMoves(r)
<1>1. /\ RowsAreTyped /\ RequestIsTrue(r) /\ publication[r] \in PublicationRows
      /\ publication \in [Requests -> PublicationRows]
      /\ reached \in [Requests -> {"no", "maybe", "yes", "never"}]
  BY DEF RequestsAreHandledOnce, RowsAreTyped
<1>2. CASE Desk!ProviderDecides(r)
  <2>1. /\ UNCHANGED <<request, approval, publication>> /\ reached[r] = "maybe"
        /\ \E verdict \in {"yes", "never"} : reached' = [reached EXCEPT ![r] = verdict]
    BY <1>2 DEF Desk!ProviderDecides
  <2>2. /\ reached' \in [Requests -> {"no", "maybe", "yes", "never"}]
        /\ reached'[r] \in {"yes", "never"}
        /\ \A q \in Requests \ {r} : reached'[q] = reached[q]
    BY <1>1, <2>1
  <2> QED
    BY <1>1, <2>1, <2>2 DEF RowsAreTyped, SentMoves, RequestIsTrue, RowIsTrue
<1>3. ASSUME NEW state \in PublicationState, Desk!Settle(r, state)
      PROVE  RowsAreTyped' /\ SentMoves(r)
  <2>1. /\ publication[r].known /\ UNCHANGED <<request, approval, reached>>
        /\ publication' = [publication EXCEPT ![r].state = state]
    BY <1>3 DEF Desk!Settle
  <2>2. /\ publication' \in [Requests -> PublicationRows]
        /\ publication'[r].state = state /\ publication'[r].known = publication[r].known
        /\ publication'[r].plan = publication[r].plan
        /\ publication'[r].count = publication[r].count
        /\ \A q \in Requests \ {r} : publication'[q] = publication[q]
    BY ONLY <1>1, <2>1, r \in Requests, state \in PublicationState DEF PublicationRows
  <2>3. state # "NONE"
    BY DEF PublicationState
  <2> QED
    BY <1>1, <2>1, <2>2, <2>3 DEF RowsAreTyped, SentMoves, RequestIsTrue, RowIsTrue
<1> QED
  BY <1>2, <1>3

LEMMA LaterKeeps ==
  ASSUME RequestsAreHandledOnce, NEW r \in Requests, RowsAreTyped', SentMoves(r)
  PROVE  RequestsAreHandledOnce'
<1>1. ApprovalsAreDistinct'
  BY DEF RequestsAreHandledOnce, ApprovalsAreDistinct, Of, SentMoves
<1>2. ASSUME NEW a \in Approvers PROVE ApprovalIsTrue(a)'
  BY DEF RequestsAreHandledOnce, ApprovalIsTrue, HandlerIsTrue, Of, SentMoves
<1>3. ASSUME NEW q \in Requests PROVE RequestIsTrue(q)'
  BY DEF RequestsAreHandledOnce, RequestIsTrue, RowIsTrue, StatusIsTrue, SentMoves
<1> QED
  BY <1>1, <1>2, <1>3 DEF RequestsAreHandledOnce

(* What a record of an approval, a request and a publication say together.     *)
Agree(o, asked, out, got) == HandlerIsTrue(o, asked, out, got) /\ RowIsTrue(asked, out, got)

(* A step of an approval at work, with the publication of its request.         *)
LEMMA ApprovalMoves ==
  ASSUME RequestsAreHandledOnce, NEW a \in Approvers, NEW o \in Approvals,
         NEW out \in PublicationRows, NEW got \in {"no", "maybe", "yes", "never"},
         NEW r \in Requests,
         approval[a].pc # "idle", r = Of(a), o.req = r,
         approval' = [approval EXCEPT ![a] = o],
         publication' = [publication EXCEPT ![r] = out],
         reached' = [reached EXCEPT ![r] = got],
         request' = request, Agree(o, request[r], out, got)
  PROVE  RequestsAreHandledOnce'
<1>1. /\ approval \in [Approvers -> Approvals] /\ publication \in [Requests -> PublicationRows]
      /\ reached \in [Requests -> {"no", "maybe", "yes", "never"}]
      /\ ApprovalsAreDistinct /\ ApprovalIsTrue(a)
  BY DEF RequestsAreHandledOnce, RowsAreTyped
<1>2. /\ approval' \in [Approvers -> Approvals] /\ approval'[a] = o
      /\ \A b \in Approvers \ {a} : approval'[b] = approval[b]
  BY <1>1
<1>3. /\ publication' \in [Requests -> PublicationRows] /\ publication'[r] = out
      /\ reached' \in [Requests -> {"no", "maybe", "yes", "never"}] /\ reached'[r] = got
      /\ \A q \in Requests \ {r} : publication'[q] = publication[q] /\ reached'[q] = reached[q]
  BY <1>1
<1>4. RowsAreTyped'
  BY <1>2, <1>3 DEF RequestsAreHandledOnce, RowsAreTyped
<1>5. ApprovalsAreDistinct'
  BY <1>1, <1>2 DEF ApprovalsAreDistinct, Of
<1>6. ASSUME NEW b \in Approvers PROVE ApprovalIsTrue(b)'
  <2>1. CASE b = a
    BY <1>1, <1>2, <1>3, <2>1 DEF ApprovalIsTrue, Agree, Of
  <2>2. CASE b # a
    <3>1. approval[b].pc # "idle" => Of(b) # r
      BY <1>1, <2>2 DEF ApprovalsAreDistinct
    <3>2. ApprovalIsTrue(b)
      BY DEF RequestsAreHandledOnce
    <3> QED
      BY <1>2, <1>3, <2>2, <3>1, <3>2 DEF ApprovalIsTrue, Of
  <2> QED
    BY <2>1, <2>2
<1>7. ASSUME NEW q \in Requests PROVE RequestIsTrue(q)'
  <2>1. CASE q = r
    BY <1>1, <1>3, <2>1 DEF ApprovalIsTrue, RequestIsTrue, StatusIsTrue, Agree
  <2>2. CASE q # r
    BY <1>3, <2>2 DEF RequestsAreHandledOnce, RequestIsTrue
  <2> QED
    BY <2>1, <2>2
<1> QED
  BY <1>4, <1>5, <1>6, <1>7 DEF RequestsAreHandledOnce

(* An approval and its request before a step.                                  *)
LEMMA AtWork ==
  ASSUME RequestsAreHandledOnce, NEW a \in Approvers, approval[a].pc # "idle"
  PROVE  /\ approval[a] \in Approvals /\ Of(a) \in Requests
         /\ request[Of(a)] \in RequestRows /\ request[Of(a)].status = "EXECUTING"
         /\ publication[Of(a)] \in PublicationRows
         /\ reached[Of(a)] \in {"no", "maybe", "yes", "never"}
         /\ Agree(approval[a], request[Of(a)], publication[Of(a)], reached[Of(a)])
BY DEF RequestsAreHandledOnce, RowsAreTyped, ApprovalIsTrue, RequestIsTrue, Agree, Of

Answers(a) ==
  \/ \E state \in {"SUBMITTED", "CONFIRMED", "FAILED"} : Desk!Answered(a, state)
  \/ \E state \in {"UNCONFIRMED", "FAILED"} : Desk!Unanswered(a, state)
  \/ \E state \in PublicationState : Desk!Checked(a, state)

(* What an answer, or its absence, writes.                                     *)
Heard(a, r) ==
  /\ approval[a].pc \in {"sent", "checking"} /\ UNCHANGED <<request, reached>>
  /\ \E state \in PublicationState, known \in BOOLEAN :
       /\ known => publication[r].known \/ reached[r] = "yes"
       /\ publication[r].known => known
       /\ publication' = [publication EXCEPT ![r].state = state, ![r].known = known]
       /\ \/ known /\ approval' = [approval EXCEPT ![a].pc = "checking"]
          \/ /\ Desk!StatusFor(state) = "APPROVED" => known
             /\ Desk!Ends(a, Desk!StatusFor(state))

LEMMA AnswersAreHeard ==
  ASSUME RequestsAreHandledOnce, NEW a \in Approvers, Answers(a)
  PROVE  Of(a) \in Requests /\ Desk!Of(a) = Of(a) /\ Heard(a, Of(a))
<1>1. approval[a].pc \in {"sent", "checking"} /\ UNCHANGED <<request, reached>>
  BY DEF Answers, Desk!Answered, Desk!Unanswered, Desk!Checked
<1>2. PICK r \in Requests : r = Of(a)
  BY <1>1, AtWork
<1>3. Desk!Of(a) = r
  BY <1>2 DEF Desk!Of, Of
<1>4. /\ publication \in [Requests -> PublicationRows] /\ publication[r] \in PublicationRows
      /\ Agree(approval[a], request[r], publication[r], reached[r])
  BY <1>1, <1>2, AtWork DEF RequestsAreHandledOnce, RowsAreTyped
<1>5. publication[r].known \in BOOLEAN
  BY <1>4 DEF PublicationRows
<1>6. ASSUME NEW state
      PROVE  [publication EXCEPT ![r].state = state]
               = [publication EXCEPT ![r].state = state, ![r].known = publication[r].known]
  BY <1>4, <1>5 DEF PublicationRows
<1>7. ASSUME NEW state \in {"SUBMITTED", "CONFIRMED", "FAILED"}, Desk!Answered(a, state)
      PROVE  Heard(a, r)
  <2>1. /\ reached[r] = "yes" /\ state \in PublicationState
        /\ publication' = [publication EXCEPT ![r].state = state, ![r].known = TRUE]
        /\ \/ approval' = [approval EXCEPT ![a].pc = "checking"]
           \/ Desk!Ends(a, Desk!StatusFor(state))
    BY <1>3, <1>7 DEF Desk!Answered, PublicationState
  <2> QED
    BY <1>1, <2>1 DEF Heard
<1>8. ASSUME NEW state \in {"UNCONFIRMED", "FAILED"}, Desk!Unanswered(a, state)
      PROVE  Heard(a, r)
  <2>1. /\ state \in PublicationState /\ Desk!StatusFor(state) # "APPROVED"
        /\ publication' = [publication EXCEPT ![r].state = state]
        /\ Desk!Ends(a, Desk!StatusFor(state))
    BY <1>3, <1>8 DEF Desk!Unanswered, PublicationState, Desk!StatusFor
  <2> QED
    BY <1>1, <1>5, <1>6, <2>1 DEF Heard
<1>9. ASSUME NEW state \in PublicationState, Desk!Checked(a, state)
      PROVE  Heard(a, r)
  <2>1. /\ approval[a].pc = "checking" /\ publication' = [publication EXCEPT ![r].state = state]
        /\ Desk!Ends(a, Desk!StatusFor(state))
    BY <1>3, <1>9 DEF Desk!Checked
  <2>2. publication[r].known
    BY <1>4, <2>1 DEF Agree, HandlerIsTrue
  <2> QED
    BY <1>1, <1>5, <1>6, <2>1, <2>2 DEF Heard
<1> QED
  BY <1>2, <1>3, <1>7, <1>8, <1>9 DEF Answers

LEMMA AnswersKeep ==
  ASSUME RequestsAreHandledOnce, NEW a \in Approvers, Answers(a)
  PROVE  RequestsAreHandledOnce'
<1>1. PICK r \in Requests : r = Of(a) /\ Heard(a, r)
  BY AnswersAreHeard
<1> DEFINE o == approval[a]
           out == publication[r]
<1>2. o.pc \in {"sent", "checking"} /\ UNCHANGED <<request, reached>>
  BY <1>1 DEF Heard
<1>3. /\ o \in Approvals /\ o.req = r /\ out \in PublicationRows
      /\ reached[r] \in {"no", "maybe", "yes", "never"}
      /\ Agree(o, request[r], out, reached[r])
      /\ reached \in [Requests -> {"no", "maybe", "yes", "never"}]
  BY <1>1, <1>2, AtWork DEF Of, RequestsAreHandledOnce, RowsAreTyped
<1>4. reached' = [reached EXCEPT ![r] = reached[r]]
  BY <1>2, <1>3
<1>5. PICK state \in PublicationState, known \in BOOLEAN :
        /\ known => out.known \/ reached[r] = "yes"
        /\ out.known => known
        /\ publication' = [publication EXCEPT ![r].state = state, ![r].known = known]
        /\ \/ known /\ approval' = [approval EXCEPT ![a].pc = "checking"]
           \/ /\ Desk!StatusFor(state) = "APPROVED" => known
              /\ Desk!Ends(a, Desk!StatusFor(state))
  BY <1>1 DEF Heard
<1> DEFINE told == [out EXCEPT !.state = state, !.known = known]
<1>6. publication' = [publication EXCEPT ![r] = told]
  BY <1>5
<1>7. /\ told \in PublicationRows /\ told.state = state /\ told.known = known
      /\ told.plan = out.plan /\ told.count = out.count /\ state # "NONE"
  BY <1>3 DEF PublicationRows, PublicationState
<1> HIDE DEF told
<1>8. reached[r] # "no" /\ (known => reached[r] = "yes") /\ out.state # "NONE"
  BY <1>2, <1>3, <1>5 DEF Agree, HandlerIsTrue, RowIsTrue
<1>9. RowIsTrue(request[r], told, reached[r])
  BY <1>3, <1>7, <1>8 DEF Agree, RowIsTrue
<1>10. CASE known /\ approval' = [approval EXCEPT ![a].pc = "checking"]
  <2> DEFINE next == [o EXCEPT !.pc = "checking"]
  <2>1. approval' = [approval EXCEPT ![a] = next]
    BY <1>10
  <2>2. next \in Approvals /\ next.req = r /\ next.pc = "checking"
    BY <1>3 DEF Approvals
  <2> HIDE DEF next
  <2>3. Agree(next, request[r], told, reached[r])
    BY <1>7, <1>9, <1>10, <2>2 DEF Agree, HandlerIsTrue
  <2> QED
    BY <1>1, <1>2, <1>3, <1>4, <1>6, <1>7, <2>1, <2>2, <2>3, ApprovalMoves
<1>11. CASE /\ Desk!StatusFor(state) = "APPROVED" => known
            /\ Desk!Ends(a, Desk!StatusFor(state))
  <2> DEFINE outcome == Desk!StatusFor(state)
             next == [o EXCEPT !.pc = "decided", !.outcome = outcome]
  <2>1. outcome \in {"APPROVED", "FAILED", "PROVIDER_UNCERTAIN"}
    BY DEF Desk!StatusFor
  <2>2. approval' = [approval EXCEPT ![a] = next]
    BY <1>11 DEF Desk!Ends
  <2> HIDE DEF outcome
  <2>3. next \in Approvals /\ next.req = r /\ next.pc = "decided" /\ next.outcome = outcome
    BY <1>3, <2>1 DEF Approvals, Desk!Statuses
  <2> HIDE DEF next
  <2>4. Agree(next, request[r], told, reached[r])
    BY <1>8, <1>9, <1>11, <2>1, <2>3 DEF Agree, HandlerIsTrue, outcome
  <2> QED
    BY <1>1, <1>2, <1>3, <1>4, <1>6, <1>7, <2>2, <2>3, <2>4, ApprovalMoves
<1> QED
  BY <1>5, <1>10, <1>11

LEMMA ApprovalStepKeeps ==
  ASSUME RequestsAreHandledOnce, PostHoldsVersions, NEW a \in Approvers,
         \/ Desk!PreviewAgain(a) \/ Desk!BeginSubmit(a) \/ Desk!UploadFails(a) \/ Desk!Insert(a)
  PROVE  RequestsAreHandledOnce'
<1>1. approval[a].pc # "idle" /\ request' = request
  BY DEF Desk!PreviewAgain, Desk!BeginSubmit, Desk!UploadFails, Desk!Insert
<1>2. PICK r \in Requests : r = Of(a)
  BY <1>1, AtWork
<1> DEFINE o == approval[a]
           out == publication[r]
<1>3. /\ o \in Approvals /\ o.req = r /\ out \in PublicationRows
      /\ reached[r] \in {"no", "maybe", "yes", "never"}
      /\ Agree(o, request[r], out, reached[r]) /\ request[r] \in RequestRows
  BY <1>1, <1>2, AtWork DEF Of
<1>4. /\ publication \in [Requests -> PublicationRows] /\ stored \in Plans
      /\ reached \in [Requests -> {"no", "maybe", "yes", "never"}]
  BY DEF RequestsAreHandledOnce, RowsAreTyped, PostHoldsVersions, Plans
<1>5. publication = [publication EXCEPT ![r] = out] /\ reached = [reached EXCEPT ![r] = reached[r]]
  BY <1>4
<1>6. Desk!Of(a) = r
  BY <1>2 DEF Desk!Of, Of
<1>7. reached[r] = "no" /\ out.state = "NONE" /\ out.count = 0
  BY <1>3 DEF Desk!PreviewAgain, Desk!BeginSubmit, Desk!UploadFails, Desk!Insert, Agree,
              HandlerIsTrue, RowIsTrue
(* A step of the handler alone.                                                *)
<1>8. ASSUME NEW next \in Approvals, next.req = r, approval' = [approval EXCEPT ![a] = next],
             UNCHANGED <<publication, reached>>,
             \/ next.pc \in {"claimed", "previewed"}
             \/ next.pc = "uploading" /\ next.plan = request[r].plan
             \/ next.pc = "decided" /\ next.outcome \in {"FAILED", "EXPIRED"}
      PROVE  RequestsAreHandledOnce'
  <2>1. Agree(next, request[r], out, reached[r])
    BY <1>3, <1>7, <1>8 DEF Agree, HandlerIsTrue
  <2>2. /\ publication' = [publication EXCEPT ![r] = out]
        /\ reached' = [reached EXCEPT ![r] = reached[r]]
    BY <1>5, <1>8
  <2>3. /\ approval[a].pc # "idle" /\ r = Of(a) /\ next.req = r /\ request' = request
        /\ approval' = [approval EXCEPT ![a] = next]
        /\ publication[r] \in PublicationRows /\ reached[r] \in {"no", "maybe", "yes", "never"}
    BY <1>1, <1>2, <1>3, <1>8
  <2> QED
    BY <2>1, <2>2, <2>3, ApprovalMoves
<1>9. ASSUME NEW outcome \in {"FAILED", "EXPIRED"}, Desk!Ends(a, outcome),
             UNCHANGED <<publication, reached>>
      PROVE  RequestsAreHandledOnce'
  <2> DEFINE next == [o EXCEPT !.pc = "decided", !.outcome = outcome]
  <2>1. next \in Approvals /\ next.req = r /\ next.pc = "decided" /\ next.outcome = outcome
    BY <1>3 DEF Approvals, Desk!Statuses
  <2>2. approval' = [approval EXCEPT ![a] = next]
    BY <1>9 DEF Desk!Ends
  <2> HIDE DEF next
  <2> QED
    BY <1>8, <1>9, <2>1, <2>2
<1>10. CASE Desk!PreviewAgain(a)
  <2>1. CASE approval' = [approval EXCEPT ![a].pc = "previewed"]
    <3> DEFINE next == [o EXCEPT !.pc = "previewed"]
    <3>1. next \in Approvals /\ next.req = r /\ next.pc = "previewed"
      BY <1>3 DEF Approvals
    <3>2. approval' = [approval EXCEPT ![a] = next]
      BY <2>1
    <3> HIDE DEF next
    <3> QED
      BY <1>8, <1>10, <3>1, <3>2 DEF Desk!PreviewAgain
  <2> QED
    BY <1>9, <1>10, <2>1 DEF Desk!PreviewAgain
<1>11. CASE Desk!BeginSubmit(a)
  <2>1. CASE /\ stored = request[r].plan
             /\ approval' = [approval EXCEPT ![a].pc = "uploading", ![a].plan = stored]
    <3> DEFINE next == [o EXCEPT !.pc = "uploading", !.plan = stored]
    <3>1. next \in Approvals /\ next.req = r /\ next.pc = "uploading" /\ next.plan = stored
      BY <1>3, <1>4 DEF Approvals
    <3>2. approval' = [approval EXCEPT ![a] = next]
      BY <2>1
    <3> HIDE DEF next
    <3> QED
      BY <1>8, <1>11, <2>1, <3>1, <3>2 DEF Desk!BeginSubmit
  <2> QED
    BY <1>6, <1>9, <1>11, <2>1 DEF Desk!BeginSubmit, Desk!HashMatches
<1>12. CASE Desk!UploadFails(a)
  BY <1>9, <1>12 DEF Desk!UploadFails
<1>13. CASE Desk!Insert(a)
  <2>1. o.plan = request[r].plan
    BY <1>3, <1>13 DEF Desk!Insert, Agree, HandlerIsTrue
  <2>2. CASE Desk!Live
    BY <1>9, <1>13, <2>2 DEF Desk!Insert
  <2>3. CASE ~Desk!Live
    <3> DEFINE next == [o EXCEPT !.pc = "sent"]
               sent == [state |-> "SUBMITTING", known |-> FALSE, plan |-> o.plan,
                        count |-> out.count + 1]
    <3>1. next \in Approvals /\ next.req = r /\ next.pc = "sent"
      BY <1>3 DEF Approvals
    <3>2. /\ approval' = [approval EXCEPT ![a] = next]
          /\ publication' = [publication EXCEPT ![r] = sent]
          /\ reached' = [reached EXCEPT ![r] = "maybe"]
      BY <1>6, <1>13, <2>3 DEF Desk!Insert
    <3>3. /\ sent \in PublicationRows /\ sent.state = "SUBMITTING" /\ sent.count = 1
          /\ sent.plan = request[r].plan /\ ~sent.known
      BY <1>3, <1>7, <2>1 DEF PublicationRows, PublicationState, Approvals
    <3> HIDE DEF next, sent
    <3>4. Agree(next, request[r], sent, "maybe")
      BY <3>1, <3>3 DEF Agree, HandlerIsTrue, RowIsTrue
    <3> QED
      BY <1>1, <1>2, <1>3, <3>1, <3>2, <3>3, <3>4, ApprovalMoves
  <2> QED
    BY <2>2, <2>3
<1> QED
  BY <1>10, <1>11, <1>12, <1>13

(* A claim takes a request that nothing has been sent for.                     *)
LEMMA ClaimKeeps ==
  ASSUME RequestsAreHandledOnce, NEW a \in Approvers, NEW r \in Requests, Desk!Claim(a, r)
  PROVE  RequestsAreHandledOnce'
<1>1. /\ request \in [Requests -> RequestRows] /\ approval \in [Approvers -> Approvals]
      /\ ApprovalsAreDistinct /\ RequestIsTrue(r) /\ request[r] \in RequestRows
  BY DEF RequestsAreHandledOnce, RowsAreTyped
<1> DEFINE o == [Desk!NoApproval EXCEPT !.pc = "claimed", !.req = r]
           row == [request[r] EXCEPT !.status = "EXECUTING"]
<1>2. /\ request[r].status = "PENDING" /\ UNCHANGED <<publication, reached>>
      /\ request' = [request EXCEPT ![r] = row]
      /\ approval' = [approval EXCEPT ![a] = o]
  BY DEF Desk!Claim, Desk!Claimable
<1>3. /\ o \in Approvals /\ o.req = r /\ o.pc = "claimed"
      /\ row \in RequestRows /\ row.status = "EXECUTING" /\ row.plan = request[r].plan
  BY <1>1 DEF Desk!NoApproval, Approvals, Plans, RequestRows, Desk!Statuses
<1> HIDE DEF o, row
<1>4. /\ request' \in [Requests -> RequestRows] /\ request'[r] = row
      /\ \A q \in Requests \ {r} : request'[q] = request[q]
      /\ approval' \in [Approvers -> Approvals] /\ approval'[a] = o
      /\ \A b \in Approvers \ {a} : approval'[b] = approval[b]
  BY <1>1, <1>2, <1>3
<1>5. reached[r] = "no"
  BY <1>1, <1>2 DEF RequestIsTrue, StatusIsTrue
<1>6. \A b \in Approvers : approval[b].pc # "idle" => Of(b) # r
  BY <1>2 DEF RequestsAreHandledOnce, ApprovalIsTrue
<1>7. ApprovalsAreDistinct'
  BY <1>1, <1>3, <1>4, <1>6 DEF ApprovalsAreDistinct, Of
<1>8. ASSUME NEW b \in Approvers PROVE ApprovalIsTrue(b)'
  <2>1. CASE b = a
    BY <1>2, <1>3, <1>4, <1>5, <2>1 DEF ApprovalIsTrue, HandlerIsTrue, Of
  <2>2. CASE b # a
    <3>1. ApprovalIsTrue(b)
      BY DEF RequestsAreHandledOnce
    <3> QED
      BY <1>2, <1>4, <1>6, <2>2, <3>1 DEF ApprovalIsTrue, Of
  <2> QED
    BY <2>1, <2>2
<1>9. \A q \in Requests : RequestIsTrue(q)'
  BY <1>2, <1>3, <1>4, <1>5 DEF RequestsAreHandledOnce, RequestIsTrue, RowIsTrue, StatusIsTrue
<1> QED
  BY <1>2, <1>4, <1>7, <1>8, <1>9 DEF RequestsAreHandledOnce, RowsAreTyped

(* The outcome is written over the row that the claim has kept to itself.      *)
LEMMA DecideKeeps ==
  ASSUME RequestsAreHandledOnce, NEW a \in Approvers, Desk!Decide(a)
  PROVE  RequestsAreHandledOnce'
<1>1. /\ approval[a].pc = "decided" /\ UNCHANGED <<publication, reached>>
      /\ approval' = [approval EXCEPT ![a] = Desk!NoApproval]
  BY DEF Desk!Decide
<1>2. PICK r \in Requests : r = Of(a)
  BY <1>1, AtWork
<1> DEFINE row == [request[r] EXCEPT !.status = approval[a].outcome]
<1>3. /\ approval[a] \in Approvals /\ request[r] \in RequestRows
      /\ Agree(approval[a], request[r], publication[r], reached[r])
      /\ request \in [Requests -> RequestRows] /\ approval \in [Approvers -> Approvals]
  BY <1>1, <1>2, AtWork DEF RequestsAreHandledOnce, RowsAreTyped
<1>4. request' = [request EXCEPT ![r] = row]
  BY <1>2 DEF Desk!Decide, Desk!Of, Of
<1>5. /\ row \in RequestRows /\ row.status = approval[a].outcome /\ row.plan = request[r].plan
      /\ Desk!NoApproval \in Approvals /\ Desk!NoApproval.pc = "idle"
  BY <1>3 DEF Desk!NoApproval, Approvals, Plans, RequestRows
<1> HIDE DEF row
<1>6. /\ request' \in [Requests -> RequestRows] /\ request'[r] = row
      /\ \A q \in Requests \ {r} : request'[q] = request[q]
      /\ approval' \in [Approvers -> Approvals] /\ approval'[a].pc = "idle"
      /\ \A b \in Approvers \ {a} : approval'[b] = approval[b]
  BY <1>1, <1>3, <1>4, <1>5
<1>7. \A b \in Approvers \ {a} : approval[b].pc # "idle" => Of(b) # r
  BY <1>1, <1>2 DEF RequestsAreHandledOnce, ApprovalsAreDistinct
<1>8. ApprovalsAreDistinct'
  BY <1>6 DEF RequestsAreHandledOnce, ApprovalsAreDistinct, Of
<1>9. ASSUME NEW b \in Approvers PROVE ApprovalIsTrue(b)'
  <2>1. ApprovalIsTrue(b)
    BY DEF RequestsAreHandledOnce
  <2> QED
    BY <1>1, <1>6, <1>7, <2>1 DEF ApprovalIsTrue, Of
<1>10. ASSUME NEW q \in Requests PROVE RequestIsTrue(q)'
  <2>1. CASE q = r
    BY <1>1, <1>3, <1>5, <1>6, <2>1
       DEF Agree, HandlerIsTrue, RowIsTrue, StatusIsTrue, RequestIsTrue
  <2>2. CASE q # r
    BY <1>1, <1>6, <2>2 DEF RequestsAreHandledOnce, RequestIsTrue
  <2> QED
    BY <2>1, <2>2
<1> QED
  BY <1>1, <1>6, <1>8, <1>9, <1>10 DEF RequestsAreHandledOnce, RowsAreTyped

LEMMA CrashKeeps ==
  ASSUME RequestsAreHandledOnce, Desk!Crash
  PROVE  RequestsAreHandledOnce'
<1>1. /\ \A a \in Approvers : approval'[a] = Desk!NoApproval
      /\ approval' = [a \in Approvers |-> Desk!NoApproval]
      /\ UNCHANGED <<request, publication, reached>>
  BY DEF Desk!Crash
<1>2. Desk!NoApproval \in Approvals /\ Desk!NoApproval.pc = "idle"
  BY DEF Desk!NoApproval, Approvals, Plans
<1> QED
  BY <1>1, <1>2 DEF RequestsAreHandledOnce, RowsAreTyped, ApprovalsAreDistinct, ApprovalIsTrue,
                    RequestIsTrue

(* The two inductive invariants together: the versions of a post's media are   *)
(* versions of the files, and a request is handled once and recorded truly.    *)
THEOREM DeskIsOrderly == Spec => [](VersionsAreKnown /\ RequestsAreHandledOnce)
<1>1. Init => VersionsAreKnown /\ RequestsAreHandledOnce
  BY InitVersions, InitHandledOnce DEF Init
<1>2. VersionsAreKnown /\ RequestsAreHandledOnce /\ [Next]_vars => RequestsAreHandledOnce'
  <2> SUFFICES ASSUME VersionsAreKnown, RequestsAreHandledOnce, [Next]_vars
               PROVE  RequestsAreHandledOnce'
    OBVIOUS
  <2> USE DEF VersionsAreKnown
  <2>1. ASSUME NEW r \in Requests,
               \/ Desk!Create(r) \/ Desk!Expire(r) \/ Desk!Deny(r) \/ Desk!ProviderDecides(r)
               \/ \E state \in PublicationState : Desk!Settle(r, state)
        PROVE  RequestsAreHandledOnce'
    BY <2>1, QueueKeeps, LaterMoves, LaterKeeps
  <2>2. ASSUME NEW a \in Approvers, Desk!ApprovalStep(a) PROVE RequestsAreHandledOnce'
    <3>1. CASE Answers(a)
      BY <3>1, AnswersKeep
    <3>2. CASE ~Answers(a)
      <4>1. Desk!PublicationState = PublicationState
        BY DEF Desk!PublicationState, PublicationState
      <4>2. \/ Desk!PreviewAgain(a) \/ Desk!BeginSubmit(a) \/ Desk!UploadFails(a)
            \/ Desk!Insert(a) \/ Desk!Decide(a)
        BY <2>2, <3>2, <4>1 DEF Desk!ApprovalStep, Answers
      <4> QED
        BY <4>2, ApprovalStepKeeps, DecideKeeps
    <3> QED
      BY <3>1, <3>2
  <2>3. ASSUME NEW a \in Approvers, NEW r \in Requests, Desk!Claim(a, r)
        PROVE  RequestsAreHandledOnce'
    BY <2>3, ClaimKeeps
  <2>4. CASE UNCHANGED <<request, approval, publication, reached>>
    BY <2>4 DEF RequestsAreHandledOnce, RowsAreTyped, ApprovalsAreDistinct, ApprovalIsTrue,
                RequestIsTrue, Of
  <2>5. CASE Stops
    BY <2>5, CrashKeeps DEF Stops
  <2>6. CASE Desk!PublishDirectly
    BY <2>4, <2>6 DEF Desk!PublishDirectly
  <2> QED
    BY <2>1, <2>2, <2>3, <2>4, <2>5, <2>6 DEF Next, vars, deskVars
<1> QED
  BY <1>1, <1>2, PostsKeep, PTL DEF Spec

(* Every column keeps its type, and no list holds a version that Drive never   *)
(* had.                                                                        *)
THEOREM DeskIsTyped == Spec => []TypeOK
<1>1. VersionsAreKnown /\ RequestsAreHandledOnce => TypeOK
  BY DEF VersionsAreKnown, PostHoldsVersions, RequestsAreHandledOnce, RowsAreTyped, RequestRows,
         TypeOK
<1> QED
  BY <1>1, DeskIsOrderly, PTL

(* What goes out for a request is the plan that the person was shown.          *)
THEOREM WhatWasApprovedIsSent == Spec => []ApprovedPlanIsSent
<1>1. RequestsAreHandledOnce => ApprovedPlanIsSent
  BY DEF RequestsAreHandledOnce, RequestIsTrue, RowIsTrue, ApprovedPlanIsSent,
         Desk!ApprovedPlanIsSent
<1> QED
  BY <1>1, DeskIsOrderly, PTL

(* A request is sent once at most, whatever approvals race or are repeated.    *)
THEOREM RequestsAreSentOnce == Spec => []RequestIsSentOnce
<1>1. RequestsAreHandledOnce => RequestIsSentOnce
  BY DEF RequestsAreHandledOnce, RequestIsTrue, RowIsTrue, RequestIsSentOnce,
         Desk!RequestIsSentOnce
<1> QED
  BY <1>1, DeskIsOrderly, PTL

-------------------------------------------------------------------------------
(* Publishing by request keeps the promise of ApprovedWrites: what a step may  *)
(* do to a request and its publication.                                        *)

RequestMoves(was, is) ==
  \/ is = was
  \/ was = "NONE" /\ is = "PENDING"
  \/ was = "PENDING" /\ is \in {"DENIED", "EXPIRED", "EXECUTING"}
  \/ was = "EXECUTING" /\ is \in {"APPROVED", "FAILED", "EXPIRED", "PROVIDER_UNCERTAIN"}

Moves(r) ==
  LET was == request[r].status
      is  == request'[r].status
  IN \/ reached'[r] = reached[r] /\ RequestMoves(was, is)
     \/ is = was /\ was = "EXECUTING" /\ reached[r] = "no" /\ reached'[r] = "maybe"
     \/ is = was /\ reached[r] = "maybe" /\ reached'[r] \in {"yes", "never"}

Reach(r) == IF publication[r].count > 1 THEN "twice" ELSE reached[r]

LEMMA ReachIsReached ==
  ASSUME RequestsAreHandledOnce, NEW r \in Requests
  PROVE  Reach(r) = reached[r]
<1>1. publication[r].count \in Nat /\ publication[r].count <= 1
  BY DEF RequestsAreHandledOnce, RowsAreTyped, PublicationRows, RequestIsTrue, RowIsTrue
<1> QED
  BY <1>1 DEF Reach

LEMMA MovesAreSteps ==
  ASSUME RequestsAreHandledOnce, RequestsAreHandledOnce', \A r \in Requests : Moves(r)
  PROVE  Desk!Promise!Next
<1> SUFFICES ASSUME NEW r \in Requests
             PROVE  Desk!Promise!Step(r)
  BY DEF Desk!Promise!Next
<1>1. /\ request[r].status \in Desk!Statuses \cup {"NONE"}
      /\ StatusIsTrue(request[r].status, reached[r])
      /\ StatusIsTrue(request'[r].status, reached'[r])
      /\ reached[r] \in {"no", "maybe", "yes", "never"}
  BY DEF RequestsAreHandledOnce, RowsAreTyped, RequestRows, RequestIsTrue
<1>2. Reach(r) = reached[r] /\ Reach(r)' = reached'[r]
  <2>1. Reach(r) = reached[r]
    BY ReachIsReached
  <2>2. publication'[r].count \in Nat /\ publication'[r].count <= 1
    BY DEF RequestsAreHandledOnce, RowsAreTyped, PublicationRows, RequestIsTrue, RowIsTrue
  <2> QED
    BY <2>1, <2>2 DEF Reach
<1>3. /\ Desk!Told("NONE") = "none" /\ Desk!Told("PENDING") = "pending"
      /\ Desk!Told("EXECUTING") = "approved" /\ Desk!Told("APPROVED") = "done"
      /\ Desk!Told("PROVIDER_UNCERTAIN") = "uncertain" /\ Desk!Told("FAILED") = "failed"
      /\ Desk!Told("DENIED") = "declined" /\ Desk!Told("EXPIRED") = "declined"
  BY DEF Desk!Told
<1>4. Moves(r)
  OBVIOUS
<1>5. CASE reached'[r] = reached[r] /\ RequestMoves(request[r].status, request'[r].status)
  BY <1>1, <1>2, <1>3, <1>5
     DEF RequestMoves, StatusIsTrue, Reach, Desk!Promise!Step,
         Desk!Promise!Rest, Desk!Promise!Ask, Desk!Promise!Decline, Desk!Promise!Approve,
         Desk!Promise!Tell, Desk!Promise!At, Desk!Promise!Becomes
<1>6. CASE /\ request'[r].status = request[r].status /\ request[r].status = "EXECUTING"
           /\ reached[r] = "no" /\ reached'[r] = "maybe"
  BY <1>2, <1>3, <1>6
     DEF Reach, Desk!Promise!Step, Desk!Promise!Send, Desk!Promise!At, Desk!Promise!Becomes
<1>7. CASE /\ request'[r].status = request[r].status
           /\ reached[r] = "maybe" /\ reached'[r] \in {"yes", "never"}
  BY <1>1, <1>2, <1>3, <1>7
     DEF Reach, StatusIsTrue, Desk!Statuses, Desk!Promise!Step, Desk!Promise!Turn,
         Desk!Promise!At, Desk!Promise!Becomes
<1> QED
  BY <1>4, <1>5, <1>6, <1>7 DEF Moves

LEMMA QueueMoves ==
  ASSUME RequestsAreHandledOnce, NEW q \in Requests,
         Desk!Create(q) \/ Desk!Expire(q) \/ Desk!Deny(q)
           \/ \E a \in Approvers : Desk!Claim(a, q),
         NEW r \in Requests
  PROVE  Moves(r)
<1>1. request \in [Requests -> RequestRows] /\ reached' = reached
  BY DEF RequestsAreHandledOnce, RowsAreTyped, Desk!Create, Desk!Expire, Desk!Deny, Desk!Claim
<1>2. ASSUME NEW was \in {"NONE", "PENDING"}, NEW is,
             request[q].status = was, request'[q].status = is, RequestMoves(was, is),
             \A p \in Requests \ {q} : request'[p] = request[p]
      PROVE  Moves(r)
  BY <1>1, <1>2 DEF Moves, RequestMoves
<1>3. CASE Desk!Create(q)
  <2>1. request[q].status = "NONE" /\ request'[q].status = "PENDING"
        /\ \A p \in Requests \ {q} : request'[p] = request[p]
    BY <1>1, <1>3 DEF Desk!Create
  <2> QED
    BY <1>2, <2>1 DEF RequestMoves
<1>4. ASSUME NEW is \in {"DENIED", "EXPIRED", "EXECUTING"},
             request[q].status = "PENDING", request' = [request EXCEPT ![q].status = is]
      PROVE  Moves(r)
  <2>1. request'[q].status = is /\ \A p \in Requests \ {q} : request'[p] = request[p]
    BY <1>1, <1>4 DEF RequestRows
  <2> QED
    BY <1>2, <1>4, <2>1 DEF RequestMoves
<1> QED
  BY <1>3, <1>4 DEF Desk!Expire, Desk!Deny, Desk!Claim, Desk!Claimable

LEMMA ApprovalStepMoves ==
  ASSUME RequestsAreHandledOnce, NEW a \in Approvers, Desk!ApprovalStep(a), NEW r \in Requests
  PROVE  Moves(r)
<1>1. /\ request \in [Requests -> RequestRows]
      /\ reached \in [Requests -> {"no", "maybe", "yes", "never"}]
  BY DEF RequestsAreHandledOnce, RowsAreTyped
<1>2. approval[a].pc # "idle"
  BY DEF Desk!ApprovalStep, Desk!PreviewAgain, Desk!BeginSubmit, Desk!UploadFails, Desk!Insert,
         Desk!Answered, Desk!Unanswered, Desk!Checked, Desk!Decide
<1>3. PICK q \in Requests : /\ q = Of(a) /\ q = Desk!Of(a)
                            /\ request[q].status = "EXECUTING"
                            /\ Agree(approval[a], request[q], publication[q], reached[q])
  BY <1>2, AtWork DEF Of, Desk!Of
<1>4. CASE UNCHANGED <<request, reached>>
  BY <1>4 DEF Moves, RequestMoves
<1>5. CASE Desk!Insert(a)
  <2>1. approval[a].pc = "uploading" /\ request' = request
    BY <1>5 DEF Desk!Insert
  <2>2. CASE ~Desk!Live
    <3>1. /\ reached[q] = "no" /\ reached'[q] = "maybe"
          /\ \A p \in Requests \ {q} : reached'[p] = reached[p]
      BY <1>1, <1>3, <1>5, <2>1, <2>2 DEF Desk!Insert, Agree, HandlerIsTrue
    <3> QED
      BY <1>3, <2>1, <3>1 DEF Moves, RequestMoves
  <2> QED
    BY <1>4, <1>5, <2>2 DEF Desk!Insert
<1>6. CASE Desk!Decide(a)
  <2>1. /\ approval[a].pc = "decided" /\ reached' = reached
        /\ request' = [request EXCEPT ![q].status = approval[a].outcome]
    BY <1>3, <1>6 DEF Desk!Decide
  <2>2. /\ request'[q].status = approval[a].outcome
        /\ \A p \in Requests \ {q} : request'[p] = request[p]
    BY <1>1, <2>1 DEF RequestRows
  <2>3. approval[a].outcome \in {"APPROVED", "FAILED", "EXPIRED", "PROVIDER_UNCERTAIN"}
    BY <1>3, <2>1 DEF Agree, HandlerIsTrue
  <2> QED
    BY <1>3, <2>1, <2>2, <2>3 DEF Moves, RequestMoves
<1> QED
  BY <1>4, <1>5, <1>6
     DEF Desk!ApprovalStep, Desk!PreviewAgain, Desk!BeginSubmit, Desk!UploadFails,
         Desk!Answered, Desk!Unanswered, Desk!Checked

LEMMA NextMoves ==
  ASSUME RequestsAreHandledOnce, [Next]_vars, NEW r \in Requests
  PROVE  Moves(r)
<1>1. CASE UNCHANGED <<request, reached>>
  BY <1>1 DEF Moves, RequestMoves
<1>2. CASE Stops \/ Desk!PublishDirectly
  BY <1>1, <1>2 DEF Stops, Desk!Crash, Desk!PublishDirectly
<1>3. ASSUME NEW q \in Requests,
             Desk!ProviderDecides(q) \/ \E state \in PublicationState : Desk!Settle(q, state)
      PROVE  Moves(r)
  <2>1. SentMoves(q)
    BY <1>3, LaterMoves
  <2> QED
    BY <2>1 DEF SentMoves, Moves, RequestMoves
<1> QED
  BY <1>1, <1>2, <1>3, QueueMoves, ApprovalStepMoves DEF Next, vars, deskVars

(* What an agent asks to publish waits for a person's yes, goes out once at    *)
(* most, and is told as declined, done or uncertain only where that is so,     *)
(* through edits, races, lost answers and crashes.                             *)
THEOREM RequestsKeepThePromise == Spec => PublishesAsPromised
<1>1. Init => Desk!Promise!Init
  BY DEF Init, Desk!ConfirmationsInit, Desk!NoRequest, Desk!NoPublication, Desk!Promise!Init,
         Desk!Told
<1>2. RequestsAreHandledOnce /\ RequestsAreHandledOnce' /\ [Next]_vars
        => [Desk!Promise!Next]_<<[r \in Requests |-> Desk!Told(request[r].status)],
                                 [r \in Requests |->
                                    IF publication[r].count > 1 THEN "twice" ELSE reached[r]]>>
  BY NextMoves, MovesAreSteps
<1> QED
  BY <1>1, <1>2, DeskIsOrderly, PTL
     DEF Spec, PublishesAsPromised, Desk!PublishesAsPromised, Desk!Promise!Spec
===============================================================================
