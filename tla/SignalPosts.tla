----------------------------- MODULE SignalPosts ------------------------------
(* The media of one Signal post (server/signal/service.ts): the post's own     *)
(* list and the cover images of its platform layers, each a set of Drive files *)
(* bound to the version that was looked up when the file was added.            *)
(*                                                                             *)
(* An edit replaces one list.  Before its transaction it reads the stored      *)
(* list, to carry known files forward at their version, and waits for Drive to *)
(* look up the others; so does a recheck, which asks for one file again.  An   *)
(* edit names the revision its caller read and is refused when another has     *)
(* been written since; a recheck names none and advances none.                 *)
EXTENDS Integers

CONSTANTS
  Lists,       \* the lists a post has: its media, and the roles of its variants
  Files,       \* Drive files
  Editors,     \* the requests under way
  MaxVersion,  \* a bound on the versions of a file
  MaxRevision  \* a bound on the revision of the post

ASSUME PostsAssumption == MaxVersion \in Nat \ {0} /\ MaxRevision \in Nat \ {0}

Absent == 0

Contents == [Files -> Absent .. MaxVersion]

VARIABLES
  revision,  \* signal_posts.revision
  stored,    \* stored[l][f]: the version at which list l holds f, or Absent
  drive,     \* drive[f]: the version Drive has now
  edit       \* edit[e]: the request that e handles, and what its caller saw

postVars == <<revision, stored, drive, edit>>

Idle == [pc |-> "idle", kind |-> "EDIT", list |-> "none", file |-> "none",
         wants |-> {}, expects |-> 0, based |-> 0, carried |-> [f \in Files |-> Absent],
         found |-> [f \in Files |-> Absent], saw |-> [l \in Lists |-> {}], crossed |-> FALSE]

PostsInit ==
  /\ revision = 1
  /\ stored = [l \in Lists |-> [f \in Files |-> Absent]]
  /\ drive = [f \in Files |-> 1]
  /\ edit = [e \in Editors |-> Idle]

Holds(content) == {f \in Files : content[f] # Absent}

Shown == [l \in Lists |-> Holds(stored[l])]

-------------------------------------------------------------------------------
(* The caller reads the post, and sends its revision back with the list wanted. *)
Read(e) ==
  /\ edit[e].pc = "idle"
  /\ edit' = [edit EXCEPT ![e] = [Idle EXCEPT !.pc = "read", !.expects = revision, !.saw = Shown]]
  /\ UNCHANGED <<revision, stored, drive>>

(* updatePostWithRevision and replacePostVariants read what is stored first;   *)
(* the revision is left to the transaction.                                    *)
Begin(e, l, wants) ==
  /\ edit[e].pc = "read"
  /\ edit' = [edit EXCEPT ![e] = [@ EXCEPT !.pc = "resolving", !.kind = "EDIT", !.list = l,
                                           !.wants = wants, !.carried = stored[l],
                                           !.based = revision]]
  /\ UNCHANGED <<revision, stored, drive>>

(* recheckPostMedia and recheckVariantMedia send the whole list through the    *)
(* same resolution, naming the one file to be looked up again.                 *)
BeginRecheck(e, l, f) ==
  /\ edit[e].pc = "idle"
  /\ f \in Holds(stored[l])
  /\ edit' = [edit EXCEPT ![e] = [Idle EXCEPT !.pc = "resolving", !.kind = "RECHECK", !.list = l,
                                              !.file = f, !.wants = Holds(stored[l]),
                                              !.carried = stored[l]]]
  /\ UNCHANGED <<revision, stored, drive>>

CarriedForward(o, f) == o.carried[f] # Absent /\ ~(o.kind = "RECHECK" /\ o.file = f)

(* resolveMediaItems: Drive is asked for what is not carried forward.          *)
Resolve(e) ==
  LET o == edit[e] IN
  /\ o.pc = "resolving"
  /\ edit' = [edit EXCEPT ![e].pc = "writing",
                          ![e].found = [f \in Files |->
                             IF f \notin o.wants THEN Absent
                             ELSE IF CarriedForward(o, f) THEN o.carried[f] ELSE drive[f]]]
  /\ UNCHANGED <<revision, stored, drive>>

CheckedAtStart(o) == o.kind = "EDIT" => o.based = o.expects          \* mutant

(* requireRevision, inside the transaction of the write.                       *)
RevisionHolds(o) == o.kind = "EDIT" => revision = o.expects

(* A recheck writes its list back over one that was edited meanwhile, and the  *)
(* callers who have read the post are not refused for it (history).            *)
Reverts(o) == o.kind = "RECHECK" /\ Holds(stored[o.list]) # o.wants

(* writePost, and the transaction of replacePostVariants.                      *)
Write(e) ==
  LET o == edit[e] IN
  /\ o.pc = "writing"
  /\ IF RevisionHolds(o)
     THEN /\ stored' = [stored EXCEPT ![o.list] = o.found]
          /\ revision' = IF o.kind = "EDIT" THEN revision + 1 ELSE revision
     ELSE UNCHANGED <<stored, revision>>
  /\ edit' = [x \in Editors |->
                IF x = e THEN Idle
                ELSE IF Reverts(o) /\ edit[x].kind = "EDIT" /\ edit[x].pc # "idle"
                     THEN [edit[x] EXCEPT !.crossed = TRUE] ELSE edit[x]]
  /\ UNCHANGED drive

(* A file or link that Drive refuses ends the request with nothing written.    *)
Fail(e) ==
  /\ edit[e].pc = "resolving"
  /\ edit' = [edit EXCEPT ![e] = Idle]
  /\ UNCHANGED <<revision, stored, drive>>

(* Somebody changes a file in Drive.                                           *)
DriveChanges(f) ==
  /\ drive[f] < MaxVersion
  /\ drive' = [drive EXCEPT ![f] = @ + 1]
  /\ UNCHANGED <<revision, stored, edit>>

EditStep(e) ==
  \/ revision < MaxRevision /\ Read(e)
  \/ \E l \in Lists, wants \in SUBSET Files : Begin(e, l, wants)
  \/ \E l \in Lists, f \in Files : BeginRecheck(e, l, f)
  \/ Resolve(e)
  \/ Write(e)
  \/ Fail(e)

PostsNext ==
  \/ \E e \in Editors : EditStep(e)
  \/ \E f \in Files : DriveChanges(f)
===============================================================================
