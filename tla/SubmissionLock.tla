---------------------------- MODULE SubmissionLock ----------------------------
(* What publishing promises about sending a post twice.  A submission that may *)
(* still go out (waiting) holds the lock of its post, and one submission at a  *)
(* time holds it.  Until the provider has given an id (known) the submission   *)
(* may lose sight of its request: the lock is given up whatever became of it.  *)
(* Afterwards the lock is given up only when nothing is waiting any more, and  *)
(* may be taken back by the same submission as long as no other one has it.    *)

CONSTANTS Posts, Pubs, PostOf

VARIABLES
  locks,    \* the submissions that hold their post's lock
  waiting,  \* the submissions that are watched and that the provider may still send
  known     \* the submissions whose id at the provider is known

Init == locks = {} /\ waiting = {} /\ known = {}

Free(p) == \A q \in locks : PostOf[q] = PostOf[p] => q = p

(* A submission starts: its lock comes first, the request follows under it.    *)
Send(p) ==
  /\ p \notin locks \cup known
  /\ Free(p)
  /\ locks' = locks \cup {p}
  /\ waiting' = waiting \cup {p}
  /\ UNCHANGED known

(* The post leaves the provider's queue: it is sent, failed or withdrawn.      *)
Leave(p) ==
  /\ p \in waiting
  /\ waiting' = waiting \ {p}
  /\ UNCHANGED <<locks, known>>

(* The id arrives, perhaps with the news that nothing is waiting any more.     *)
Answer(p) ==
  /\ p \in locks \ known
  /\ known' = known \cup {p}
  /\ \/ UNCHANGED locks
     \/ p \notin waiting /\ locks' = locks \ {p}
  /\ UNCHANGED waiting

Lose(p) ==
  /\ p \in locks \ known
  /\ locks' = locks \ {p}
  /\ waiting' = waiting \ {p}
  /\ UNCHANGED known

Unlock(p) ==
  /\ p \in (locks \cap known) \ waiting
  /\ locks' = locks \ {p}
  /\ UNCHANGED <<waiting, known>>

Relock(p) ==
  /\ p \in known \ locks
  /\ Free(p)
  /\ locks' = locks \cup {p}
  /\ UNCHANGED <<waiting, known>>

Next ==
  \E p \in Pubs : Send(p) \/ Leave(p) \/ Answer(p) \/ Lose(p) \/ Unlock(p) \/ Relock(p)

Spec == Init /\ [][Next]_<<locks, waiting, known>>
===============================================================================
