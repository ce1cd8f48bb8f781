---------------------------- MODULE PublishingProof ----------------------------
(* Proofs about Publishing, for any number of posts, publications, handlers,   *)
(* accounts and attempts.                                                      *)
EXTENDS PublishingInvariant, TLAPS

USE PublishingAssumption

(* A handler that has nothing to do has no local variables worth the name.     *)
LEMMA IdleTyped == Idle \in Locals
<1>1. 0 \in 0 .. MaxAttempts
  OBVIOUS
<1> QED
  BY <1>1 DEF Idle, Locals, Steps

LEMMA InitConsistent == Init => Consistent
<1> SUFFICES ASSUME Init PROVE Consistent
  OBVIOUS
<1> USE DEF Init, NoRow, NoRemote
<1>1. TypeOK
  BY IdleTyped DEF TypeOK, Rows, Remotes, RemoteState
<1>2. OneLivePublication /\ RowFollowsPost /\ ReportsFollowPost
  BY DEF OneLivePublication, Live, LiveStates, RowFollowsPost, ReportsFollowPost,
         Waiting
<1>3. \A o \in Handlers : HandlerKnows(o)
  BY DEF HandlerKnows, Submitting, Updating, Idle
<1>4. DistinctIds
  BY DEF DistinctIds, Submitting, Idle
<1> QED
  BY <1>1, <1>2, <1>3, <1>4 DEF Consistent

-------------------------------------------------------------------------------
(* What a step has to establish, by the part of the state it changes.          *)

(* A step of the lock, or none of it.                                          *)
LockStep == [Lock!Next]_<<{p \in Pubs : Live(p)}, {p \in Pubs : Watched(p)},
                          {p \in Pubs : pub[p].id}>>

(* What every step is shown to do.                                             *)
Kept == Consistent' /\ LockStep

(* A step that changes neither which rows are live, nor which posts are        *)
(* watched, nor which ids are known.                                           *)
LEMMA NothingLocked ==
  ASSUME \A p \in Pubs : /\ (Live(p)' <=> Live(p))
                          /\ (Watched(p)' <=> Watched(p))
                          /\ (pub'[p].id <=> pub[p].id)
  PROVE  LockStep
BY DEF LockStep

(* A step that leaves the posts alone and writes one row whose id was known.   *)
LEMMA KnownRowLocked ==
  ASSUME NEW p \in Pubs, pub[p].id, pub'[p].id,
         \A q \in Pubs : Watched(q)' <=> Watched(q),
         \A q \in Pubs \ {p} : pub'[q] = pub[q],
         Live(p)' /\ ~Live(p) => ~LiveRival(p),
         Live(p) /\ ~Live(p)' => ~Waiting(p)
  PROVE  LockStep
<1> DEFINE locks == {q \in Pubs : Live(q)}
           waiting == {q \in Pubs : Watched(q)}
           known == {q \in Pubs : pub[q].id}
<1>0. /\ waiting' = waiting /\ known' = known /\ p \in known
      /\ \A q \in Pubs \ {p} : Live(q)' <=> Live(q)
  BY DEF Live
<1>1. CASE Live(p)' <=> Live(p)
  BY <1>0, <1>1, NothingLocked
<1>2. CASE Live(p)' /\ ~Live(p)
  <2>1. p \in known \ locks /\ locks' = locks \cup {p}
    BY <1>0, <1>2
  <2>2. \A q \in locks : PostOf[q] = PostOf[p] => q = p
    BY <1>2 DEF LiveRival
  <2>3. Lock!Relock(p)
    BY <1>0, <2>1, <2>2 DEF Lock!Relock, Lock!Free
  <2> QED
    BY <2>3 DEF LockStep, Lock!Next
<1>3. CASE Live(p) /\ ~Live(p)'
  <2>1. p \in (locks \cap known) \ waiting /\ locks' = locks \ {p}
    BY <1>0, <1>3 DEF Watched
  <2>2. Lock!Unlock(p)
    BY <1>0, <2>1 DEF Lock!Unlock
  <2> QED
    BY <2>2 DEF LockStep, Lock!Next
<1> QED
  BY <1>1, <1>2, <1>3

(* A step that leaves the posts alone and writes the row of a live submission  *)
(* whose id was unknown: the id arrives, or the submission stays as watched as *)
(* it was, or it is lost sight of.                                             *)
LEMMA NewRowLocked ==
  ASSUME NEW p \in Pubs, ~pub[p].id, Live(p), pub'[p].id \in BOOLEAN,
         UNCHANGED remote,
         \A q \in Pubs \ {p} : pub'[q] = pub[q],
         ~Live(p)' => ~Waiting(p) \/ Erred(p)'
  PROVE  LockStep
<1> DEFINE locks == {q \in Pubs : Live(q)}
           waiting == {q \in Pubs : Watched(q)}
           known == {q \in Pubs : pub[q].id}
<1>0. /\ p \in locks \ known /\ ~Erred(p)
      /\ \A q \in Pubs \ {p} : /\ (Live(q)' <=> Live(q))
                               /\ (Watched(q)' <=> Watched(q))
                               /\ (pub'[q].id <=> pub[q].id)
  BY DEF Live, LiveStates, Watched, Waiting, Erred
<1>1. CASE pub'[p].id
  <2>1. known' = known \cup {p}
    BY <1>0, <1>1
  <2>2. waiting' = waiting
    BY <1>0, <1>1 DEF Watched, Waiting, Erred
  <2>3. locks' = locks \/ (p \notin waiting /\ locks' = locks \ {p})
    <3>1. CASE Live(p)'
      BY <1>0, <3>1
    <3>2. CASE ~Live(p)'
      BY <1>0, <1>1, <3>2 DEF Watched, Erred
    <3> QED
      BY <3>1, <3>2
  <2>4. Lock!Answer(p)
    BY <1>0, <2>1, <2>2, <2>3 DEF Lock!Answer
  <2> QED
    BY <2>4 DEF LockStep, Lock!Next
<1>2. CASE ~pub'[p].id /\ Live(p)'
  <2>1. Watched(p)' <=> Watched(p)
    BY <1>0, <1>2 DEF Watched, Waiting, Erred, Live, LiveStates
  <2> QED
    BY <1>0, <1>2, <2>1, NothingLocked
<1>3. CASE ~pub'[p].id /\ ~Live(p)'
  <2>1. ~Watched(p)'
    BY <1>3 DEF Watched, Waiting
  <2>2. known' = known /\ locks' = locks \ {p} /\ waiting' = waiting \ {p}
    BY <1>0, <1>3, <2>1
  <2>3. Lock!Lose(p)
    BY <1>0, <2>2 DEF Lock!Lose
  <2> QED
    BY <2>3 DEF LockStep, Lock!Next
<1> QED
  BY <1>1, <1>2, <1>3

(* A step that leaves the rows alone and lets at most one post leave.          *)
LEMMA OnePostLeaves ==
  ASSUME NEW p \in Pubs, UNCHANGED pub,
         \A q \in Pubs \ {p} : Watched(q)' <=> Watched(q),
         Watched(p)' => Watched(p)
  PROVE  LockStep
<1> DEFINE locks == {q \in Pubs : Live(q)}
           waiting == {q \in Pubs : Watched(q)}
           known == {q \in Pubs : pub[q].id}
<1>0. locks' = locks /\ known' = known
  BY DEF Live
<1>1. CASE Watched(p)' <=> Watched(p)
  BY <1>1, NothingLocked DEF Live
<1>2. CASE Watched(p) /\ ~Watched(p)'
  <2>1. p \in waiting /\ waiting' = waiting \ {p}
    BY <1>2
  <2>2. Lock!Leave(p)
    BY <1>0, <2>1 DEF Lock!Leave
  <2> QED
    BY <2>2 DEF LockStep, Lock!Next
<1> QED
  BY <1>1, <1>2

(* A handler that takes no step keeps what it knows of its publication while   *)
(* the others leave the row's id alone and the post moves only forward.        *)
LEMMA OthersKnow ==
  ASSUME NEW x \in Handlers, HandlerKnows(x), op'[x] = op[x],
         pub[op[x].pub].id =>
           /\ pub'[op[x].pub].id
           /\ Waiting(op[x].pub)' => Waiting(op[x].pub)
           /\ remote[op[x].pub].state \in {"DELETED", "FAILED"} =>
                remote'[op[x].pub].state = remote[op[x].pub].state,
         op[x].pc \in Submitting =>
           /\ pub'[op[x].pub].state = pub[op[x].pub].state
           /\ pub'[op[x].pub].id = pub[op[x].pub].id
  PROVE  HandlerKnows(x)'
BY DEF HandlerKnows, Submitting, Updating, MayWrite, Waiting

(* A step that only moves one handler's counter and variables.                 *)
LEMMA HandlerMoves ==
  ASSUME Consistent, NEW o \in Handlers, NEW local \in Locals,
         UNCHANGED <<plan, pub, remote>>,
         op' = [op EXCEPT ![o] = local],
         HandlerKnows(o)',
         local.pc \in Submitting =>
           \/ op[o].pc \in Submitting /\ op[o].pub = local.pub
           \/ \A x \in Handlers : op[x].pub # local.pub
  PROVE  Kept
<1>0. /\ op' \in [Handlers -> Locals] /\ op'[o] = local
      /\ \A x \in Handlers \ {o} : op'[x] = op[x]
  BY DEF Consistent, TypeOK
<1>1. TypeOK'
  BY <1>0 DEF Consistent, TypeOK
<1>2. OneLivePublication' /\ RowFollowsPost' /\ ReportsFollowPost'
  BY DEF Consistent, OneLivePublication, RowFollowsPost, ReportsFollowPost, Live, Waiting,
              Erred
<1>3. ASSUME NEW x \in Handlers PROVE HandlerKnows(x)'
  <2>1. CASE x = o
    BY <2>1
  <2>2. CASE x # o
    BY <1>0, <2>2, OthersKnow DEF Consistent, Waiting
  <2> QED
    BY <2>1, <2>2
<1>4. DistinctIds'
  BY <1>0 DEF Consistent, DistinctIds
<1>5. LockStep
  BY NothingLocked DEF Live, Waiting, Watched, Erred
<1> QED
  BY <1>1, <1>2, <1>3, <1>4, <1>5 DEF Consistent, Kept

(* A step that writes the row p of the publication its handler works on, and   *)
(* ends the handler or lets it go on with something that is no submission.     *)
LEMMA RowWritten ==
  ASSUME Consistent, NEW o \in Handlers, NEW p \in Pubs,
         NEW row \in Rows, NEW local \in Locals,
         UNCHANGED <<plan, remote>>,
         pub' = Written(p, row),
         \/ MayWrite(p, row.state)
         \/ row.state = "FAILED" /\ ~row.id,
         remote[p].state # "ABSENT",
         IF pub[p].id THEN row.id ELSE Live(p),
         row.id => remote[p].state \notin {"ABSENT", "SENT", "REFUSED"},
         \A x \in Handlers \ {o} : op[x].pub = p => op[x].pc \notin Submitting,
         op' = [op EXCEPT ![o] = local],
         local.pc \notin Submitting,
         HandlerKnows(o)'
  PROVE  Kept
<1>0. TypeOK /\ OneLivePublication /\ RowFollowsPost /\ ReportsFollowPost
  BY DEF Consistent
<1>1. /\ op' \in [Handlers -> Locals] /\ op'[o] = local
      /\ \A x \in Handlers \ {o} : op'[x] = op[x]
      /\ pub' \in [Pubs -> Rows]
      /\ \A q \in Pubs \ {p} : pub'[q] = pub[q]
      /\ \/ pub'[p] = pub[p] /\ LiveRival(p)
         \/ pub'[p] = row /\ (row.state \in LiveStates => ~LiveRival(p))
  BY <1>0 DEF Written, TypeOK
<1>2. TypeOK'
  BY <1>0, <1>1 DEF TypeOK
<1>3. OneLivePublication'
  BY <1>0, <1>1 DEF OneLivePublication, Live, LiveRival, TypeOK
<1>4. RowFollowsPost' /\ ReportsFollowPost'
  BY <1>0, <1>1 DEF RowFollowsPost, ReportsFollowPost, Live, Waiting, MayWrite,
                    PublicationState, Erred
<1>5. ASSUME NEW x \in Handlers PROVE HandlerKnows(x)'
  <2>1. CASE x = o
    BY <2>1
  <2>2. CASE x # o
    <3>1. HandlerKnows(x) /\ op'[x] = op[x]
      BY <1>1, <2>2 DEF Consistent
    <3>2. op[x].pc # "idle" => op[x].pub \in Pubs
      BY <3>1 DEF HandlerKnows
    <3>3. op[x].pc = "idle" => HandlerKnows(x)'
      BY <3>1 DEF HandlerKnows, Submitting, Updating
    <3> QED
      BY <2>2, <3>1, <3>2, <3>3, <1>1, OthersKnow DEF Waiting
  <2> QED
    BY <2>1, <2>2
<1>6. DistinctIds'
  BY <1>1 DEF Consistent, DistinctIds
<1>7. LockStep
  <2>1. \A q \in Pubs : Waiting(q)' <=> Waiting(q)
    BY DEF Waiting
  <2>2. CASE pub' = pub
    BY <2>1, <2>2, NothingLocked DEF Live, Watched, Erred
  <2>3. CASE pub'[p] = row /\ pub[p].id
    <3>1. /\ pub'[p].id /\ MayWrite(p, row.state)
          /\ \A q \in Pubs : Watched(q)' <=> Watched(q)
      BY <1>1, <2>1, <2>3 DEF Watched, Erred
    <3> QED
      BY <1>1, <2>3, <3>1, KnownRowLocked DEF Live, MayWrite
  <2>4. CASE pub'[p] = row /\ ~pub[p].id
    <3>1. row.id \in BOOLEAN
      BY DEF Rows
    <3> QED
      BY <1>1, <2>4, <3>1, NewRowLocked DEF Live, MayWrite, Erred
  <2> QED
    BY <1>0, <1>1, <2>2, <2>3, <2>4 DEF Written, TypeOK
<1> QED
  BY <1>2, <1>3, <1>4, <1>5, <1>6, <1>7 DEF Consistent, Kept

(* A step in which the provider's post moves, or its content or its reports    *)
(* change: it is never back in the queue, and a post that settled stays put.   *)
LEMMA PostMoves ==
  ASSUME Consistent, NEW p \in Pubs, NEW post \in Remotes,
         UNCHANGED <<plan, pub>>,
         remote' = [remote EXCEPT ![p] = post],
         remote[p].state \in {"SENT", "SCHEDULED", "PROCESSING"},
         \/ post.state \in {"SCHEDULED", "PROCESSING", "PUBLISHED", "FAILED", "DELETED"}
         \/ remote[p].state = "SENT" /\ post.state = "REFUSED",
         post.state = "SCHEDULED" => remote[p].state # "PROCESSING",
         post.held \in Plans,
         post.state \notin {"PROCESSING", "PUBLISHED", "FAILED"}
           => post.ok = {} /\ post.bad = {},
         post.state = "FAILED" => post.ok = {},
         op' \in [Handlers -> Locals],
         \A x \in Handlers :
           \/ op'[x] = op[x]
           \/ op'[x].pc \notin Submitting /\ HandlerKnows(x)'
  PROVE  Kept
<1>0. TypeOK /\ OneLivePublication /\ RowFollowsPost /\ ReportsFollowPost
  BY DEF Consistent
<1>1. /\ remote' \in [Pubs -> Remotes] /\ remote'[p] = post
      /\ \A q \in Pubs \ {p} : remote'[q] = remote[q]
  BY <1>0 DEF TypeOK
<1>2. TypeOK' /\ OneLivePublication'
  BY <1>0, <1>1 DEF TypeOK, OneLivePublication, Live
<1>3. RowFollowsPost' /\ ReportsFollowPost'
  BY <1>0, <1>1 DEF RowFollowsPost, ReportsFollowPost, Live, Waiting, Erred
<1>4. ASSUME NEW q \in Pubs
      PROVE  /\ Waiting(q)' => Waiting(q)
             /\ remote[q].state \in {"DELETED", "FAILED"} =>
                  remote'[q].state = remote[q].state
  <2>1. CASE q = p
    BY <1>1, <2>1 DEF Waiting
  <2>2. CASE q # p
    BY <1>1, <2>2 DEF Waiting
  <2> QED
    BY <2>1, <2>2
<1>5. ASSUME NEW x \in Handlers PROVE HandlerKnows(x)'
  <2>1. CASE op'[x] = op[x]
    <3>1. HandlerKnows(x)
      BY DEF Consistent
    <3>2. CASE op[x].pc = "idle"
      BY <2>1, <3>2 DEF HandlerKnows, Submitting, Updating
    <3>3. CASE op[x].pc # "idle"
      <4>1. op[x].pub \in Pubs
        BY <3>1, <3>3 DEF HandlerKnows
      <4> QED
        BY <1>4, <2>1, <3>1, <4>1, OthersKnow
    <3> QED
      BY <3>2, <3>3
  <2> QED
    BY <2>1
<1>6. DistinctIds'
  BY DEF Consistent, DistinctIds
<1>7. LockStep
  <2>1. \A q \in Pubs \ {p} : Watched(q)' <=> Watched(q)
    BY <1>1 DEF Watched, Waiting, Erred
  <2>2. Watched(p)' => Watched(p)
    BY <1>4 DEF Watched, Erred
  <2> QED
    BY <2>1, <2>2, OnePostLeaves
<1> QED
  BY <1>2, <1>3, <1>5, <1>6, <1>7 DEF Consistent, Kept

(* A step that starts or ends another handler's work leaves Idle behind.       *)
LEMMA IdleKnows == ASSUME NEW o \in Handlers, op'[o] = Idle PROVE HandlerKnows(o)'
BY DEF HandlerKnows, Idle, Submitting, Updating

(* The types of what a handler carries, for a handler that is at work.         *)
LEMMA AtWork ==
  ASSUME Consistent, NEW o \in Handlers, op[o].pc # "idle"
  PROVE  /\ op[o] \in Locals
         /\ op[o].pub \in Pubs
         /\ pub[op[o].pub] \in Rows
         /\ remote[op[o].pub] \in Remotes
BY DEF Consistent, TypeOK, HandlerKnows, Locals

-------------------------------------------------------------------------------
(* Submitting.                                                                 *)

LEMMA SubmitBeginKeeps ==
  ASSUME Consistent, NEW o \in Handlers, NEW p \in Pubs, SubmitBegin(o, p)
  PROVE  Kept
<1> PICK token \in Plans :
      op' = [op EXCEPT ![o] = [Idle EXCEPT !.pc = "targets", !.kind = "SUBMIT",
                                           !.pub = p, !.plan = plan[PostOf[p]],
                                           !.token = token]]
  BY DEF SubmitBegin
<1> DEFINE local == [Idle EXCEPT !.pc = "targets", !.kind = "SUBMIT", !.pub = p,
                                 !.plan = plan[PostOf[p]], !.token = token]
<1>1. plan[PostOf[p]] \in Plans
  BY DEF Consistent, TypeOK
<1>2. local \in Locals /\ local.pc = "targets" /\ local.pub = p /\ local.plan \in Plans
  BY <1>1, IdleTyped, Zenon DEF Locals, Steps, Kinds
<1> HIDE DEF local
<1>3. op'[o] = local
  BY Zenon DEF Consistent, TypeOK, local
<1>4. HandlerKnows(o)'
  BY <1>2, <1>3 DEF SubmitBegin, Unused, HandlerKnows, Submitting, Updating
<1> QED
  BY <1>2, <1>4, HandlerMoves DEF SubmitBegin, Unused, local

LEMMA SubmitGateKeeps ==
  ASSUME Consistent, NEW o \in Handlers, SubmitGate(o)
  PROVE  Kept
<1> DEFINE local == [op[o] EXCEPT !.pc = "upload"]
<1>0. op[o].pc = "targets" /\ HandlerKnows(o) /\ op[o] \in Locals
  BY DEF Consistent, TypeOK, SubmitGate
<1>1. /\ local \in Locals /\ local.pc = "upload" /\ local.pub = op[o].pub
      /\ local.plan = op[o].plan
  BY <1>0, Zenon DEF Locals, Steps
<1>2. op' = [op EXCEPT ![o] = local] /\ UNCHANGED <<plan, pub, remote>>
  BY Zenon DEF SubmitGate
<1> HIDE DEF local
<1>3. op'[o] = local
  BY <1>2 DEF Consistent, TypeOK
<1>4. HandlerKnows(o)'
  BY <1>0, <1>1, <1>2, <1>3 DEF HandlerKnows, Submitting, Updating
<1> QED
  BY <1>0, <1>1, <1>2, <1>4, HandlerMoves DEF Submitting

LEMMA SubmitInsertKeeps ==
  ASSUME Consistent, NEW o \in Handlers, SubmitInsert(o)
  PROVE  Kept
<1> DEFINE p == op[o].pub
           row == [state |-> "SUBMITTING", id |-> FALSE, sent |-> op[o].plan, attempts |-> 0]
           post == [state |-> "SENT", held |-> op[o].plan, ok |-> {}, bad |-> {}]
           local == [op[o] EXCEPT !.pc = "posting", !.plan = None]
<1>0. /\ TypeOK /\ OneLivePublication /\ RowFollowsPost /\ ReportsFollowPost
      /\ HandlerKnows(o) /\ DistinctIds
  BY DEF Consistent
<1>1. /\ op[o].pc = "upload" /\ ~LiveRival(p) /\ UNCHANGED plan
      /\ pub' = [pub EXCEPT ![p] = row]
      /\ remote' = [remote EXCEPT ![p] = post]
      /\ op' = [op EXCEPT ![o] = local]
  BY Zenon DEF SubmitInsert
<1>2. p \in Pubs /\ op[o].plan \in Plans /\ pub[p].state = "NONE"
  BY <1>0, <1>1 DEF HandlerKnows
<1>3. remote[p].state = "ABSENT" /\ ~pub[p].id
  BY <1>0, <1>2 DEF RowFollowsPost
<1>4. row \in Rows /\ row.state = "SUBMITTING" /\ ~row.id
  BY <1>2 DEF Rows, PublicationState
<1>5. /\ post \in Remotes /\ post.state = "SENT" /\ post.held \in Plans
      /\ post.ok = {} /\ post.bad = {}
  BY <1>2 DEF Remotes, RemoteState
<1>6. local \in Locals /\ local.pc = "posting" /\ local.pub = p
  <2>1. op[o] \in Locals
    BY <1>0 DEF TypeOK
  <2> QED
    BY <2>1, Zenon DEF Locals, Steps
<1> HIDE DEF row, post, local
<1>7. /\ pub' \in [Pubs -> Rows] /\ remote' \in [Pubs -> Remotes]
      /\ op' \in [Handlers -> Locals]
      /\ pub'[p] = row /\ remote'[p] = post /\ op'[o] = local
      /\ \A q \in Pubs \ {p} : pub'[q] = pub[q] /\ remote'[q] = remote[q]
      /\ \A x \in Handlers \ {o} : op'[x] = op[x]
  BY <1>0, <1>1, <1>2, <1>4, <1>5, <1>6 DEF TypeOK
<1>8. TypeOK'
  BY <1>0, <1>1, <1>7 DEF TypeOK
<1>9. OneLivePublication'
  BY <1>0, <1>1, <1>2, <1>7 DEF OneLivePublication, Live, LiveRival
<1>10. RowFollowsPost' /\ ReportsFollowPost'
  BY <1>0, <1>2, <1>4, <1>5, <1>7 DEF RowFollowsPost, ReportsFollowPost, Live, Waiting,
                                      LiveStates, Erred
<1>11. ASSUME NEW x \in Handlers PROVE HandlerKnows(x)'
  <2>1. CASE x = o
    BY <2>1, <1>2, <1>4, <1>6, <1>7 DEF HandlerKnows, Submitting, Updating
  <2>2. CASE x # o
    <3>1. HandlerKnows(x) /\ op'[x] = op[x]
      BY <2>2, <1>7 DEF Consistent
    <3>2. CASE op[x].pc = "idle"
      BY <3>1, <3>2 DEF HandlerKnows, Submitting, Updating
    <3>3. CASE op[x].pc # "idle"
      <4>1. op[x].pub \in Pubs /\ op[x].pub # p
        BY <3>1, <3>3, <2>2, <1>0, <1>1, <1>3 DEF HandlerKnows, DistinctIds, Submitting
      <4> QED
        BY <3>1, <4>1, <1>7, OthersKnow DEF Waiting
    <3> QED
      BY <3>2, <3>3
  <2> QED
    BY <2>1, <2>2
<1>12. DistinctIds'
  BY <1>0, <1>1, <1>6, <1>7 DEF DistinctIds, Submitting
<1>13. LockStep
  <2> DEFINE locks == {q \in Pubs : Live(q)}
             waiting == {q \in Pubs : Watched(q)}
             known == {q \in Pubs : pub[q].id}
  <2>1. /\ p \notin locks \cup known
        /\ locks' = locks \cup {p} /\ waiting' = waiting \cup {p} /\ known' = known
    BY <1>2, <1>3, <1>4, <1>5, <1>7 DEF Live, LiveStates, Watched, Waiting, Erred
  <2>2. \A q \in locks : PostOf[q] = PostOf[p] => q = p
    BY <1>1 DEF LiveRival
  <2>3. Lock!Send(p)
    BY <2>1, <2>2 DEF Lock!Send, Lock!Free
  <2> QED
    BY <1>2, <2>3 DEF LockStep, Lock!Next
<1> QED
  BY <1>8, <1>9, <1>10, <1>11, <1>12, <1>13 DEF Consistent, Kept

LEMMA SubmitAnsweredKeeps ==
  ASSUME Consistent, NEW o \in Handlers, SubmitAnswered(o)
  PROVE  Kept
<1> DEFINE p == op[o].pub
<1>0. /\ HandlerKnows(o) /\ RowFollowsPost /\ OneLivePublication /\ DistinctIds
      /\ op[o].pc = "posting" /\ remote[p].state \notin {"SENT", "REFUSED"}
      /\ UNCHANGED <<plan, remote>>
  BY DEF Consistent, SubmitAnswered
<1>1. /\ p \in Pubs /\ pub[p] \in Rows /\ pub[p].state = "SUBMITTING" /\ ~pub[p].id
      /\ remote[p].state # "ABSENT"
  BY <1>0, AtWork DEF HandlerKnows, RowFollowsPost
<1>2. \A x \in Handlers \ {o} : op[x].pub = p => op[x].pc \notin Submitting
  BY <1>0 DEF DistinctIds, Submitting
<1> PICK answer \in AnsweredStates(remote[p]) :
      /\ pub' = Written(p, [pub[p] EXCEPT !.state = answer, !.id = TRUE])
      /\ op' = [op EXCEPT ![o] =
                  IF answer = "SUBMITTED"
                  THEN [Idle EXCEPT !.pc = "check", !.kind = "CHECK", !.pub = p,
                                    !.attempts = pub[p].attempts]
                  ELSE Idle]
  BY Zenon DEF SubmitAnswered
<1>3. answer \in PublicationState /\ MayWrite(p, answer)
  BY DEF AnsweredStates, PublicationState, MayWrite, Waiting, LiveStates
<1> DEFINE row == [pub[p] EXCEPT !.state = answer, !.id = TRUE]
           checking == [Idle EXCEPT !.pc = "check", !.kind = "CHECK", !.pub = p,
                                    !.attempts = pub[p].attempts]
           local == IF answer = "SUBMITTED" THEN checking ELSE Idle
<1>4. row \in Rows /\ row.state = answer /\ row.id
  BY <1>1, <1>3, Zenon DEF Rows
<1>5. checking \in Locals /\ checking.pc = "check" /\ checking.pub = p /\ checking.kind = "CHECK"
  <2>1. pub[p].attempts \in 0 .. MaxAttempts
    BY <1>1, Zenon DEF Rows
  <2> QED
    BY <1>1, <2>1, IdleTyped, Zenon DEF Locals, Steps, Kinds
<1>6. pub' = Written(p, row) /\ op' = [op EXCEPT ![o] = local]
  BY Zenon
<1> HIDE DEF row, checking
<1>7. /\ local \in Locals
      /\ local = Idle \/ (answer = "SUBMITTED" /\ local = checking)
  BY <1>5, IdleTyped
<1> HIDE DEF local
<1>8. op'[o] = local
  BY <1>6 DEF Consistent, TypeOK
<1>9. local.pc \notin Submitting
  BY <1>5, <1>7 DEF Submitting, Idle
<1>10. HandlerKnows(o)'
  <2>1. CASE local = Idle
    BY <1>8, <2>1, IdleKnows
  <2>2. CASE answer = "SUBMITTED" /\ local = checking
    <3>1. pub'[p].id
      <4>1. ~LiveRival(p)
        BY <1>0, <1>1 DEF OneLivePublication, LiveRival, Live, LiveStates
      <4> QED
        BY <1>1, <1>4, <1>6, <4>1 DEF Written, Consistent, TypeOK
    <3> QED
      BY <1>1, <1>5, <1>8, <2>2, <3>1 DEF HandlerKnows, Submitting, Updating
  <2> QED
    BY <1>7, <2>1, <2>2
<1>11. Live(p)
  BY <1>1 DEF Live, LiveStates
<1> QED
  BY <1>0, <1>1, <1>2, <1>3, <1>4, <1>6, <1>7, <1>9, <1>10, <1>11, RowWritten

(* A handler that ends by writing a state its post allows.                     *)
LEMMA EndWithKeeps ==
  ASSUME Consistent, NEW o \in Handlers, NEW state, EndWith(o, state),
         op[o].pc # "idle",
         \/ MayWrite(op[o].pub, state)
         \/ state = "FAILED" /\ op[o].pc = "posting",
         remote[op[o].pub].state # "ABSENT",
         \A x \in Handlers \ {o} : op[x].pub = op[o].pub => op[x].pc \notin Submitting
  PROVE  Kept
<1> DEFINE p == op[o].pub
           row == [pub[p] EXCEPT !.state = state]
<1>0. HandlerKnows(o) /\ op[o].pc \notin {"targets", "upload"}
  BY DEF Consistent, RowFollowsPost, HandlerKnows
<1>1. /\ p \in Pubs /\ pub[p] \in Rows /\ state \in PublicationState
      /\ op[o].pc = "posting" => ~pub[p].id /\ Live(p)
      /\ op[o].pc # "posting" => pub[p].id
  BY <1>0, AtWork DEF MayWrite, HandlerKnows, PublicationState, Live, LiveStates, Submitting
<1>2. row \in Rows /\ row.state = state /\ row.id = pub[p].id
  BY <1>1, Zenon DEF Rows
<1>3. row.id => remote[p].state \notin {"ABSENT", "SENT", "REFUSED"}
  BY <1>1, <1>2 DEF Consistent, RowFollowsPost
<1>4. pub' = Written(p, row) /\ op' = [op EXCEPT ![o] = Idle] /\ UNCHANGED <<plan, remote>>
  BY Zenon DEF EndWith
<1> HIDE DEF row
<1>5. HandlerKnows(o)'
  BY <1>4, IdleKnows DEF Consistent, TypeOK
<1>6. Idle.pc \notin Submitting
  BY DEF Idle, Submitting
<1> QED
  BY <1>1, <1>2, <1>3, <1>4, <1>5, <1>6, IdleTyped, RowWritten

(* No other handler submits under the id of a handler's publication.           *)
LEMMA OneSubmitter ==
  ASSUME Consistent, NEW o \in Handlers, op[o].pc # "idle"
  PROVE  \A x \in Handlers \ {o} : op[x].pub = op[o].pub => op[x].pc \notin Submitting
<1> SUFFICES ASSUME NEW x \in Handlers \ {o}, op[x].pub = op[o].pub, op[x].pc \in Submitting
             PROVE  FALSE
  OBVIOUS
<1>1. HandlerKnows(o) /\ HandlerKnows(x) /\ DistinctIds /\ RowFollowsPost
  BY DEF Consistent
<1>2. op[o].pc \notin Submitting
  BY <1>1 DEF DistinctIds
<1>3. op[o].pub \in Pubs /\ pub[op[o].pub].id
  BY <1>1, <1>2 DEF HandlerKnows
<1> QED
  BY <1>1, <1>3 DEF HandlerKnows, RowFollowsPost, Submitting

(* The provider has heard of the post of every handler past its INSERT.        *)
LEMMA PostIsThere ==
  ASSUME Consistent, NEW o \in Handlers, op[o].pc \notin {"idle", "targets", "upload"}
  PROVE  remote[op[o].pub].state # "ABSENT"
<1>1. HandlerKnows(o) /\ RowFollowsPost
  BY DEF Consistent
<1> QED
  BY <1>1 DEF HandlerKnows, RowFollowsPost, Submitting

LEMMA SubmitEndsKeep ==
  ASSUME Consistent, NEW o \in Handlers, SubmitFailed(o) \/ SubmitLost(o)
  PROVE  Kept
<1>1. op[o].pc = "posting"
  BY DEF SubmitFailed, SubmitLost
<1>2. remote[op[o].pub].state # "ABSENT"
  BY <1>1, PostIsThere
<1>3. CASE SubmitFailed(o)
  BY <1>1, <1>2, <1>3, OneSubmitter, EndWithKeeps DEF SubmitFailed
<1>4. CASE SubmitLost(o)
  <2>1. EndWith(o, "UNCONFIRMED") /\ MayWrite(op[o].pub, "UNCONFIRMED")
    BY <1>4 DEF SubmitLost, MayWrite, LiveStates, PublicationState
  <2> QED
    BY <1>1, <1>2, <2>1, OneSubmitter, EndWithKeeps
<1> QED
  BY <1>3, <1>4

-------------------------------------------------------------------------------
(* Reconciling.                                                                *)

LEMMA CheckBeginKeeps ==
  ASSUME Consistent, NEW o \in Handlers, NEW p \in Pubs,
         NEW kind \in {"CHECK", "AUTOMATIC_CHECK"}, CheckBegin(o, p, kind)
  PROVE  Kept
<1> DEFINE local == [Idle EXCEPT !.pc = "check", !.kind = kind, !.pub = p,
                                 !.attempts = pub[p].attempts]
<1>1. pub[p] \in Rows /\ pub[p].id /\ (kind = "AUTOMATIC_CHECK" => pub[p].attempts < MaxAttempts)
  BY DEF Consistent, TypeOK, CheckBegin, MayCheck, CheckDue
<1>2. pub[p].attempts \in 0 .. MaxAttempts
  BY <1>1, Zenon DEF Rows
<1>3. /\ local \in Locals /\ local.pc = "check" /\ local.pub = p /\ local.kind = kind
      /\ local.attempts = pub[p].attempts
  BY <1>2, IdleTyped, Zenon DEF Locals, Steps, Kinds
<1>4. op' = [op EXCEPT ![o] = local] /\ UNCHANGED <<plan, pub, remote>>
  BY Zenon DEF CheckBegin
<1> HIDE DEF local
<1>5. op'[o] = local
  BY <1>4 DEF Consistent, TypeOK
<1>6. HandlerKnows(o)'
  BY <1>1, <1>3, <1>4, <1>5 DEF HandlerKnows, Submitting, Updating
<1> QED
  BY <1>3, <1>4, <1>6, HandlerMoves DEF Submitting

LEMMA CheckAnsweredKeeps ==
  ASSUME Consistent, NEW o \in Handlers, CheckAnswered(o) \/ CheckUnread(o)
  PROVE  Kept
<1> DEFINE p == op[o].pub
<1> PICK verdict \in {"SUBMITTED", CheckState(remote[p])} : CheckTold(o, verdict)
  BY DEF CheckAnswered, CheckUnread
<1> DEFINE local == [op[o] EXCEPT !.pc = "checked", !.state = verdict]
<1>0. /\ op[o].pc = "check" /\ HandlerKnows(o) /\ RowFollowsPost /\ ReportsFollowPost
      /\ op' = [op EXCEPT ![o] = local] /\ UNCHANGED <<plan, pub, remote>>
  BY Zenon DEF Consistent, CheckTold
<1>1. op[o] \in Locals /\ p \in Pubs /\ remote[p] \in Remotes /\ pub[p].id
  BY <1>0, AtWork DEF HandlerKnows, Submitting
<1>2. verdict \in PublicationState /\ MayWrite(p, verdict) /\ verdict # "CANCELLED"
  <2>1. verdict \in {"SUBMITTED", "FAILED", "CONFIRMED", "PARTIAL"}
    BY DEF CheckState
  <2>2. Waiting(p) => verdict = "SUBMITTED"
    BY <1>0, <1>1 DEF ReportsFollowPost, Waiting, CheckState
  <2> QED
    BY <2>1, <2>2 DEF MayWrite, LiveStates, PublicationState
<1>3. /\ local \in Locals /\ local.pc = "checked" /\ local.pub = p /\ local.state = verdict
      /\ local.kind = op[o].kind /\ local.attempts = op[o].attempts
  BY <1>1, <1>2, Zenon DEF Locals, Steps
<1> HIDE DEF local
<1>4. op'[o] = local
  BY <1>0 DEF Consistent, TypeOK
<1>5. HandlerKnows(o)'
  BY <1>0, <1>1, <1>2, <1>3, <1>4 DEF HandlerKnows, MayWrite, Waiting, Submitting, Updating
<1> QED
  BY <1>0, <1>3, <1>5, HandlerMoves DEF Submitting

LEMMA CheckRecordedKeeps ==
  ASSUME Consistent, NEW o \in Handlers, CheckRecorded(o)
  PROVE  Kept
<1> DEFINE p == op[o].pub
           l == op[o]
           row == CheckedRow(l, pub[p])
<1>0. op[o].pc = "checked" /\ HandlerKnows(o) /\ RowFollowsPost
  BY DEF Consistent, CheckRecorded
<1>1. p \in Pubs /\ pub[p] \in Rows /\ pub[p].id /\ l \in Locals
  BY <1>0, AtWork DEF HandlerKnows, Submitting
<1>2. MayWrite(p, l.state)
  BY <1>0 DEF HandlerKnows
<1> DEFINE attempts == IF l.kind = "AUTOMATIC_CHECK" THEN l.attempts + 1 ELSE l.attempts
           givingUp == /\ l.kind = "AUTOMATIC_CHECK"
                       /\ attempts >= MaxAttempts
                       /\ l.state \in ReconcilableStates
           state == IF givingUp THEN "UNCONFIRMED" ELSE l.state
<1>3. attempts \in 0 .. MaxAttempts
  <2>1. l.attempts \in 0 .. MaxAttempts
    BY <1>1, Zenon DEF Locals
  <2>2. l.kind = "AUTOMATIC_CHECK" => l.attempts < MaxAttempts
    BY <1>0 DEF HandlerKnows
  <2> QED
    BY <2>1, <2>2
<1>4. MayWrite(p, state)
  BY <1>2 DEF MayWrite, LiveStates, PublicationState
<1>5. row = [pub[p] EXCEPT !.state = state, !.attempts = attempts]
  BY Zenon DEF CheckedRow
<1> HIDE DEF attempts, givingUp, state
<1>6. row \in Rows /\ row.state = state /\ row.id = pub[p].id
  <2>1. state \in PublicationState
    BY <1>4 DEF MayWrite
  <2> QED
    BY <1>1, <1>3, <1>5, <2>1, Zenon DEF Rows
<1>7. pub' = Written(p, row) /\ op' = [op EXCEPT ![o] = Idle] /\ UNCHANGED <<plan, remote>>
  BY Zenon DEF CheckRecorded
<1> HIDE DEF row
<1>8. remote[p].state \notin {"ABSENT", "SENT", "REFUSED"}
  BY <1>0, <1>1 DEF RowFollowsPost
<1>9. HandlerKnows(o)' /\ Idle.pc \notin Submitting
  BY <1>7, IdleKnows DEF Consistent, TypeOK, Idle, Submitting
<1>10. \A x \in Handlers \ {o} : op[x].pub = p => op[x].pc \notin Submitting
  BY <1>0, OneSubmitter
<1> QED
  BY <1>1, <1>4, <1>6, <1>7, <1>8, <1>9, <1>10, IdleTyped, RowWritten

-------------------------------------------------------------------------------
(* Acting on what the provider holds.                                          *)

LEMMA CompareBeginKeeps ==
  ASSUME Consistent, NEW o \in Handlers, NEW p \in Pubs, NEW kind \in ProviderAction,
         CompareBegin(o, p, kind)
  PROVE  Kept
<1> DEFINE rec == Described(remote[p])
           local == [Idle EXCEPT !.pc = "compare", !.kind = kind, !.pub = p, !.rec = rec]
<1>0. /\ pub[p].id /\ Offered(kind, pub[p], plan[PostOf[p]], rec)
      /\ op' = [op EXCEPT ![o] = local] /\ UNCHANGED <<plan, pub, remote>>
  BY Zenon DEF CompareBegin
<1>1. /\ rec \in Records /\ rec.state = remote[p].state /\ rec.held \in Plans
      /\ (kind = "RELEASE_LOCALLY" => rec.state = "DELETED")
  <2>1. rec.state = remote[p].state /\ rec.held = remote[p].held
    BY DEF Described
  <2>2. remote[p].state \in RemoteState /\ remote[p].held \in Plans
    BY <1>0 DEF Consistent, TypeOK, Remotes, RowFollowsPost, ReportsFollowPost
  <2>3. rec \in Records
    BY <2>2 DEF Described, Records
  <2>4. kind = "RELEASE_LOCALLY" => rec.state = "DELETED"
    BY <1>0 DEF Offered, ReleaseOffered
  <2> QED
    BY <2>1, <2>2, <2>3, <2>4
<1> HIDE DEF rec
<1>2. /\ local \in Locals /\ local.pc = "compare" /\ local.pub = p /\ local.kind = kind
      /\ local.rec = rec
  BY <1>1, IdleTyped, Zenon DEF Locals, Steps, Kinds
<1> HIDE DEF local
<1>3. op'[o] = local
  BY <1>0 DEF Consistent, TypeOK
<1>4. HandlerKnows(o)'
  BY <1>0, <1>1, <1>2, <1>3 DEF HandlerKnows, Submitting, Updating
<1> QED
  BY <1>0, <1>2, <1>4, HandlerMoves DEF Submitting

LEMMA CompareAnsweredKeeps ==
  ASSUME Consistent, NEW o \in Handlers, CompareAnswered(o)
  PROVE  Kept
<1> DEFINE local == [op[o] EXCEPT !.pc = "described"]
<1>0. /\ op[o].pc = "compare" /\ HandlerKnows(o) /\ op[o] \in Locals
      /\ op' = [op EXCEPT ![o] = local] /\ UNCHANGED <<plan, pub, remote>>
  BY Zenon, AtWork DEF Consistent, CompareAnswered, TypeOK
<1>1. /\ local \in Locals /\ local.pc = "described" /\ local.pub = op[o].pub
      /\ local.rec = op[o].rec /\ local.kind = op[o].kind
  BY <1>0, Zenon DEF Locals, Steps
<1> HIDE DEF local
<1>2. op'[o] = local
  BY <1>0 DEF Consistent, TypeOK
<1>3. HandlerKnows(o)'
  BY <1>0, <1>1, <1>2 DEF HandlerKnows, Submitting, Updating
<1> QED
  BY <1>0, <1>1, <1>3, HandlerMoves DEF Submitting

(* The row becomes CANCELLED when its post is gone or has failed.              *)
LEMMA RecordCancelKeeps ==
  ASSUME Consistent, NEW o \in Handlers, RecordCancel(o),
         op[o].pc \in {"described", "withdrawn"},
         remote[op[o].pub].state \in {"DELETED", "FAILED"}
  PROVE  Kept
<1> DEFINE p == op[o].pub
           row == [pub[p] EXCEPT !.state = "CANCELLED"]
           replanning == [Idle EXCEPT !.pc = "replan", !.kind = op[o].kind, !.pub = p,
                                      !.plan = plan[PostOf[p]]]
           local == IF op[o].kind = "RESTORE_AND_RESUBMIT" THEN replanning ELSE Idle
<1>0. /\ pub' = Written(p, row) /\ op' = [op EXCEPT ![o] = local]
      /\ UNCHANGED <<plan, remote>>
  BY Zenon DEF RecordCancel
<1>1. p \in Pubs /\ pub[p] \in Rows /\ pub[p].id /\ op[o] \in Locals
  BY AtWork DEF Consistent, HandlerKnows, Submitting
<1>2. row \in Rows /\ row.state = "CANCELLED" /\ row.id
  BY <1>1, Zenon DEF Rows, PublicationState
<1>3. MayWrite(p, "CANCELLED")
  BY DEF MayWrite, PublicationState, Waiting
<1>4. /\ replanning \in Locals /\ replanning.pc = "replan" /\ replanning.pub = p
  <2>1. plan[PostOf[p]] \in Plans /\ op[o].kind \in Kinds \cup {None}
    BY <1>1 DEF Consistent, TypeOK, Locals
  <2> QED
    BY <1>1, <2>1, IdleTyped, Zenon DEF Locals, Steps
<1> HIDE DEF row, replanning
<1>5. local \in Locals /\ (local = Idle \/ local = replanning)
  BY <1>4, IdleTyped
<1> HIDE DEF local
<1>6. op'[o] = local
  BY <1>0 DEF Consistent, TypeOK
<1>7. pub'[p].id
  BY <1>0, <1>1, <1>2 DEF Written, Consistent, TypeOK
<1>8. HandlerKnows(o)'
  <2>1. CASE local = Idle
    BY <1>6, <2>1, IdleKnows
  <2>2. CASE local = replanning
    BY <1>1, <1>4, <1>6, <1>7, <2>2 DEF HandlerKnows, Submitting, Updating
  <2> QED
    BY <1>5, <2>1, <2>2
<1>9. local.pc \notin Submitting
  BY <1>4, <1>5 DEF Submitting, Idle
<1> QED
  BY <1>0, <1>1, <1>2, <1>3, <1>5, <1>8, <1>9, OneSubmitter, RowWritten

LEMMA CancelsKeep ==
  ASSUME Consistent, NEW o \in Handlers,
         Release(o) \/ ReplaceFailed(o) \/ WithdrawRecorded(o)
  PROVE  Kept
<1>0. HandlerKnows(o)
  BY DEF Consistent
<1>1. RecordCancel(o) /\ op[o].pc \in {"described", "withdrawn"}
  BY DEF Release, ReplaceFailed, WithdrawRecorded, WithdrawAnswered, Decides
<1>2. CASE Release(o)
  BY <1>0, <1>1, <1>2, RecordCancelKeeps DEF Release, Decides, HandlerKnows
<1>3. CASE ReplaceFailed(o)
  BY <1>0, <1>1, <1>3, RecordCancelKeeps DEF ReplaceFailed, Decides, HandlerKnows
<1>4. CASE WithdrawRecorded(o)
  BY <1>0, <1>1, <1>4, RecordCancelKeeps DEF WithdrawRecorded, WithdrawAnswered, HandlerKnows
<1> QED
  BY <1>2, <1>3, <1>4

LEMMA WithdrawKeeps ==
  ASSUME Consistent, NEW o \in Handlers, Withdraw(o)
  PROVE  Kept
<1> DEFINE local == [op[o] EXCEPT !.pc = "withdraw", !.rec = None]
<1>0. /\ op[o].pc = "described" /\ HandlerKnows(o) /\ op[o] \in Locals
      /\ op' = [op EXCEPT ![o] = local] /\ UNCHANGED <<plan, pub, remote>>
  BY Zenon DEF Consistent, Withdraw, Decides, TypeOK
<1>1. local \in Locals /\ local.pc = "withdraw" /\ local.pub = op[o].pub
  BY <1>0, Zenon DEF Locals, Steps
<1> HIDE DEF local
<1>2. op'[o] = local
  BY <1>0 DEF Consistent, TypeOK
<1>3. HandlerKnows(o)'
  BY <1>0, <1>1, <1>2 DEF HandlerKnows, Submitting, Updating
<1> QED
  BY <1>0, <1>1, <1>3, HandlerMoves DEF Submitting

LEMMA ProviderWithdrawsKeeps ==
  ASSUME Consistent, NEW o \in Handlers, ProviderWithdraws(o)
  PROVE  Kept
<1> DEFINE p == op[o].pub
           post == [remote[p] EXCEPT !.state = "DELETED"]
           local == [op[o] EXCEPT !.pc = "withdrawn"]
<1>0. /\ op[o].pc = "withdraw" /\ remote[p].state = "SCHEDULED" /\ HandlerKnows(o)
      /\ remote' = [remote EXCEPT ![p] = post]
      /\ op' = [op EXCEPT ![o] = local] /\ UNCHANGED <<plan, pub>>
  BY Zenon DEF Consistent, ProviderWithdraws
<1>1. p \in Pubs /\ op[o] \in Locals /\ remote[p] \in Remotes /\ pub[p].id
  BY <1>0, AtWork DEF HandlerKnows, Submitting
<1>2. /\ post \in Remotes /\ post.state = "DELETED" /\ post.held = remote[p].held
      /\ post.ok = remote[p].ok /\ post.bad = remote[p].bad
  BY <1>1, Zenon DEF Remotes, RemoteState
<1>3. local \in Locals /\ local.pc = "withdrawn" /\ local.pub = p
  BY <1>1, Zenon DEF Locals, Steps
<1> HIDE DEF post, local
<1>4. /\ op'[o] = local /\ op' \in [Handlers -> Locals] /\ remote'[p] = post
      /\ \A x \in Handlers \ {o} : op'[x] = op[x]
  BY <1>0, <1>1, <1>3 DEF Consistent, TypeOK
<1>5. HandlerKnows(o)' /\ op'[o].pc \notin Submitting
  BY <1>0, <1>1, <1>2, <1>3, <1>4 DEF HandlerKnows, Submitting, Updating
<1>6. post.held \in Plans /\ post.ok = {} /\ post.bad = {}
  BY <1>0, <1>1, <1>2 DEF Consistent, ReportsFollowPost
<1> QED
  BY <1>0, <1>1, <1>2, <1>4, <1>5, <1>6, PostMoves

LEMMA ResubmitKeeps ==
  ASSUME Consistent, NEW o \in Handlers, NEW q \in Pubs, Resubmit(o, q)
  PROVE  Kept
<1> DEFINE local == [Idle EXCEPT !.pc = "targets", !.kind = op[o].kind, !.pub = q,
                                 !.plan = plan[PostOf[q]], !.token = op[o].plan]
<1>0. /\ op[o].pc = "replan" /\ Unused(q) /\ op' = [op EXCEPT ![o] = local]
      /\ UNCHANGED <<plan, pub, remote>>
  BY Zenon DEF Resubmit
<1>1. /\ plan[PostOf[q]] \in Plans /\ op[o].kind \in Kinds \cup {None}
      /\ op[o].plan \in Plans \cup {None}
  BY DEF Consistent, TypeOK, Locals
<1>2. local \in Locals /\ local.pc = "targets" /\ local.pub = q /\ local.plan \in Plans
  BY <1>1, IdleTyped, Zenon DEF Locals, Steps
<1> HIDE DEF local
<1>3. op'[o] = local
  BY <1>0 DEF Consistent, TypeOK
<1>4. HandlerKnows(o)'
  BY <1>0, <1>2, <1>3 DEF Unused, HandlerKnows, Submitting, Updating
<1> QED
  BY <1>0, <1>2, <1>4, HandlerMoves DEF Unused

LEMMA UpdateBeginKeeps ==
  ASSUME Consistent, NEW o \in Handlers, UpdateBegin(o)
  PROVE  Kept
<1> DEFINE p == op[o].pub
           local == [op[o] EXCEPT !.pc = "prepare", !.state = pub[p].state,
                                  !.plan = plan[PostOf[p]]]
<1>0. /\ op[o].pc = "described" /\ HandlerKnows(o)
      /\ op' = [op EXCEPT ![o] = local] /\ UNCHANGED <<plan, pub, remote>>
  BY Zenon DEF Consistent, UpdateBegin, Decides
<1>1. /\ p \in Pubs /\ op[o] \in Locals /\ pub[p].id /\ pub[p].state \in PublicationState
      /\ plan[PostOf[p]] \in Plans
  BY <1>0, AtWork
     DEF HandlerKnows, Submitting, Rows, Consistent, TypeOK, RowFollowsPost
<1>2. MayWrite(p, pub[p].state)
  BY <1>1 DEF MayWrite, Consistent, RowFollowsPost, Live, Erred
<1>3. /\ local \in Locals /\ local.pc = "prepare" /\ local.pub = p
      /\ local.state = pub[p].state /\ local.plan \in Plans /\ local.rec = op[o].rec
  BY <1>1, Zenon DEF Locals, Steps
<1> HIDE DEF local
<1>4. op'[o] = local
  BY <1>0 DEF Consistent, TypeOK
<1>5. HandlerKnows(o)'
  BY <1>0, <1>1, <1>2, <1>3, <1>4 DEF HandlerKnows, MayWrite, Waiting, Submitting, Updating
<1> QED
  BY <1>0, <1>3, <1>5, HandlerMoves DEF Submitting

(* Both halves of an update's body are plans.                                  *)
LEMMA OutgoingTyped ==
  ASSUME NEW l, l.plan \in Plans, l.rec.held \in Plans
  PROVE  Outgoing(l) \in Plans
<1>1. l.rec.held.instant \in Instants \cup {NoDate} /\ l.rec.held.caption \in Captions
  BY DEF Plans
<1> QED
  BY <1>1, Zenon DEF Outgoing, Plans

LEMMA UpdateSendKeeps ==
  ASSUME Consistent, NEW o \in Handlers, UpdateSend(o)
  PROVE  Kept
<1> DEFINE local == [op[o] EXCEPT !.pc = "patching", !.plan = Outgoing(op[o])]
<1>0. /\ op[o].pc = "prepare" /\ HandlerKnows(o) /\ op[o] \in Locals
      /\ op' = [op EXCEPT ![o] = local] /\ UNCHANGED <<plan, pub, remote>>
  BY Zenon DEF Consistent, UpdateSend, TypeOK
<1>1. Outgoing(op[o]) \in Plans
  BY <1>0, OutgoingTyped DEF HandlerKnows
<1>2. /\ local \in Locals /\ local.pc = "patching" /\ local.pub = op[o].pub
      /\ local.state = op[o].state /\ local.plan \in Plans /\ local.rec = op[o].rec
  BY <1>0, <1>1, Zenon DEF Locals, Steps
<1> HIDE DEF local
<1>3. op'[o] = local
  BY <1>0 DEF Consistent, TypeOK
<1>4. HandlerKnows(o)'
  BY <1>0, <1>2, <1>3 DEF HandlerKnows, MayWrite, Waiting, Submitting, Updating
<1> QED
  BY <1>0, <1>2, <1>4, HandlerMoves DEF Submitting

LEMMA ProviderPatchesKeeps ==
  ASSUME Consistent, NEW o \in Handlers, ProviderPatches(o)
  PROVE  Kept
<1> DEFINE p == op[o].pub
           post == [remote[p] EXCEPT !.held = op[o].plan]
           local == [op[o] EXCEPT !.pc = "patched", !.rec = None]
<1>0. /\ op[o].pc = "patching" /\ remote[p].state = "SCHEDULED" /\ HandlerKnows(o)
      /\ remote' = [remote EXCEPT ![p] = post]
      /\ op' = [op EXCEPT ![o] = local] /\ UNCHANGED <<plan, pub>>
  BY Zenon DEF Consistent, ProviderPatches
<1>1. /\ p \in Pubs /\ op[o] \in Locals /\ remote[p] \in Remotes /\ pub[p].id
      /\ op[o].plan \in Plans /\ MayWrite(p, op[o].state)
  BY <1>0, AtWork DEF HandlerKnows, Submitting, Updating
<1>2. /\ post \in Remotes /\ post.state = "SCHEDULED" /\ post.held \in Plans
      /\ post.ok = remote[p].ok /\ post.bad = remote[p].bad
  BY <1>0, <1>1, Zenon DEF Remotes
<1>3. /\ local \in Locals /\ local.pc = "patched" /\ local.pub = p
      /\ local.plan = op[o].plan /\ local.state = op[o].state
  BY <1>1, Zenon DEF Locals, Steps
<1> HIDE DEF post, local
<1>4. /\ op'[o] = local /\ op' \in [Handlers -> Locals] /\ remote'[p] = post
      /\ \A x \in Handlers \ {o} : op'[x] = op[x]
  BY <1>0, <1>1, <1>2, <1>3 DEF Consistent, TypeOK
<1>5. MayWrite(p, op[o].state)'
  BY <1>0, <1>1, <1>2, <1>3, <1>4 DEF MayWrite, Waiting
<1>6. HandlerKnows(o)' /\ op'[o].pc \notin Submitting
  BY <1>0, <1>1, <1>2, <1>3, <1>4 DEF HandlerKnows, MayWrite, Waiting, Submitting, Updating
<1>7. post.ok = {} /\ post.bad = {}
  BY <1>0, <1>1, <1>2 DEF Consistent, ReportsFollowPost
<1> QED
  BY <1>0, <1>1, <1>2, <1>4, <1>6, <1>7, PostMoves

LEMMA UpdateRecordedKeeps ==
  ASSUME Consistent, NEW o \in Handlers, UpdateRecorded(o)
  PROVE  Kept
<1> DEFINE p == op[o].pub
           restored == [pub[p] EXCEPT !.state = op[o].state]
           updated(answer) == [pub[p] EXCEPT !.state = answer, !.sent = op[o].plan]
<1>0. /\ op[o].pc = "patched" /\ HandlerKnows(o) /\ TypeOK
      /\ op' = [op EXCEPT ![o] = Idle] /\ UNCHANGED <<plan, remote>>
  BY Zenon DEF Consistent, UpdateRecorded
<1> PICK answer \in AnsweredStates(remote[p]) :
      pub' = IF answer \in LiveStates /\ LiveRival(p)
             THEN Written(p, restored) ELSE [pub EXCEPT ![p] = updated(answer)]
  BY Zenon DEF UpdateRecorded
<1>1. /\ p \in Pubs /\ pub[p] \in Rows /\ op[o].plan \in Plans /\ pub[p].id
      /\ MayWrite(p, op[o].state) /\ op[o].state \in PublicationState
  BY <1>0, AtWork DEF HandlerKnows, Submitting, Updating, MayWrite
<1>2. restored \in Rows /\ restored.state = op[o].state /\ restored.id
  BY <1>1, Zenon DEF Rows
<1>3. answer \in PublicationState /\ MayWrite(p, answer)
  BY DEF AnsweredStates, PublicationState, MayWrite, Waiting, LiveStates
<1> DEFINE row == updated(answer)
<1>4. row \in Rows /\ row.state = answer /\ row.id
  BY <1>1, <1>3, Zenon DEF Rows
<1>5. pub' = IF answer \in LiveStates /\ LiveRival(p)
             THEN Written(p, restored) ELSE [pub EXCEPT ![p] = row]
  BY Zenon
<1> HIDE DEF restored, updated, row
<1>6. remote[p].state \notin {"ABSENT", "SENT", "REFUSED"}
  BY <1>1 DEF Consistent, RowFollowsPost
<1>7. HandlerKnows(o)' /\ Idle.pc \notin Submitting
  BY <1>0, IdleKnows DEF TypeOK, Idle, Submitting
<1>8. \A x \in Handlers \ {o} : op[x].pub = p => op[x].pc \notin Submitting
  BY <1>0, OneSubmitter
<1>9. CASE answer \in LiveStates /\ LiveRival(p)
  BY <1>0, <1>1, <1>2, <1>5, <1>6, <1>7, <1>8, <1>9, IdleTyped, RowWritten
<1>10. CASE ~(answer \in LiveStates /\ LiveRival(p))
  <2>1. pub' = Written(p, row)
    BY <1>4, <1>5, <1>10, Zenon DEF Written
  <2> QED
    BY <1>0, <1>1, <1>3, <1>4, <1>6, <1>7, <1>8, <2>1, IdleTyped, RowWritten
<1> QED
  BY <1>9, <1>10

LEMMA UpdateEndsKeep ==
  ASSUME Consistent, NEW o \in Handlers, UpdateErred(o) \/ UpdateLost(o)
  PROVE  Kept
<1>0. op[o].pc \in {"patching", "patched"} /\ HandlerKnows(o)
  BY DEF UpdateErred, UpdateLost, UpdateUnderWay, Consistent
<1>1. remote[op[o].pub].state # "ABSENT"
  BY <1>0, PostIsThere
<1>2. CASE UpdateErred(o)
  <2>1. EndWith(o, op[o].state) /\ MayWrite(op[o].pub, op[o].state)
    BY <1>0, <1>2 DEF UpdateErred, HandlerKnows, Updating
  <2> QED
    BY <1>0, <1>1, <2>1, OneSubmitter, EndWithKeeps
<1>3. CASE UpdateLost(o)
  <2>1. EndWith(o, "UNCONFIRMED") /\ MayWrite(op[o].pub, "UNCONFIRMED")
    BY <1>3 DEF UpdateLost, MayWrite, LiveStates, PublicationState
  <2> QED
    BY <1>0, <1>1, <2>1, OneSubmitter, EndWithKeeps
<1> QED
  BY <1>2, <1>3

LEMMA AbandonKeeps ==
  ASSUME Consistent, NEW o \in Handlers, Abandon(o)
  PROVE  Kept
<1>1. op' = [op EXCEPT ![o] = Idle] /\ UNCHANGED <<plan, pub, remote>>
  BY DEF Abandon
<1>2. HandlerKnows(o)' /\ Idle.pc \notin Submitting
  BY <1>1, IdleKnows DEF Consistent, TypeOK, Idle, Submitting
<1> QED
  BY <1>1, <1>2, IdleTyped, HandlerMoves

-------------------------------------------------------------------------------
(* The process, the provider and the people.                                   *)

LEMMA CrashKeeps == ASSUME Consistent, Crash PROVE Kept
<1>0. op' = [o \in Handlers |-> Idle] /\ UNCHANGED <<plan, pub, remote>>
  BY DEF Crash
<1>1. TypeOK'
  BY <1>0, IdleTyped DEF Consistent, TypeOK
<1>2. OneLivePublication' /\ RowFollowsPost' /\ ReportsFollowPost'
  BY <1>0 DEF Consistent, OneLivePublication, RowFollowsPost, ReportsFollowPost, Live, Waiting,
              Erred
<1>3. ASSUME NEW o \in Handlers PROVE HandlerKnows(o)'
  BY <1>0, IdleKnows
<1>4. DistinctIds'
  BY <1>0 DEF DistinctIds, Idle, Submitting
<1>5. LockStep
  BY <1>0, NothingLocked DEF Live, Waiting, Watched, Erred
<1> QED
  BY <1>1, <1>2, <1>3, <1>4, <1>5 DEF Consistent, Kept

LEMMA EditKeeps == ASSUME Consistent, NEW post \in Posts, Edit(post) PROVE Kept
<1>0. /\ plan' \in [Posts -> Plans] /\ UNCHANGED <<pub, remote, op>>
  BY DEF Edit, Consistent, TypeOK
<1>1. TypeOK' /\ OneLivePublication' /\ RowFollowsPost' /\ ReportsFollowPost'
  BY <1>0 DEF Consistent, TypeOK, OneLivePublication, RowFollowsPost, ReportsFollowPost,
              Live, Waiting, Erred
<1>2. ASSUME NEW o \in Handlers PROVE HandlerKnows(o)'
  BY <1>0, OthersKnow DEF Consistent, Waiting
<1>3. DistinctIds'
  BY <1>0 DEF Consistent, DistinctIds
<1>4. LockStep
  BY <1>0, NothingLocked DEF Live, Waiting, Watched, Erred
<1> QED
  BY <1>1, <1>2, <1>3, <1>4 DEF Consistent, Kept

LEMMA ProviderMovesKeeps ==
  ASSUME Consistent, NEW p \in Pubs, NEW from, NEW to, ProviderMoves(p, from, to),
         \/ from = "SENT" /\ to \in {"SCHEDULED", "REFUSED"}
         \/ from = "SCHEDULED" /\ to \in {"PROCESSING", "DELETED"}
         \/ from = "PROCESSING" /\ to = "PUBLISHED"
         \/ from = "PROCESSING" /\ to = "FAILED" /\ remote[p].ok = {}
  PROVE  Kept
<1> DEFINE post == [remote[p] EXCEPT !.state = to]
<1>0. /\ remote[p].state = from /\ remote' = [remote EXCEPT ![p] = post]
      /\ UNCHANGED <<plan, pub, op>>
  BY Zenon DEF ProviderMoves
<1>1. remote[p] \in Remotes /\ op \in [Handlers -> Locals] /\ to \in RemoteState
  BY DEF Consistent, TypeOK, RemoteState
<1>2. /\ post \in Remotes /\ post.state = to /\ post.held = remote[p].held
      /\ post.ok = remote[p].ok /\ post.bad = remote[p].bad
  BY <1>1, Zenon DEF Remotes
<1> HIDE DEF post
<1>3. /\ remote[p].held \in Plans
      /\ from # "PROCESSING" => remote[p].ok = {} /\ remote[p].bad = {}
  BY <1>0 DEF Consistent, ReportsFollowPost
<1> QED
  BY <1>0, <1>1, <1>2, <1>3, PostMoves

LEMMA ProviderReportsKeeps ==
  ASSUME Consistent, NEW p \in Pubs, NEW a \in Accounts, ProviderReports(p, a)
  PROVE  Kept
<1> DEFINE posts == {[remote[p] EXCEPT !.ok = @ \cup {a}], [remote[p] EXCEPT !.bad = @ \cup {a}]}
<1>0. /\ remote[p].state = "PROCESSING" /\ UNCHANGED <<plan, pub, op>>
      /\ remote[p] \in Remotes /\ op \in [Handlers -> Locals]
  BY DEF Consistent, TypeOK, ProviderReports
<1> PICK post \in posts : remote' = [remote EXCEPT ![p] = post]
  BY Zenon DEF ProviderReports
<1>1. remote[p].ok \in SUBSET Accounts /\ remote[p].bad \in SUBSET Accounts
  BY <1>0 DEF Remotes
<1>2. remote[p].ok \cup {a} \in SUBSET Accounts /\ remote[p].bad \cup {a} \in SUBSET Accounts
  BY <1>1
<1>3. post \in Remotes /\ post.state = "PROCESSING" /\ post.held = remote[p].held
  BY <1>0, <1>2, Zenon DEF Remotes
<1> HIDE DEF posts
<1>4. remote[p].held \in Plans
  BY <1>0 DEF Consistent, ReportsFollowPost
<1> QED
  BY <1>0, <1>3, <1>4, PostMoves

LEMMA ExternalEditKeeps ==
  ASSUME Consistent, NEW p \in Pubs, ExternalEdit(p)
  PROVE  Kept
<1> PICK held \in Plans : remote' = [remote EXCEPT ![p].held = held]
  BY DEF ExternalEdit
<1> DEFINE post == [remote[p] EXCEPT !.held = held]
<1>0. /\ remote[p].state = "SCHEDULED" /\ remote' = [remote EXCEPT ![p] = post]
      /\ UNCHANGED <<plan, pub, op>>
  BY Zenon DEF ExternalEdit
<1>1. remote[p] \in Remotes /\ op \in [Handlers -> Locals]
  BY DEF Consistent, TypeOK
<1>2. /\ post \in Remotes /\ post.state = remote[p].state /\ post.held = held
      /\ post.ok = remote[p].ok /\ post.bad = remote[p].bad
  BY <1>1, Zenon DEF Remotes
<1> HIDE DEF post
<1>3. remote[p].ok = {} /\ remote[p].bad = {}
  BY <1>0 DEF Consistent, ReportsFollowPost
<1> QED
  BY <1>0, <1>1, <1>2, <1>3, PostMoves

LEMMA ProviderStepKeeps ==
  ASSUME Consistent, NEW p \in Pubs, ProviderStep(p)
  PROVE  Kept
<1>1. CASE ProviderAccepts(p)
  BY <1>1, ProviderMovesKeeps DEF ProviderAccepts
<1>2. CASE ProviderRefuses(p)
  BY <1>2, ProviderMovesKeeps DEF ProviderRefuses
<1>3. CASE ProviderStarts(p)
  BY <1>3, ProviderMovesKeeps DEF ProviderStarts
<1>4. CASE \E a \in Accounts : ProviderReports(p, a)
  BY <1>4, ProviderReportsKeeps
<1>5. CASE ProviderSettles(p)
  BY <1>5, ProviderMovesKeeps DEF ProviderSettles
<1>6. CASE ExternalDelete(p)
  BY <1>6, ProviderMovesKeeps DEF ExternalDelete
<1>7. CASE ExternalEdit(p)
  BY <1>7, ExternalEditKeeps
<1> QED
  BY <1>1, <1>2, <1>3, <1>4, <1>5, <1>6, <1>7 DEF ProviderStep

LEMMA HandlerStepKeeps ==
  ASSUME Consistent, NEW o \in Handlers, HandlerStep(o)
  PROVE  Kept
<1>1. CASE SubmitGate(o) \/ SubmitInsert(o) \/ SubmitAnswered(o)
  BY <1>1, SubmitGateKeeps, SubmitInsertKeeps, SubmitAnsweredKeeps
<1>2. CASE SubmitFailed(o) \/ SubmitLost(o) \/ UpdateErred(o) \/ UpdateLost(o)
  BY <1>2, SubmitEndsKeep, UpdateEndsKeep
<1>3. CASE CheckAnswered(o) \/ CheckUnread(o) \/ CheckRecorded(o) \/ CompareAnswered(o)
  BY <1>3, CheckAnsweredKeeps, CheckRecordedKeeps, CompareAnsweredKeeps
<1>4. CASE Release(o) \/ ReplaceFailed(o) \/ WithdrawRecorded(o)
  BY <1>4, CancelsKeep
<1>5. CASE Withdraw(o) \/ ProviderWithdraws(o) \/ \E q \in Pubs : Resubmit(o, q)
  BY <1>5, WithdrawKeeps, ProviderWithdrawsKeeps, ResubmitKeeps
<1>6. CASE UpdateBegin(o) \/ UpdateSend(o) \/ UpdateRecorded(o)
  BY <1>6, UpdateBeginKeeps, UpdateSendKeeps, UpdateRecordedKeeps
<1>7. CASE ProviderPatches(o) \/ Abandon(o)
  BY <1>7, ProviderPatchesKeeps, AbandonKeeps
<1> QED
  BY <1>1, <1>2, <1>3, <1>4, <1>5, <1>6, <1>7 DEF HandlerStep

LEMMA NextKeeps == Consistent /\ [Next]_vars => Kept
<1> SUFFICES ASSUME Consistent, [Next]_vars PROVE Kept
  OBVIOUS
<1>1. CASE \E o \in Handlers : HandlerStep(o)
  BY <1>1, HandlerStepKeeps
<1>2. CASE \E o \in Handlers, p \in Pubs : Request(o, p)
  BY <1>2, SubmitBeginKeeps, CheckBeginKeeps, CompareBeginKeeps DEF Request
<1>3. CASE \E p \in Pubs : ProviderStep(p)
  BY <1>3, ProviderStepKeeps
<1>4. CASE \E post \in Posts : Edit(post)
  BY <1>4, EditKeeps
<1>5. CASE Crash
  BY <1>5, CrashKeeps
<1>6. CASE UNCHANGED vars
  <2>1. UNCHANGED <<plan, pub, remote, op>>
    BY <1>6 DEF vars
  <2>2. TypeOK' /\ OneLivePublication' /\ RowFollowsPost' /\ ReportsFollowPost'
    BY <2>1 DEF Consistent, TypeOK, OneLivePublication, RowFollowsPost, ReportsFollowPost,
                Live, Waiting, Erred
  <2>3. ASSUME NEW o \in Handlers PROVE HandlerKnows(o)'
    BY <2>1, OthersKnow DEF Consistent, Waiting
  <2>4. DistinctIds'
    BY <2>1 DEF Consistent, DistinctIds
  <2>5. LockStep
    BY <2>1, NothingLocked DEF Live, Waiting, Watched, Erred
  <2> QED
    BY <2>2, <2>3, <2>4, <2>5 DEF Consistent, Kept
<1> QED
  BY <1>1, <1>2, <1>3, <1>4, <1>5, <1>6 DEF Next

-------------------------------------------------------------------------------
(* The theorems.                                                               *)

(* Whatever the handlers, the provider and the people do, in whatever order,   *)
(* what the rows, the posts and the handlers know of each other stays true.    *)
THEOREM PublisherIsConsistent == Spec => []Consistent
<1>1. Init => Consistent
  BY InitConsistent
<1>2. Consistent /\ [Next]_vars => Consistent'
  BY NextKeeps DEF Kept
<1> QED
  BY <1>1, <1>2, PTL DEF Spec

(* Every variable keeps its type, and check_attempts its budget.               *)
THEOREM TypesAreKept == Spec => []TypeOK
<1>1. Consistent => TypeOK
  BY DEF Consistent
<1> QED
  BY <1>1, PublisherIsConsistent, PTL

(* No lost answer, crash, withdrawal, update or stale check settles a row      *)
(* while the provider may still send its post: only an error status on the     *)
(* submission itself does.                                                     *)
THEOREM WaitingPostsAreLive == Spec => []WaitingIsLiveOrErred
<1>1. Consistent => WaitingIsLiveOrErred
  BY DEF Consistent, RowFollowsPost, WaitingIsLiveOrErred
<1> QED
  BY <1>1, PublisherIsConsistent, PTL

(* Two posts of one Signal post wait at the provider together only where an    *)
(* error status hid one of them from the publisher.                            *)
THEOREM NoPostWaitsTwiceUnseen == Spec => []TwiceOnlyAfterAnError
<1>1. Consistent => TwiceOnlyAfterAnError
  BY DEF Consistent, RowFollowsPost, OneLivePublication, TwiceOnlyAfterAnError
<1> QED
  BY <1>1, PublisherIsConsistent, PTL

(* A submission that reached an account is never recorded as CANCELLED.        *)
THEOREM CancelledPostsStayHome == Spec => []CancelledNeverWentOut
<1>1. Consistent => CancelledNeverWentOut
  BY DEF Consistent, RowFollowsPost, ReportsFollowPost, CancelledNeverWentOut
<1> QED
  BY <1>1, PublisherIsConsistent, PTL

(* The publisher implements the lock: every submission takes its post's lock   *)
(* before the request leaves, may lose sight of the request while its id is    *)
(* unknown, and then gives the lock up only when nothing is waiting.           *)
THEOREM PublisherIsALock == Spec => LockSpec
<1>1. Init => Lock!Init
  BY DEF Init, Lock!Init, NoRow, NoRemote, Live, LiveStates, Watched, Waiting
<1>2. Consistent /\ [Next]_vars
        => [Lock!Next]_<<{p \in Pubs : Live(p)}, {p \in Pubs : Watched(p)},
                         {p \in Pubs : pub[p].id}>>
  BY NextKeeps DEF Kept, LockStep
<1> QED
  BY <1>1, <1>2, PublisherIsConsistent, PTL DEF Spec, LockSpec, Lock!Spec

-------------------------------------------------------------------------------
(* What is sent is what the caller agreed to.                                  *)

(* The awaits at which a handler has a confirmed plan to send.                 *)
Sending == {"upload", "posting"}

(* Handler o stops sending, and no other handler's snapshot is touched.        *)
Yields(o) ==
  /\ \A x \in Handlers \ {o} : op'[x] = op[x]
  /\ op'[o].pc \notin Sending
  /\ \A x \in Handlers \ {o} :
       op[x].pc = "posting" => pub'[op[x].pub].sent = pub[op[x].pub].sent

(* A handler whose step sends nothing leaves the others' content alone.        *)
LEMMA YieldsKeeps ==
  ASSUME ContentCarried, NEW o \in Handlers, Yields(o)
  PROVE  ContentCarried'
<1>1. Carries(o)'
  BY DEF Yields, Sending, Carries
<1>2. ASSUME NEW x \in Handlers \ {o} PROVE Carries(x)'
  BY <1>2 DEF ContentCarried, Yields, Carries
<1> QED
  BY <1>1, <1>2 DEF ContentCarried

(* A row's snapshot is written by its INSERT and by an answered update only.   *)
LEMMA StateWritten ==
  ASSUME Consistent, NEW p \in Pubs, NEW row, row.sent = pub[p].sent,
         pub' = Written(p, row), NEW q \in Pubs
  PROVE  pub'[q].sent = pub[q].sent
BY DEF Written, Consistent, TypeOK

(* A submission that awaits its answer has a row without an id.                *)
LEMMA Posting ==
  ASSUME Consistent, NEW x \in Handlers, op[x].pc = "posting"
  PROVE  op[x].pub \in Pubs /\ ~pub[op[x].pub].id
BY DEF Consistent, HandlerKnows

-------------------------------------------------------------------------------
(* The steps that send nothing.                                                *)

(* Steps that touch neither a row nor another handler.                         *)
LEMMA QuietYields ==
  ASSUME Consistent, NEW o \in Handlers, UNCHANGED pub,
         NEW local, local.pc \notin Sending, op' = [op EXCEPT ![o] = local]
  PROVE  Yields(o)
BY DEF Yields, Consistent, TypeOK

(* Steps that write the state of one row.                                      *)
LEMMA WriteYields ==
  ASSUME Consistent, NEW o \in Handlers, op[o].pub \in Pubs,
         NEW row, row.sent = pub[op[o].pub].sent, pub' = Written(op[o].pub, row),
         NEW local, local.pc \notin Sending, op' = [op EXCEPT ![o] = local]
  PROVE  Yields(o)
<1>1. \A x \in Handlers : op[x].pc = "posting" =>
        pub'[op[x].pub].sent = pub[op[x].pub].sent
  BY Posting, StateWritten
<1> QED
  BY <1>1 DEF Yields, Consistent, TypeOK

(* A request starts with a read.                                              *)
LEMMA RequestYields ==
  ASSUME Consistent, NEW o \in Handlers, NEW p \in Pubs, Request(o, p)
  PROVE  Yields(o)
<1>1. CASE SubmitBegin(o, p)
  <2>1. PICK token \in Plans :
          op' = [op EXCEPT ![o] = [Idle EXCEPT !.pc = "targets", !.kind = "SUBMIT",
                                               !.pub = p, !.plan = plan[PostOf[p]],
                                               !.token = token]]
    BY <1>1, Zenon DEF SubmitBegin
  <2> QED
    BY <1>1, <2>1, QuietYields DEF SubmitBegin, Sending, Idle
<1>2. CASE \E kind \in {"CHECK", "AUTOMATIC_CHECK"} : CheckBegin(o, p, kind)
  BY <1>2, QuietYields DEF CheckBegin, Sending, Idle
<1>3. CASE \E kind \in ProviderAction : CompareBegin(o, p, kind)
  BY <1>3, QuietYields DEF CompareBegin, Sending, Idle
<1> QED
  BY <1>1, <1>2, <1>3 DEF Request

(* Reads, remote calls and the endings without a write.                        *)
LEMMA ReadYields ==
  ASSUME Consistent, NEW o \in Handlers,
         \/ CheckAnswered(o) \/ CheckUnread(o) \/ CompareAnswered(o) \/ Withdraw(o)
         \/ ProviderWithdraws(o) \/ UpdateBegin(o) \/ UpdateSend(o)
         \/ ProviderPatches(o) \/ Abandon(o)
         \/ \E q \in Pubs : Resubmit(o, q)
  PROVE  Yields(o)
<1>0. op[o] \in Locals
  BY DEF Consistent, TypeOK
<1> USE DEF Sending, Locals
<1>1. CASE CheckAnswered(o) \/ CheckUnread(o)
  BY <1>0, <1>1, QuietYields DEF CheckAnswered, CheckUnread, CheckTold
<1>2. CASE CompareAnswered(o)
  BY <1>0, <1>2, QuietYields DEF CompareAnswered
<1>3. CASE Withdraw(o)
  BY <1>0, <1>3, QuietYields DEF Withdraw
<1>4. CASE ProviderWithdraws(o)
  BY <1>0, <1>4, QuietYields DEF ProviderWithdraws
<1>5. CASE UpdateBegin(o)
  BY <1>0, <1>5, QuietYields DEF UpdateBegin
<1>6. CASE ProviderPatches(o)
  BY <1>0, <1>6, QuietYields DEF ProviderPatches
<1>7. CASE UpdateSend(o)
  BY <1>0, <1>7, QuietYields DEF UpdateSend
<1>8. CASE Abandon(o)
  BY <1>8, QuietYields DEF Abandon, Idle
<1>9. CASE \E q \in Pubs : Resubmit(o, q)
  BY <1>9, QuietYields DEF Resubmit, Idle
<1> QED
  BY <1>1, <1>2, <1>3, <1>4, <1>5, <1>6, <1>7, <1>8, <1>9

(* One write of a state leaves the snapshot as it was.                         *)
LEMMA EndWithYields ==
  ASSUME Consistent, NEW o \in Handlers, NEW state, EndWith(o, state),
         op[o].pub \in Pubs
  PROVE  Yields(o)
<1>1. pub[op[o].pub] \in Rows
  BY DEF Consistent, TypeOK
<1>2. [pub[op[o].pub] EXCEPT !.state = state].sent = pub[op[o].pub].sent
  BY <1>1 DEF Rows
<1> QED
  BY <1>2, WriteYields DEF EndWith, Sending, Idle

(* So does a recorded cancellation,                                           *)
LEMMA RecordCancelYields ==
  ASSUME Consistent, NEW o \in Handlers, RecordCancel(o), op[o].pub \in Pubs
  PROVE  Yields(o)
<1>1. pub[op[o].pub] \in Rows
  BY DEF Consistent, TypeOK
<1>2. [pub[op[o].pub] EXCEPT !.state = "CANCELLED"].sent = pub[op[o].pub].sent
  BY <1>1 DEF Rows
<1> DEFINE local == IF op[o].kind = "RESTORE_AND_RESUBMIT"
                    THEN [Idle EXCEPT !.pc = "replan", !.kind = op[o].kind,
                                      !.pub = op[o].pub, !.plan = plan[PostOf[op[o].pub]]]
                    ELSE Idle
<1>3. local.pc \notin Sending
  BY DEF Sending, Idle
<1>4. op' = [op EXCEPT ![o] = local]
  BY Zenon DEF RecordCancel
<1> HIDE DEF local
<1> QED
  BY <1>2, <1>3, <1>4, WriteYields DEF RecordCancel

(* a stored answer,                                                            *)
LEMMA AnswerYields ==
  ASSUME Consistent, NEW o \in Handlers, SubmitAnswered(o)
  PROVE  Yields(o)
<1>1. op[o].pub \in Pubs /\ pub[op[o].pub] \in Rows
  BY Posting DEF SubmitAnswered, Consistent, TypeOK
<1>2. PICK answer \in AnsweredStates(remote[op[o].pub]) :
        /\ pub' = Written(op[o].pub, [pub[op[o].pub] EXCEPT !.state = answer, !.id = TRUE])
        /\ op' = [op EXCEPT ![o] =
                    IF answer = "SUBMITTED"
                    THEN [Idle EXCEPT !.pc = "check", !.kind = "CHECK", !.pub = op[o].pub,
                                      !.attempts = pub[op[o].pub].attempts]
                    ELSE Idle]
  BY Zenon DEF SubmitAnswered
<1>3. [pub[op[o].pub] EXCEPT !.state = answer, !.id = TRUE].sent = pub[op[o].pub].sent
  BY <1>1 DEF Rows
<1> DEFINE local == IF answer = "SUBMITTED"
                    THEN [Idle EXCEPT !.pc = "check", !.kind = "CHECK", !.pub = op[o].pub,
                                      !.attempts = pub[op[o].pub].attempts]
                    ELSE Idle
<1>4. local.pc \notin Sending
  BY DEF Sending, Idle
<1>5. op' = [op EXCEPT ![o] = local]
  BY <1>2, Zenon
<1> HIDE DEF local
<1> QED
  BY <1>1, <1>2, <1>3, <1>4, <1>5, WriteYields

(* and a recorded check.                                                       *)
LEMMA CheckRecordedYields ==
  ASSUME Consistent, NEW o \in Handlers, CheckRecorded(o)
  PROVE  Yields(o)
<1>1. op[o].pub \in Pubs /\ pub[op[o].pub] \in Rows
  BY DEF CheckRecorded, Consistent, TypeOK, HandlerKnows
<1>2. CheckedRow(op[o], pub[op[o].pub]).sent = pub[op[o].pub].sent
  BY <1>1 DEF CheckedRow, Rows
<1> QED
  BY <1>1, <1>2, WriteYields DEF CheckRecorded, Sending, Idle

(* An answered update rewrites the snapshot of its own row, whose submission   *)
(* has long been answered.                                                     *)
LEMMA UpdateRecordedYields ==
  ASSUME Consistent, NEW o \in Handlers, UpdateRecorded(o)
  PROVE  Yields(o)
<1> DEFINE p == op[o].pub
<1>1. p \in Pubs /\ pub[p].id /\ pub \in [Pubs -> Rows]
  BY DEF UpdateRecorded, Consistent, TypeOK, HandlerKnows, Submitting
<1>2. \A q \in Pubs \ {p} : pub'[q] = pub[q]
  BY <1>1 DEF UpdateRecorded, Written
<1>3. \A x \in Handlers : op[x].pc = "posting" => pub'[op[x].pub].sent = pub[op[x].pub].sent
  BY <1>1, <1>2, Posting
<1> QED
  BY <1>3 DEF UpdateRecorded, Yields, Sending, Idle, Consistent, TypeOK

-------------------------------------------------------------------------------
(* The steps that prepare or send content.                                     *)

(* The hash gate lets only the confirmed plan through to the uploads.          *)
LEMMA SubmitGateCarries ==
  ASSUME Consistent, ContentCarried, NEW o \in Handlers, SubmitGate(o)
  PROVE  ContentCarried'
<1>1. /\ op[o] \in Locals /\ op \in [Handlers -> Locals] /\ UNCHANGED pub
      /\ op' = [op EXCEPT ![o].pc = "upload"]
      /\ op[o].plan = op[o].token
  BY DEF Consistent, TypeOK, SubmitGate, HashAgrees
<1>2. /\ op'[o].pc = "upload" /\ op'[o].plan = op[o].plan /\ op'[o].token = op[o].token
      /\ \A x \in Handlers \ {o} : op'[x] = op[x]
  BY <1>1 DEF Locals
<1>3. Carries(o)'
  BY <1>1, <1>2 DEF Carries
<1>4. ASSUME NEW x \in Handlers \ {o} PROVE Carries(x)'
  BY <1>1, <1>2, <1>4 DEF ContentCarried, Carries
<1> QED
  BY <1>3, <1>4 DEF ContentCarried

(* The INSERT takes its snapshot from that plan.                               *)
LEMMA SubmitInsertCarries ==
  ASSUME Consistent, ContentCarried, NEW o \in Handlers, SubmitInsert(o)
  PROVE  ContentCarried'
<1> DEFINE p == op[o].pub
<1>1. /\ op[o].pc = "upload" /\ op[o] \in Locals /\ op \in [Handlers -> Locals]
      /\ op' = [op EXCEPT ![o] = [@ EXCEPT !.pc = "posting", !.plan = None]]
      /\ p \in Pubs /\ pub \in [Pubs -> Rows]
      /\ pub' = [pub EXCEPT ![p] = [state |-> "SUBMITTING", id |-> FALSE,
                                    sent |-> op[o].plan, attempts |-> 0]]
  BY DEF Consistent, TypeOK, SubmitInsert, HandlerKnows
<1>2. /\ op'[o].pc = "posting" /\ op'[o].kind = op[o].kind
      /\ op'[o].token = op[o].token /\ op'[o].pub = p
      /\ \A x \in Handlers \ {o} : op'[x] = op[x]
      /\ pub'[p].sent = op[o].plan
      /\ \A q \in Pubs \ {p} : pub'[q] = pub[q]
  BY <1>1 DEF Locals
<1>3. Carries(o)'
  BY <1>1, <1>2 DEF ContentCarried, Carries
<1>4. ASSUME NEW x \in Handlers \ {o} PROVE Carries(x)'
  <2>1. op[x].pc = "posting" => op[x].pub \in Pubs \ {p}
    BY <1>1, <1>4, Posting DEF Consistent, DistinctIds, Submitting
  <2> QED
    BY <1>2, <1>4, <2>1 DEF ContentCarried, Carries
<1> QED
  BY <1>3, <1>4 DEF ContentCarried

-------------------------------------------------------------------------------
(* Every step of a handler is of one kind or the other.                        *)
LEMMA HandlerStepYields ==
  ASSUME Consistent, NEW o \in Handlers, HandlerStep(o)
  PROVE  Yields(o) \/ SubmitGate(o) \/ SubmitInsert(o)
<1>0. op[o].pc # "idle" => op[o].pub \in Pubs
  BY DEF Consistent, HandlerKnows
<1>1. CASE SubmitFailed(o) \/ SubmitLost(o) \/ UpdateErred(o) \/ UpdateLost(o)
  BY <1>0, <1>1, EndWithYields
     DEF SubmitFailed, SubmitLost, UpdateErred, UpdateLost, UpdateUnderWay
<1>2. CASE Release(o) \/ ReplaceFailed(o) \/ WithdrawRecorded(o)
  BY <1>0, <1>2, RecordCancelYields
     DEF Release, ReplaceFailed, WithdrawRecorded, WithdrawAnswered, Decides
<1>3. CASE SubmitAnswered(o) \/ CheckRecorded(o) \/ UpdateRecorded(o)
  BY <1>3, AnswerYields, CheckRecordedYields, UpdateRecordedYields
<1>4. CASE \/ CheckAnswered(o) \/ CheckUnread(o) \/ CompareAnswered(o) \/ Withdraw(o)
           \/ ProviderWithdraws(o) \/ UpdateBegin(o) \/ UpdateSend(o)
           \/ ProviderPatches(o) \/ Abandon(o)
           \/ \E q \in Pubs : Resubmit(o, q)
  BY <1>4, ReadYields
<1> QED
  BY <1>1, <1>2, <1>3, <1>4 DEF HandlerStep

LEMMA HandlerStepCarries ==
  ASSUME Consistent, ContentCarried, NEW o \in Handlers, HandlerStep(o)
  PROVE  ContentCarried'
BY HandlerStepYields, YieldsKeeps, SubmitGateCarries, SubmitInsertCarries

LEMMA NextCarries == Consistent /\ ContentCarried /\ [Next]_vars => ContentCarried'
<1> SUFFICES ASSUME Consistent, ContentCarried, [Next]_vars PROVE ContentCarried'
  OBVIOUS
<1>1. CASE \E o \in Handlers : HandlerStep(o)
  BY <1>1, HandlerStepCarries
<1>2. CASE \E o \in Handlers, p \in Pubs : Request(o, p)
  BY <1>2, RequestYields, YieldsKeeps
<1>3. CASE \E p \in Pubs : ProviderStep(p)
  <2>1. UNCHANGED <<pub, op>>
    BY <1>3 DEF ProviderStep, ProviderAccepts, ProviderRefuses, ProviderStarts,
                ProviderReports, ProviderSettles, ExternalDelete, ExternalEdit, ProviderMoves
  <2> QED
    BY <2>1 DEF ContentCarried, Carries
<1>4. CASE \E post \in Posts : Edit(post)
  BY <1>4 DEF Edit, ContentCarried, Carries
<1>5. CASE Crash
  BY <1>5 DEF Crash, ContentCarried, Carries, Idle
<1>6. CASE UNCHANGED vars
  BY <1>6 DEF vars, ContentCarried, Carries
<1> QED
  BY <1>1, <1>2, <1>3, <1>4, <1>5, <1>6 DEF Next

-------------------------------------------------------------------------------
(* The theorems.                                                               *)

(* A submission under way keeps what was confirmed, whoever edits meanwhile.   *)
LEMMA ContentStaysAgreed == Spec => []ContentCarried
<1>1. Init => ContentCarried
  BY DEF Init, ContentCarried, Carries, Idle
<1> QED
  BY <1>1, NextCarries, PublisherIsConsistent, PTL DEF Spec

(* What a submission sends is the plan its caller confirmed: the hash gate     *)
(* stands before the uploads, and nothing after it reads the plan again.       *)
THEOREM SubmissionsSendThePlanConfirmed == Spec => []SubmitSendsWhatWasConfirmed
<1>1. ContentCarried => SubmitSendsWhatWasConfirmed
  BY DEF ContentCarried, Carries, SubmitSendsWhatWasConfirmed
<1> QED
  BY <1>1, ContentStaysAgreed, PTL
===============================================================================
