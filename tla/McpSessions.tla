------------------------------ MODULE McpSessions ------------------------------
(* The sessions of the streamable HTTP transport (server/mcp/http-sessions.ts, *)
(* server/mcp/http.ts) between the agents that listen on them and the change   *)
(* feed they are tipped about: agents disconnect, fall idle and come back, the *)
(* server forgets sessions, restarts, or is restored from a backup.            *)
EXTENDS ChangeFeed, SequencesExt

CONSTANTS
  Others,      \* agents that hold sessions and do not follow the feed
  Sessions,    \* the ids that initialize may draw, each once
  SessionMax,  \* MCP_HTTP_SESSION_MAX
  Ttl,         \* MCP_HTTP_SESSION_TTL_MS
  Buffer,      \* MCP_SSE_EVENT_BUFFER
  MaxTime, MaxMessages   \* bounds on the clock and on the messages of a session

ASSUME SessionsAssumption ==
  /\ SessionMax \in Nat \ {0} /\ Buffer \in Nat \ {0} /\ Ttl \in Nat
  /\ MaxTime \in Nat /\ MaxMessages \in Nat
  /\ None \notin Sessions /\ Clients \cap Others = {}

Agents == Clients \cup Others

VARIABLES
  now,
  registry,   \* the Map of sessions, a sequence of ids in its iteration order
  session,    \* session[s]: the record, kept here when the Map drops it
  agent       \* agent[c]: what the client of an agent knows

serverVars == <<now, registry, session>>
vars == <<feedVars, serverVars, agent>>

(* What goes over a stream: a tip to re-read the feed or some other message.   *)
Messages == [id : 1 .. MaxMessages, tip : BOOLEAN]

NewSession == [touched |-> 0, subscribed |-> FALSE, buffer |-> <<>>, next |-> 1,
               listening |-> FALSE, used |-> FALSE]

(* tipped: it has yet to read what it was tipped about; holed: more messages   *)
(* than the buffer holds were published while it was away (history).           *)
NewAgent == [sid |-> None, stream |-> FALSE, last |-> 0, tipped |-> FALSE, holed |-> FALSE]

Init ==
  /\ FeedInit
  /\ now = 0 /\ registry = <<>>
  /\ session = [s \in Sessions |-> NewSession]
  /\ agent = [c \in Agents |-> NewAgent]

-------------------------------------------------------------------------------
(* The registry.                                                               *)

Idle(s) == session[s].touched < now - Ttl

(* prune drops idle sessions from the front of the Map and stops at the first  *)
(* that is not.                                                                *)
Pruned(ids) ==
  LET used == {i \in DOMAIN ids : ~Idle(ids[i])}
  IN IF used = {} THEN <<>> ELSE SubSeq(ids, Min(used), Len(ids))

TouchedInPlace(ids, s) == ids                                        \* mutant

(* A session is in the Map once.                                               *)
Deleted(ids, s) == RemoveAt(ids, CHOOSE i \in DOMAIN ids : ids[i] = s)

(* get moves the session to the end of the Map.                                *)
Touched(ids, s) == Append(Deleted(ids, s), s)

EnforceMax(ids) ==
  IF Len(ids) > SessionMax THEN SubSeq(ids, Len(ids) - SessionMax + 1, Len(ids)) ELSE ids

Listens(s, ids) == session[s].listening /\ s \in ToSet(ids)

(* A dropped session loses its listeners; their responses are not ended.  The  *)
(* rest of its record is out of reach, but for what its client had asked.      *)
WithoutDropped(ids, t) ==
  [s \in Sessions |->
     IF s \in ToSet(ids) THEN t[s]
     ELSE [NewSession EXCEPT !.used = t[s].used, !.subscribed = t[s].subscribed]]

Own(c) == session[agent[c].sid]

(* A request that names its session, which is looked up and then changed.      *)
Finds(c, changed) ==
  LET s == agent[c].sid
      ids == Touched(Pruned(registry), s)
  IN /\ s # None /\ s \in ToSet(Pruned(registry))
     /\ registry' = ids
     /\ session' = WithoutDropped(ids, [session EXCEPT ![s] = [changed EXCEPT !.touched = now]])
     /\ UNCHANGED now

(* 404: the session is gone and its client starts afresh.                      *)
NotFound(c) ==
  /\ agent[c].sid # None /\ agent[c].sid \notin ToSet(Pruned(registry))
  /\ registry' = Pruned(registry)
  /\ session' = WithoutDropped(registry', session)
  /\ agent' = [agent EXCEPT ![c] = [NewAgent EXCEPT !.tipped = c \in Clients]]
  /\ UNCHANGED <<now, feedVars>>

-------------------------------------------------------------------------------
(* Requests.                                                                   *)

(* Others also come back as a new session, without having ended their last.    *)
Initialize(c, s) ==
  LET ids == EnforceMax(Append(Pruned(registry), s)) IN
  /\ agent[c].sid = None \/ c \in Others
  /\ ~session[s].used
  /\ registry' = ids
  /\ session' = WithoutDropped(ids, [session EXCEPT ![s] =
                                       [NewSession EXCEPT !.touched = now, !.used = TRUE]])
  /\ agent' = [agent EXCEPT ![c].sid = s]
  /\ UNCHANGED <<now, feedVars>>

(* A client reads once after it has subscribed, and relies on tips from then.  *)
Subscribe(c) ==
  /\ Finds(c, [Own(c) EXCEPT !.subscribed = TRUE])
  /\ agent' = [agent EXCEPT ![c].tipped = TRUE]
  /\ UNCHANGED feedVars

(* A page that is not the last leaves the rest to be read.                     *)
ReadOver(c) ==
  /\ ReadChanges(c)
  /\ agent' = [agent EXCEPT ![c].tipped = cursor'[c] # TipSeq(feed)]

(* resources/read within the session, or as one-shot JSON-RPC without one.     *)
Read(c) ==
  /\ \/ agent[c].sid = None /\ UNCHANGED serverVars
     \/ Finds(c, Own(c))
  /\ ReadOver(c)

(* Any other request within the session.                                       *)
Call(c) == Finds(c, Own(c)) /\ UNCHANGED <<agent, feedVars>>

Unseen(s, last) == {m \in ToSet(session[s].buffer) : m.id > last}

(* GET: what the buffer still has after Last-Event-ID is replayed and the      *)
(* listener attached.  A first connection sends no id and is replayed nothing. *)
Listen(c) ==
  LET s == agent[c].sid
      unseen == IF agent[c].last = 0 THEN {} ELSE Unseen(s, agent[c].last)
  IN /\ ~agent[c].stream
     /\ Finds(c, [Own(c) EXCEPT !.listening = TRUE])
     /\ agent' = [agent EXCEPT
          ![c].stream = TRUE,
          ![c].last = IF unseen = {} THEN @ ELSE session[s].next - 1,
          ![c].tipped = @ \/ agent[c].last = 0 \/ \E m \in unseen : m.tip,
          ![c].holed = @ \/ (agent[c].last # 0 /\ session[s].next - 1 - agent[c].last > Buffer)]
     /\ UNCHANGED feedVars

(* The connection closes: the cleanup removes the listener.                    *)
Disconnect(c) ==
  /\ agent[c].stream
  /\ agent' = [agent EXCEPT ![c].stream = FALSE]
  /\ session' = [session EXCEPT ![agent[c].sid].listening = FALSE]
  /\ UNCHANGED <<now, registry, feedVars>>

Delete(c) ==
  LET s == agent[c].sid IN
  /\ s # None /\ s \in ToSet(Pruned(registry))
  /\ registry' = Deleted(Pruned(registry), s)
  /\ session' = WithoutDropped(registry', session)
  /\ agent' = [agent EXCEPT ![c] = NewAgent]
  /\ UNCHANGED <<now, feedVars>>

-------------------------------------------------------------------------------
(* Messages.                                                                   *)

OldestKept(buffer) ==                                                \* mutant
  IF Len(buffer) > Buffer THEN SubSeq(buffer, 1, Buffer) ELSE buffer

(* The ring keeps the newest messages.                                         *)
Buffered(buffer) ==
  IF Len(buffer) > Buffer THEN SubSeq(buffer, Len(buffer) - Buffer + 1, Len(buffer)) ELSE buffer

Published(record, tip) ==
  [record EXCEPT !.buffer = Buffered(Append(@, [id |-> record.next, tip |-> tip])),
                 !.next = @ + 1]

(* publish to each session of `to`; those who listen receive it at once.       *)
Publish(to, tip) ==
  /\ session' = [s \in Sessions |-> IF s \in to THEN Published(session[s], tip) ELSE session[s]]
  /\ agent' = [c \in Agents |->
       IF agent[c].sid \in to /\ session[agent[c].sid].listening
       THEN [agent[c] EXCEPT !.last = session[agent[c].sid].next, !.tipped = @ \/ tip]
       ELSE agent[c]]

CanPublish(to) == \A s \in to : session[s].next <= MaxMessages

(* A change is recorded and notifyResourceUpdated tips who subscribed.         *)
Change ==
  LET to == {s \in ToSet(registry) : session[s].subscribed} IN
  /\ CanPublish(to)
  /\ RecordChange /\ Publish(to, TRUE)
  /\ UNCHANGED <<now, registry>>

(* A notification of a tool call, progress for one.                            *)
Progress(c) ==
  LET s == agent[c].sid IN
  /\ s # None /\ s \in ToSet(registry) /\ CanPublish({s})
  /\ Publish({s}, FALSE)
  /\ UNCHANGED <<now, registry, feedVars>>

Tick == now < MaxTime /\ now' = now + 1 /\ UNCHANGED <<registry, session, agent, feedVars>>

(* The process restarts: sessions are gone and the connections with them.      *)
Restart ==
  /\ registry' = <<>>
  /\ session' = WithoutDropped(<<>>, session)
  /\ agent' = [c \in Agents |-> [agent[c] EXCEPT !.stream = FALSE]]
  /\ UNCHANGED now
  /\ UNCHANGED feedVars \/ RestoreBackup

Next ==
  \/ \E c \in Clients : Subscribe(c) \/ Read(c) \/ Listen(c) \/ Disconnect(c) \/ Progress(c)
  \/ \E c \in Agents :
       \/ \E s \in Sessions : Initialize(c, s)
       \/ Call(c) \/ Delete(c) \/ NotFound(c)
  \/ Change
  \/ Tick
  \/ Restart
  \/ BackUp /\ UNCHANGED <<serverVars, agent>>

Spec == Init /\ [][Next]_vars

-------------------------------------------------------------------------------
(* Properties.                                                                 *)

(* Every variable keeps its type and a session is in the Map once.             *)
TypeOK ==
  /\ feed \subseteq [seq : 1 .. MaxEvents, id : 1 .. MaxEvents]
  /\ cursor \in [Clients -> 0 .. MaxEvents \cup {None}]
  /\ IsInjective(registry) /\ ToSet(registry) \subseteq Sessions
  /\ \A s \in Sessions : /\ session[s].buffer \in Seq(Messages)
                         /\ Len(session[s].buffer) <= Buffer
  /\ \A c \in Agents : agent[c].sid \in Sessions \cup {None}

Dropped(s) == s \in ToSet(registry) /\ s \notin ToSet(registry')

(* Only a session that idled, that was asked to end, or that was touched the   *)
(* longest ago of too many is forgotten before the process ends.               *)
SessionsInUseStay ==
  [][\A s \in Sessions : Dropped(s) =>
       \/ Idle(s)
       \/ registry' = <<>>
       \/ \E c \in Agents : agent[c].sid = s /\ agent'[c].sid = None
       \/ Len(registry) = SessionMax /\ \A t \in ToSet(registry) :
                                          session[s].touched <= session[t].touched]_vars

InTouch(c) == agent[c].stream /\ session[agent[c].sid].subscribed

(* An agent that listens and has changes to read has been tipped, unless its   *)
(* session was forgotten or the buffer overflowed while it was away.           *)
UntippedOnlyWhenForgotten ==
  \A c \in Clients \ outran :
    InTouch(c) /\ owed[c] # {} /\ ~agent[c].tipped
      => agent[c].holed \/ agent[c].sid \notin ToSet(registry)
===============================================================================
