------------------------------ MODULE ChangeFeed ------------------------------
(* One MCP change feed (server/change-feeds.ts) and the cursors its readers    *)
(* hold: rows get the next sequence number, the newest Retention of them are   *)
(* kept, and a reader asks for what came after its cursor.                     *)
EXTENDS Integers, FiniteSetsExt

CONSTANTS
  Clients,
  Retention,   \* MCP_CHANGE_FEED_RETENTION
  Limit,       \* the page a reader asks for
  MaxEvents,   \* a bound on the events recorded
  None

ASSUME FeedAssumption ==
  Retention \in Nat \ {0} /\ Limit \in Nat \ {0} /\ MaxEvents \in Nat /\ None \notin Nat

VARIABLES
  feed,      \* the rows kept: [seq, id], where id tells apart what a seq named
  made,      \* how many events were ever recorded
  backup,    \* the newest backup: its rows and its `made`
  cursor,    \* cursor[c]: as its client keeps it, None before the first read
  owed,      \* owed[c]: the events since its cursor was taken (history)
  outran     \* the clients whose cursor is of a feed that was restored (history)

feedVars == <<feed, made, backup, cursor, owed, outran>>

FeedInit ==
  /\ feed = {} /\ made = 0
  /\ backup = [rows |-> {}, made |-> 0]
  /\ cursor = [c \in Clients |-> None]
  /\ owed = [c \in Clients |-> {}]
  /\ outran = {}

Seqs(rows) == {row.seq : row \in rows}
TipSeq(rows) == IF rows = {} THEN 0 ELSE Max(Seqs(rows))

Kept(rows) == {row \in rows : row.seq > TipSeq(rows) - Retention}

RecordChange ==
  LET event == [seq |-> TipSeq(feed) + 1, id |-> made + 1] IN
  /\ made < MaxEvents
  /\ feed' = Kept(feed \cup {event})
  /\ made' = made + 1
  /\ owed' = [c \in Clients |-> IF cursor[c] = None THEN {} ELSE owed[c] \cup {event}]
  /\ UNCHANGED <<backup, cursor, outran>>

ExpiredEarly(after) ==                                               \* mutant
  IF feed = {} THEN after # 0 ELSE after < Min(Seqs(feed))

(* An empty feed vouches for nothing but its own start.                        *)
Expired(after) ==
  IF feed = {} THEN after # 0 ELSE after + 1 < Min(Seqs(feed))

(* The oldest rows after the cursor, one page of them.                         *)
Page(after) == {row \in feed : row.seq > after /\ row.seq <= after + Limit}

NextCursorTip(after) == TipSeq(feed)                                 \* mutant

NextCursor(after) ==
  IF after >= TipSeq(feed) THEN TipSeq(feed) ELSE Max(Seqs(Page(after)))

(* readChangeFeed; without a cursor, or when told that it expired, the client  *)
(* takes the tip and then reloads what the feed is about.                      *)
ReadChanges(c) ==
  /\ IF cursor[c] = None \/ Expired(cursor[c])
     THEN /\ cursor' = [cursor EXCEPT ![c] = TipSeq(feed)]
          /\ owed' = [owed EXCEPT ![c] = {}]
          /\ outran' = outran \ {c}
     ELSE /\ cursor' = [cursor EXCEPT ![c] = NextCursor(@)]
          /\ owed' = [owed EXCEPT ![c] = @ \ Page(cursor[c])]
          /\ UNCHANGED outran
  /\ UNCHANGED <<feed, made, backup>>

BackUp == backup' = [rows |-> feed, made |-> made] /\ UNCHANGED <<feed, made, cursor, owed, outran>>

(* The database goes back to its backup, sequence numbers included.            *)
RestoreBackup ==
  /\ feed' = backup.rows
  /\ owed' = [c \in Clients |-> {event \in owed[c] : event.id <= backup.made}]
  /\ outran' = outran \cup {c \in Clients : cursor[c] # None /\ cursor[c] > TipSeq(backup.rows)}
  /\ UNCHANGED <<made, backup, cursor>>

-------------------------------------------------------------------------------
(* Properties.                                                                 *)

(* No change slips behind the cursor of a reader that was not told, whatever   *)
(* the pages, the trims and the reconnections; a restore of the database is    *)
(* the one exception, because the numbers of undone events are used again.     *)
CursorsSkipNothing ==
  \A c \in Clients \ outran : \A event \in owed[c] : event.seq > cursor[c]

(* A reader is sent back to a snapshot only when a change it had not read is   *)
(* really gone.                                                                *)
ExpiryMeansLoss ==
  \A c \in Clients : cursor[c] # None /\ c \notin outran /\ Expired(cursor[c])
                       => owed[c] \ feed # {}
===============================================================================
