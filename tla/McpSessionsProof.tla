---------------------------- MODULE McpSessionsProof ----------------------------
(* Proofs about McpSessions and the change feed below it, for any clients,     *)
(* sessions, retention, page, ring and number of sessions.                     *)
EXTENDS McpSessions, SequenceTheorems, WellFoundedInduction, TLAPS

USE FeedAssumption, SessionsAssumption

-------------------------------------------------------------------------------
(* The least and the greatest of some numbers.                                 *)
LEMMA MinOfNumbers ==
  ASSUME NEW S \in SUBSET Nat, S # {}
  PROVE  Min(S) \in S /\ \A t \in S : Min(S) <= t
<1>1. PICK m \in S : \A t \in S : <<t, m>> \notin OpToRel(<, Nat)
  BY NatLessThanWellFounded, WFMin
<1>2. \A t \in S : ~(t < m)
  BY <1>1 DEF OpToRel
<1>3. \A t \in S : m <= t
  BY <1>2
<1> QED
  BY <1>3 DEF Min

LEMMA MaxOfNumbers ==
  ASSUME NEW bound \in Nat, NEW S \in SUBSET (0 .. bound), S # {}
  PROVE  Max(S) \in S /\ \A t \in S : t <= Max(S)
<1> DEFINE below == {bound - t : t \in S}
<1>1. \A t \in S : t \in Nat /\ bound - t \in Nat /\ bound - t \in below
  OBVIOUS
<1>2. below \in SUBSET Nat /\ below # {}
  BY <1>1
<1>3. Min(below) \in below /\ \A t \in below : Min(below) <= t
  BY <1>2, MinOfNumbers
<1>4. PICK m \in S : Min(below) = bound - m
  BY <1>3
<1>5. \A t \in S : bound - m <= bound - t
  BY <1>1, <1>3, <1>4
<1>6. \A t \in S : t <= m
  BY <1>1, <1>5
<1> QED
  BY <1>6 DEF Max

-------------------------------------------------------------------------------
(* The rows of a feed.                                                         *)
Rows == [seq : 1 .. MaxEvents, id : 1 .. MaxEvents]

(* Rows and what is owed to a reader at a cursor: an event recorded up to then *)
(* is among the rows or older than all of them, and the events after the       *)
(* cursor are all owed.                                                        *)
Follows(at, due, rows, upto) ==
  /\ \A event \in due : event.id <= upto =>
       /\ event.seq <= TipSeq(rows)
       /\ event \in rows \/ \A row \in rows : event.seq < row.seq
  /\ \A n \in Nat : at < n /\ n <= TipSeq(rows) =>
       \E event \in due : event.seq = n /\ event.id <= upto

(* A reader whose cursor is of this feed, and of what a restore would make it. *)
InStep(at, due) ==
  /\ at <= TipSeq(feed)
  /\ \A event \in due : event.seq > at
  /\ Follows(at, due, feed, made)
  /\ Follows(at, due, backup.rows, backup.made)

Gapless(rows) ==
  \A low \in rows, high \in rows : \A n \in Nat :
    low.seq <= n /\ n <= high.seq => n \in Seqs(rows)

FeedInvariant ==
  /\ feed \in SUBSET Rows /\ made \in 0 .. MaxEvents
  /\ backup \in [rows : SUBSET Rows, made : 0 .. made]
  /\ cursor \in [Clients -> 0 .. MaxEvents \cup {None}]
  /\ owed \in [Clients -> SUBSET Rows]
  /\ Gapless(feed) /\ Gapless(backup.rows)
  /\ TipSeq(feed) <= made /\ TipSeq(backup.rows) <= TipSeq(feed)
  /\ \A c \in Clients :
       /\ \A event \in owed[c] : event.id <= made
       /\ cursor[c] = None => owed[c] = {}
       /\ cursor[c] # None /\ c \notin outran => InStep(cursor[c], owed[c])


LEMMA TipIsNewest ==
  ASSUME NEW rows \in SUBSET Rows
  PROVE  /\ TipSeq(rows) \in 0 .. MaxEvents
         /\ \A row \in rows : row.seq <= TipSeq(rows)
         /\ rows # {} => \E row \in rows : row.seq = TipSeq(rows)
<1>1. CASE rows = {}
  BY <1>1 DEF TipSeq
<1>2. CASE rows # {}
  <2>1. Seqs(rows) \in SUBSET (0 .. MaxEvents) /\ Seqs(rows) # {}
    BY <1>2 DEF Seqs, Rows
  <2>2. Max(Seqs(rows)) \in Seqs(rows) /\ \A n \in Seqs(rows) : n <= Max(Seqs(rows))
    BY <2>1, MaxOfNumbers
  <2>3. TipSeq(rows) = Max(Seqs(rows))
    BY <1>2 DEF TipSeq
  <2> QED
    BY <1>2, <2>1, <2>2, <2>3 DEF Seqs
<1> QED
  BY <1>1, <1>2

LEMMA TipIs ==
  ASSUME NEW rows \in SUBSET Rows, NEW event \in rows, \A row \in rows : row.seq <= event.seq
  PROVE  TipSeq(rows) = event.seq
BY TipIsNewest DEF Rows

(* The new event is the tip, and what is trimmed is older than what stays.     *)
LEMMA NewestIsKept ==
  ASSUME NEW rows \in SUBSET Rows, NEW event \in Rows, event.seq = TipSeq(rows) + 1
  PROVE  LET kept == Kept(rows \cup {event}) IN
         /\ event \in kept /\ kept \in SUBSET Rows /\ TipSeq(kept) = event.seq
         /\ kept \subseteq rows \cup {event}
         /\ \A gone \in rows \ kept, row \in kept : gone.seq < row.seq
         /\ Gapless(rows) => Gapless(kept)
<1> DEFINE all == rows \cup {event}
           kept == Kept(all)
<1>1. /\ all \in SUBSET Rows /\ event \in all /\ event.seq \in Nat
      /\ \A row \in all : row.seq \in Nat /\ row.seq <= event.seq
  BY TipIsNewest DEF Rows
<1>2. TipSeq(all) = event.seq
  BY <1>1, TipIs
<1>3. /\ kept \subseteq all /\ event \in kept
      /\ \A row \in all : row \in kept <=> row.seq > event.seq - Retention
  <2>1. kept = {row \in all : row.seq > event.seq - Retention}
    BY <1>2 DEF Kept
  <2>2. event.seq > event.seq - Retention
    BY <1>1
  <2> HIDE DEF all, kept
  <2> QED
    BY <1>1, <2>1, <2>2
<1>4. TipSeq(kept) = event.seq
  BY <1>1, <1>3, TipIs
<1>5. \A gone \in rows \ kept, row \in kept : gone.seq < row.seq
  <2>1. SUFFICES ASSUME NEW gone \in rows, gone \notin kept, NEW row \in kept
                 PROVE  gone.seq < row.seq
    OBVIOUS
  <2>2. gone \in all /\ row \in all
    BY <1>3
  <2>3. gone.seq \in Nat /\ row.seq \in Nat /\ event.seq - Retention \in Int
    BY <1>1, <2>2
  <2>4. ~(gone.seq > event.seq - Retention) /\ row.seq > event.seq - Retention
    BY <1>3, <2>1, <2>2
  <2> QED
    BY <2>3, <2>4
<1> HIDE DEF kept
<1>6. ASSUME Gapless(rows), NEW low \in kept, NEW high \in kept, NEW n \in Nat,
             low.seq <= n, n <= high.seq
      PROVE  n \in Seqs(kept)
  <2>1. CASE n = event.seq
    BY <1>3, <2>1 DEF Seqs
  <2>2. CASE n # event.seq
    <3>1. low \in all /\ high \in all /\ TipSeq(rows) \in Nat
      BY <1>3, TipIsNewest
    <3>2. n <= TipSeq(rows) /\ low \in rows
      <4>1. low.seq \in Nat /\ high.seq \in Nat /\ high.seq <= event.seq
        BY <1>1, <3>1
      <4>2. n < event.seq /\ low.seq < event.seq
        BY <1>1, <1>6, <2>2, <4>1
      <4> QED
        BY <3>1, <4>2
    <3>3. PICK top \in rows : top.seq = TipSeq(rows)
      BY <3>2, TipIsNewest
    <3>4. PICK row \in rows : row.seq = n
      BY <1>6, <3>1, <3>2, <3>3 DEF Gapless, Seqs
    <3>5. low.seq > event.seq - Retention
      BY <1>3
    <3>6. row \in kept
      <4>1. row \in all /\ row.seq >= low.seq /\ low.seq \in Nat /\ row.seq \in Nat
        BY <1>1, <1>6, <3>1, <3>4
      <4>2. row.seq > event.seq - Retention
        BY <1>1, <3>5, <4>1
      <4> QED
        BY <1>3, <4>1, <4>2
    <3> QED
      BY <3>4, <3>6 DEF Seqs
  <2> QED
    BY <2>1, <2>2
<1>7. Gapless(rows) => Gapless(kept)
  BY <1>6 DEF Gapless
<1> QED
  BY <1>1, <1>3, <1>4, <1>5, <1>7 DEF kept

-------------------------------------------------------------------------------
(* The operations of the feed.                                                 *)

LEMMA FeedStartsInStep == FeedInit => FeedInvariant
<1> SUFFICES ASSUME FeedInit PROVE FeedInvariant
  OBVIOUS
<1>1. TipSeq({}) = 0
  BY DEF TipSeq
<1> QED
  BY <1>1 DEF FeedInit, FeedInvariant, Gapless

(* The event is owed to all who follow the feed.                               *)
LEMMA RecordedIsOwed ==
  ASSUME NEW at \in Nat, NEW due \in SUBSET Rows, NEW rows \in SUBSET Rows, NEW upto \in Nat,
         NEW event \in Rows, event.seq = TipSeq(rows) + 1, event.id = upto + 1,
         at <= TipSeq(rows), Follows(at, due, rows, upto), \A e \in due : e.id <= upto
  PROVE  Follows(at, due \cup {event}, Kept(rows \cup {event}), upto + 1)
<1> DEFINE kept == Kept(rows \cup {event})
           owes == due \cup {event}
<1>1. /\ event \in kept /\ TipSeq(kept) = event.seq /\ kept \subseteq rows \cup {event}
      /\ \A gone \in rows \ kept, row \in kept : gone.seq < row.seq
  BY NewestIsKept
<1>2. TipSeq(rows) \in Nat
  BY TipIsNewest
<1> HIDE DEF kept
<1>3. ASSUME NEW e \in owes, e.id <= upto + 1
      PROVE  e.seq <= TipSeq(kept) /\ (e \in kept \/ \A row \in kept : e.seq < row.seq)
  <2>1. CASE e = event
    BY <1>1, <1>2, <2>1
  <2>2. CASE e # event
    <3>1. e.seq <= TipSeq(rows) /\ (e \in rows \/ \A row \in rows : e.seq < row.seq)
      BY <2>2 DEF Follows
    <3>2. e.seq \in Nat /\ e.seq < event.seq
      BY <1>2, <2>2, <3>1 DEF Rows
    <3> QED
      BY <1>1, <1>2, <3>1, <3>2
  <2> QED
    BY <2>1, <2>2
<1>4. ASSUME NEW n \in Nat, at < n, n <= TipSeq(kept)
      PROVE  \E e \in owes : e.seq = n /\ e.id <= upto + 1
  <2>1. CASE n = event.seq
    BY <2>1
  <2>2. CASE n # event.seq
    <3>1. n <= TipSeq(rows)
      BY <1>1, <1>2, <1>4, <2>2
    <3>2. PICK e \in due : e.seq = n /\ e.id <= upto
      BY <1>4, <3>1 DEF Follows
    <3> QED
      BY <3>2 DEF Rows
  <2> QED
    BY <2>1, <2>2
<1> HIDE DEF owes
<1>5. Follows(at, owes, kept, upto + 1)
  BY <1>3, <1>4 DEF Follows
<1> QED
  BY <1>5 DEF kept, owes

(* An event that a copy does not know of is nothing to what is owed of it.     *)
LEMMA UnknownIsNotOwed ==
  ASSUME NEW at, NEW due, NEW rows, NEW upto \in Nat, NEW event, event.id \in Nat,
         event.id > upto, Follows(at, due, rows, upto)
  PROVE  Follows(at, due \cup {event}, rows, upto)
BY DEF Follows

(* What was read lies behind the cursor.                                       *)
LEMMA ReadIsBehind ==
  ASSUME NEW at \in Nat, NEW later \in Nat, NEW due \in SUBSET Rows, NEW rows \in SUBSET Rows,
         NEW upto \in Nat, NEW page \in SUBSET Rows, at <= later,
         \A row \in page : row.seq <= later,
         Follows(at, due, rows, upto)
  PROVE  Follows(later, due \ page, rows, upto)
<1>1. ASSUME NEW n \in Nat, later < n, n <= TipSeq(rows)
      PROVE  \E event \in due \ page : event.seq = n /\ event.id <= upto
  <2>1. PICK event \in due : event.seq = n /\ event.id <= upto
    BY <1>1 DEF Follows
  <2> QED
    BY <1>1, <2>1
<1> QED
  BY <1>1 DEF Follows

(* At the tip nothing is left to read, and nothing was cut off.                *)
LEMMA TipFollows ==
  ASSUME NEW at \in Nat, NEW rows \in SUBSET Rows, NEW upto, TipSeq(rows) <= at
  PROVE  Follows(at, {}, rows, upto)
BY TipIsNewest DEF Follows

(* A restore forgets what the copy did not know.                               *)
LEMMA RestoredIsOwed ==
  ASSUME NEW at, NEW due \in SUBSET Rows, NEW rows, NEW upto \in Nat, NEW all \in Nat,
         upto <= all, Follows(at, due, rows, upto)
  PROVE  LET known == {event \in due : event.id <= upto} IN
         Follows(at, known, rows, upto) /\ Follows(at, known, rows, all)
<1> DEFINE known == {event \in due : event.id <= upto}
<1>1. \A event \in due : event.id \in Nat
  BY DEF Rows
<1>2. ASSUME NEW n \in Nat, at < n, n <= TipSeq(rows)
      PROVE  \E event \in known : event.seq = n /\ event.id <= upto /\ event.id <= all
  <2>1. PICK event \in due : event.seq = n /\ event.id <= upto
    BY <1>2 DEF Follows
  <2> QED
    BY <1>1, <2>1
<1>3. \A event \in known : /\ event.seq <= TipSeq(rows)
                           /\ event \in rows \/ \A row \in rows : event.seq < row.seq
  BY DEF Follows
<1> HIDE DEF known
<1>4. Follows(at, known, rows, upto) /\ Follows(at, known, rows, all)
  BY <1>2, <1>3 DEF Follows
<1> QED
  BY <1>4 DEF known


(* A cursor that has not expired moves to the end of its page, and every row   *)
(* that it moves over is on the page.                                          *)
LEMMA CursorMovesOverItsPage ==
  ASSUME FeedInvariant, NEW at \in 0 .. MaxEvents, ~Expired(at), at < TipSeq(feed)
  PROVE  /\ NextCursor(at) \in at .. TipSeq(feed)
         /\ \A row \in Page(at) : row.seq <= NextCursor(at)
         /\ \A row \in feed : row.seq > at /\ row.seq <= NextCursor(at) => row \in Page(at)
<1>1. feed \in SUBSET Rows /\ Gapless(feed) /\ TipSeq(feed) \in 0 .. MaxEvents /\ feed # {}
  BY TipIsNewest DEF FeedInvariant, TipSeq
<1>2. Page(at) \in SUBSET feed /\ \A row \in Page(at) : row.seq > at /\ row.seq <= at + Limit
  BY DEF Page
<1>3. \E row \in Page(at) : row.seq = at + 1
  <2>1. Seqs(feed) \in SUBSET Nat /\ Seqs(feed) # {}
    BY <1>1 DEF Seqs, Rows
  <2>2. Min(Seqs(feed)) \in Seqs(feed) /\ Min(Seqs(feed)) <= at + 1
    BY <1>1, <2>1, MinOfNumbers DEF Expired
  <2>3. PICK low \in feed : low.seq <= at + 1
    BY <2>2 DEF Seqs
  <2>4. PICK high \in feed : high.seq >= at + 1
    BY <1>1, TipIsNewest
  <2>5. PICK row \in feed : row.seq = at + 1
    BY <1>1, <2>3, <2>4 DEF Gapless, Seqs
  <2> QED
    BY <2>5 DEF Page
<1>4. /\ NextCursor(at) \in Seqs(Page(at))
      /\ \A n \in Seqs(Page(at)) : n <= NextCursor(at)
  <2>1. Seqs(Page(at)) \in SUBSET (0 .. MaxEvents) /\ Seqs(Page(at)) # {}
    BY <1>1, <1>2, <1>3 DEF Seqs, Rows
  <2>2. NextCursor(at) = Max(Seqs(Page(at)))
    BY <1>1 DEF NextCursor
  <2> QED
    BY <2>1, <2>2, MaxOfNumbers
<1>5. PICK last \in Page(at) : last.seq = NextCursor(at)
  BY <1>4 DEF Seqs
<1>6. last \in feed /\ last.seq > at /\ last.seq <= at + Limit /\ last.seq \in Nat
  BY <1>1, <1>2 DEF Rows
<1>7. last.seq <= TipSeq(feed)
  BY <1>1, <1>6, TipIsNewest
<1>8. \A row \in feed : row.seq > at /\ row.seq <= NextCursor(at) => row \in Page(at)
  <2>1. ASSUME NEW row \in feed, row.seq > at, row.seq <= last.seq PROVE row.seq <= at + Limit
    BY <1>1, <1>6, <2>1 DEF Rows
  <2> QED
    BY <1>5, <2>1 DEF Page
<1> QED
  BY <1>1, <1>4, <1>5, <1>6, <1>7, <1>8 DEF Seqs

LEMMA RecordKeepsStep == FeedInvariant /\ RecordChange => FeedInvariant'
<1> SUFFICES ASSUME FeedInvariant, RecordChange PROVE FeedInvariant'
  OBVIOUS
<1> DEFINE event == [seq |-> TipSeq(feed) + 1, id |-> made + 1]
<1>1. /\ feed \in SUBSET Rows /\ backup.rows \in SUBSET Rows
      /\ made \in Nat /\ made < MaxEvents /\ backup.made \in 0 .. made
      /\ TipSeq(feed) \in Nat /\ TipSeq(feed) <= made
  BY TipIsNewest DEF FeedInvariant, RecordChange
<1>2. /\ feed' = Kept(feed \cup {event}) /\ made' = made + 1
      /\ owed' = [c \in Clients |-> IF cursor[c] = None THEN {} ELSE owed[c] \cup {event}]
      /\ backup' = backup /\ cursor' = cursor /\ outran' = outran
  BY DEF RecordChange
<1>3. event \in Rows /\ event.seq = TipSeq(feed) + 1 /\ event.id = made + 1
  BY <1>1 DEF Rows
<1> HIDE DEF event
<1>4. /\ feed' \in SUBSET Rows /\ TipSeq(feed') = TipSeq(feed) + 1 /\ Gapless(feed')
  BY <1>1, <1>2, <1>3, NewestIsKept DEF FeedInvariant
<1>5. TipSeq(backup.rows) \in Nat /\ TipSeq(backup.rows) <= TipSeq(feed)
  BY <1>1, TipIsNewest DEF FeedInvariant
<1>6. ASSUME NEW c \in Clients
      PROVE  /\ owed'[c] \in SUBSET Rows
             /\ \A e \in owed'[c] : e.id <= made'
             /\ cursor'[c] = None => owed'[c] = {}
             /\ cursor'[c] # None /\ c \notin outran' => InStep(cursor[c], owed[c])'
  <2>1. /\ owed[c] \in SUBSET Rows /\ cursor[c] \in 0 .. MaxEvents \cup {None}
        /\ \A e \in owed[c] : e.id <= made
        /\ cursor[c] # None /\ c \notin outran => InStep(cursor[c], owed[c])
    BY DEF FeedInvariant
  <2>2. CASE cursor[c] = None
    BY <1>2, <2>2
  <2>3. CASE cursor[c] # None
    <3>1. owed'[c] = owed[c] \cup {event}
      BY <1>2, <2>3
    <3>2. owed'[c] \in SUBSET Rows /\ \A e \in owed'[c] : e.id <= made'
      BY <1>1, <1>2, <1>3, <2>1, <3>1 DEF Rows
    <3>3. ASSUME c \notin outran
          PROVE  InStep(cursor[c], owed[c])'
      <4>1. /\ cursor[c] \in Nat /\ cursor[c] <= TipSeq(feed)
            /\ \A e \in owed[c] : e.seq > cursor[c]
            /\ Follows(cursor[c], owed[c], feed, made)
            /\ Follows(cursor[c], owed[c], backup.rows, backup.made)
        BY <2>1, <2>3, <3>3 DEF InStep
      <4>2. cursor[c] <= TipSeq(feed') /\ \A e \in owed'[c] : e.seq > cursor[c]
        BY <1>1, <1>3, <1>4, <3>1, <4>1
      <4>3. Follows(cursor[c], owed[c] \cup {event}, feed', made')
        BY <1>1, <1>2, <1>3, <2>1, <4>1, RecordedIsOwed
      <4>4. Follows(cursor[c], owed[c] \cup {event}, backup.rows, backup.made)
        BY <1>1, <1>3, <4>1, UnknownIsNotOwed
      <4> QED
        BY <1>2, <3>1, <4>2, <4>3, <4>4 DEF InStep
    <3> QED
      BY <1>2, <2>3, <3>2, <3>3
  <2> QED
    BY <2>2, <2>3
<1>7. owed' \in [Clients -> SUBSET Rows]
  BY <1>2, <1>6
<1>8. backup' \in [rows : SUBSET Rows, made : 0 .. made'] /\ made' \in 0 .. MaxEvents
  <2>1. backup \in [rows : SUBSET Rows, made : 0 .. made]
    BY DEF FeedInvariant
  <2>2. 0 .. made \subseteq 0 .. made' /\ made' \in 0 .. MaxEvents
    BY <1>1, <1>2
  <2> QED
    BY <1>2, <2>1, <2>2
<1>9. /\ Gapless(backup'.rows) /\ TipSeq(feed') <= made' /\ TipSeq(backup'.rows) <= TipSeq(feed')
      /\ cursor' \in [Clients -> 0 .. MaxEvents \cup {None}] /\ outran' = outran
  BY <1>1, <1>2, <1>4, <1>5 DEF FeedInvariant
<1> QED
  BY <1>2, <1>4, <1>6, <1>7, <1>8, <1>9 DEF FeedInvariant


LEMMA ReadKeepsStep ==
  ASSUME FeedInvariant, NEW c \in Clients, ReadChanges(c)
  PROVE  FeedInvariant'
<1>1. /\ feed' = feed /\ made' = made /\ backup' = backup
      /\ feed \in SUBSET Rows /\ backup.rows \in SUBSET Rows
      /\ made \in Nat /\ made <= MaxEvents /\ backup.made \in 0 .. made
      /\ TipSeq(feed) \in 0 .. MaxEvents /\ TipSeq(backup.rows) \in Nat
      /\ TipSeq(backup.rows) <= TipSeq(feed)
  BY TipIsNewest DEF FeedInvariant, ReadChanges
<1>2. /\ owed[c] \in SUBSET Rows /\ \A e \in owed[c] : e.id <= made
      /\ cursor[c] # None /\ c \notin outran => InStep(cursor[c], owed[c])
  BY DEF FeedInvariant
<1>3. \E at \in 0 .. MaxEvents, due \in SUBSET owed[c] :
        /\ cursor' = [cursor EXCEPT ![c] = at]
        /\ owed' = [owed EXCEPT ![c] = due]
        /\ outran' \in {outran, outran \ {c}}
        /\ c \notin outran' => InStep(at, due)
  <2>1. CASE cursor[c] = None \/ Expired(cursor[c])
    <3>1. InStep(TipSeq(feed), {})
      BY <1>1, TipFollows DEF InStep
    <3>2. /\ cursor' = [cursor EXCEPT ![c] = TipSeq(feed)]
          /\ owed' = [owed EXCEPT ![c] = {}]
          /\ outran' = outran \ {c}
      BY <2>1 DEF ReadChanges
    <3> QED
      BY <1>1, <3>1, <3>2
  <2>2. CASE ~(cursor[c] = None \/ Expired(cursor[c]))
    <3> DEFINE at == NextCursor(cursor[c])
               due == owed[c] \ Page(cursor[c])
    <3>1. /\ cursor' = [cursor EXCEPT ![c] = at]
          /\ owed' = [owed EXCEPT ![c] = due]
          /\ outran' = outran
      BY <2>2 DEF ReadChanges, FeedInvariant
    <3>2. cursor[c] \in 0 .. MaxEvents
      BY <2>2 DEF FeedInvariant
    <3>3. Page(cursor[c]) \in SUBSET feed
      BY DEF Page
    <3>4. at \in 0 .. MaxEvents /\ (c \notin outran => InStep(at, due))
      <4>1. CASE cursor[c] >= TipSeq(feed)
        <5>1. at = TipSeq(feed)
          BY <4>1 DEF NextCursor
        <5>2. ASSUME c \notin outran
              PROVE  InStep(at, due)
          <6>1. InStep(cursor[c], owed[c]) /\ cursor[c] = at
            BY <1>1, <1>2, <2>2, <3>2, <4>1, <5>1, <5>2 DEF InStep
          <6>2. owed[c] = {}
            BY <1>1, <1>2, <3>2, <4>1, <6>1 DEF InStep, Follows, Rows
          <6> QED
            BY <6>1, <6>2
        <5> QED
          BY <1>1, <5>1, <5>2
      <4>2. CASE cursor[c] < TipSeq(feed)
        <5>1. /\ at \in cursor[c] .. TipSeq(feed)
              /\ \A row \in Page(cursor[c]) : row.seq <= at
              /\ \A row \in feed : row.seq > cursor[c] /\ row.seq <= at => row \in Page(cursor[c])
          BY <2>2, <3>2, <4>2, CursorMovesOverItsPage
        <5>2. at \in 0 .. MaxEvents /\ cursor[c] <= at
          BY <1>1, <3>2, <5>1
        <5> HIDE DEF at
        <5>3. ASSUME c \notin outran
              PROVE  InStep(at, due)
          <6>1. InStep(cursor[c], owed[c])
            BY <1>2, <2>2, <5>3
          <6>2. Follows(at, due, feed, made) /\ Follows(at, due, backup.rows, backup.made)
            <7>1. /\ cursor[c] \in Nat /\ at \in Nat /\ cursor[c] <= at
                  /\ made \in Nat /\ backup.made \in Nat /\ Page(cursor[c]) \in SUBSET Rows
              BY <1>1, <3>2, <3>3, <5>2
            <7>2. /\ Follows(cursor[c], owed[c], feed, made)
                  /\ Follows(cursor[c], owed[c], backup.rows, backup.made)
              BY <6>1 DEF InStep
            <7>3. Follows(at, due, feed, made)
              BY <1>1, <1>2, <5>1, <7>1, <7>2, ReadIsBehind
            <7>4. Follows(at, due, backup.rows, backup.made)
              BY <1>1, <1>2, <5>1, <7>1, <7>2, ReadIsBehind
            <7> QED
              BY <7>3, <7>4
          <6>3. ASSUME NEW event \in due
                PROVE  event.seq > at
            <7>1. /\ event \in Rows /\ event.seq > cursor[c] /\ event.seq <= TipSeq(feed)
                  /\ event \in feed \/ \A row \in feed : event.seq < row.seq
              BY <1>2, <6>1 DEF InStep, Follows
            <7>2. event \in feed
              <8>1. feed # {}
                BY <3>2, <4>2 DEF TipSeq
              <8>2. Seqs(feed) \in SUBSET Nat /\ Seqs(feed) # {}
                BY <1>1, <8>1 DEF Seqs, Rows
              <8>3. Min(Seqs(feed)) \in Seqs(feed) /\ Min(Seqs(feed)) <= cursor[c] + 1
                BY <2>2, <3>2, <8>1, <8>2, MinOfNumbers DEF Expired
              <8>4. \E row \in feed : row.seq <= cursor[c] + 1
                BY <8>3 DEF Seqs
              <8> QED
                BY <1>1, <3>2, <7>1, <8>4 DEF Rows
            <7> QED
              BY <5>1, <5>2, <7>1, <7>2 DEF Rows
          <6> QED
            BY <5>1, <6>2, <6>3 DEF InStep
        <5> QED
          BY <5>2, <5>3
      <4> QED
        BY <1>1, <3>2, <4>1, <4>2
    <3> HIDE DEF at, due
    <3>5. due \in SUBSET owed[c]
      BY DEF due
    <3> QED
      BY <3>1, <3>4, <3>5
  <2> QED
    BY <2>1, <2>2
<1>4. PICK at \in 0 .. MaxEvents, due \in SUBSET owed[c] :
        /\ cursor' = [cursor EXCEPT ![c] = at]
        /\ owed' = [owed EXCEPT ![c] = due]
        /\ outran' \in {outran, outran \ {c}}
        /\ c \notin outran' => InStep(at, due)
  BY <1>3
<1>5. ASSUME NEW d \in Clients
      PROVE  /\ cursor'[d] \in 0 .. MaxEvents \cup {None} /\ owed'[d] \in SUBSET Rows
             /\ \A event \in owed'[d] : event.id <= made'
             /\ cursor'[d] = None => owed'[d] = {}
             /\ cursor'[d] # None /\ d \notin outran' => InStep(cursor[d], owed[d])'
  <2>1. CASE d = c
    <3>1. cursor'[d] = at /\ owed'[d] = due
      BY <1>4, <2>1 DEF FeedInvariant
    <3>2. d \notin outran' => InStep(cursor[d], owed[d])'
      BY <1>1, <1>4, <2>1, <3>1 DEF InStep
    <3> QED
      BY <1>1, <1>2, <2>1, <3>1, <3>2
  <2>2. CASE d # c
    <3>1. cursor'[d] = cursor[d] /\ owed'[d] = owed[d] /\ (d \in outran <=> d \in outran')
      BY <1>4, <2>2 DEF FeedInvariant
    <3> QED
      BY <1>1, <3>1 DEF FeedInvariant, InStep
  <2> QED
    BY <2>1, <2>2
<1>6. /\ cursor' \in [Clients -> 0 .. MaxEvents \cup {None}]
      /\ owed' \in [Clients -> SUBSET Rows]
  BY <1>2, <1>4 DEF FeedInvariant
<1> QED
  BY <1>1, <1>5, <1>6 DEF FeedInvariant


LEMMA BackUpKeepsStep == FeedInvariant /\ BackUp => FeedInvariant'
<1> SUFFICES ASSUME FeedInvariant, BackUp PROVE FeedInvariant'
  OBVIOUS
<1>1. /\ feed' = feed /\ made' = made /\ cursor' = cursor /\ owed' = owed /\ outran' = outran
      /\ backup' = [rows |-> feed, made |-> made]
  BY DEF BackUp
<1>2. /\ feed \in SUBSET Rows /\ made \in 0 .. MaxEvents /\ TipSeq(feed) \in Nat
      /\ backup'.rows = feed /\ backup'.made = made
  BY <1>1, TipIsNewest DEF FeedInvariant
<1>3. backup' \in [rows : SUBSET Rows, made : 0 .. made]
  BY <1>1, <1>2
<1>4. ASSUME NEW c \in Clients, InStep(cursor[c], owed[c])
      PROVE  InStep(cursor[c], owed[c])'
  BY <1>1, <1>2, <1>4 DEF InStep
<1> QED
  BY <1>1, <1>2, <1>3, <1>4 DEF FeedInvariant

LEMMA RestoreKeepsStep == FeedInvariant /\ RestoreBackup => FeedInvariant'
<1> SUFFICES ASSUME FeedInvariant, RestoreBackup PROVE FeedInvariant'
  OBVIOUS
<1>1. /\ feed' = backup.rows /\ made' = made /\ cursor' = cursor /\ backup' = backup
      /\ owed' = [c \in Clients |-> {event \in owed[c] : event.id <= backup.made}]
      /\ outran' = outran \cup {c \in Clients : cursor[c] # None /\ cursor[c] > TipSeq(backup.rows)}
  BY DEF RestoreBackup
<1>2. /\ backup.rows \in SUBSET Rows /\ made \in 0 .. MaxEvents /\ backup.made \in 0 .. made
      /\ feed \in SUBSET Rows /\ TipSeq(feed) \in Nat /\ TipSeq(backup.rows) \in Nat
      /\ TipSeq(backup.rows) <= TipSeq(feed) /\ TipSeq(feed) <= made
  BY TipIsNewest DEF FeedInvariant
<1>3. ASSUME NEW c \in Clients
      PROVE  /\ owed'[c] \in SUBSET Rows
             /\ \A event \in owed'[c] : event.id <= made'
             /\ cursor'[c] = None => owed'[c] = {}
             /\ cursor'[c] # None /\ c \notin outran' => InStep(cursor[c], owed[c])'
  <2>1. /\ owed[c] \in SUBSET Rows /\ cursor[c] \in 0 .. MaxEvents \cup {None}
        /\ \A event \in owed[c] : event.id <= made
        /\ cursor[c] = None => owed[c] = {}
        /\ cursor[c] # None /\ c \notin outran => InStep(cursor[c], owed[c])
    BY DEF FeedInvariant
  <2>2. owed'[c] = {event \in owed[c] : event.id <= backup.made}
    BY <1>1
  <2>3. ASSUME cursor[c] # None, c \notin outran'
        PROVE  InStep(cursor[c], owed[c])'
    <3>1. cursor[c] \in Nat /\ cursor[c] <= TipSeq(backup.rows) /\ InStep(cursor[c], owed[c])
      BY <1>1, <1>2, <2>1, <2>3
    <3>2. /\ Follows(cursor[c], owed'[c], backup.rows, backup.made)
          /\ Follows(cursor[c], owed'[c], backup.rows, made)
      <4>1. Follows(cursor[c], owed[c], backup.rows, backup.made)
        BY <3>1 DEF InStep
      <4>2. backup.made \in Nat /\ made \in Nat /\ backup.made <= made
        BY <1>2
      <4> QED
        BY <2>1, <2>2, <4>1, <4>2, RestoredIsOwed
    <3>3. \A event \in owed'[c] : event.seq > cursor[c]
      BY <2>2, <3>1 DEF InStep
    <3> QED
      BY <1>1, <3>1, <3>2, <3>3 DEF InStep
  <2> QED
    BY <1>1, <2>1, <2>2, <2>3
<1>4. owed' \in [Clients -> SUBSET Rows] /\ outran' = outran'
  BY <1>1, <1>3
<1> QED
  BY <1>1, <1>2, <1>3, <1>4 DEF FeedInvariant

LEMMA QuietFeedKeepsStep == FeedInvariant /\ UNCHANGED feedVars => FeedInvariant'
BY DEF FeedInvariant, feedVars, InStep

(* A reader in step has what is new before it, and is told only of a loss.     *)
LEMMA InStepSkipsNothing == FeedInvariant => CursorsSkipNothing /\ ExpiryMeansLoss
<1> SUFFICES ASSUME FeedInvariant PROVE CursorsSkipNothing /\ ExpiryMeansLoss
  OBVIOUS
<1>1. CursorsSkipNothing
  BY DEF FeedInvariant, InStep, CursorsSkipNothing
<1>2. ASSUME NEW c \in Clients, cursor[c] # None, c \notin outran, Expired(cursor[c])
      PROVE  owed[c] \ feed # {}
  <2>1. /\ feed \in SUBSET Rows /\ TipSeq(feed) \in Nat /\ cursor[c] \in Nat
        /\ cursor[c] <= TipSeq(feed) /\ Follows(cursor[c], owed[c], feed, made)
    BY <1>2, TipIsNewest DEF FeedInvariant, InStep
  <2>2. feed # {}
    BY <1>2, <2>1 DEF TipSeq, Expired
  <2>3. Seqs(feed) \in SUBSET Nat /\ Seqs(feed) # {}
    BY <2>1, <2>2 DEF Seqs, Rows
  <2>4. /\ Min(Seqs(feed)) \in Seqs(feed) /\ cursor[c] + 1 < Min(Seqs(feed))
        /\ \A n \in Seqs(feed) : Min(Seqs(feed)) <= n
    BY <1>2, <2>2, <2>3, MinOfNumbers DEF Expired
  <2>5. PICK low \in feed : low.seq = Min(Seqs(feed))
    BY <2>4 DEF Seqs
  <2>6. low.seq \in Nat /\ cursor[c] + 1 < low.seq /\ low.seq <= TipSeq(feed)
    BY <2>1, <2>4, <2>5, TipIsNewest DEF Rows
  <2>7. PICK event \in owed[c] : event.seq = cursor[c] + 1
    BY <2>1, <2>6 DEF Follows
  <2>8. event \notin feed
    <3>1. ASSUME NEW row \in feed PROVE cursor[c] + 1 < row.seq
      <4>1. row.seq \in Seqs(feed)
        BY DEF Seqs
      <4>2. row.seq \in Nat /\ Min(Seqs(feed)) \in Nat /\ Min(Seqs(feed)) <= row.seq
        BY <2>3, <2>4, <4>1
      <4> QED
        BY <2>1, <2>4, <4>2
    <3> QED
      BY <2>1, <2>7, <3>1
  <2> QED
    BY <2>8
<1> QED
  BY <1>1, <1>2 DEF ExpiryMeansLoss


-------------------------------------------------------------------------------
(* The sessions and their agents.                                              *)
SessionRows == [touched : Nat, subscribed : BOOLEAN, buffer : Seq(Messages),
                next : 1 .. MaxMessages + 1, listening : BOOLEAN, used : BOOLEAN]

AgentRows == [sid : Sessions \cup {None}, stream : BOOLEAN, last : Nat,
              tipped : BOOLEAN, holed : BOOLEAN]

(* A session is in the Map once, and the Map is in the order in which its      *)
(* sessions were touched.                                                      *)
IsMap(ids, rows) ==
  /\ ids \in Seq(Sessions) /\ IsInjective(ids)
  /\ \A i, j \in DOMAIN ids : i < j => rows[ids[i]].touched <= rows[ids[j]].touched

(* The ring holds the newest messages, without a gap.                          *)
RingIsRecent(record) ==
  /\ Len(record.buffer) <= Buffer
  /\ \A i \in 1 .. Len(record.buffer) :
       record.buffer[i].id = record.next - 1 - Len(record.buffer) + i

SoundRecord(record) ==
  record \in SessionRows /\ RingIsRecent(record) /\ record.touched <= now

(* A tip waits for an agent that is away: its first connection, a hole in the  *)
(* ring, or a message that is to be replayed will tell it to read.             *)
TipWaits(a, record) ==
  /\ ~a.stream
  /\ \/ a.last = 0
     \/ record.next - 1 - a.last > Buffer
     \/ \E m \in ToSet(record.buffer) : m.id > a.last /\ m.tip

(* Both ends of a stream agree while its session is in the Map, and an agent   *)
(* that has changes to read has been tipped or will be.                        *)
InTune(a, record, behind) ==
  /\ record.listening = a.stream
  /\ a.last < record.next
  /\ behind /\ record.subscribed /\ ~a.tipped /\ ~a.holed => TipWaits(a, record)

Behind(c) == c \notin outran /\ owed[c] # {}

ServerInvariant ==
  /\ now \in Nat
  /\ IsMap(registry, session) /\ Len(registry) <= SessionMax
  /\ session \in [Sessions -> SessionRows]
  /\ \A s \in Sessions : SoundRecord(session[s])
  /\ \A s \in ToSet(registry) : session[s].used

AgentsInvariant ==
  /\ agent \in [Agents -> AgentRows]
  /\ \A c \in Agents : agent[c].sid # None => session[agent[c].sid].used
  /\ \A c, d \in Agents : agent[c].sid = agent[d].sid /\ agent[c].sid # None => c = d
  /\ \A c \in Agents : agent[c].stream => c \in Clients /\ agent[c].sid # None
  /\ \A c \in Clients :
       /\ agent[c].sid = None => agent[c].last = 0
       /\ agent[c].sid \in ToSet(registry) =>
            InTune(agent[c], session[agent[c].sid], Behind(c))

SessionsInvariant == FeedInvariant /\ ServerInvariant /\ AgentsInvariant

-------------------------------------------------------------------------------
(* The Map.                                                                    *)

LEMMA ElementsOf ==
  ASSUME NEW S, NEW ids \in Seq(S)
  PROVE  /\ Len(ids) \in Nat /\ DOMAIN ids = 1 .. Len(ids)
         /\ \A i \in 1 .. Len(ids) : ids[i] \in S /\ ids[i] \in ToSet(ids)
         /\ \A s \in ToSet(ids) : s \in S /\ \E i \in 1 .. Len(ids) : ids[i] = s
<1>1. Len(ids) \in Nat /\ DOMAIN ids = 1 .. Len(ids) /\ \A i \in 1 .. Len(ids) : ids[i] \in S
  BY LenProperties, ElementOfSeq
<1> QED
  BY <1>1 DEF ToSet

(* Only the times at which its sessions were touched matter to a Map.          *)
LEMMA MapOfSameTimes ==
  ASSUME NEW ids, NEW rows, NEW others, IsMap(ids, rows),
         \A s \in ToSet(ids) : others[s].touched = rows[s].touched
  PROVE  IsMap(ids, others)
<1>1. \A i \in DOMAIN ids : others[ids[i]].touched = rows[ids[i]].touched
  BY ElementsOf DEF IsMap
<1> QED
  BY <1>1 DEF IsMap

TailIsKept(kept, ids, m) == kept = SubSeq(ids, m, Len(ids))

LEMMA SuffixIsMap ==
  ASSUME NEW ids, NEW rows, IsMap(ids, rows), NEW m \in 1 .. Len(ids) + 1,
         NEW kept, TailIsKept(kept, ids, m)
  PROVE  /\ IsMap(kept, rows) /\ Len(kept) = Len(ids) - m + 1
         /\ ToSet(kept) \subseteq ToSet(ids)
         /\ \A i \in m .. Len(ids) : ids[i] \in ToSet(kept)
<1>1. /\ ids \in Seq(Sessions) /\ IsInjective(ids) /\ Len(ids) \in Nat
      /\ DOMAIN ids = 1 .. Len(ids) /\ \A i \in 1 .. Len(ids) : ids[i] \in Sessions
  BY ElementsOf DEF IsMap
<1>2. \A i \in m .. Len(ids) : ids[i] \in Sessions
  BY <1>1
<1>3. /\ kept \in Seq(Sessions)
      /\ Len(kept) = IF m <= Len(ids) THEN Len(ids) - m + 1 ELSE 0
      /\ \A i \in 1 .. Len(ids) - m + 1 : kept[i] = ids[m + i - 1]
  BY <1>1, <1>2, SubSeqProperties, m \in Int, Len(ids) \in Int DEF TailIsKept
<1>4. Len(kept) = Len(ids) - m + 1 /\ DOMAIN kept = 1 .. Len(ids) - m + 1
  BY <1>1, <1>3, ElementsOf
<1>5. \A i \in 1 .. Len(kept) : kept[i] = ids[m + i - 1] /\ m + i - 1 \in 1 .. Len(ids)
  BY <1>1, <1>3, <1>4
<1>6. IsInjective(kept)
  <2>1. SUFFICES ASSUME NEW i \in 1 .. Len(kept), NEW j \in 1 .. Len(kept), kept[i] = kept[j]
                 PROVE  i = j
    BY <1>4 DEF IsInjective
  <2>2. m + i - 1 = m + j - 1
    BY <1>1, <1>5, <2>1 DEF IsInjective
  <2> QED
    BY <2>2, <1>4
<1>7. \A i, j \in DOMAIN kept : i < j => rows[kept[i]].touched <= rows[kept[j]].touched
  <2>1. SUFFICES ASSUME NEW i \in 1 .. Len(kept), NEW j \in 1 .. Len(kept), i < j
                 PROVE  rows[kept[i]].touched <= rows[kept[j]].touched
    BY <1>4
  <2>2. m + i - 1 < m + j - 1
    BY <1>4, <2>1
  <2> QED
    BY <1>1, <1>5, <2>2 DEF IsMap
<1>8. ASSUME NEW s \in ToSet(kept) PROVE s \in ToSet(ids)
  <2>1. PICK i \in 1 .. Len(kept) : kept[i] = s
    BY <1>3, ElementsOf
  <2>2. m + i - 1 \in 1 .. Len(ids) /\ ids[m + i - 1] = s
    BY <1>5, <2>1
  <2> QED
    BY <1>1, <2>2, ElementsOf
<1>9. ASSUME NEW i \in m .. Len(ids) PROVE ids[i] \in ToSet(kept)
  <2>1. i - m + 1 \in 1 .. Len(kept) /\ m + (i - m + 1) - 1 = i
    BY <1>1, <1>4
  <2> QED
    <3>1. kept[i - m + 1] = ids[i] /\ kept[i - m + 1] \in ToSet(kept)
      BY <1>3, <1>5, <2>1, ElementsOf
    <3> QED
      BY <3>1
<1> QED
  BY <1>3, <1>4, <1>6, <1>7, <1>8, <1>9 DEF IsMap

(* prune drops nothing that is not idle.                                       *)
LEMMA PrunedIsMap ==
  ASSUME NEW ids, NEW rows, IsMap(ids, rows)
  PROVE  /\ IsMap(Pruned(ids), rows) /\ Len(Pruned(ids)) <= Len(ids)
         /\ ToSet(Pruned(ids)) \subseteq ToSet(ids)
         /\ \A s \in ToSet(ids) : s \notin ToSet(Pruned(ids)) => Idle(s)
         /\ Len(Pruned(ids)) = Len(ids) => Pruned(ids) = ids
<1> DEFINE used == {i \in DOMAIN ids : ~Idle(ids[i])}
<1>1. /\ ids \in Seq(Sessions) /\ Len(ids) \in Nat /\ DOMAIN ids = 1 .. Len(ids)
      /\ \A s \in ToSet(ids) : \E i \in 1 .. Len(ids) : ids[i] = s
  BY ElementsOf DEF IsMap
<1>2. CASE used = {}
  <2>1. Pruned(ids) = <<>>
    BY <1>2 DEF Pruned
  <2>2. Len(<<>>) = 0 /\ ToSet(<<>>) = {} /\ IsMap(<<>>, rows)
    BY DEF IsMap, IsInjective, ToSet
  <2>3. \A s \in ToSet(ids) : Idle(s)
    BY <1>1, <1>2
  <2>4. Len(ids) = 0 => ids = <<>>
    BY <1>1, EmptySeq
  <2> QED
    BY <1>1, <2>1, <2>2, <2>3, <2>4
<1>3. CASE used # {}
  <2>1. Pruned(ids) = SubSeq(ids, Min(used), Len(ids))
    BY <1>3 DEF Pruned
  <2>2. used \in SUBSET (1 .. Len(ids)) /\ \A i \in 1 .. Len(ids) : i \in used \/ Idle(ids[i])
    BY <1>1
  <2> HIDE DEF used
  <2>3. PICK m \in used : m = Min(used) /\ \A i \in used : m <= i
    <3>1. used \in SUBSET Nat
      BY <2>2
    <3>2. Min(used) \in used /\ \A i \in used : Min(used) <= i
      BY <1>3, <3>1, MinOfNumbers
    <3> QED
      BY <3>2
  <2>4. TailIsKept(Pruned(ids), ids, m)
    BY <2>1, <2>3 DEF TailIsKept
  <2>5. m \in 1 .. Len(ids) /\ m \in 1 .. Len(ids) + 1
    BY <1>1, <2>2
  <2>6. \A i \in 1 .. Len(ids) : i < m => Idle(ids[i])
    BY <1>1, <2>2, <2>3, <2>5
  <2>7. /\ IsMap(Pruned(ids), rows) /\ Len(Pruned(ids)) = Len(ids) - m + 1
        /\ ToSet(Pruned(ids)) \subseteq ToSet(ids)
        /\ \A i \in m .. Len(ids) : ids[i] \in ToSet(Pruned(ids))
    BY <2>4, <2>5, SuffixIsMap
  <2>8. ASSUME NEW s \in ToSet(ids), s \notin ToSet(Pruned(ids)) PROVE Idle(s)
    <3>1. PICK i \in 1 .. Len(ids) : ids[i] = s
      BY <1>1
    <3>2. i < m
      BY <1>1, <2>5, <2>7, <2>8, <3>1
    <3> QED
      BY <2>6, <3>1, <3>2
  <2>9. ASSUME Len(Pruned(ids)) = Len(ids) PROVE Pruned(ids) = ids
    <3>1. m = 1
      BY <1>1, <2>5, <2>7, <2>9
    <3> QED
      BY <1>1, <2>4, <3>1, SubSeqFull DEF TailIsKept
  <2> QED
    BY <1>1, <2>5, <2>7, <2>8, <2>9
<1> QED
  BY <1>2, <1>3

(* enforceMax drops the one that was touched the longest ago.                  *)
LEMMA EnforceMaxIsMap ==
  ASSUME NEW ids, NEW rows, IsMap(ids, rows), Len(ids) <= SessionMax + 1
  PROVE  /\ IsMap(EnforceMax(ids), rows) /\ Len(EnforceMax(ids)) <= SessionMax
         /\ ToSet(EnforceMax(ids)) \subseteq ToSet(ids)
         /\ \A s \in ToSet(ids) : s \notin ToSet(EnforceMax(ids)) =>
              Len(ids) = SessionMax + 1 /\ s = ids[1]
<1>1. /\ Len(ids) \in Nat /\ \A s \in ToSet(ids) : \E i \in 1 .. Len(ids) : ids[i] = s
  BY ElementsOf DEF IsMap
<1>2. CASE Len(ids) <= SessionMax
  BY <1>1, <1>2 DEF EnforceMax
<1>3. CASE Len(ids) = SessionMax + 1
  <2>1. TailIsKept(EnforceMax(ids), ids, 2)
    BY <1>1, <1>3 DEF EnforceMax, TailIsKept
  <2>2. 2 \in 1 .. Len(ids) + 1
    BY <1>1, <1>3
  <2>3. /\ IsMap(EnforceMax(ids), rows) /\ Len(EnforceMax(ids)) = Len(ids) - 2 + 1
        /\ ToSet(EnforceMax(ids)) \subseteq ToSet(ids)
        /\ \A i \in 2 .. Len(ids) : ids[i] \in ToSet(EnforceMax(ids))
    BY <2>1, <2>2, SuffixIsMap
  <2>4. ASSUME NEW s \in ToSet(ids), s \notin ToSet(EnforceMax(ids)) PROVE s = ids[1]
    BY <1>1, <2>3, <2>4
  <2> QED
    BY <1>1, <1>3, <2>3, <2>4
<1> QED
  BY <1>1, <1>2, <1>3


(* set puts a session that is not in the Map at its end.                       *)
LEMMA AppendedIsMap ==
  ASSUME NEW ids, NEW rows, IsMap(ids, rows), NEW s \in Sessions, s \notin ToSet(ids),
         \A r \in ToSet(ids) : rows[r].touched <= rows[s].touched
  PROVE  /\ IsMap(Append(ids, s), rows) /\ Len(Append(ids, s)) = Len(ids) + 1
         /\ ToSet(Append(ids, s)) = ToSet(ids) \cup {s}
<1>1. /\ ids \in Seq(Sessions) /\ IsInjective(ids) /\ Len(ids) \in Nat
      /\ DOMAIN ids = 1 .. Len(ids) /\ \A i \in 1 .. Len(ids) : ids[i] \in ToSet(ids)
      /\ \A r \in ToSet(ids) : \E i \in 1 .. Len(ids) : ids[i] = r
  BY ElementsOf DEF IsMap
<1>2. PICK all : all = Append(ids, s)
  OBVIOUS
<1>3. /\ all \in Seq(Sessions) /\ Len(all) = Len(ids) + 1
      /\ \A i \in 1 .. Len(ids) : all[i] = ids[i]
      /\ all[Len(ids) + 1] = s
  BY <1>1, <1>2, AppendProperties
<1>4. /\ DOMAIN all = 1 .. Len(ids) + 1 /\ \A i \in 1 .. Len(ids) + 1 : all[i] \in ToSet(all)
      /\ \A r \in ToSet(all) : \E i \in 1 .. Len(ids) + 1 : all[i] = r
  BY <1>3, ElementsOf
<1>5. ASSUME NEW i \in 1 .. Len(ids) + 1, NEW j \in 1 .. Len(ids) + 1, all[i] = all[j]
      PROVE  i = j
  BY <1>1, <1>3, <1>5 DEF IsInjective
<1>6. ASSUME NEW i \in 1 .. Len(ids) + 1, NEW j \in 1 .. Len(ids) + 1, i < j
      PROVE  rows[all[i]].touched <= rows[all[j]].touched
  <2>1. i \in 1 .. Len(ids)
    BY <1>1, <1>6
  <2>2. CASE j = Len(ids) + 1
    BY <1>1, <1>3, <2>1, <2>2
  <2>3. CASE j \in 1 .. Len(ids)
    BY <1>1, <1>3, <1>6, <2>1, <2>3 DEF IsMap
  <2> QED
    BY <1>1, <2>2, <2>3
<1>7. ToSet(all) = ToSet(ids) \cup {s}
  <2>1. \A i \in 1 .. Len(ids) + 1 : i \in 1 .. Len(ids) \/ i = Len(ids) + 1
    BY <1>1
  <2>2. \A i \in 1 .. Len(ids) : i \in 1 .. Len(ids) + 1
    BY <1>1
  <2>3. Len(ids) + 1 \in 1 .. Len(ids) + 1
    BY <1>1
  <2> QED
    BY <1>1, <1>3, <1>4, <2>1, <2>2, <2>3
<1>8. IsMap(all, rows)
  BY <1>3, <1>4, <1>5, <1>6 DEF IsMap, IsInjective
<1> QED
  BY <1>2, <1>3, <1>7, <1>8

(* delete takes one session out of the Map.                                    *)
LEMMA DeletedIsMap ==
  ASSUME NEW ids, NEW rows, IsMap(ids, rows), NEW s \in ToSet(ids)
  PROVE  /\ IsMap(Deleted(ids, s), rows) /\ Len(Deleted(ids, s)) = Len(ids) - 1
         /\ ToSet(Deleted(ids, s)) = ToSet(ids) \ {s}
<1>1. /\ ids \in Seq(Sessions) /\ IsInjective(ids) /\ Len(ids) \in Nat
      /\ DOMAIN ids = 1 .. Len(ids)
      /\ \A i \in 1 .. Len(ids) : ids[i] \in ToSet(ids) /\ ids[i] \in Sessions
      /\ \A r \in ToSet(ids) : \E i \in 1 .. Len(ids) : ids[i] = r
  BY ElementsOf DEF IsMap
<1>2. PICK k \in 1 .. Len(ids) : ids[k] = s /\ Deleted(ids, s) = RemoveAt(ids, k)
  BY <1>1 DEF Deleted
<1>3. PICK rest : rest = Deleted(ids, s)
  OBVIOUS
<1>4. /\ rest \in Seq(Sessions) /\ Len(rest) = Len(ids) - 1
      /\ \A i \in 1 .. Len(ids) - 1 : rest[i] = IF i < k THEN ids[i] ELSE ids[i + 1]
  <2>1. PICK before : before = SubSeq(ids, 1, k - 1)
    OBVIOUS
  <2>2. PICK after : after = SubSeq(ids, k + 1, Len(ids))
    OBVIOUS
  <2>3. k \in Int /\ k - 1 \in Int /\ k + 1 \in Int /\ Len(ids) \in Int /\ 1 \in Int
    BY <1>1
  <2>4. /\ \A i \in 1 .. k - 1 : ids[i] \in Sessions
        /\ \A i \in k + 1 .. Len(ids) : ids[i] \in Sessions
    BY <1>1
  <2>5. /\ before \in Seq(Sessions) /\ Len(before) = (IF 1 <= k - 1 THEN (k - 1) - 1 + 1 ELSE 0)
        /\ \A i \in 1 .. (k - 1) - 1 + 1 : before[i] = ids[1 + i - 1]
    BY <2>1, <2>3, <2>4, SubSeqProperties
  <2>6. /\ after \in Seq(Sessions)
        /\ Len(after) = (IF k + 1 <= Len(ids) THEN Len(ids) - (k + 1) + 1 ELSE 0)
        /\ \A i \in 1 .. Len(ids) - (k + 1) + 1 : after[i] = ids[(k + 1) + i - 1]
    BY <2>2, <2>3, <2>4, SubSeqProperties
  <2>7. rest = before \o after
    BY <1>2, <1>3, <2>1, <2>2 DEF RemoveAt
  <2>8. Len(before) = k - 1 /\ Len(after) = Len(ids) - k
    <3>1. k \in Nat /\ 1 <= k /\ k <= Len(ids)
      BY <1>1
    <3>2. Len(before) = k - 1
      BY <2>5, <3>1
    <3>3. Len(after) = Len(ids) - k
      <4>1. k \in Nat /\ k <= Len(ids) /\ Len(ids) \in Nat
        BY <1>1
      <4>2. Len(after) = (IF k + 1 <= Len(ids) THEN Len(ids) - (k + 1) + 1 ELSE 0)
        BY <2>6
      <4> QED
        BY <4>1, <4>2
    <3> QED
      BY <3>2, <3>3
  <2>9. /\ rest \in Seq(Sessions) /\ Len(rest) = Len(before) + Len(after)
        /\ \A i \in 1 .. Len(before) + Len(after) :
             rest[i] = IF i <= Len(before) THEN before[i] ELSE after[i - Len(before)]
    <3>1. before \in Seq(Sessions) /\ after \in Seq(Sessions)
      BY <2>5, <2>6, Zenon
    <3> QED
      BY <2>7, <3>1, ConcatProperties, Zenon
  <2>10. Len(rest) = Len(ids) - 1
    BY <1>1, <2>8, <2>9
  <2>11. ASSUME NEW i \in 1 .. Len(ids) - 1
         PROVE  rest[i] = IF i < k THEN ids[i] ELSE ids[i + 1]
    <3>1. CASE i < k
      <4>1. i \in 1 .. (k - 1) - 1 + 1 /\ 1 + i - 1 = i /\ i <= k - 1 /\ i \in 1 .. (k - 1) + (Len(ids) - k)
        BY <1>1, <3>1
      <4>2. before[i] = ids[i]
        BY <2>5, <4>1
      <4>3. rest[i] = before[i]
        BY <2>8, <2>9, <4>1
      <4> QED
        BY <3>1, <4>2, <4>3
    <3>2. CASE ~(i < k)
      <4>1. rest[i] = after[i - (k - 1)]
        BY <1>1, <2>8, <2>9, <3>2
      <4>2. i - (k - 1) \in 1 .. Len(ids) - (k + 1) + 1 /\ (k + 1) + (i - (k - 1)) - 1 = i + 1
        BY <1>1, <3>2
      <4>3. after[i - (k - 1)] = ids[i + 1]
        BY <2>6, <4>2
      <4> QED
        BY <3>2, <4>1, <4>3
    <3> QED
      BY <3>1, <3>2
  <2> QED
    BY <2>9, <2>10, <2>11
<1>5. \A i \in 1 .. Len(ids) - 1 :
        \E j \in 1 .. Len(ids) : j # k /\ j = (IF i < k THEN i ELSE i + 1) /\ rest[i] = ids[j]
  BY <1>1, <1>4
<1>6. /\ DOMAIN rest = 1 .. Len(ids) - 1 /\ \A i \in 1 .. Len(ids) - 1 : rest[i] \in ToSet(rest)
      /\ \A r \in ToSet(rest) : \E i \in 1 .. Len(ids) - 1 : rest[i] = r
  BY <1>4, ElementsOf
<1>7. ASSUME NEW i \in 1 .. Len(ids) - 1, NEW j \in 1 .. Len(ids) - 1, rest[i] = rest[j]
      PROVE  i = j
  <2>1. PICK x \in 1 .. Len(ids) : x = (IF i < k THEN i ELSE i + 1) /\ rest[i] = ids[x]
    BY <1>5
  <2>2. PICK y \in 1 .. Len(ids) : y = (IF j < k THEN j ELSE j + 1) /\ rest[j] = ids[y]
    BY <1>5
  <2>3. x = y
    BY <1>1, <1>7, <2>1, <2>2 DEF IsInjective
  <2> QED
    BY <2>1, <2>2, <2>3
<1>8. ASSUME NEW i \in 1 .. Len(ids) - 1, NEW j \in 1 .. Len(ids) - 1, i < j
      PROVE  rows[rest[i]].touched <= rows[rest[j]].touched
  <2>1. PICK x \in 1 .. Len(ids) : x = (IF i < k THEN i ELSE i + 1) /\ rest[i] = ids[x]
    BY <1>5
  <2>2. PICK y \in 1 .. Len(ids) : y = (IF j < k THEN j ELSE j + 1) /\ rest[j] = ids[y]
    BY <1>5
  <2>3. x < y
    BY <1>8, <2>1, <2>2
  <2> QED
    BY <1>1, <2>1, <2>2, <2>3 DEF IsMap
<1>9. ASSUME NEW r \in ToSet(rest) PROVE r \in ToSet(ids) /\ r # s
  <2>1. PICK i \in 1 .. Len(ids) - 1 : rest[i] = r
    BY <1>6
  <2>2. PICK j \in 1 .. Len(ids) : j # k /\ rest[i] = ids[j]
    BY <1>5
  <2> QED
    BY <1>1, <1>2, <2>1, <2>2 DEF IsInjective
<1>10. ASSUME NEW r \in ToSet(ids), r # s PROVE r \in ToSet(rest)
  <2>1. PICK j \in 1 .. Len(ids) : ids[j] = r
    BY <1>1
  <2>2. j # k
    BY <1>2, <1>10, <2>1
  <2>3. CASE j < k
    BY <1>1, <1>4, <1>6, <2>1, <2>3
  <2>4. CASE j > k
    <3>1. j - 1 \in 1 .. Len(ids) - 1 /\ ~(j - 1 < k) /\ (j - 1) + 1 = j
      BY <1>1, <2>4
    <3>2. rest[j - 1] = ids[j]
      BY <1>4, <3>1
    <3> QED
      BY <1>6, <2>1, <3>1, <3>2
  <2> QED
    BY <1>1, <2>2, <2>3, <2>4
<1>11. IsMap(rest, rows)
  BY <1>4, <1>6, <1>7, <1>8 DEF IsMap, IsInjective
<1> QED
  BY <1>3, <1>4, <1>9, <1>10, <1>11


(* get moves a session to the end, with the time of the request.               *)
LEMMA TouchedIsMap ==
  ASSUME NEW ids, NEW rows, NEW later, IsMap(ids, rows), NEW s \in ToSet(ids), s \in Sessions,
         \A r \in ToSet(ids) : r # s => later[r].touched = rows[r].touched,
         \A r \in ToSet(ids) : later[r].touched <= later[s].touched
  PROVE  /\ IsMap(Touched(ids, s), later) /\ Len(Touched(ids, s)) = Len(ids)
         /\ ToSet(Touched(ids, s)) = ToSet(ids)
<1>1. PICK rest : rest = Deleted(ids, s)
  OBVIOUS
<1>2. IsMap(rest, rows) /\ Len(rest) = Len(ids) - 1 /\ ToSet(rest) = ToSet(ids) \ {s}
  BY <1>1, DeletedIsMap
<1>3. IsMap(rest, later)
  BY <1>2, MapOfSameTimes
<1>4. /\ IsMap(Append(rest, s), later) /\ Len(Append(rest, s)) = Len(rest) + 1
      /\ ToSet(Append(rest, s)) = ToSet(rest) \cup {s}
  BY <1>2, <1>3, AppendedIsMap
<1>5. Len(ids) \in Nat /\ Touched(ids, s) = Append(rest, s)
  BY <1>1, ElementsOf DEF IsMap, Touched
<1>6. Len(Append(rest, s)) = Len(ids)
  BY <1>2, <1>4, <1>5
<1>7. ToSet(Append(rest, s)) = ToSet(ids)
  BY <1>2, <1>4
<1> QED
  BY <1>4, <1>5, <1>6, <1>7, Zenon

-------------------------------------------------------------------------------
(* The server.                                                                 *)

LEMMA NewSessionIsSound ==
  ASSUME now \in Nat, NEW used \in BOOLEAN, NEW subscribed \in BOOLEAN
  PROVE  LET record == [NewSession EXCEPT !.used = used, !.subscribed = subscribed]
         IN  SoundRecord(record) /\ record.used = used
<1>1. <<>> \in Seq(Messages) /\ Len(<<>>) = 0
  BY EmptySeq
<1>2. PICK record : record = [NewSession EXCEPT !.used = used, !.subscribed = subscribed]
  OBVIOUS
<1>3. /\ record.touched = 0 /\ record.buffer = <<>> /\ record.used = used
      /\ record \in SessionRows
  <2>1. NewSession \in SessionRows
    BY <1>1 DEF NewSession, SessionRows
  <2>2. record \in SessionRows
    BY <1>2, <2>1 DEF SessionRows
  <2> QED
    BY <1>2, <2>2 DEF NewSession
<1>4. RingIsRecent(record) /\ record.touched <= now
  BY <1>1, <1>3 DEF RingIsRecent
<1> QED
  BY <1>2, <1>3, <1>4 DEF SoundRecord

(* Sessions that leave the Map leave a sound record behind.                    *)
LEMMA DropsAreSound ==
  ASSUME NEW ids, NEW rows \in [Sessions -> SessionRows], now \in Nat, now' = now,
         IsMap(ids, rows), Len(ids) <= SessionMax,
         \A s \in Sessions : SoundRecord(rows[s]),
         \A s \in ToSet(ids) : rows[s].used,
         registry' = ids, session' = WithoutDropped(ids, rows)
  PROVE  /\ ServerInvariant'
         /\ \A s \in Sessions : session'[s].used = rows[s].used
         /\ \A s \in ToSet(ids) : s \in Sessions /\ session'[s] = rows[s]
<1>1. \A s \in ToSet(ids) : s \in Sessions /\ session'[s] = rows[s]
  BY ElementsOf DEF IsMap, WithoutDropped
<1>2. ASSUME NEW s \in Sessions
      PROVE  /\ session'[s] \in SessionRows /\ SoundRecord(session'[s])
             /\ session'[s].used = rows[s].used
  <2>1. CASE s \in ToSet(ids)
    BY <1>1, <2>1
  <2>2. CASE s \notin ToSet(ids)
    <3>1. rows[s].used \in BOOLEAN /\ rows[s].subscribed \in BOOLEAN
      BY DEF SessionRows
    <3>2. session'[s] = [NewSession EXCEPT !.used = rows[s].used,
                                           !.subscribed = rows[s].subscribed]
      BY <2>2 DEF WithoutDropped
    <3>3. SoundRecord([NewSession EXCEPT !.used = rows[s].used,
                                         !.subscribed = rows[s].subscribed])
          /\ [NewSession EXCEPT !.used = rows[s].used,
                                !.subscribed = rows[s].subscribed].used = rows[s].used
      <4>1. ASSUME NEW used \in BOOLEAN, NEW subscribed \in BOOLEAN
            PROVE  SoundRecord([NewSession EXCEPT !.used = used, !.subscribed = subscribed])
                   /\ [NewSession EXCEPT !.used = used, !.subscribed = subscribed].used = used
        BY NewSessionIsSound
      <4> QED
        BY <3>1, <4>1, Zenon
    <3>4. SoundRecord(session'[s]) /\ session'[s].used = rows[s].used
      BY <3>2, <3>3
    <3> QED
      BY <3>4 DEF SoundRecord
  <2> QED
    BY <2>1, <2>2
<1>3. session' \in [Sessions -> SessionRows]
  BY <1>2 DEF WithoutDropped
<1>4. IsMap(registry', session')
  BY <1>1, MapOfSameTimes
<1>5. \A s \in Sessions : SoundRecord(session[s])'
  BY <1>2 DEF SoundRecord
<1> QED
  BY <1>1, <1>2, <1>3, <1>4, <1>5 DEF ServerInvariant


LEMMA PruneIsSound ==
  ASSUME ServerInvariant
  PROVE  /\ IsMap(Pruned(registry), session) /\ Len(Pruned(registry)) <= SessionMax
         /\ ToSet(Pruned(registry)) \subseteq ToSet(registry)
         /\ \A s \in ToSet(Pruned(registry)) : s \in Sessions /\ session[s].used
         /\ \A s \in ToSet(registry) : s \notin ToSet(Pruned(registry)) => Idle(s)
<1>1. /\ IsMap(Pruned(registry), session) /\ Len(Pruned(registry)) <= Len(registry)
      /\ ToSet(Pruned(registry)) \subseteq ToSet(registry)
      /\ \A s \in ToSet(registry) : s \notin ToSet(Pruned(registry)) => Idle(s)
  BY PrunedIsMap DEF ServerInvariant
<1>2. /\ Len(registry) \in Nat /\ Len(registry) <= SessionMax
      /\ \A s \in ToSet(registry) : s \in Sessions /\ session[s].used
  BY ElementsOf DEF ServerInvariant, IsMap
<1>3. Len(Pruned(registry)) \in Nat
  BY <1>1, ElementsOf DEF IsMap
<1> QED
  BY <1>1, <1>2, <1>3

(* A request that finds its session touches it, and drops idle ones only.      *)
LEMMA FindsIsSound ==
  ASSUME ServerInvariant, NEW c, NEW changed \in SessionRows, RingIsRecent(changed),
         changed.used = Own(c).used, Finds(c, changed)
  PROVE  LET s == agent[c].sid IN
         /\ ServerInvariant' /\ now' = now
         /\ s \in Sessions /\ s \in ToSet(registry) /\ s \in ToSet(registry')
         /\ session'[s] = [changed EXCEPT !.touched = now]
         /\ ToSet(registry') \subseteq ToSet(registry)
         /\ \A r \in ToSet(registry') : r # s => session'[r] = session[r]
         /\ \A r \in Sessions : session'[r].used = session[r].used
         /\ \A r \in ToSet(registry) : r \notin ToSet(registry') => Idle(r)
<1>1. PICK s : s = agent[c].sid
  OBVIOUS
<1>2. PICK kept : kept = Pruned(registry)
  OBVIOUS
<1>3. PICK record : record = [changed EXCEPT !.touched = now]
  OBVIOUS
<1>4. PICK rows : rows = [session EXCEPT ![s] = record]
  OBVIOUS
<1>5. /\ s \in ToSet(kept) /\ registry' = Touched(kept, s)
      /\ session' = WithoutDropped(registry', rows) /\ now' = now
      /\ changed.used = session[s].used
  BY <1>1, <1>2, <1>3, <1>4 DEF Finds, Own
<1>6. /\ IsMap(kept, session) /\ Len(kept) <= SessionMax /\ ToSet(kept) \subseteq ToSet(registry)
      /\ \A r \in ToSet(kept) : r \in Sessions /\ session[r].used
      /\ \A r \in ToSet(registry) : r \notin ToSet(kept) => Idle(r)
  BY <1>2, PruneIsSound
<1>7. /\ session \in [Sessions -> SessionRows] /\ now \in Nat
      /\ \A r \in Sessions : SoundRecord(session[r])
  BY DEF ServerInvariant
<1>8. record \in SessionRows /\ record.used = changed.used /\ record.touched = now
  BY <1>3, <1>7 DEF SessionRows
<1>9. SoundRecord(record)
  BY <1>3, <1>7, <1>8 DEF SoundRecord, RingIsRecent, SessionRows
<1>10. /\ s \in Sessions /\ rows \in [Sessions -> SessionRows] /\ rows[s] = record
       /\ \A r \in Sessions : r # s => rows[r] = session[r]
  BY <1>4, <1>5, <1>6, <1>7, <1>8
<1>11. /\ \A r \in Sessions : SoundRecord(rows[r]) /\ rows[r].used = session[r].used
  BY <1>5, <1>7, <1>8, <1>9, <1>10
<1>12. \A r \in ToSet(kept) : r # s => rows[r].touched = session[r].touched
  BY <1>6, <1>10
<1>13. \A r \in ToSet(kept) : rows[r].touched <= rows[s].touched
  BY <1>6, <1>8, <1>10, <1>11 DEF SoundRecord
<1>14. /\ IsMap(registry', rows) /\ Len(registry') = Len(kept) /\ ToSet(registry') = ToSet(kept)
  BY <1>5, <1>6, <1>10, <1>12, <1>13, TouchedIsMap
<1>15. Len(registry') <= SessionMax /\ \A r \in ToSet(registry') : rows[r].used
  BY <1>6, <1>11, <1>14
<1>16. /\ ServerInvariant'
       /\ \A r \in Sessions : session'[r].used = rows[r].used
       /\ \A r \in ToSet(registry') : r \in Sessions /\ session'[r] = rows[r]
  BY <1>5, <1>7, <1>10, <1>11, <1>14, <1>15, DropsAreSound
<1> QED
  BY <1>1, <1>3, <1>5, <1>6, <1>10, <1>11, <1>14, <1>16


-------------------------------------------------------------------------------
(* The agents.                                                                 *)

(* The time at which a session was touched is nothing to its agent.            *)
LEMMA TuneIgnoresTime ==
  ASSUME NEW a, NEW record \in SessionRows, NEW behind, InTune(a, record, behind), NEW time
  PROVE  InTune(a, [record EXCEPT !.touched = time], behind)
BY DEF InTune, TipWaits, SessionRows

(* An agent that acts disturbs no other: each holds a session of its own.      *)
LEMMA OthersStayInTune ==
  ASSUME AgentsInvariant, NEW c \in Agents,
         agent' \in [Agents -> AgentRows],
         \A d \in Agents : d # c => agent'[d] = agent[d],
         \A r \in Sessions : session[r].used => session'[r].used,
         \A d \in Clients : d # c /\ agent[d].sid \in ToSet(registry') =>
           agent[d].sid \in ToSet(registry) /\ session'[agent[d].sid] = session[agent[d].sid],
         \A d \in Clients : d # c /\ Behind(d)' => Behind(d),
         agent'[c].sid # None => session'[agent'[c].sid].used,
         agent'[c].sid # None => \A d \in Agents : d # c => agent[d].sid # agent'[c].sid,
         agent'[c].stream => c \in Clients /\ agent'[c].sid # None,
         c \in Clients =>
           /\ agent'[c].sid = None => agent'[c].last = 0
           /\ agent'[c].sid \in ToSet(registry') =>
                InTune(agent'[c], session'[agent'[c].sid], Behind(c)')
  PROVE  AgentsInvariant'
<1>1. ASSUME NEW d \in Agents, agent'[d].sid # None
      PROVE  session'[agent'[d].sid].used
  BY <1>1 DEF AgentsInvariant, AgentRows
<1>2. ASSUME NEW d \in Agents, NEW e \in Agents, agent'[d].sid = agent'[e].sid, agent'[d].sid # None
      PROVE  d = e
  BY <1>2 DEF AgentsInvariant
<1>3. ASSUME NEW d \in Agents, agent'[d].stream
      PROVE  d \in Clients /\ agent'[d].sid # None
  BY <1>3 DEF AgentsInvariant
<1>4. ASSUME NEW d \in Clients
      PROVE  /\ agent'[d].sid = None => agent'[d].last = 0
             /\ agent'[d].sid \in ToSet(registry') =>
                  InTune(agent'[d], session'[agent'[d].sid], Behind(d)')
  <2>1. CASE d = c
    BY <2>1
  <2>2. CASE d # c
    <3>1. agent'[d] = agent[d] /\ (agent[d].sid = None => agent[d].last = 0)
      BY <2>2 DEF AgentsInvariant, Agents
    <3>2. ASSUME agent[d].sid \in ToSet(registry')
          PROVE  InTune(agent'[d], session'[agent'[d].sid], Behind(d)')
      <4>1. /\ session'[agent[d].sid] = session[agent[d].sid]
            /\ InTune(agent[d], session[agent[d].sid], Behind(d))
            /\ Behind(d)' => Behind(d)
        BY <2>2, <3>2 DEF AgentsInvariant
      <4> QED
        BY <3>1, <4>1 DEF InTune
    <3> QED
      BY <3>1, <3>2
  <2> QED
    BY <2>1, <2>2
<1> QED
  BY <1>1, <1>2, <1>3, <1>4 DEF AgentsInvariant

(* A request within the session, by what it does to its own record.            *)
LEMMA FindsKeepsTune ==
  ASSUME ServerInvariant, AgentsInvariant, NEW c \in Agents,
         NEW changed \in SessionRows, RingIsRecent(changed), changed.used = Own(c).used,
         Finds(c, changed),
         agent' \in [Agents -> AgentRows],
         \A d \in Agents : d # c => agent'[d] = agent[d],
         agent'[c].sid = agent[c].sid, agent'[c].stream => c \in Clients,
         \A d \in Clients : d # c /\ Behind(d)' => Behind(d),
         c \in Clients => InTune(agent'[c], changed, Behind(c)')
  PROVE  ServerInvariant' /\ AgentsInvariant'
<1>1. PICK s : s = agent[c].sid
  OBVIOUS
<1>2. /\ ServerInvariant' /\ s \in Sessions
      /\ session'[s] = [changed EXCEPT !.touched = now]
      /\ ToSet(registry') \subseteq ToSet(registry)
      /\ \A r \in ToSet(registry') : r # s => session'[r] = session[r]
      /\ \A r \in Sessions : session'[r].used = session[r].used
  BY <1>1, FindsIsSound
<1>3. \A d \in Agents : d # c => agent[d].sid # s
  BY <1>1, <1>2 DEF AgentsInvariant
<1>4. session[s].used /\ s # None
  BY <1>1, <1>2 DEF AgentsInvariant
<1>5. c \in Clients => InTune(agent'[c], session'[s], Behind(c)')
  BY <1>2, TuneIgnoresTime
<1> QED
  BY <1>1, <1>2, <1>3, <1>4, <1>5, OthersStayInTune DEF Agents


(* What a request within its session starts from.                              *)
LEMMA OwnIsInTune ==
  ASSUME ServerInvariant, AgentsInvariant, NEW c \in Agents, NEW changed, Finds(c, changed)
  PROVE  /\ agent[c].sid \in ToSet(registry) /\ agent[c].sid \in Sessions
         /\ Own(c) \in SessionRows /\ RingIsRecent(Own(c))
         /\ agent[c] \in AgentRows /\ (agent[c].stream => c \in Clients)
         /\ c \in Clients => InTune(agent[c], Own(c), Behind(c))
<1>1. agent[c].sid \in ToSet(Pruned(registry))
  BY DEF Finds
<1>2. agent[c].sid \in ToSet(registry) /\ agent[c].sid \in Sessions
  BY <1>1, PruneIsSound
<1> QED
  BY <1>2 DEF Own, ServerInvariant, SoundRecord, AgentsInvariant

LEMMA CallKeepsTune ==
  ASSUME ServerInvariant, AgentsInvariant, NEW c \in Agents, Call(c)
  PROVE  ServerInvariant' /\ AgentsInvariant'
<1>1. Finds(c, Own(c)) /\ agent' = agent /\ UNCHANGED feedVars
  BY DEF Call
<1>2. /\ Own(c) \in SessionRows /\ RingIsRecent(Own(c)) /\ (agent[c].stream => c \in Clients)
      /\ c \in Clients => InTune(agent[c], Own(c), Behind(c))
  BY <1>1, OwnIsInTune
<1>3. \A d \in Clients : Behind(d)' <=> Behind(d)
  BY <1>1 DEF Behind, feedVars
<1>4. c \in Clients => InTune(agent'[c], Own(c), Behind(c)')
  BY <1>1, <1>2, <1>3 DEF InTune
<1>5. agent' \in [Agents -> AgentRows]
  BY <1>1 DEF AgentsInvariant
<1> QED
  BY <1>1, <1>2, <1>3, <1>4, <1>5, FindsKeepsTune

(* From the subscription on an agent is tipped until it has read.              *)
LEMMA SubscribeKeepsTune ==
  ASSUME ServerInvariant, AgentsInvariant, NEW c \in Clients, Subscribe(c)
  PROVE  ServerInvariant' /\ AgentsInvariant'
<1>1. PICK changed : changed = [Own(c) EXCEPT !.subscribed = TRUE]
  OBVIOUS
<1>2. /\ Finds(c, changed) /\ UNCHANGED feedVars
      /\ agent' = [agent EXCEPT ![c].tipped = TRUE] /\ c \in Agents
  BY <1>1 DEF Subscribe, Agents
<1>3. /\ Own(c) \in SessionRows /\ RingIsRecent(Own(c)) /\ agent[c] \in AgentRows
      /\ InTune(agent[c], Own(c), Behind(c))
  BY <1>2, OwnIsInTune
<1>4. /\ changed \in SessionRows /\ RingIsRecent(changed) /\ changed.used = Own(c).used
      /\ changed.listening = Own(c).listening /\ changed.next = Own(c).next
  BY <1>1, <1>3 DEF SessionRows, RingIsRecent
<1>5. /\ agent' \in [Agents -> AgentRows]
      /\ \A d \in Agents : d # c => agent'[d] = agent[d]
      /\ agent'[c].sid = agent[c].sid /\ agent'[c].stream = agent[c].stream
      /\ agent'[c].last = agent[c].last /\ agent'[c].tipped
  BY <1>2 DEF AgentsInvariant, AgentRows
<1>6. \A d \in Clients : Behind(d)' <=> Behind(d)
  BY <1>2 DEF Behind, feedVars
<1>7. InTune(agent'[c], changed, Behind(c)')
  BY <1>3, <1>4, <1>5 DEF InTune
<1> QED
  BY <1>2, <1>4, <1>5, <1>6, <1>7, FindsKeepsTune

(* A reader that has come to the tip of its feed is not behind.                *)
LEMMA ReadToTheTip ==
  ASSUME FeedInvariant, NEW c \in Clients, ReadChanges(c), cursor'[c] = TipSeq(feed)
  PROVE  ~Behind(c)'
<1>1. FeedInvariant' /\ feed' = feed
  BY ReadKeepsStep DEF ReadChanges
<1>2. SUFFICES ASSUME c \notin outran', NEW event \in owed'[c]
               PROVE  FALSE
  BY DEF Behind
<1>3. cursor'[c] # None /\ TipSeq(feed) \in Nat
  <2>1. feed \in SUBSET Rows
    BY DEF FeedInvariant
  <2> QED
    BY <2>1, TipIsNewest
<1>4. InStep(cursor[c], owed[c])' /\ \A e \in owed'[c] : e \in Rows /\ e.id <= made'
  BY <1>1, <1>2, <1>3 DEF FeedInvariant
<1>5. event.seq > cursor'[c] /\ event.seq <= TipSeq(feed') /\ event.seq \in Nat
  BY <1>2, <1>4 DEF InStep, Follows, Rows
<1> QED
  BY <1>1, <1>3, <1>5

LEMMA ReadKeepsTune ==
  ASSUME FeedInvariant, ServerInvariant, AgentsInvariant, NEW c \in Clients, Read(c)
  PROVE  ServerInvariant' /\ AgentsInvariant'
<1>1. /\ ReadChanges(c) /\ c \in Agents
      /\ agent' = [agent EXCEPT ![c].tipped = cursor'[c] # TipSeq(feed)]
  BY DEF Read, ReadOver, Agents
<1>2. /\ agent' \in [Agents -> AgentRows]
      /\ \A d \in Agents : d # c => agent'[d] = agent[d]
      /\ agent'[c].sid = agent[c].sid /\ agent'[c].stream = agent[c].stream
      /\ agent'[c].last = agent[c].last /\ agent'[c].holed = agent[c].holed
      /\ agent'[c].tipped <=> cursor'[c] # TipSeq(feed)
  BY <1>1 DEF AgentsInvariant, AgentRows
<1>3. \A d \in Clients : d # c => (Behind(d)' <=> Behind(d))
  BY <1>1 DEF Behind, ReadChanges, FeedInvariant
<1>4. ~agent'[c].tipped => ~Behind(c)'
  BY <1>1, <1>2, ReadToTheTip
<1>5. CASE agent[c].sid = None /\ UNCHANGED serverVars
  <2>1. ServerInvariant' /\ registry' = registry /\ session' = session
    BY <1>5 DEF serverVars, ServerInvariant, SoundRecord
  <2>2. /\ agent'[c].sid = None /\ None \notin ToSet(registry') /\ agent'[c].last = 0
        /\ ~agent'[c].stream
    <3>1. registry \in Seq(Sessions)
      BY DEF ServerInvariant, IsMap
    <3>2. None \notin ToSet(registry)
      BY <3>1, ElementsOf
    <3> QED
      BY <1>1, <1>2, <1>5, <2>1, <3>2 DEF AgentsInvariant
  <2> QED
    BY <1>1, <1>2, <1>3, <2>1, <2>2, OthersStayInTune
<1>6. CASE Finds(c, Own(c))
  <2>1. /\ Own(c) \in SessionRows /\ RingIsRecent(Own(c))
        /\ InTune(agent[c], Own(c), Behind(c))
    BY <1>1, <1>6, OwnIsInTune
  <2>2. InTune(agent'[c], Own(c), Behind(c)')
    <3>1. Own(c).listening = agent'[c].stream /\ agent'[c].last < Own(c).next
      BY <1>2, <2>1 DEF InTune
    <3>2. ~(Behind(c)' /\ Own(c).subscribed /\ ~agent'[c].tipped /\ ~agent'[c].holed)
      BY <1>4, Zenon
    <3> QED
      BY <3>1, <3>2, Zenon DEF InTune
  <2> QED
    BY <1>1, <1>2, <1>3, <1>6, <2>1, <2>2, FindsKeepsTune
<1> QED
  BY <1>5, <1>6 DEF Read


(* A connection learns of a tip that waits for it.                             *)
LEMMA ListenKeepsTune ==
  ASSUME ServerInvariant, AgentsInvariant, NEW c \in Clients, Listen(c)
  PROVE  ServerInvariant' /\ AgentsInvariant'
<1>1. PICK changed : changed = [Own(c) EXCEPT !.listening = TRUE]
  OBVIOUS
<1>2. PICK unseen : unseen = IF agent[c].last = 0 THEN {} ELSE Unseen(agent[c].sid, agent[c].last)
  OBVIOUS
<1>3. /\ Finds(c, changed) /\ UNCHANGED feedVars /\ c \in Agents
      /\ agent' = [agent EXCEPT
           ![c].stream = TRUE,
           ![c].last = IF unseen = {} THEN @ ELSE Own(c).next - 1,
           ![c].tipped = @ \/ agent[c].last = 0 \/ \E m \in unseen : m.tip,
           ![c].holed = @ \/ (agent[c].last # 0 /\ Own(c).next - 1 - agent[c].last > Buffer)]
  BY <1>1, <1>2 DEF Listen, Own, Agents
<1>4. /\ Own(c) \in SessionRows /\ RingIsRecent(Own(c)) /\ agent[c] \in AgentRows
      /\ InTune(agent[c], Own(c), Behind(c))
  BY <1>3, OwnIsInTune
<1>5. /\ changed \in SessionRows /\ RingIsRecent(changed) /\ changed.used = Own(c).used
      /\ changed.listening /\ changed.next = Own(c).next /\ changed.buffer = Own(c).buffer
      /\ changed.subscribed = Own(c).subscribed
  BY <1>1, <1>4 DEF SessionRows, RingIsRecent
<1>6. Own(c).next \in Nat /\ Own(c).next >= 1 /\ agent[c].last \in Nat
  BY <1>4 DEF SessionRows, AgentRows
<1>7. /\ agent' \in [Agents -> AgentRows]
      /\ \A d \in Agents : d # c => agent'[d] = agent[d]
      /\ agent'[c].sid = agent[c].sid /\ agent'[c].stream
      /\ agent'[c].last = IF unseen = {} THEN agent[c].last ELSE Own(c).next - 1
      /\ agent'[c].tipped <=> agent[c].tipped \/ agent[c].last = 0 \/ \E m \in unseen : m.tip
      /\ agent'[c].holed <=> \/ agent[c].holed
                             \/ agent[c].last # 0 /\ Own(c).next - 1 - agent[c].last > Buffer
  <2>1. agent \in [Agents -> AgentRows] /\ Own(c).next - 1 \in Nat
    BY <1>6 DEF AgentsInvariant
  <2> QED
    BY <1>3, <1>4, <2>1 DEF AgentRows
<1>8. \A d \in Clients : Behind(d)' <=> Behind(d)
  BY <1>3 DEF Behind, feedVars
<1>9. agent'[c].last < changed.next
  BY <1>4, <1>5, <1>6, <1>7 DEF InTune
<1>10. ASSUME Behind(c)', changed.subscribed, ~agent'[c].tipped, ~agent'[c].holed
       PROVE  FALSE
  <2>1. TipWaits(agent[c], Own(c)) /\ agent[c].last # 0
    BY <1>4, <1>5, <1>7, <1>8, <1>10 DEF InTune
  <2>2. PICK m \in ToSet(Own(c).buffer) : m.id > agent[c].last /\ m.tip
    BY <1>7, <1>10, <2>1 DEF TipWaits
  <2>3. m \in unseen
    BY <1>2, <2>1, <2>2 DEF Unseen, Own
  <2> QED
    BY <1>7, <1>10, <2>2, <2>3
<1>11. InTune(agent'[c], changed, Behind(c)')
  BY <1>5, <1>7, <1>9, <1>10 DEF InTune
<1> QED
  BY <1>3, <1>5, <1>7, <1>8, <1>11, FindsKeepsTune

(* A stream that is closed had its agent tipped.                               *)
LEMMA DisconnectKeepsTune ==
  ASSUME ServerInvariant, AgentsInvariant, NEW c \in Clients, Disconnect(c)
  PROVE  ServerInvariant' /\ AgentsInvariant'
<1>1. PICK s : s = agent[c].sid
  OBVIOUS
<1>2. /\ agent[c].stream /\ c \in Agents /\ s # None /\ s \in Sessions
      /\ agent' = [agent EXCEPT ![c].stream = FALSE]
      /\ session' = [session EXCEPT ![s].listening = FALSE]
      /\ now' = now /\ registry' = registry /\ UNCHANGED feedVars
  BY <1>1 DEF Disconnect, AgentsInvariant, AgentRows, Agents
<1>3. PICK record : record = [session[s] EXCEPT !.listening = FALSE]
  OBVIOUS
<1>4. session[s] \in SessionRows /\ SoundRecord(session[s])
  BY <1>2 DEF ServerInvariant
<1>5. /\ record \in SessionRows /\ SoundRecord(record) /\ record.touched = session[s].touched
      /\ record.used = session[s].used /\ ~record.listening /\ record.next = session[s].next
      /\ record.subscribed = session[s].subscribed /\ record.buffer = session[s].buffer
  BY <1>3, <1>4 DEF SoundRecord, RingIsRecent, SessionRows
<1>6. session' = [session EXCEPT ![s] = record] /\ session \in [Sessions -> SessionRows]
  BY <1>2, <1>3 DEF ServerInvariant
<1>7. session'[s] = record /\ \A r \in Sessions : r # s => session'[r] = session[r]
  BY <1>2, <1>6
<1>8. \A r \in ToSet(registry) : r \in Sessions
  BY ElementsOf DEF ServerInvariant, IsMap
<1>9. ServerInvariant'
  <2>1. \A r \in ToSet(registry) : session'[r].touched = session[r].touched
    BY <1>5, <1>7, <1>8
  <2>2. IsMap(registry', session')
    BY <1>2, <2>1, MapOfSameTimes DEF ServerInvariant
  <2>3. \A r \in Sessions : SoundRecord(session[r])'
    BY <1>2, <1>5, <1>7 DEF ServerInvariant, SoundRecord
  <2>4. session' \in [Sessions -> SessionRows]
    BY <1>5, <1>6
  <2>5. \A r \in ToSet(registry) : session'[r].used
    BY <1>5, <1>7, <1>8 DEF ServerInvariant
  <2> QED
    BY <1>2, <2>2, <2>3, <2>4, <2>5 DEF ServerInvariant
<1>10. /\ agent' \in [Agents -> AgentRows]
       /\ \A d \in Agents : d # c => agent'[d] = agent[d]
       /\ agent'[c].sid = s /\ ~agent'[c].stream /\ agent'[c].last = agent[c].last
       /\ agent'[c].tipped = agent[c].tipped /\ agent'[c].holed = agent[c].holed
  BY <1>1, <1>2 DEF AgentsInvariant, AgentRows
<1>11. \A d \in Clients : Behind(d)' <=> Behind(d)
  BY <1>2 DEF Behind, feedVars
<1>12. /\ \A d \in Agents : d # c => agent[d].sid # s
       /\ session[s].used
       /\ s \in ToSet(registry) => InTune(agent[c], session[s], Behind(c))
  BY <1>1, <1>2 DEF AgentsInvariant
<1>13. ASSUME s \in ToSet(registry) PROVE InTune(agent'[c], record, Behind(c)')
  <2>1. InTune(agent[c], session[s], Behind(c)) /\ agent[c].stream
    BY <1>2, <1>12, <1>13
  <2>2. agent'[c].last < record.next
    BY <1>5, <1>10, <2>1 DEF InTune
  <2>3. ~(Behind(c)' /\ record.subscribed /\ ~agent'[c].tipped /\ ~agent'[c].holed)
    BY <1>5, <1>10, <1>11, <2>1 DEF InTune, TipWaits
  <2>4. record.listening = agent'[c].stream
    <3>1. record.listening \in BOOLEAN /\ agent'[c].stream \in BOOLEAN
      BY <1>2, <1>5, <1>10 DEF SessionRows, AgentRows
    <3> QED
      BY <1>5, <1>10, <3>1
  <2> QED
    BY <2>2, <2>3, <2>4 DEF InTune
<1>14. \A r \in Sessions : session[r].used => session'[r].used
  BY <1>5, <1>7
<1>15. \A d \in Clients : d # c /\ agent[d].sid \in ToSet(registry') =>
         agent[d].sid \in ToSet(registry) /\ session'[agent[d].sid] = session[agent[d].sid]
  BY <1>2, <1>7, <1>8, <1>12 DEF Agents
<1>16. /\ session'[agent'[c].sid].used /\ \A d \in Agents : d # c => agent[d].sid # agent'[c].sid
       /\ agent'[c].sid # None /\ ~agent'[c].stream
       /\ agent'[c].sid \in ToSet(registry') =>
            InTune(agent'[c], session'[agent'[c].sid], Behind(c)')
  BY <1>2, <1>5, <1>7, <1>10, <1>12, <1>13
<1> QED
  BY <1>2, <1>9, <1>10, <1>11, <1>14, <1>15, <1>16, OthersStayInTune


(* Part of the Map is left, as it was.                                         *)
LEMMA PartIsSound ==
  ASSUME ServerInvariant, NEW ids, IsMap(ids, session), Len(ids) <= SessionMax,
         ToSet(ids) \subseteq ToSet(registry),
         registry' = ids, session' = WithoutDropped(ids, session), now' = now
  PROVE  /\ ServerInvariant'
         /\ \A s \in Sessions : session'[s].used = session[s].used
         /\ \A s \in ToSet(ids) : s \in Sessions /\ session'[s] = session[s]
<1>1. /\ session \in [Sessions -> SessionRows] /\ now \in Nat
      /\ \A s \in Sessions : SoundRecord(session[s])
      /\ \A s \in ToSet(ids) : session[s].used
  BY DEF ServerInvariant
<1> QED
  BY <1>1, DropsAreSound

LEMMA NewAgentIsFresh ==
  /\ NewAgent \in AgentRows
  /\ NewAgent.sid = None /\ NewAgent.last = 0 /\ ~NewAgent.stream
BY DEF NewAgent, AgentRows

(* An agent starts afresh.                                                     *)
LEMMA AfreshIsInTune ==
  ASSUME ServerInvariant, ServerInvariant', AgentsInvariant, NEW c \in Agents, NEW fresh \in AgentRows,
         fresh.sid = None, fresh.last = 0, ~fresh.stream,
         agent' = [agent EXCEPT ![c] = fresh], UNCHANGED feedVars,
         ToSet(registry') \subseteq ToSet(registry),
         \A s \in Sessions : session'[s].used = session[s].used,
         \A s \in ToSet(registry') : session'[s] = session[s]
  PROVE  AgentsInvariant'
<1>1. /\ agent' \in [Agents -> AgentRows] /\ agent'[c] = fresh
      /\ \A d \in Agents : d # c => agent'[d] = agent[d]
  BY DEF AgentsInvariant
<1>2. \A d \in Clients : Behind(d)' <=> Behind(d)
  BY DEF Behind, feedVars
<1>3. None \notin ToSet(registry')
  BY ElementsOf DEF ServerInvariant, IsMap
<1> QED
  BY <1>1, <1>2, <1>3, OthersStayInTune

LEMMA DeleteKeepsTune ==
  ASSUME ServerInvariant, AgentsInvariant, NEW c \in Agents, Delete(c)
  PROVE  ServerInvariant' /\ AgentsInvariant'
<1>1. PICK kept : kept = Pruned(registry)
  OBVIOUS
<1>2. PICK ids : ids = Deleted(kept, agent[c].sid)
  OBVIOUS
<1>3. /\ registry' = ids /\ session' = WithoutDropped(ids, session) /\ now' = now
      /\ agent[c].sid \in ToSet(kept)
      /\ agent' = [agent EXCEPT ![c] = NewAgent] /\ UNCHANGED feedVars
  BY <1>1, <1>2 DEF Delete
<1>4. IsMap(kept, session) /\ Len(kept) <= SessionMax /\ ToSet(kept) \subseteq ToSet(registry)
  BY <1>1, PruneIsSound
<1>5. IsMap(ids, session) /\ Len(ids) = Len(kept) - 1 /\ ToSet(ids) \subseteq ToSet(kept)
  BY <1>2, <1>3, <1>4, DeletedIsMap
<1>6. Len(ids) <= SessionMax /\ ToSet(ids) \subseteq ToSet(registry)
  BY <1>4, <1>5, ElementsOf DEF IsMap
<1>7. /\ ServerInvariant'
      /\ \A s \in Sessions : session'[s].used = session[s].used
      /\ \A s \in ToSet(ids) : session'[s] = session[s]
  BY <1>3, <1>5, <1>6, PartIsSound
<1> QED
  BY <1>3, <1>6, <1>7, NewAgentIsFresh, AfreshIsInTune

LEMMA NotFoundKeepsTune ==
  ASSUME ServerInvariant, AgentsInvariant, NEW c \in Agents, NotFound(c)
  PROVE  ServerInvariant' /\ AgentsInvariant'
<1>1. PICK ids : ids = Pruned(registry)
  OBVIOUS
<1>2. PICK fresh : fresh = [NewAgent EXCEPT !.tipped = c \in Clients]
  OBVIOUS
<1>3. /\ registry' = ids /\ session' = WithoutDropped(ids, session) /\ now' = now
      /\ agent' = [agent EXCEPT ![c] = fresh] /\ UNCHANGED feedVars
  BY <1>1, <1>2 DEF NotFound
<1>4. IsMap(ids, session) /\ Len(ids) <= SessionMax /\ ToSet(ids) \subseteq ToSet(registry)
  BY <1>1, PruneIsSound
<1>5. /\ ServerInvariant'
      /\ \A s \in Sessions : session'[s].used = session[s].used
      /\ \A s \in ToSet(ids) : session'[s] = session[s]
  BY <1>3, <1>4, PartIsSound
<1>6. fresh \in AgentRows /\ fresh.sid = None /\ fresh.last = 0 /\ ~fresh.stream
  <2>1. NewAgent \in AgentRows /\ NewAgent.sid = None /\ NewAgent.last = 0 /\ ~NewAgent.stream
    BY NewAgentIsFresh
  <2>2. CASE c \in Clients
    <3>1. fresh = [NewAgent EXCEPT !.tipped = TRUE]
      BY <1>2, <2>2
    <3> QED
      BY <2>1, <3>1 DEF AgentRows
  <2>3. CASE c \notin Clients
    <3>1. fresh = [NewAgent EXCEPT !.tipped = FALSE]
      <4>1. (c \in Clients) = FALSE
        BY <2>3
      <4> QED
        BY <1>2, <4>1, Zenon
    <3> QED
      BY <2>1, <3>1 DEF AgentRows
  <2> QED
    BY <2>2, <2>3
<1> QED
  BY <1>3, <1>4, <1>5, <1>6, AfreshIsInTune

(* The newest session is the last of the Map; it has heard of nothing yet.     *)
LEMMA InitializeIsSound ==
  ASSUME ServerInvariant, AgentsInvariant, NEW c \in Agents, NEW s \in Sessions, Initialize(c, s)
  PROVE  /\ ServerInvariant' /\ now' = now
         /\ ToSet(registry') \subseteq ToSet(registry) \cup {s}
         /\ s \in ToSet(registry') => /\ session'[s].listening = FALSE
                                      /\ session'[s].subscribed = FALSE
                                      /\ session'[s].next = 1
         /\ session'[s].used
         /\ \A r \in Sessions : r # s => session'[r].used = session[r].used
         /\ \A r \in ToSet(registry') : r # s => session'[r] = session[r]
         /\ \A r \in ToSet(registry) : r \notin ToSet(registry') =>
              \/ Idle(r)
              \/ Len(registry) = SessionMax /\ \A t \in ToSet(registry) :
                                                 session[r].touched <= session[t].touched
<1>1. PICK kept : kept = Pruned(registry)
  OBVIOUS
<1>2. PICK all : all = Append(kept, s)
  OBVIOUS
<1>3. PICK record : record = [NewSession EXCEPT !.touched = now, !.used = TRUE]
  OBVIOUS
<1>4. PICK rows : rows = [session EXCEPT ![s] = record]
  OBVIOUS
<1>5. /\ registry' = EnforceMax(all) /\ session' = WithoutDropped(registry', rows) /\ now' = now
      /\ ~session[s].used
  BY <1>1, <1>2, <1>3, <1>4 DEF Initialize
<1>6. /\ IsMap(kept, session) /\ Len(kept) <= SessionMax /\ ToSet(kept) \subseteq ToSet(registry)
      /\ \A r \in ToSet(kept) : r \in Sessions /\ session[r].used
      /\ \A r \in ToSet(registry) : r \notin ToSet(kept) => Idle(r)
  BY <1>1, PruneIsSound
<1>7. /\ session \in [Sessions -> SessionRows] /\ now \in Nat
      /\ \A r \in Sessions : SoundRecord(session[r])
      /\ IsMap(registry, session) /\ Len(registry) <= SessionMax
  BY DEF ServerInvariant
<1>8. /\ record.touched = now /\ record.used /\ record.listening = FALSE
      /\ record.subscribed = FALSE /\ record.next = 1
      /\ record \in SessionRows /\ SoundRecord(record)
  <2>1. <<>> \in Seq(Messages) /\ Len(<<>>) = 0
    BY EmptySeq
  <2>2. NewSession \in SessionRows
    BY <2>1 DEF NewSession, SessionRows
  <2>3. /\ record \in SessionRows
        /\ record.touched = now /\ record.used /\ record.listening = NewSession.listening
        /\ record.subscribed = NewSession.subscribed /\ record.next = NewSession.next
        /\ record.buffer = NewSession.buffer
    BY <1>3, <1>7, <2>2 DEF SessionRows
  <2>4. /\ NewSession.listening = FALSE /\ NewSession.subscribed = FALSE
        /\ NewSession.next = 1 /\ NewSession.buffer = <<>>
    BY DEF NewSession
  <2> QED
    BY <1>7, <2>1, <2>3, <2>4 DEF SoundRecord, RingIsRecent
<1>9. /\ rows \in [Sessions -> SessionRows] /\ rows[s] = record
      /\ \A r \in Sessions : r # s => rows[r] = session[r]
      /\ \A r \in Sessions : SoundRecord(rows[r])
  BY <1>4, <1>7, <1>8
<1>10. s \notin ToSet(kept) /\ s \notin ToSet(registry)
  BY <1>5, <1>6 DEF ServerInvariant
<1>11. IsMap(kept, rows)
  BY <1>6, <1>9, <1>10, MapOfSameTimes
<1>12. \A r \in ToSet(kept) : rows[r].touched <= rows[s].touched
  BY <1>6, <1>8, <1>9 DEF SoundRecord
<1>13. IsMap(all, rows) /\ Len(all) = Len(kept) + 1 /\ ToSet(all) = ToSet(kept) \cup {s}
  BY <1>2, <1>10, <1>11, <1>12, AppendedIsMap
<1>14. Len(kept) \in Nat /\ Len(registry) \in Nat
  BY <1>6, <1>7, ElementsOf DEF IsMap
<1>15. Len(all) <= SessionMax + 1
  BY <1>6, <1>13, <1>14
<1>16. /\ IsMap(registry', rows) /\ Len(registry') <= SessionMax
       /\ ToSet(registry') \subseteq ToSet(all)
       /\ \A r \in ToSet(all) : r \notin ToSet(registry') =>
            Len(all) = SessionMax + 1 /\ r = all[1]
  BY <1>5, <1>13, <1>15, EnforceMaxIsMap
<1>17. \A r \in ToSet(registry') : rows[r].used
  BY <1>6, <1>8, <1>9, <1>13, <1>16
<1>18. /\ ServerInvariant'
       /\ \A r \in Sessions : session'[r].used = rows[r].used
       /\ \A r \in ToSet(registry') : r \in Sessions /\ session'[r] = rows[r]
  BY <1>5, <1>7, <1>9, <1>16, <1>17, DropsAreSound
<1>19. ASSUME NEW r \in ToSet(registry), r \notin ToSet(registry'), ~Idle(r)
       PROVE  Len(registry) = SessionMax /\ \A t \in ToSet(registry) :
                                              session[r].touched <= session[t].touched
  <2>1. r \in ToSet(kept) /\ Len(kept) = SessionMax /\ r = all[1]
    BY <1>6, <1>13, <1>14, <1>16, <1>19
  <2>2. kept = registry
    <3>1. Len(Pruned(registry)) <= Len(registry) /\ (Len(Pruned(registry)) = Len(registry)
            => Pruned(registry) = registry)
      BY <1>7, PrunedIsMap
    <3>2. Len(kept) = Len(registry)
      BY <1>1, <1>7, <1>14, <2>1, <3>1
    <3> QED
      BY <1>1, <3>1, <3>2
  <2>3. /\ 1 \in 1 .. Len(registry) /\ DOMAIN registry = 1 .. Len(registry)
        /\ registry \in Seq(Sessions)
    BY <1>7, <1>14, <2>1, <2>2, ElementsOf DEF IsMap
  <2>4. r = registry[1]
    BY <1>2, <2>1, <2>2, <2>3, AppendProperties
  <2>5. \A i \in 1 .. Len(registry) : i = 1 \/ 1 < i
    BY <1>14
  <2>6. r \in Sessions /\ session[r].touched \in Nat
    BY <1>7, <2>3, <2>4, ElementsOf DEF SessionRows
  <2>7. \A i \in 1 .. Len(registry) : session[r].touched <= session[registry[i]].touched
    BY <1>7, <2>3, <2>4, <2>5, <2>6 DEF IsMap
  <2> QED
    BY <2>1, <2>2, <2>3, <2>7, ElementsOf
<1> QED
  BY <1>5, <1>6, <1>8, <1>9, <1>13, <1>16, <1>18, <1>19


LEMMA InitializeKeepsTune ==
  ASSUME ServerInvariant, AgentsInvariant, NEW c \in Agents, NEW s \in Sessions, Initialize(c, s)
  PROVE  ServerInvariant' /\ AgentsInvariant'
<1>1. /\ ServerInvariant' /\ ToSet(registry') \subseteq ToSet(registry) \cup {s}
      /\ s \in ToSet(registry') => /\ session'[s].listening = FALSE
                                   /\ session'[s].subscribed = FALSE
                                   /\ session'[s].next = 1
      /\ session'[s].used
      /\ \A r \in Sessions : r # s => session'[r].used = session[r].used
      /\ \A r \in ToSet(registry') : r # s => session'[r] = session[r]
  BY InitializeIsSound
<1>2. /\ agent[c].sid = None \/ c \in Others
      /\ ~session[s].used /\ agent' = [agent EXCEPT ![c].sid = s] /\ UNCHANGED feedVars
  BY DEF Initialize
<1>3. /\ agent' \in [Agents -> AgentRows]
      /\ \A d \in Agents : d # c => agent'[d] = agent[d]
      /\ agent'[c].sid = s /\ agent'[c].stream = agent[c].stream /\ agent'[c].last = agent[c].last
      /\ agent[c].stream \in BOOLEAN
  BY <1>2 DEF AgentsInvariant, AgentRows
<1>4. s # None /\ \A d \in Agents : agent[d].sid # s
  BY <1>2 DEF AgentsInvariant
<1>5. ~agent[c].stream /\ (c \in Clients => agent[c].last = 0)
  BY <1>2 DEF AgentsInvariant
<1>6. \A d \in Clients : Behind(d)' <=> Behind(d)
  BY <1>2 DEF Behind, feedVars
<1>7. ASSUME c \in Clients, s \in ToSet(registry')
      PROVE  InTune(agent'[c], session'[s], Behind(c)')
  <2>1. session'[s].listening = agent'[c].stream
    <3>1. agent'[c].stream = FALSE
      BY <1>3, <1>5
    <3> QED
      BY <1>1, <1>7, <3>1
  <2>2. agent'[c].last = 0 /\ session'[s].next = 1 /\ ~session'[s].subscribed
    BY <1>1, <1>3, <1>5, <1>7
  <2>3. agent'[c].last < session'[s].next
    BY <2>2
  <2> QED
    BY <2>1, <2>2, <2>3 DEF InTune
<1>8. \A d \in Clients : d # c /\ agent[d].sid \in ToSet(registry') =>
        agent[d].sid \in ToSet(registry) /\ session'[agent[d].sid] = session[agent[d].sid]
  BY <1>1, <1>4 DEF Agents
<1>9. \A r \in Sessions : session[r].used => session'[r].used
  BY <1>1
<1>10. /\ agent'[c].sid # None /\ session'[agent'[c].sid].used /\ ~agent'[c].stream
       /\ \A d \in Agents : d # c => agent[d].sid # agent'[c].sid
       /\ c \in Clients /\ agent'[c].sid \in ToSet(registry') =>
            InTune(agent'[c], session'[agent'[c].sid], Behind(c)')
  BY <1>1, <1>3, <1>4, <1>5, <1>7
<1> QED
  BY <1>1, <1>3, <1>6, <1>8, <1>9, <1>10, OthersStayInTune

-------------------------------------------------------------------------------
(* Messages.                                                                   *)

(* The ring takes the message and drops none but its oldest.                   *)
LEMMA BufferedIsRecent ==
  ASSUME NEW record \in SessionRows, RingIsRecent(record), record.next <= MaxMessages,
         NEW tip \in BOOLEAN
  PROVE  LET event == [id |-> record.next, tip |-> tip]
             ring == Buffered(Append(record.buffer, event)) IN
         /\ ring \in Seq(Messages) /\ Len(ring) <= Buffer
         /\ \A i \in 1 .. Len(ring) : ring[i].id = record.next - Len(ring) + i
         /\ event \in ToSet(ring)
         /\ \A m \in ToSet(record.buffer) : m \in ToSet(ring) \/ m.id <= record.next - Buffer
<1>1. PICK event : event = [id |-> record.next, tip |-> tip]
  OBVIOUS
<1>2. PICK old : old = record.buffer
  OBVIOUS
<1>3. PICK all : all = Append(old, event)
  OBVIOUS
<1>4. PICK ring : ring = Buffered(all)
  OBVIOUS
<1>5. /\ old \in Seq(Messages) /\ Len(old) \in Nat /\ Len(old) <= Buffer
      /\ record.next \in Nat /\ record.next >= 1
      /\ \A i \in 1 .. Len(old) : old[i].id = record.next - 1 - Len(old) + i
      /\ \A m \in ToSet(old) : \E i \in 1 .. Len(old) : old[i] = m
  <2>1. old \in Seq(Messages) /\ record.next \in 1 .. MaxMessages + 1
    BY <1>2 DEF SessionRows
  <2>2. /\ Len(old) <= Buffer
        /\ \A i \in 1 .. Len(old) : old[i].id = record.next - 1 - Len(old) + i
    BY <1>2 DEF RingIsRecent
  <2>3. Len(old) \in Nat /\ \A m \in ToSet(old) : \E i \in 1 .. Len(old) : old[i] = m
    BY <2>1, ElementsOf
  <2> QED
    BY <2>1, <2>2, <2>3
<1>6. event \in Messages /\ event.id = record.next
  BY <1>1, <1>5 DEF Messages
<1>7. /\ all \in Seq(Messages) /\ Len(all) = Len(old) + 1
      /\ \A i \in 1 .. Len(old) : all[i] = old[i]
      /\ all[Len(old) + 1] = event
  BY <1>3, <1>5, <1>6, AppendProperties
<1>8. \A i \in 1 .. Len(old) + 1 : i \in 1 .. Len(old) \/ i = Len(old) + 1
  BY <1>5
<1>9. \A i \in 1 .. Len(old) + 1 : all[i].id = record.next - 1 - Len(old) + i
  <2>1. \A i \in 1 .. Len(old) : all[i].id = record.next - 1 - Len(old) + i
    BY <1>5, <1>7
  <2>2. all[Len(old) + 1].id = record.next - 1 - Len(old) + (Len(old) + 1)
    <3>1. all[Len(old) + 1].id = record.next
      BY <1>6, <1>7
    <3>2. record.next = record.next - 1 - Len(old) + (Len(old) + 1)
      <4>1. record.next \in Int /\ Len(old) \in Int
        BY <1>5
      <4>2. \A n, k \in Int : n = n - 1 - k + (k + 1)
        OBVIOUS
      <4> QED
        BY <4>1, <4>2
    <3> QED
      BY <3>1, <3>2
  <2> QED
    BY <1>8, <2>1, <2>2
<1>10. Len(old) + 1 \in 1 .. Len(all) /\ \A i \in 1 .. Len(old) : i \in 1 .. Len(all)
  BY <1>5, <1>7
<1>11. CASE Len(old) + 1 <= Buffer
  <2>1. ring = all
    BY <1>4, <1>5, <1>7, <1>11 DEF Buffered
  <2>2. event \in ToSet(all) /\ \A m \in ToSet(old) : m \in ToSet(all)
    <3>1. \A i \in 1 .. Len(all) : all[i] \in ToSet(all)
      BY <1>7, ElementsOf
    <3>2. event \in ToSet(all)
      BY <1>7, <1>10, <3>1, Zenon
    <3>3. ASSUME NEW m \in ToSet(old) PROVE m \in ToSet(all)
      <4>1. PICK i \in 1 .. Len(old) : old[i] = m
        BY <1>5, Zenon
      <4>2. all[i] = m /\ i \in 1 .. Len(all)
        BY <1>7, <1>10, <4>1, Zenon
      <4> QED
        BY <3>1, <4>2, Zenon
    <3> QED
      BY <3>2, <3>3, Zenon
  <2>3. ASSUME NEW i \in 1 .. Len(all) PROVE all[i].id = record.next - Len(all) + i
    <3>1. record.next - 1 - Len(old) + i = record.next - Len(all) + i
      <4>1. record.next \in Int /\ Len(old) \in Int /\ i \in Int
        BY <1>5
      <4>2. \A n, k, j \in Int : n - 1 - k + j = n - (k + 1) + j
        OBVIOUS
      <4>3. Len(all) = Len(old) + 1
        BY <1>7
      <4> QED
        BY <4>1, <4>2, <4>3
    <3> QED
      BY <1>7, <1>9, <3>1
  <2> QED
    BY <1>1, <1>2, <1>3, <1>4, <1>7, <1>11, <2>1, <2>2, <2>3
<1>12. CASE Len(old) = Buffer
  <2>1. ring = SubSeq(all, 2, Len(all))
    BY <1>4, <1>5, <1>7, <1>12 DEF Buffered
  <2>2. \A i \in 2 .. Len(all) : all[i] \in Messages
    BY <1>5, <1>7, ElementsOf
  <2>3. /\ ring \in Seq(Messages) /\ Len(ring) = (IF 2 <= Len(all) THEN Len(all) - 2 + 1 ELSE 0)
        /\ \A i \in 1 .. Len(all) - 2 + 1 : ring[i] = all[2 + i - 1]
    BY <1>5, <1>7, <2>1, <2>2, SubSeqProperties, 2 \in Int, Len(all) \in Int
  <2>4. Len(ring) = Buffer /\ Len(all) = Buffer + 1
    BY <1>5, <1>7, <1>12, <2>3
  <2>5. \A i \in 1 .. Buffer : ring[i] = all[i + 1] /\ i + 1 \in 1 .. Len(old) + 1
    BY <1>12, <2>3, <2>4
  <2>6. ASSUME NEW i \in 1 .. Buffer PROVE ring[i].id = record.next - Buffer + i
    <3>1. ring[i].id = record.next - 1 - Len(old) + (i + 1)
      <4>1. ring[i] = all[i + 1] /\ i + 1 \in 1 .. Len(old) + 1
        BY <2>5, <2>6, Zenon
      <4>2. all[i + 1].id = record.next - 1 - Len(old) + (i + 1)
        BY <1>9, <4>1, Zenon
      <4> QED
        BY <4>1, <4>2, Zenon
    <3>2. record.next - 1 - Len(old) + (i + 1) = record.next - Buffer + i
      <4>1. record.next \in Int /\ Buffer \in Int /\ i \in Int
        BY <1>5
      <4>2. \A n, k, j \in Int : n - 1 - k + (j + 1) = n - k + j
        OBVIOUS
      <4> QED
        BY <1>12, <4>1, <4>2
    <3> QED
      BY <3>1, <3>2
  <2>7. \A i \in 1 .. Buffer : ring[i] \in ToSet(ring)
    BY <2>3, <2>4, ElementsOf
  <2>8. event \in ToSet(ring)
    <3>1. Buffer \in 1 .. Buffer /\ ring[Buffer] = all[Len(old) + 1]
      BY <1>12, <2>5
    <3> QED
      BY <1>7, <2>7, <3>1
  <2>9. ASSUME NEW m \in ToSet(old)
        PROVE  m \in ToSet(ring) \/ m.id <= record.next - Buffer
    <3>1. PICK i \in 1 .. Len(old) : old[i] = m
      BY <1>5
    <3>2. CASE i = 1
      BY <1>5, <1>12, <3>1, <3>2
    <3>3. CASE i > 1
      <4>1. i - 1 \in 1 .. Buffer /\ (i - 1) + 1 = i
        BY <1>12, <3>3
      <4>2. ring[i - 1] = m
        BY <1>7, <2>5, <3>1, <4>1
      <4> QED
        BY <2>7, <4>1, <4>2
    <3> QED
      BY <1>5, <3>2, <3>3
  <2> QED
    BY <1>1, <1>2, <1>3, <1>4, <2>3, <2>4, <2>6, <2>8, <2>9
<1> QED
  BY <1>5, <1>11, <1>12


(* What a message leaves of the record.                                        *)
LEMMA PublishedIsSound ==
  ASSUME NEW record, SoundRecord(record), now \in Nat, record.next <= MaxMessages,
         NEW tip \in BOOLEAN
  PROVE  /\ SoundRecord(Published(record, tip))
         /\ Published(record, tip).used = record.used
         /\ Published(record, tip).touched = record.touched
         /\ Published(record, tip).listening = record.listening
         /\ Published(record, tip).subscribed = record.subscribed
         /\ Published(record, tip).next = record.next + 1
         /\ \E m \in ToSet(Published(record, tip).buffer) : m.id = record.next /\ m.tip = tip
         /\ \A m \in ToSet(record.buffer) :
              m \in ToSet(Published(record, tip).buffer) \/ m.id <= record.next - Buffer
<1>1. PICK event : event = [id |-> record.next, tip |-> tip]
  OBVIOUS
<1>2. PICK ring : ring = Buffered(Append(record.buffer, event))
  OBVIOUS
<1>3. PICK later : later = Published(record, tip)
  OBVIOUS
<1>4. /\ record \in SessionRows /\ RingIsRecent(record) /\ record.touched <= now
      /\ record.next \in 1 .. MaxMessages + 1
  BY DEF SoundRecord, SessionRows
<1>5. /\ ring \in Seq(Messages) /\ Len(ring) <= Buffer
      /\ \A i \in 1 .. Len(ring) : ring[i].id = record.next - Len(ring) + i
      /\ event \in ToSet(ring)
      /\ \A m \in ToSet(record.buffer) : m \in ToSet(ring) \/ m.id <= record.next - Buffer
  BY <1>1, <1>2, <1>4, BufferedIsRecent
<1>6. record.next + 1 \in 1 .. MaxMessages + 1
  BY <1>4
<1>7. later = [record EXCEPT !.buffer = ring, !.next = record.next + 1]
  BY <1>1, <1>2, <1>3, <1>4 DEF Published, SessionRows
<1>8. /\ later \in SessionRows /\ later.buffer = ring /\ later.next = record.next + 1
      /\ later.used = record.used /\ later.touched = record.touched
      /\ later.listening = record.listening /\ later.subscribed = record.subscribed
  BY <1>4, <1>5, <1>6, <1>7 DEF SessionRows
<1>9. Len(ring) \in Nat
  BY <1>5, ElementsOf
<1>10. RingIsRecent(later)
  <2>1. ASSUME NEW i \in 1 .. Len(ring)
        PROVE  ring[i].id = (record.next + 1) - 1 - Len(ring) + i
    <3>1. record.next - Len(ring) + i = (record.next + 1) - 1 - Len(ring) + i
      BY <1>4, <1>9
    <3> QED
      BY <1>5, <3>1
  <2> QED
    BY <1>5, <1>8, <2>1 DEF RingIsRecent
<1>11. event.id = record.next /\ event.tip = tip
  BY <1>1
<1> QED
  BY <1>3, <1>4, <1>5, <1>8, <1>10, <1>11 DEF SoundRecord

(* Those who listen hear of a tip, and for the others it waits.                *)
LEMMA PublishedIsInTune ==
  ASSUME NEW record, SoundRecord(record), now \in Nat, record.next <= MaxMessages,
         NEW tip \in BOOLEAN, NEW behind \in BOOLEAN, NEW after \in BOOLEAN,
         NEW a \in AgentRows, InTune(a, record, behind),
         after /\ record.subscribed => behind \/ tip,
         NEW heard, heard = IF record.listening
                            THEN [a EXCEPT !.last = record.next, !.tipped = @ \/ tip]
                            ELSE a
  PROVE  InTune(heard, Published(record, tip), after)
<1>1. PICK later : later = Published(record, tip)
  OBVIOUS
<1>2. /\ SoundRecord(later) /\ later.listening = record.listening
      /\ later.subscribed = record.subscribed /\ later.next = record.next + 1
      /\ \E m \in ToSet(later.buffer) : m.id = record.next /\ m.tip = tip
      /\ \A m \in ToSet(record.buffer) : m \in ToSet(later.buffer) \/ m.id <= record.next - Buffer
  BY <1>1, PublishedIsSound
<1>3. record.next \in Nat /\ a.last \in Nat /\ a.last < record.next /\ record.listening = a.stream
  BY DEF SoundRecord, SessionRows, AgentRows, InTune
<1>4. CASE record.listening
  <2>1. /\ heard.last = record.next /\ heard.stream = a.stream /\ heard.holed = a.holed
        /\ heard.tipped <=> a.tipped \/ tip
    BY <1>4 DEF AgentRows
  <2>2. ~(after /\ later.subscribed /\ ~heard.tipped /\ ~heard.holed)
    BY <1>2, <1>3, <1>4, <2>1 DEF InTune, TipWaits
  <2>3. heard.last < later.next /\ later.listening = heard.stream
    BY <1>2, <1>3, <2>1
  <2> QED
    BY <1>1, <2>2, <2>3 DEF InTune
<1>5. CASE ~record.listening
  <2>1. heard = a
    BY <1>5
  <2>2. a.last < later.next /\ later.listening = a.stream
    BY <1>2, <1>3
  <2>3. ASSUME after, later.subscribed, ~a.tipped, ~a.holed
        PROVE  TipWaits(a, later)
    <3>1. ~a.stream
      BY <1>3, <1>5
    <3>2. CASE tip
      BY <1>2, <1>3, <3>1, <3>2 DEF TipWaits
    <3>3. CASE ~tip
      <4>1. TipWaits(a, record)
        BY <1>2, <2>3, <3>3 DEF InTune
      <4>2. CASE a.last = 0
        BY <3>1, <4>2 DEF TipWaits
      <4>3. CASE record.next - 1 - a.last > Buffer
        <5>1. later.next - 1 - a.last > Buffer
          BY <1>2, <1>3, <4>3
        <5> QED
          BY <3>1, <5>1 DEF TipWaits
      <4>4. ASSUME NEW m \in ToSet(record.buffer), m.id > a.last, m.tip
            PROVE  TipWaits(a, later)
        <5>1. CASE m \in ToSet(later.buffer)
          BY <3>1, <4>4, <5>1 DEF TipWaits
        <5>2. CASE m.id <= record.next - Buffer
          <6>1. m.id \in Nat
            <7>1. record.buffer \in Seq(Messages)
              BY DEF SoundRecord, SessionRows
            <7>2. m \in Messages
              BY <7>1, ElementsOf
            <7> QED
              BY <7>2 DEF Messages
          <6>2. later.next - 1 - a.last > Buffer
            BY <1>2, <1>3, <4>4, <5>2, <6>1
          <6> QED
            BY <3>1, <6>2 DEF TipWaits
        <5> QED
          BY <1>2, <5>1, <5>2
      <4> QED
        BY <4>1, <4>2, <4>3, <4>4 DEF TipWaits
    <3> QED
      BY <3>2, <3>3
  <2> QED
    BY <1>1, <2>1, <2>2, <2>3 DEF InTune
<1> QED
  BY <1>4, <1>5


LEMMA PublishKeepsTune ==
  ASSUME ServerInvariant, AgentsInvariant, NEW to, to \subseteq ToSet(registry), NEW tip \in BOOLEAN,
         CanPublish(to), Publish(to, tip), registry' = registry, now' = now,
         \A c \in Clients : LET s == agent[c].sid IN
           Behind(c)' /\ s \in ToSet(registry) /\ session[s].subscribed
             => Behind(c) \/ (tip /\ s \in to)
  PROVE  ServerInvariant' /\ AgentsInvariant'
<1>1. /\ session' = [s \in Sessions |-> IF s \in to THEN Published(session[s], tip) ELSE session[s]]
      /\ agent' = [c \in Agents |->
           IF agent[c].sid \in to /\ session[agent[c].sid].listening
           THEN [agent[c] EXCEPT !.last = session[agent[c].sid].next, !.tipped = @ \/ tip]
           ELSE agent[c]]
  BY DEF Publish
<1>2. \A s \in ToSet(registry) : s \in Sessions
  BY ElementsOf DEF ServerInvariant, IsMap
<1>3. /\ now \in Nat /\ IsMap(registry, session) /\ Len(registry) <= SessionMax
      /\ \A s \in Sessions : SoundRecord(session[s])
      /\ \A s \in ToSet(registry) : session[s].used
  BY DEF ServerInvariant
<1>4. ASSUME NEW s \in Sessions
      PROVE  /\ SoundRecord(session'[s]) /\ session'[s].used = session[s].used
             /\ session'[s].touched = session[s].touched
  <2>1. CASE s \in to
    <3>1. session'[s] = Published(session[s], tip) /\ session[s].next <= MaxMessages
      BY <1>1, <2>1 DEF CanPublish
    <3> QED
      BY <1>3, <3>1, PublishedIsSound
  <2>2. CASE s \notin to
    BY <1>1, <1>3, <2>2
  <2> QED
    BY <2>1, <2>2
<1>5. ServerInvariant'
  <2>1. session' \in [Sessions -> SessionRows]
    BY <1>1, <1>4 DEF SoundRecord
  <2>2. IsMap(registry', session')
    BY <1>2, <1>3, <1>4, MapOfSameTimes
  <2>3. \A s \in Sessions : SoundRecord(session[s])'
    BY <1>4 DEF SoundRecord
  <2>4. \A s \in ToSet(registry') : session'[s].used
    BY <1>2, <1>3, <1>4
  <2> QED
    BY <1>3, <2>1, <2>2, <2>3, <2>4 DEF ServerInvariant
<1>6. ASSUME NEW c \in Agents
      PROVE  /\ agent'[c] \in AgentRows /\ agent'[c].sid = agent[c].sid
             /\ agent'[c].stream = agent[c].stream
             /\ agent[c].sid \notin to => agent'[c] = agent[c]
  <2>1. agent[c] \in AgentRows
    BY DEF AgentsInvariant
  <2>2. CASE agent[c].sid \in to /\ session[agent[c].sid].listening
    <3>1. agent'[c] = [agent[c] EXCEPT !.last = session[agent[c].sid].next, !.tipped = @ \/ tip]
      BY <1>1, <2>2
    <3>2. session[agent[c].sid].next \in Nat
      BY <1>2, <1>3, <2>2 DEF SoundRecord, SessionRows
    <3>3. (agent[c].tipped \/ tip) \in BOOLEAN
      OBVIOUS
    <3> QED
      BY <2>1, <2>2, <3>1, <3>2, <3>3 DEF AgentRows
  <2>3. CASE ~(agent[c].sid \in to /\ session[agent[c].sid].listening)
    BY <1>1, <2>1, <2>3
  <2> QED
    BY <2>2, <2>3
<1>7. ASSUME NEW c \in Clients, agent[c].sid \in ToSet(registry)
      PROVE  InTune(agent'[c], session'[agent[c].sid], Behind(c)')
  <2>1. PICK s : s = agent[c].sid
    OBVIOUS
  <2>2. /\ c \in Agents /\ s \in Sessions /\ agent[c] \in AgentRows
        /\ InTune(agent[c], session[s], Behind(c))
    BY <1>2, <1>7, <2>1 DEF Agents, AgentsInvariant
  <2>3. CASE s \in to
    <3>1. session'[s] = Published(session[s], tip) /\ session[s].next <= MaxMessages
      BY <1>1, <2>2, <2>3 DEF CanPublish
    <3>2. agent'[c] = IF session[s].listening
                      THEN [agent[c] EXCEPT !.last = session[s].next, !.tipped = @ \/ tip]
                      ELSE agent[c]
      BY <1>1, <2>1, <2>2, <2>3
    <3>3. Behind(c) \in BOOLEAN /\ Behind(c)' \in BOOLEAN
      BY DEF Behind
    <3>4. Behind(c)' /\ session[s].subscribed => Behind(c) \/ tip
      BY <1>7, <2>1
    <3>5. SoundRecord(session[s])
      BY <1>3, <2>2
    <3> QED
      <4>1. PICK behind \in BOOLEAN : behind <=> Behind(c)
        BY <3>3
      <4>2. PICK after \in BOOLEAN : after <=> Behind(c)'
        BY <3>3
      <4>3. PICK record : record = session[s]
        OBVIOUS
      <4>4. PICK heard : heard = agent'[c]
        OBVIOUS
      <4>5. PICK a : a = agent[c]
        OBVIOUS
      <4>6. InTune(a, record, behind)
        BY <2>2, <4>1, <4>3, <4>5 DEF InTune
      <4>7. after /\ record.subscribed => behind \/ tip
        BY <3>4, <4>1, <4>2, <4>3
      <4>8. /\ SoundRecord(record) /\ record.next <= MaxMessages /\ a \in AgentRows
            /\ heard = IF record.listening
                       THEN [a EXCEPT !.last = record.next, !.tipped = @ \/ tip]
                       ELSE a
        BY <2>2, <3>1, <3>2, <3>5, <4>3, <4>4, <4>5
      <4>9. InTune(heard, Published(record, tip), after)
        BY <1>3, <4>6, <4>7, <4>8, PublishedIsInTune
      <4> QED
        BY <2>1, <3>1, <4>2, <4>3, <4>4, <4>9 DEF InTune
  <2>4. CASE s \notin to
    <3>1. agent'[c] = agent[c] /\ session'[s] = session[s]
      BY <1>1, <1>6, <2>1, <2>2, <2>4
    <3>2. Behind(c)' /\ session[s].subscribed => Behind(c)
      BY <1>7, <2>1, <2>4
    <3> QED
      BY <2>1, <2>2, <3>1, <3>2 DEF InTune
  <2> QED
    BY <2>3, <2>4
<1>8. AgentsInvariant'
  <2>1. agent' \in [Agents -> AgentRows]
    BY <1>1, <1>6
  <2>2. ASSUME NEW c \in Agents, agent'[c].sid # None PROVE session'[agent'[c].sid].used
    <3>1. agent[c].sid \in Sessions /\ session[agent[c].sid].used
      BY <1>6, <2>2 DEF AgentsInvariant, AgentRows
    <3> QED
      BY <1>4, <1>6, <3>1
  <2>3. \A c, d \in Agents : agent'[c].sid = agent'[d].sid /\ agent'[c].sid # None => c = d
    BY <1>6 DEF AgentsInvariant
  <2>4. \A c \in Agents : agent'[c].stream => c \in Clients /\ agent'[c].sid # None
    BY <1>6 DEF AgentsInvariant
  <2>5. ASSUME NEW c \in Clients, agent'[c].sid = None PROVE agent'[c].last = 0
    <3>1. c \in Agents /\ agent[c].sid = None /\ None \notin to
      BY <1>2, <1>6, <2>5 DEF Agents
    <3> QED
      BY <1>6, <3>1 DEF AgentsInvariant
  <2>6. \A c \in Clients : agent'[c].sid \in ToSet(registry') =>
          InTune(agent'[c], session'[agent'[c].sid], Behind(c)')
    BY <1>6, <1>7 DEF Agents
  <2> QED
    BY <2>1, <2>2, <2>3, <2>4, <2>5, <2>6 DEF AgentsInvariant
<1> QED
  BY <1>5, <1>8


LEMMA ChangeKeepsTune ==
  ASSUME ServerInvariant, AgentsInvariant, Change
  PROVE  ServerInvariant' /\ AgentsInvariant'
<1>1. PICK to : to = {s \in ToSet(registry) : session[s].subscribed}
  OBVIOUS
<1>2. CanPublish(to) /\ Publish(to, TRUE) /\ registry' = registry /\ now' = now
  BY <1>1 DEF Change
<1>3. to \subseteq ToSet(registry) /\ \A s \in ToSet(registry) : session[s].subscribed => s \in to
  BY <1>1
<1>4. \A c \in Clients : LET s == agent[c].sid IN
        Behind(c)' /\ s \in ToSet(registry) /\ session[s].subscribed
          => Behind(c) \/ (TRUE /\ s \in to)
  BY <1>3
<1> QED
  BY <1>2, <1>3, <1>4, PublishKeepsTune, TRUE \in BOOLEAN

LEMMA ProgressKeepsTune ==
  ASSUME ServerInvariant, AgentsInvariant, NEW c, Progress(c)
  PROVE  ServerInvariant' /\ AgentsInvariant'
<1>1. PICK to : to = {agent[c].sid}
  OBVIOUS
<1>2. /\ CanPublish(to) /\ Publish(to, FALSE) /\ registry' = registry /\ now' = now
      /\ to \subseteq ToSet(registry) /\ UNCHANGED feedVars
  BY <1>1 DEF Progress
<1>3. \A d \in Clients : LET s == agent[d].sid IN
        Behind(d)' /\ s \in ToSet(registry) /\ session[s].subscribed
          => Behind(d) \/ (FALSE /\ s \in to)
  BY <1>2 DEF Behind, feedVars
<1> QED
  BY <1>2, <1>3, PublishKeepsTune, FALSE \in BOOLEAN

-------------------------------------------------------------------------------
(* The process.                                                                *)

LEMMA TickKeepsTune ==
  ASSUME ServerInvariant, AgentsInvariant, Tick
  PROVE  ServerInvariant' /\ AgentsInvariant'
<1>1. /\ now' = now + 1 /\ registry' = registry /\ session' = session /\ agent' = agent
      /\ UNCHANGED feedVars
  BY DEF Tick
<1>2. \A s \in Sessions : SoundRecord(session[s])'
  <2>1. SUFFICES ASSUME NEW s \in Sessions PROVE SoundRecord(session[s])'
    OBVIOUS
  <2>2. SoundRecord(session[s]) /\ now \in Nat
    BY DEF ServerInvariant
  <2>3. session[s].touched \in Nat
    BY <2>2 DEF SoundRecord, SessionRows
  <2> QED
    BY <1>1, <2>2, <2>3 DEF SoundRecord
<1>3. ServerInvariant'
  BY <1>1, <1>2 DEF ServerInvariant
<1>4. \A c \in Clients : Behind(c)' <=> Behind(c)
  BY <1>1 DEF Behind, feedVars
<1>5. \A c \in Clients : agent[c].sid \in ToSet(registry) =>
        InTune(agent[c], session[agent[c].sid], Behind(c)')
  BY <1>4 DEF AgentsInvariant, InTune
<1>6. AgentsInvariant'
  BY <1>1, <1>5 DEF AgentsInvariant
<1> QED
  BY <1>3, <1>6

LEMMA QuietKeepsTune ==
  ASSUME ServerInvariant, AgentsInvariant, UNCHANGED <<serverVars, agent, owed, outran>>
  PROVE  ServerInvariant' /\ AgentsInvariant'
<1>1. /\ now' = now /\ registry' = registry /\ session' = session /\ agent' = agent
      /\ owed' = owed /\ outran' = outran
  BY DEF serverVars
<1>2. ServerInvariant'
  BY <1>1 DEF ServerInvariant, SoundRecord
<1>3. \A c \in Clients : Behind(c)' <=> Behind(c)
  BY <1>1 DEF Behind
<1>4. \A c \in Clients : agent[c].sid \in ToSet(registry) =>
        InTune(agent[c], session[agent[c].sid], Behind(c)')
  BY <1>3 DEF AgentsInvariant, InTune
<1>5. AgentsInvariant'
  BY <1>1, <1>4 DEF AgentsInvariant
<1> QED
  BY <1>2, <1>5

LEMMA EmptyMap == IsMap(<<>>, session) /\ Len(<<>>) = 0 /\ ToSet(<<>>) = {}
BY DEF IsMap, IsInjective, ToSet

LEMMA RestartKeepsTune ==
  ASSUME FeedInvariant, ServerInvariant, AgentsInvariant, Restart
  PROVE  ServerInvariant' /\ AgentsInvariant'
<1>1. PICK ids : ids = <<>>
  OBVIOUS
<1>2. /\ registry' = ids /\ session' = WithoutDropped(ids, session) /\ now' = now
      /\ agent' = [c \in Agents |-> [agent[c] EXCEPT !.stream = FALSE]]
  BY <1>1 DEF Restart
<1>3. IsMap(ids, session) /\ Len(ids) <= SessionMax /\ ToSet(ids) = {}
  BY <1>1, EmptyMap
<1>4. ServerInvariant' /\ \A s \in Sessions : session'[s].used = session[s].used
  BY <1>2, <1>3, PartIsSound
<1>5. ASSUME NEW c \in Agents
      PROVE  /\ agent'[c] \in AgentRows /\ agent'[c].sid = agent[c].sid /\ ~agent'[c].stream
             /\ agent'[c].last = agent[c].last /\ agent[c].sid \in Sessions \cup {None}
  BY <1>2 DEF AgentsInvariant, AgentRows
<1>6. agent' \in [Agents -> AgentRows]
  BY <1>2, <1>5
<1>7. AgentsInvariant'
  <2>1. registry' = ids /\ ToSet(registry') = {} /\ \A c \in Clients : c \in Agents
    BY <1>2, <1>3 DEF Agents
  <2>2. \A c \in Agents : agent'[c].sid # None => session'[agent'[c].sid].used
    BY <1>4, <1>5 DEF AgentsInvariant
  <2>3. \A c, d \in Agents : agent'[c].sid = agent'[d].sid /\ agent'[c].sid # None => c = d
    BY <1>5 DEF AgentsInvariant
  <2>4. /\ \A c \in Agents : agent'[c].stream => c \in Clients /\ agent'[c].sid # None
        /\ \A c \in Clients : agent'[c].sid = None => agent'[c].last = 0
    BY <1>5, <2>1 DEF AgentsInvariant
  <2> QED
    BY <1>6, <2>1, <2>2, <2>3, <2>4 DEF AgentsInvariant
<1> QED
  BY <1>4, <1>7

LEMMA InitIsInTune == Init => SessionsInvariant
<1> SUFFICES ASSUME Init PROVE SessionsInvariant
  OBVIOUS
<1>1. FeedInvariant
  BY FeedStartsInStep DEF Init
<1>2. NewSession \in SessionRows /\ SoundRecord(NewSession)
  <2>1. <<>> \in Seq(Messages) /\ Len(<<>>) = 0
    BY EmptySeq
  <2>2. NewSession \in SessionRows
    BY <2>1 DEF NewSession, SessionRows
  <2>3. NewSession.buffer = <<>> /\ NewSession.touched = 0 /\ now = 0
    BY DEF NewSession, Init
  <2> QED
    BY <2>1, <2>2, <2>3 DEF SoundRecord, RingIsRecent
<1>3. IsMap(registry, session) /\ Len(registry) = 0 /\ ToSet(registry) = {}
  BY EmptyMap DEF Init
<1>4. ServerInvariant
  BY <1>2, <1>3 DEF Init, ServerInvariant
<1>5. \A c \in Agents : agent[c] = NewAgent
  BY DEF Init
<1>6. AgentsInvariant
  BY <1>3, <1>5, NewAgentIsFresh DEF Init, AgentsInvariant, Agents
<1> QED
  BY <1>1, <1>4, <1>6 DEF SessionsInvariant


LEMMA NextKeepsTune == SessionsInvariant /\ [Next]_vars => SessionsInvariant'
<1> SUFFICES ASSUME FeedInvariant, ServerInvariant, AgentsInvariant, [Next]_vars
             PROVE  FeedInvariant' /\ ServerInvariant' /\ AgentsInvariant'
  BY DEF SessionsInvariant
<1>1. ASSUME NEW c \in Clients, Subscribe(c) \/ Listen(c) \/ Disconnect(c) \/ Progress(c)
      PROVE  FeedInvariant' /\ ServerInvariant' /\ AgentsInvariant'
  <2>1. UNCHANGED feedVars
    BY <1>1 DEF Subscribe, Listen, Disconnect, Progress
  <2> QED
    BY <1>1, <2>1, QuietFeedKeepsStep, SubscribeKeepsTune, ListenKeepsTune, DisconnectKeepsTune,
       ProgressKeepsTune
<1>2. ASSUME NEW c \in Clients, Read(c)
      PROVE  FeedInvariant' /\ ServerInvariant' /\ AgentsInvariant'
  <2>1. ReadChanges(c)
    BY <1>2 DEF Read, ReadOver
  <2> QED
    BY <1>2, <2>1, ReadKeepsStep, ReadKeepsTune
<1>3. ASSUME NEW c \in Agents, NEW s \in Sessions, Initialize(c, s)
      PROVE  FeedInvariant' /\ ServerInvariant' /\ AgentsInvariant'
  <2>1. UNCHANGED feedVars
    BY <1>3 DEF Initialize
  <2> QED
    BY <1>3, <2>1, QuietFeedKeepsStep, InitializeKeepsTune
<1>4. ASSUME NEW c \in Agents, Call(c) \/ Delete(c) \/ NotFound(c)
      PROVE  FeedInvariant' /\ ServerInvariant' /\ AgentsInvariant'
  <2>1. UNCHANGED feedVars
    BY <1>4 DEF Call, Delete, NotFound
  <2> QED
    BY <1>4, <2>1, QuietFeedKeepsStep, CallKeepsTune, DeleteKeepsTune, NotFoundKeepsTune
<1>5. CASE Change
  BY <1>5, RecordKeepsStep, ChangeKeepsTune DEF Change
<1>6. CASE Tick
  BY <1>6, QuietFeedKeepsStep, TickKeepsTune DEF Tick
<1>7. CASE Restart
  <2>1. UNCHANGED feedVars \/ RestoreBackup
    BY <1>7 DEF Restart
  <2> QED
    BY <1>7, <2>1, QuietFeedKeepsStep, RestoreKeepsStep, RestartKeepsTune
<1>8. CASE BackUp /\ UNCHANGED <<serverVars, agent>>
  BY <1>8, BackUpKeepsStep, QuietKeepsTune DEF BackUp
<1>9. CASE UNCHANGED vars
  BY <1>9, QuietFeedKeepsStep, QuietKeepsTune DEF vars, feedVars
<1> QED
  BY <1>1, <1>2, <1>3, <1>4, <1>5, <1>6, <1>7, <1>8, <1>9 DEF Next

-------------------------------------------------------------------------------
(* What leaves the Map.                                                        *)

(* Whatever a request does to its session, it drops idle ones only.            *)
LEMMA FindsDropsIdle ==
  ASSUME ServerInvariant, NEW c, NEW changed, Finds(c, changed),
         NEW r \in ToSet(registry), r \notin ToSet(registry')
  PROVE  Idle(r)
<1>1. PICK kept : kept = Pruned(registry)
  OBVIOUS
<1>2. PICK s : s = agent[c].sid
  OBVIOUS
<1>3. PICK rest : rest = Deleted(kept, s)
  OBVIOUS
<1>4. s \in ToSet(kept) /\ registry' = Append(rest, s)
  BY <1>1, <1>2, <1>3 DEF Finds, Touched
<1>5. /\ IsMap(kept, session) /\ \A t \in ToSet(kept) : t \in Sessions
      /\ r \notin ToSet(kept) => Idle(r)
  BY <1>1, PruneIsSound
<1>6. rest \in Seq(Sessions) /\ ToSet(rest) = ToSet(kept) \ {s} /\ s \in Sessions
  BY <1>3, <1>4, <1>5, DeletedIsMap DEF IsMap
<1>7. PICK all : all = Append(rest, s)
  OBVIOUS
<1>8. /\ all \in Seq(Sessions) /\ Len(all) = Len(rest) + 1
      /\ \A i \in 1 .. Len(rest) : all[i] = rest[i]
      /\ all[Len(rest) + 1] = s
  BY <1>6, <1>7, AppendProperties
<1>9. /\ Len(rest) \in Nat
      /\ \A t \in ToSet(rest) : \E i \in 1 .. Len(rest) : rest[i] = t
      /\ \A i \in 1 .. Len(all) : all[i] \in ToSet(all)
  BY <1>6, <1>8, ElementsOf
<1>10. /\ \A i \in 1 .. Len(rest) : i \in 1 .. Len(all)
       /\ Len(rest) + 1 \in 1 .. Len(all)
  BY <1>8, <1>9
<1>11. s \in ToSet(all) /\ \A t \in ToSet(rest) : t \in ToSet(all)
  BY <1>8, <1>9, <1>10
<1> QED
  BY <1>4, <1>5, <1>6, <1>7, <1>11

(* DELETE drops its own session and idle ones.                                 *)
LEMMA DeleteDropsItsOwn ==
  ASSUME ServerInvariant, NEW c \in Agents, agent \in [Agents -> AgentRows], Delete(c),
         NEW r \in ToSet(registry), r \notin ToSet(registry')
  PROVE  Idle(r) \/ (agent[c].sid = r /\ agent'[c].sid = None)
<1>1. PICK kept : kept = Pruned(registry)
  OBVIOUS
<1>2. PICK s : s = agent[c].sid
  OBVIOUS
<1>3. /\ s \in ToSet(kept) /\ registry' = Deleted(kept, s)
      /\ agent' = [agent EXCEPT ![c] = NewAgent]
  BY <1>1, <1>2 DEF Delete
<1>4. IsMap(kept, session) /\ (r \notin ToSet(kept) => Idle(r))
  BY <1>1, PruneIsSound
<1>5. ToSet(registry') = ToSet(kept) \ {s}
  BY <1>3, <1>4, DeletedIsMap
<1>6. agent'[c].sid = None
  BY <1>3, NewAgentIsFresh
<1> QED
  BY <1>2, <1>4, <1>5, <1>6

LEMMA NextDropsWithReason ==
  ASSUME SessionsInvariant, [Next]_vars, NEW s \in Sessions, Dropped(s)
  PROVE  \/ Idle(s)
         \/ registry' = <<>>
         \/ \E c \in Agents : agent[c].sid = s /\ agent'[c].sid = None
         \/ Len(registry) = SessionMax /\ \A t \in ToSet(registry) :
                                            session[s].touched <= session[t].touched
<1>1. /\ ServerInvariant /\ AgentsInvariant /\ agent \in [Agents -> AgentRows]
      /\ s \in ToSet(registry) /\ s \notin ToSet(registry')
  BY DEF SessionsInvariant, AgentsInvariant, Dropped
<1>2. registry' # registry
  BY <1>1
<1>3. ASSUME NEW c \in Clients, Subscribe(c) \/ Read(c) \/ Listen(c) \/ Disconnect(c) \/ Progress(c)
      PROVE  Idle(s)
  <2>1. \E changed : Finds(c, changed)
    BY <1>2, <1>3 DEF Subscribe, Read, Listen, Disconnect, Progress, serverVars
  <2> QED
    BY <1>1, <2>1, FindsDropsIdle
<1>4. ASSUME NEW c \in Agents, Call(c) PROVE Idle(s)
  <2>1. Finds(c, Own(c))
    BY <1>4 DEF Call
  <2> QED
    BY <1>1, <2>1, FindsDropsIdle
<1>5. ASSUME NEW c \in Agents, NotFound(c) PROVE Idle(s)
  BY <1>1, <1>5, PruneIsSound DEF NotFound
<1>6. ASSUME NEW c \in Agents, Delete(c)
      PROVE  Idle(s) \/ \E d \in Agents : agent[d].sid = s /\ agent'[d].sid = None
  BY <1>1, <1>6, DeleteDropsItsOwn
<1>7. ASSUME NEW c \in Agents, NEW r \in Sessions, Initialize(c, r)
      PROVE  \/ Idle(s)
             \/ Len(registry) = SessionMax /\ \A t \in ToSet(registry) :
                                                session[s].touched <= session[t].touched
  BY <1>1, <1>7, InitializeIsSound
<1>8. CASE Restart
  BY <1>8 DEF Restart
<1>9. CASE Change \/ Tick \/ (BackUp /\ UNCHANGED <<serverVars, agent>>) \/ UNCHANGED vars
  BY <1>2, <1>9 DEF Change, Tick, serverVars, vars
<1> QED
  BY <1>3, <1>4, <1>5, <1>6, <1>7, <1>8, <1>9 DEF Next

-------------------------------------------------------------------------------
(* Feeds, sessions and agents agree after every request, message, change,      *)
(* backup, restart and restore (change-feeds.ts, http-sessions.ts).            *)
THEOREM SessionsAreInTune == Spec => []SessionsInvariant
BY InitIsInTune, NextKeepsTune, PTL DEF Spec

(* Every variable keeps its type and a session is in the Map once.             *)
THEOREM SessionsAreTyped == Spec => []TypeOK
<1>1. SessionsInvariant => TypeOK
  <2> SUFFICES ASSUME SessionsInvariant PROVE TypeOK
    OBVIOUS
  <2>1. /\ feed \in SUBSET Rows /\ cursor \in [Clients -> 0 .. MaxEvents \cup {None}]
        /\ IsInjective(registry) /\ registry \in Seq(Sessions)
        /\ \A s \in Sessions : session[s] \in SessionRows /\ RingIsRecent(session[s])
        /\ agent \in [Agents -> AgentRows]
    BY DEF SessionsInvariant, FeedInvariant, ServerInvariant, SoundRecord, AgentsInvariant, IsMap
  <2>2. ToSet(registry) \subseteq Sessions
    BY <2>1, ElementsOf
  <2>3. \A s \in Sessions : session[s].buffer \in Seq(Messages) /\ Len(session[s].buffer) <= Buffer
    BY <2>1 DEF SessionRows, RingIsRecent
  <2>4. \A c \in Agents : agent[c].sid \in Sessions \cup {None}
    BY <2>1 DEF AgentRows
  <2> QED
    BY <2>1, <2>2, <2>3, <2>4 DEF TypeOK, Rows
<1> QED
  BY <1>1, SessionsAreInTune, PTL

(* No change slips behind the cursor of a reader that was not told.            *)
THEOREM NothingIsSkipped == Spec => []CursorsSkipNothing
<1>1. SessionsInvariant => CursorsSkipNothing
  BY InStepSkipsNothing DEF SessionsInvariant
<1> QED
  BY <1>1, SessionsAreInTune, PTL

(* A reader is sent back to a snapshot only for a change that is gone.         *)
THEOREM OnlyLossExpires == Spec => []ExpiryMeansLoss
<1>1. SessionsInvariant => ExpiryMeansLoss
  BY InStepSkipsNothing DEF SessionsInvariant
<1> QED
  BY <1>1, SessionsAreInTune, PTL

(* An agent that listens and is behind has been tipped, but for a session that *)
(* was forgotten and a ring that overflowed while it was away.                 *)
THEOREM ListenersAreTipped == Spec => []UntippedOnlyWhenForgotten
<1>1. SessionsInvariant => UntippedOnlyWhenForgotten
  <2> SUFFICES ASSUME SessionsInvariant, NEW c \in Clients \ outran,
                      InTouch(c), owed[c] # {}, ~agent[c].tipped, ~agent[c].holed,
                      agent[c].sid \in ToSet(registry)
               PROVE  FALSE
    BY DEF UntippedOnlyWhenForgotten
  <2>1. InTune(agent[c], session[agent[c].sid], Behind(c)) /\ Behind(c)
    BY DEF SessionsInvariant, AgentsInvariant, Behind
  <2> QED
    BY <2>1 DEF InTune, TipWaits, InTouch
<1> QED
  BY <1>1, SessionsAreInTune, PTL

(* The Map forgets a session only for the reasons that the registry has.       *)
THEOREM SessionsAreNotForgotten == Spec => SessionsInUseStay
<1>1. SessionsInvariant /\ [Next]_vars =>
        [\A s \in Sessions : Dropped(s) =>
           \/ Idle(s)
           \/ registry' = <<>>
           \/ \E c \in Agents : agent[c].sid = s /\ agent'[c].sid = None
           \/ Len(registry) = SessionMax /\ \A t \in ToSet(registry) :
                                              session[s].touched <= session[t].touched]_vars
  BY NextDropsWithReason
<1> QED
  BY <1>1, SessionsAreInTune, PTL DEF Spec, SessionsInUseStay

===============================================================================
