-------------------------- MODULE AgentSchedulesProof --------------------------
(* Proofs about AgentSchedules, for any schedules and cron expressions, any    *)
(* fineness of the clock and any bound on it.                                  *)
EXTENDS AgentSchedules, WellFoundedInduction, TLAPS

USE SchedulesAssumption

-------------------------------------------------------------------------------
(* The operators.                                                              *)

(* The naturals are well ordered: what Min picks is the least.                 *)
LEMMA MinOfNaturals ==
  ASSUME NEW S \in SUBSET Nat, S # {}
  PROVE  Min(S) \in S /\ \A t \in S : Min(S) <= t
<1>1. PICK m \in S : \A t \in S : <<t, m>> \notin OpToRel(<, Nat)
  BY NatLessThanWellFounded, WFMin
<1>2. \A t \in S : ~(t < m)
  BY <1>1 DEF OpToRel
<1>3. \A t \in S : m <= t
  BY <1>2
<1> QED
  BY <1>3 DEF Min

(* A run window is the start of the minute of its instant.                     *)
LEMMA WindowStartsMinute ==
  ASSUME NEW t \in Nat
  PROVE  ScheduleRunWindow(t) \in 0 .. t /\ ScheduleRunWindow(t) % TicksPerMinute = 0
<1>1. ScheduleRunWindow(t) \in 0 .. t
  BY DEF ScheduleRunWindow
<1>2. PICK k \in Int : t = (k * TicksPerMinute) + (t % TicksPerMinute)
  BY t = ((t \div TicksPerMinute) * TicksPerMinute) + (t % TicksPerMinute),
     t \div TicksPerMinute \in Int
<1>3. ScheduleRunWindow(t) = k * TicksPerMinute
  BY <1>2 DEF ScheduleRunWindow
<1>4. (k * TicksPerMinute) % TicksPerMinute = 0
  BY SMTT(30)
<1> QED
  BY <1>1, <1>3, <1>4

(* Between a window and the next run there is no other match of the cron, and  *)
(* without a next run there is none within the horizon.                        *)
LEMMA NextRunIsNext ==
  ASSUME NEW cron \in Crons, NEW w \in Nat, w % TicksPerMinute = 0
  PROVE  LET next == NextCronRun(cron, w) IN
         /\ next \in Nat \cup {None}
         /\ next # None => \A t \in cron : t > w => next <= t
         /\ next = None => GapAfter(cron, w)
<1> DEFINE limit == w + TicksPerMinute + Horizon
           later == {t \in cron : w < t /\ t <= limit}
<1>1. later \in SUBSET Nat /\ limit \in Nat /\ ScheduleRunWindow(w) = w
  BY DEF ScheduleRunWindow
<1>2. NextCronRun(cron, w) = IF later = {} THEN None ELSE Min(later)
  BY <1>1 DEF NextCronRun
<1>3. CASE later = {}
  <2>1. ASSUME NEW t \in cron, t > w PROVE t > limit
    BY <1>1, <1>3, <2>1
  <2> QED
    BY <1>2, <1>3, <2>1 DEF GapAfter
<1>4. CASE later # {}
  <2>1. Min(later) \in later /\ \A t \in later : Min(later) <= t
    BY <1>1, <1>4, MinOfNaturals
  <2>2. ASSUME NEW t \in cron, t > w PROVE Min(later) <= t
    BY <1>1, <2>1, <2>2
  <2>3. NextCronRun(cron, w) \in Nat
    BY <1>1, <1>2, <1>4, <2>1
  <2> QED
    BY <1>2, <1>4, <2>2, <2>3
<1> QED
  BY <1>3, <1>4

-------------------------------------------------------------------------------
(* The inductive invariant is a matter of each schedule by itself: what the    *)
(* columns hold, that handoffs match the runs, and that every window before    *)
(* the next run has been posted.                                               *)
Columns(row, runsOf, postedOf, forcedOf) ==
  /\ row \in ScheduleRows
  /\ runsOf \in [Instants -> {"NONE", "FAILED", "SUCCEEDED"}]
  /\ postedOf \in [Instants -> Nat]
  /\ forcedOf \in SUBSET Instants
  /\ \A w \in Instants : runsOf[w] # "NONE" => w % TicksPerMinute = 0

Matches(runsOf, postedOf) ==
  \A w \in Instants : postedOf[w] = IF runsOf[w] = "SUCCEEDED" THEN 1 ELSE 0

PassesNoneOver(row, postedOf) ==
  row.exists /\ row.cron # None =>
    \A w \in row.cron \cap Instants :
      row.first <= w /\ (row.next = None \/ w < row.next) =>
        \/ postedOf[w] = 1
        \/ /\ row.next = None
           /\ \E v \in Instants : v < w /\ postedOf[v] = 1 /\ GapAfter(row.cron, v)

KeepsUp(row, runsOf, postedOf, forcedOf) ==
  /\ Columns(row, runsOf, postedOf, forcedOf)
  /\ Matches(runsOf, postedOf)
  /\ PassesNoneOver(row, postedOf)

SchedulesKeepUp ==
  /\ now \in Instants
  /\ schedule \in [Schedules -> ScheduleRows]
  /\ runs \in [Schedules -> [Instants -> {"NONE", "FAILED", "SUCCEEDED"}]]
  /\ posted \in [Schedules -> [Instants -> Nat]]
  /\ forced \in [Schedules -> SUBSET Instants]
  /\ \A s \in Schedules : KeepsUp(schedule[s], runs[s], posted[s], forced[s])

LEMMA InitKeepsUp == Init => SchedulesKeepUp
BY DEF Init, SchedulesKeepUp, KeepsUp, Columns, Matches, PassesNoneOver, NoSchedule,
       ScheduleRows, Instants

-------------------------------------------------------------------------------
(* One run of one schedule, as it ends.                                        *)

(* A failure is recorded over no success, and posts nothing.                   *)
LEMMA FailureKeepsUp ==
  ASSUME NEW row, NEW runsOf, NEW postedOf, NEW forcedOf, NEW w \in Instants,
         KeepsUp(row, runsOf, postedOf, forcedOf),
         runsOf[w] # "SUCCEEDED", w % TicksPerMinute = 0
  PROVE  KeepsUp(MarkFailed(row), [runsOf EXCEPT ![w] = "FAILED"], postedOf, forcedOf)
BY DEF KeepsUp, Columns, Matches, PassesNoneOver, MarkFailed, ScheduleRows

(* The window that is posted now is the last before the run that comes next.   *)
LEMMA NextRunPassesNoneOver ==
  ASSUME NEW row \in ScheduleRows, NEW postedOf \in [Instants -> Nat],
         PassesNoneOver(row, postedOf), row.next # None,
         ScheduleRunWindow(row.next) \in Instants
  PROVE  LET w == ScheduleRunWindow(row.next) IN
         /\ NextRunAt(row, w) \in Nat \cup {None}
         /\ PassesNoneOver([row EXCEPT !.next = NextRunAt(row, w)], [postedOf EXCEPT ![w] = 1])
<1> DEFINE w == ScheduleRunWindow(row.next)
           next == NextRunAt(row, w)
           later == [row EXCEPT !.next = next]
<1>1. row.next \in Nat /\ w \in Nat /\ w <= row.next /\ w % TicksPerMinute = 0
  BY WindowStartsMinute DEF ScheduleRows
<1>2. CASE row.cron = None
  BY <1>2 DEF NextRunAt, PassesNoneOver, ScheduleRows
<1>3. CASE row.cron # None
  <2>1. row.cron \in Crons /\ next = NextCronRun(row.cron, w)
    BY <1>3 DEF NextRunAt, ScheduleRows
  <2>2. next \in Nat \cup {None}
    BY <1>1, <2>1, NextRunIsNext
  <2>3. /\ next # None => \A t \in row.cron : t > w => next <= t
        /\ next = None => GapAfter(row.cron, w)
    BY <1>1, <2>1, NextRunIsNext
  <2>4. ASSUME row.exists, NEW t \in row.cron \cap Instants, row.first <= t,
               next = None \/ t < next
        PROVE  \/ t = w \/ postedOf[t] = 1
               \/ next = None /\ w < t /\ GapAfter(row.cron, w)
    <3>0. t \in Nat
      BY <2>1
    <3>1. CASE t > w
      BY <2>2, <2>3, <2>4, <3>0, <3>1
    <3>2. CASE ~(t > w)
      <4>1. t < row.next \/ t = w
        BY <1>1, <3>0, <3>2
      <4> QED
        BY <1>1, <1>3, <2>4, <4>1 DEF PassesNoneOver
    <3> QED
      BY <3>1, <3>2
  <2>5. /\ later.exists = row.exists /\ later.cron = row.cron
        /\ later.first = row.first /\ later.next = next
    BY DEF ScheduleRows
  <2>6. PassesNoneOver(later, [postedOf EXCEPT ![w] = 1])
    <3>1. /\ [postedOf EXCEPT ![w] = 1][w] = 1
          /\ \A t \in Instants : postedOf[t] = 1 => [postedOf EXCEPT ![w] = 1][t] = 1
      OBVIOUS
    <3> HIDE DEF w, next, later
    <3> QED
      BY <2>4, <2>5, <3>1 DEF PassesNoneOver, w
  <2> QED
    BY <2>2, <2>6
<1> QED
  BY <1>2, <1>3

(* A success is posted once; a forced one leaves the next run as it stands.    *)
LEMMA SuccessKeepsUp ==
  ASSUME NEW row, NEW runsOf, NEW postedOf, NEW forcedOf, NEW w \in Instants,
         NEW force \in BOOLEAN, NEW taken \in SUBSET Instants, NEW runsNow, NEW postedNow,
         KeepsUp(row, runsOf, postedOf, forcedOf),
         runsOf[w] # "SUCCEEDED", w % TicksPerMinute = 0,
         ~force => row.next # None /\ w = ScheduleRunWindow(row.next),
         runsNow = [runsOf EXCEPT ![w] = "SUCCEEDED"],
         postedNow = [postedOf EXCEPT ![w] = InsertedOnce(@)]
  PROVE  KeepsUp(Succeeded(row, w, force), runsNow, postedNow, taken)
<1>1. postedNow = [postedOf EXCEPT ![w] = 1] /\ postedNow \in [Instants -> Nat]
  BY DEF KeepsUp, Columns, Matches, InsertedOnce
<1>2. Matches(runsNow, postedNow)
  BY <1>1 DEF KeepsUp, Columns, Matches
<1>3. /\ runsNow \in [Instants -> {"NONE", "FAILED", "SUCCEEDED"}]
      /\ \A t \in Instants : runsNow[t] # "NONE" => t % TicksPerMinute = 0
  BY DEF KeepsUp, Columns
<1>4. /\ Succeeded(row, w, force) \in ScheduleRows
      /\ PassesNoneOver(Succeeded(row, w, force), postedNow)
  <2>1. CASE force
    <3>1. Succeeded(row, w, force) = row /\ row \in ScheduleRows
      BY <2>1 DEF Succeeded, KeepsUp, Columns, ScheduleRows
    <3> QED
      BY <1>1, <3>1 DEF KeepsUp, PassesNoneOver, Columns
  <2>2. CASE ~force
    <3>1. row.next # None /\ w = ScheduleRunWindow(row.next)
      BY <2>2
    <3>2. row \in ScheduleRows /\ postedOf \in [Instants -> Nat] /\ PassesNoneOver(row, postedOf)
      BY DEF KeepsUp, Columns
    <3>3. /\ NextRunAt(row, w) \in Nat \cup {None}
          /\ PassesNoneOver([row EXCEPT !.next = NextRunAt(row, w)], [postedOf EXCEPT ![w] = 1])
      BY <3>1, <3>2, NextRunPassesNoneOver
    <3>4. Succeeded(row, w, force) = [row EXCEPT !.next = NextRunAt(row, w)]
      BY <2>2, <3>2 DEF Succeeded, ScheduleRows
    <3> QED
      BY <1>1, <3>2, <3>3, <3>4 DEF ScheduleRows
  <2> QED
    BY <2>1, <2>2
<1> QED
  BY <1>1, <1>2, <1>3, <1>4 DEF KeepsUp, Columns

-------------------------------------------------------------------------------
(* Several schedules, one after the other.                                     *)
LEMMA RunsKeepUp ==
  ASSUME SchedulesKeepUp, NEW ran \in SUBSET Schedules, NEW window \in [ran -> Instants],
         NEW failing, NEW force \in BOOLEAN,
         \A s \in ran : window[s] % TicksPerMinute = 0,
         ~force => \A s \in ran : /\ schedule[s].next # None
                                  /\ window[s] = ScheduleRunWindow(schedule[s].next),
         RunSchedules(ran, window, failing, force)
  PROVE  SchedulesKeepUp'
<1> DEFINE fresh == {s \in ran : ~Skips(s, window[s])}
           fails == fresh \cap failing
           posts == PostsHandoff(fresh, failing)
<1>1. ASSUME NEW s \in Schedules
      PROVE  KeepsUp(schedule'[s], runs'[s], posted'[s], forced'[s])
  <2>1. KeepsUp(schedule[s], runs[s], posted[s], forced[s])
    BY DEF SchedulesKeepUp
  <2>2. CASE s \in fails
    <3>1. s \notin posts
      BY <2>2 DEF PostsHandoff
    <3>2. /\ schedule'[s] = MarkFailed(schedule[s])
          /\ runs'[s] = [runs[s] EXCEPT ![window[s]] = "FAILED"]
          /\ posted'[s] = posted[s] /\ forced'[s] = forced[s]
      BY <2>2, <3>1 DEF RunSchedules
    <3> QED
      BY <2>1, <2>2, <3>2, FailureKeepsUp DEF Skips
  <2>3. CASE s \in posts
    <3>1. s \in fresh /\ s \notin fails
      BY <2>3 DEF PostsHandoff
    <3>2. /\ schedule'[s] = Succeeded(schedule[s], window[s], force)
          /\ runs'[s] = [runs[s] EXCEPT ![window[s]] = "SUCCEEDED"]
          /\ posted'[s] = [posted[s] EXCEPT ![window[s]] = InsertedOnce(@)]
          /\ forced'[s] = IF force THEN forced[s] \cup {window[s]} ELSE forced[s]
      BY <2>3, <3>1 DEF RunSchedules
    <3>3. s \in ran /\ window[s] \in Instants /\ runs[s][window[s]] # "SUCCEEDED"
      BY <3>1 DEF Skips
    <3>4. /\ window[s] % TicksPerMinute = 0
          /\ ~force => schedule[s].next # None /\ window[s] = ScheduleRunWindow(schedule[s].next)
      BY <3>3
    <3>5. forced'[s] \in SUBSET Instants
      BY <3>2, <3>3 DEF SchedulesKeepUp
    <3> HIDE DEF fresh, fails, posts
    <3>6. KeepsUp(Succeeded(schedule[s], window[s], force), runs'[s], posted'[s], forced'[s])
      BY <2>1, <3>2, <3>3, <3>4, <3>5, SuccessKeepsUp
    <3> QED
      BY <3>2, <3>6
  <2>4. CASE s \notin fails /\ s \notin posts
    BY <2>1, <2>4 DEF RunSchedules
  <2> QED
    BY <2>2, <2>3, <2>4
<1>2. /\ now' \in Instants
      /\ schedule' = [s \in Schedules |-> schedule'[s]] /\ runs' = [s \in Schedules |-> runs'[s]]
      /\ posted' = [s \in Schedules |-> posted'[s]] /\ forced' = [s \in Schedules |-> forced'[s]]
  BY DEF RunSchedules, SchedulesKeepUp
<1>3. \A s \in Schedules :
        /\ schedule'[s] \in ScheduleRows
        /\ runs'[s] \in [Instants -> {"NONE", "FAILED", "SUCCEEDED"}]
        /\ posted'[s] \in [Instants -> Nat]
        /\ forced'[s] \in SUBSET Instants
  BY <1>1 DEF KeepsUp, Columns
<1>4. /\ schedule' \in [Schedules -> ScheduleRows]
      /\ runs' \in [Schedules -> [Instants -> {"NONE", "FAILED", "SUCCEEDED"}]]
      /\ posted' \in [Schedules -> [Instants -> Nat]]
      /\ forced' \in [Schedules -> SUBSET Instants]
  BY <1>2, <1>3
<1> QED
  BY <1>1, <1>2, <1>4 DEF SchedulesKeepUp

LEMMA RunNowKeepsUp ==
  ASSUME SchedulesKeepUp, NEW s \in Schedules, RunScheduleNow(s)
  PROVE  SchedulesKeepUp'
<1> DEFINE window == [r \in {s} |-> ScheduleRunWindow(now)]
<1>1. PICK failing : RunSchedules({s}, window, failing, TRUE)
  BY DEF RunScheduleNow
<1>2. now \in Nat /\ now <= MaxTime
  BY DEF SchedulesKeepUp, Instants
<1>3. ScheduleRunWindow(now) \in Instants /\ ScheduleRunWindow(now) % TicksPerMinute = 0
  BY <1>2, WindowStartsMinute DEF Instants
<1>4. window \in [{s} -> Instants] /\ \A r \in {s} : window[r] % TicksPerMinute = 0
  BY <1>3
<1>5. {s} \in SUBSET Schedules /\ TRUE \in BOOLEAN
  OBVIOUS
<1> HIDE DEF window
<1> QED
  BY <1>1, <1>4, <1>5, RunsKeepUp

LEMMA RunDueKeepsUp ==
  ASSUME SchedulesKeepUp, NEW failing, RunDueSchedules(failing)
  PROVE  SchedulesKeepUp'
<1> DEFINE window == [s \in Due |-> ScheduleRunWindow(schedule[s].next)]
<1>1. RunSchedules(Due, window, failing, FALSE)
  BY DEF RunDueSchedules
<1>2. ASSUME NEW s \in Due
      PROVE  /\ schedule[s].next # None
             /\ ScheduleRunWindow(schedule[s].next) \in Instants
             /\ ScheduleRunWindow(schedule[s].next) % TicksPerMinute = 0
  <2>1. s \in Schedules /\ schedule[s].next # None /\ schedule[s].next <= now
    BY DEF Due
  <2>2. schedule[s].next \in Nat /\ now \in Nat /\ now <= MaxTime
    BY <2>1 DEF SchedulesKeepUp, ScheduleRows, Instants
  <2> QED
    BY <2>1, <2>2, WindowStartsMinute DEF Instants
<1>3. window \in [Due -> Instants] /\ \A s \in Due : window[s] % TicksPerMinute = 0
  BY <1>2
<1>4. \A s \in Due : schedule[s].next # None /\ window[s] = ScheduleRunWindow(schedule[s].next)
  BY <1>2
<1>5. Due \in SUBSET Schedules
  BY DEF Due
<1> HIDE DEF window
<1> QED
  BY <1>1, <1>3, <1>4, <1>5, RunsKeepUp

LEMMA NextKeepsUp == SchedulesKeepUp /\ [Next]_vars => SchedulesKeepUp'
<1> SUFFICES ASSUME SchedulesKeepUp, [Next]_vars PROVE SchedulesKeepUp'
  OBVIOUS
<1>1. ASSUME NEW s \in Schedules, NEW cron \in Crons \cup {None}, NEW next \in Instants,
             NEW paused \in BOOLEAN, NEW policy \in {"RETRY", "PAUSE"},
             CreateSchedule(s, cron, next, paused, policy)
      PROVE  SchedulesKeepUp'
  <2> DEFINE row == [exists |-> TRUE, cron |-> cron, first |-> next, next |-> next,
                     paused |-> paused, policy |-> policy]
  <2>1. row \in ScheduleRows
    BY DEF ScheduleRows, Instants
  <2>2. KeepsUp(row, runs[s], posted[s], forced[s])
    BY <2>1 DEF SchedulesKeepUp, KeepsUp, Columns, PassesNoneOver, Instants
  <2>3. schedule' = [schedule EXCEPT ![s] = row] /\ UNCHANGED <<now, runs, posted, forced>>
    BY <1>1 DEF CreateSchedule
  <2> HIDE DEF row
  <2> QED
    BY <2>1, <2>2, <2>3 DEF SchedulesKeepUp
<1>2. ASSUME NEW s \in Schedules, NEW paused \in BOOLEAN, SetSchedulePaused(s, paused)
      PROVE  SchedulesKeepUp'
  <2> DEFINE row == [schedule[s] EXCEPT !.paused = paused]
  <2>1. row \in ScheduleRows /\ KeepsUp(row, runs[s], posted[s], forced[s])
    <3>1. schedule[s] \in ScheduleRows /\ KeepsUp(schedule[s], runs[s], posted[s], forced[s])
      BY DEF SchedulesKeepUp
    <3>2. /\ row \in ScheduleRows
          /\ row.exists = schedule[s].exists /\ row.cron = schedule[s].cron
          /\ row.first = schedule[s].first /\ row.next = schedule[s].next
      BY <3>1 DEF ScheduleRows
    <3> HIDE DEF row
    <3> QED
      BY <3>1, <3>2 DEF KeepsUp, Columns, PassesNoneOver
  <2>2. schedule' = [schedule EXCEPT ![s] = row] /\ UNCHANGED <<now, runs, posted, forced>>
    BY <1>2 DEF SetSchedulePaused
  <2> HIDE DEF row
  <2> QED
    BY <2>1, <2>2 DEF SchedulesKeepUp
<1>3. CASE Tick
  BY <1>3 DEF Tick, SchedulesKeepUp, Instants
<1>4. CASE UNCHANGED vars
  BY <1>4 DEF vars, SchedulesKeepUp
<1> QED
  BY <1>1, <1>2, <1>3, <1>4, RunNowKeepsUp, RunDueKeepsUp DEF Next

-------------------------------------------------------------------------------
(* Handoffs match the runs and no window is passed over, after every step of   *)
(* ticks, forced runs, pauses and failures (service.ts).                       *)
THEOREM SchedulesAreKept == Spec => []SchedulesKeepUp
BY InitKeepsUp, NextKeepsUp, PTL DEF Spec

(* Every column keeps its type and a run window is the start of a minute.      *)
THEOREM ScheduleRowsAreTyped == Spec => []TypeOK
<1>1. SchedulesKeepUp => TypeOK
  BY DEF SchedulesKeepUp, TypeOK, KeepsUp, Columns
<1> QED
  BY <1>1, SchedulesAreKept, PTL

(* A window that has succeeded has one handoff and every other has none.       *)
THEOREM WindowsAreHandedOffOnce == Spec => []RunsMatchHandoffs
<1>1. SchedulesKeepUp => RunsMatchHandoffs
  BY DEF SchedulesKeepUp, RunsMatchHandoffs, KeepsUp, Matches
<1> QED
  BY <1>1, SchedulesAreKept, PTL

(* Every window of the cron expression before the next run has its handoff.    *)
THEOREM MissedWindowsAreRun == Spec => []NoWindowIsPassedOver
<1>1. SchedulesKeepUp => NoWindowIsPassedOver
  BY DEF SchedulesKeepUp, NoWindowIsPassedOver, KeepsUp, PassesNoneOver
<1> QED
  BY <1>1, SchedulesAreKept, PTL
===============================================================================
