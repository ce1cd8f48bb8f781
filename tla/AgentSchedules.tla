---------------------------- MODULE AgentSchedules ----------------------------
(* Scheduled agent runs (server/agent-schedules/service.ts): a schedule posts  *)
(* one ordinary handoff for each of its run windows.                           *)
(*                                                                             *)
(* Time is counted in ticks of which TicksPerMinute make a minute, because a   *)
(* run window is an instant cut down to its minute.  A run is one synchronous  *)
(* transaction and a tick of the deployment runs all due schedules one after   *)
(* the other without a pause, so each is one action.  What is left is the      *)
(* order of ticks, forced runs, pauses and failures over many windows.         *)
EXTENDS Integers, FiniteSetsExt

CONSTANTS
  Schedules,       \* the schedule ids that creations may draw
  Crons,           \* cron expressions, each the set of instants it matches
  TicksPerMinute,
  Horizon,         \* how far ahead a next run is looked for: 366 days
  MaxTime,         \* a bound on the clock
  None

ASSUME SchedulesAssumption ==
  /\ TicksPerMinute \in Nat \ {0}
  /\ MaxTime \in Nat /\ Horizon \in Nat
  /\ None \notin Nat /\ None \notin Crons
  /\ \A cron \in Crons : \A t \in cron : t \in Nat /\ t % TicksPerMinute = 0

VARIABLES
  now,
  schedule,  \* schedule[s]: the row of agent_schedules
  runs,      \* runs[s][w]: the status in agent_schedule_runs, "NONE" without a row
  posted,    \* posted[s][w]: how many handoffs carry the key of this window
  forced     \* forced[s]: the windows that Run now has posted (history)

vars == <<now, schedule, runs, posted, forced>>

Instants == 0 .. MaxTime

ScheduleRows == [exists : BOOLEAN,
                 cron   : Crons \cup {None},
                 first  : Instants,               \* next_run_at as created (history)
                 next   : Nat \cup {None},        \* next_run_at
                 paused : BOOLEAN,
                 policy : {"RETRY", "PAUSE"}]     \* failure_policy

NoSchedule == [exists |-> FALSE, cron |-> None, first |-> 0, next |-> None,
               paused |-> FALSE, policy |-> "RETRY"]

Init ==
  /\ now = 0
  /\ schedule = [s \in Schedules |-> NoSchedule]
  /\ runs = [s \in Schedules |-> [w \in Instants |-> "NONE"]]
  /\ posted = [s \in Schedules |-> [w \in Instants |-> 0]]
  /\ forced = [s \in Schedules |-> {}]

-------------------------------------------------------------------------------
ScheduleRunWindow(t) == t - (t % TicksPerMinute)

NextAfterNow(cron, after) ==                                         \* mutant
  LET later == {t \in cron : t > now} IN IF later = {} THEN None ELSE Min(later)

(* The next matching minute after the window that ran, so that the windows     *)
(* missed in a pause are run one by one.  The search goes on for the horizon   *)
(* from the following minute; where it finds none, the schedule has ended.     *)
NextCronRun(cron, after) ==
  LET limit == ScheduleRunWindow(after) + TicksPerMinute + Horizon
      later == {t \in cron : after < t /\ t <= limit}
  IN IF later = {} THEN None ELSE Min(later)

NextRunAt(row, w) == IF row.cron = None THEN None ELSE NextCronRun(row.cron, w)

(* insertHandoff finds a handoff of the same agent and client_request_id, a    *)
(* hash of the schedule and the window, and returns it instead.                *)
InsertedOnce(count) == IF count = 0 THEN 1 ELSE count

CreateSchedule(s, cron, next, paused, policy) ==
  /\ ~schedule[s].exists
  /\ schedule' = [schedule EXCEPT ![s] =
                    [exists |-> TRUE, cron |-> cron, first |-> next, next |-> next,
                     paused |-> paused, policy |-> policy]]
  /\ UNCHANGED <<now, runs, posted, forced>>

SetSchedulePaused(s, paused) ==
  /\ schedule[s].exists
  /\ schedule' = [schedule EXCEPT ![s].paused = paused]
  /\ UNCHANGED <<now, runs, posted, forced>>

SkipsTried(s, w) == runs[s][w] # "NONE"                              \* mutant

(* A window that has succeeded is skipped, and the row is left as it was.      *)
Skips(s, w) == runs[s][w] = "SUCCEEDED"

Succeeded(row, w, force) ==
  [row EXCEPT !.next = IF force THEN @ ELSE NextRunAt(row, w)]

(* markFailed, after the transaction of the run was rolled back.               *)
MarkFailed(row) == [row EXCEPT !.paused = @ \/ row.policy = "PAUSE"]

PostsAll(fresh, failing) == fresh                                    \* mutant

(* The handoff of a failed run is rolled back with its transaction.            *)
PostsHandoff(fresh, failing) == fresh \ failing

(* runSchedule, for each schedule of `ran` in its window.                      *)
RunSchedules(ran, window, failing, force) ==
  LET fresh == {s \in ran : ~Skips(s, window[s])}
      fails == fresh \cap failing
      posts == PostsHandoff(fresh, failing)
  IN /\ schedule' = [s \in Schedules |->
                       CASE s \in fails -> MarkFailed(schedule[s])
                         [] s \in posts -> Succeeded(schedule[s], window[s], force)
                         [] OTHER -> schedule[s]]
     /\ runs' = [s \in Schedules |->
                   CASE s \in fails -> [runs[s] EXCEPT ![window[s]] = "FAILED"]
                     [] s \in posts -> [runs[s] EXCEPT ![window[s]] = "SUCCEEDED"]
                     [] OTHER -> runs[s]]
     /\ posted' = [s \in Schedules |->
                     IF s \in posts
                     THEN [posted[s] EXCEPT ![window[s]] = InsertedOnce(@)]
                     ELSE posted[s]]
     /\ forced' = [s \in Schedules |->
                     IF s \in posts /\ force THEN forced[s] \cup {window[s]} ELSE forced[s]]
     /\ UNCHANGED now

(* Run now: paused or not, in the window of the clock.                         *)
RunScheduleNow(s) ==
  /\ schedule[s].exists
  /\ \E failing \in SUBSET {s} :
       RunSchedules({s}, [r \in {s} |-> ScheduleRunWindow(now)], failing, TRUE)

Due ==
  {s \in Schedules : /\ schedule[s].exists /\ ~schedule[s].paused
                     /\ schedule[s].next # None /\ schedule[s].next <= now}

(* POST /api/agent-schedules/run-due: a failing schedule does not keep the     *)
(* others from running.                                                        *)
RunDueSchedules(failing) ==
  /\ Due # {}
  /\ RunSchedules(Due, [s \in Due |-> ScheduleRunWindow(schedule[s].next)], failing, FALSE)

Tick ==
  /\ now < MaxTime
  /\ now' = now + 1
  /\ UNCHANGED <<schedule, runs, posted, forced>>

Next ==
  \/ \E s \in Schedules :
       \/ \E cron \in Crons \cup {None}, next \in Instants, paused \in BOOLEAN,
             policy \in {"RETRY", "PAUSE"} : CreateSchedule(s, cron, next, paused, policy)
       \/ \E paused \in BOOLEAN : SetSchedulePaused(s, paused)
       \/ RunScheduleNow(s)
  \/ \E failing \in SUBSET Schedules : RunDueSchedules(failing)
  \/ Tick

Spec == Init /\ [][Next]_vars

(* The deployment ticks at least once a minute, and not every tick fails.      *)
FairSpec == Spec /\ WF_vars(RunDueSchedules({}))

-------------------------------------------------------------------------------
(* Properties.                                                                 *)

(* Every column keeps its type, and a run window is the start of a minute.     *)
TypeOK ==
  /\ now \in Instants
  /\ schedule \in [Schedules -> ScheduleRows]
  /\ runs \in [Schedules -> [Instants -> {"NONE", "FAILED", "SUCCEEDED"}]]
  /\ posted \in [Schedules -> [Instants -> Nat]]
  /\ forced \in [Schedules -> SUBSET Instants]
  /\ \A s \in Schedules, w \in Instants :
       runs[s][w] # "NONE" => w % TicksPerMinute = 0

(* A failed run leaves no handoff behind and a successful one exactly one, so  *)
(* the retry of a failure does post and the retry of a success does not.       *)
RunsMatchHandoffs ==
  \A s \in Schedules, w \in Instants :
    posted[s][w] = IF runs[s][w] = "SUCCEEDED" THEN 1 ELSE 0

(* The expression matches no minute of the horizon after the window.           *)
GapAfter(cron, w) == \A t \in cron : t > w => t > w + TicksPerMinute + Horizon

(* Nothing is passed over: every window of the cron expression between the     *)
(* first run and the next has its handoff, whatever was paused, missed or      *)
(* failed on the way.  The exception are the windows after a gap of more than  *)
(* a year: the run before the gap ends the schedule for good.                  *)
NoWindowIsPassedOver ==
  \A s \in Schedules : schedule[s].exists /\ schedule[s].cron # None =>
    \A w \in schedule[s].cron \cap Instants :
      /\ schedule[s].first <= w
      /\ schedule[s].next = None \/ w < schedule[s].next
      => \/ posted[s][w] = 1
         \/ /\ schedule[s].next = None
            /\ \E v \in Instants : /\ v < w /\ posted[s][v] = 1
                                   /\ GapAfter(schedule[s].cron, v)

StandsAt(s, w) == s \in Due /\ schedule[s].next = w

(* A due run is done, or its window had been taken by Run now.                 *)
DueRunsHappen ==
  \A s \in Schedules, w \in Instants :
    StandsAt(s, w) ~> \/ schedule[s].next # w
                      \/ schedule[s].paused
                      \/ ScheduleRunWindow(w) \in forced[s]
===============================================================================
