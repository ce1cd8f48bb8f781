# Verification of the Hybrid Command Center

TLA+ models of the server's own logic, the TLC runs that check them on small
instances, and TLAPS proofs of the properties that matter most. Paths are
relative to the repository's root; `service.ts` alone is
`server/publish/service.ts`.

- [The system](#the-system)
- [Modules](#modules)
- [The publisher](#the-publisher)
- [Confirmations and Signal's media](#confirmations-and-signals-media)
- [The Buffer path](#the-buffer-path)
- [Handoffs, work sessions and keyed calls](#handoffs-work-sessions-and-keyed-calls)
- [Schedules](#schedules)
- [Change feeds and MCP sessions](#change-feeds-and-mcp-sessions)
- [Assistant turns and Drive writes](#assistant-turns-and-drive-writes)
- [Runs](#runs)
- [What the code does otherwise than its documents](#what-the-code-does-otherwise-than-its-documents)
- [Proofs](#proofs)
- [Not modelled, and the plan](#not-modelled-and-the-plan)

## The system

One Node process serves an operator's web client, agents over MCP (HTTP and
stdio) and a small socket for tips. State is one SQLite database, reached
through a synchronous driver: a handler without an `await` is atomic, and a
handler with one gives way to every other handler there. The process talks to
Post Bridge and Buffer (publishing), Google Drive, advertising APIs and model
providers. There is no job queue and almost no recovery at start: what was under
way when the process stops is simply gone, and the rows stay as they were.

| Component | State it keeps | Operations | Hard behaviour | What makes it correct |
|---|---|---|---|---|
| Publisher, Post Bridge path (`server/publish/service.ts`, `reconcile.ts`, `post-bridge.ts`) | `signal_publications`, one row per submission, a unique index over the live rows of a post | submit, reconcile, cancel, release, restore and resubmit, update content, update schedule | awaits between every read and write, lost answers, overlapping checks, a provider that moves on, crashes | no post goes out twice; a row settles only when nothing can go out; a delivery is learned |
| Publisher, Buffer path (`service.ts`, `server/publish/buffer/`) | `signal_publication_targets`, one provider post per account | submit target by target, check, cancel, edit, finish by hand | some targets answer and others do not; checks cross cancels | the aggregate says what the targets say |
| Plan builder (`server/publish/plan.ts`) | none | post and targets to a request, refusals and a hash | – | the hash changes with whatever is sent |
| Provider inventory (`inventory.ts`) | a snapshot with a time stamp | refresh by a paged walk | pages shift during the walk; the stamp is the end | evidence for a release is never older than it says |
| Publish confirmations (`confirmations.ts`) | requests PENDING, EXECUTING and decided | request, approve, deny, expire | two-phase around an asynchronous submission, crash while executing | one execution per approval; every request is decided |
| Signal posts (`server/signal/service.ts`) | posts with a revision, media, platform layers, campaigns | edit, recheck, retire, delete | an edit waits for Drive between reading and writing | no edit is lost under another |
| Agent handoffs (`server/agent-coordination/service.ts`) | `agent_handoffs`, notes, replay keys | post, claim, complete, cancel, note | calls of agents in any order, retries | one claimer; what is over stays over |
| Agent work sessions (`work-sessions.ts`) | `agent_work_sessions` with leases | start, heartbeat, wait, block, complete, release, reclaim, respond | leases run out unnoticed, late calls | one session works on a handoff |
| Agent schedules (`server/agent-schedules/`) | schedules and their runs by window | run now, run due, pause | the two share run windows | a due window runs once, and the next comes |
| Assistant turns (`server/agent-assistant/`) | a row per conversation at work, approvals | send, cancel, approve, decline | provider and tool calls under a lock found by conversation | one turn at a time; no write without its approval |
| Change feeds (`server/change-feeds.ts`) | a pruned log with cursors | record, read after a cursor | a reader behind the retention | no event is skipped silently |
| MCP sessions and authorisation (`server/mcp/`, `server/auth/`) | sessions with a ring of events, codes, credentials | create, resume, prune, exchange, rotate | reconnects, expiry, limits | codes work once; gaps are told |
| Drive (`server/drive/`) | an approval queue for agents' writes, folder ids | request, decide, provision | leases around asynchronous writes | one write per approval |
| Tasks, clients, imports, playbooks | tables | synchronous transactions | cyclic dependencies, stale revisions | acyclic; no lost update |
| Budgets and limiters (`server/budgets.ts`, `server/mcp/write-limiter-registry.ts`) | windows and gates in memory | count, admit | boundaries of the window | never above the limit |

How they meet: the client and the MCP tools call the same services; the
publisher reads plans that Signal's operations write meanwhile; a confirmation
calls the publisher's submit; the planner's timer calls its automatic check; a
schedule posts a handoff; a work session lives on a handoff; nearly every write
records a change-feed event, of which a subscribed MCP session is tipped, and an
integration-log line, which no decision of the modelled components reads.

`PROJECT.json` lists all components under "components" and, under "hazards",
what in this code a test would hardly reach, each at its line.

## Modules

| Module | What it is |
|---|---|
| `PublicationStates` | the states of publications and provider posts, and the sets of them the code tells apart |
| `Publishing` | the publisher, its rows, its handlers under way, Post Bridge, and its properties |
| `SubmissionLock` | what the publisher promises: a lock per post around a submission |
| `PublishingInvariant` | the inductive invariants `Consistent` and `ContentCarried` |
| `PublishingProof` | theorems about the rows, the posts and the lock, and about what is sent |
| `SignalPosts` | the media of a post, its editors, Drive, and the revision precondition |
| `ApprovedWrites` | what the three queues of agents' writes promise: confirmations, Drive writes and the assistant's tools |
| `PublishConfirmations` | requests to publish, approvals and what they lead to |
| `SignalDesk` | the two composed: what the editors store is the plan that is previewed (`INSTANCE PublishConfirmations WITH plan <- stored`) |
| `SignalDeskProof` | theorems about `SignalPosts`, and about requests in `SignalDesk` |
| `BufferPublishing` | the Buffer path: a post per target, checks, cancels and edits |
| `BufferPublishingProof` | theorems about `BufferPublishing` |
| `Coordination` | handoffs and work sessions with the clock, their properties and the inductive invariant `Accountable` |
| `HandoffCalls` | `Coordination` under calls that carry a `client_request_id`, with notes |
| `CoordinationProof` | theorems about `Coordination` and `HandoffCalls` |
| `AgentSchedules` | schedules, their run windows and the handoffs they post |
| `AgentSchedulesProof` | theorems about `AgentSchedules`, with its inductive invariant `SchedulesKeepUp` |
| `ChangeFeed` | one change feed, its retention, its readers, backup and restore |
| `McpSessions` | `ChangeFeed` with the HTTP sessions over which its readers are tipped |
| `McpSessionsProof` | theorems about `ChangeFeed` and `McpSessions`, with their inductive invariant `SessionsInvariant` |
| `AssistantTurns` | the turns and approvals of one conversation |
| `AssistantTurnsProof` | theorems about `AssistantTurns` |
| `DriveWrites` | the queue of agents' Drive writes |
| `DriveWritesProof` | theorems about `DriveWrites` |
| `MC…` | constants, symmetries and constraints of the instances |

Operators marked `(* mutant *)` are what a plausible slip in the code would make
of the definition below them. They are used by no specification: `PROJECT.json`
"mutants" says which definition each replaces and which property then fails.

## The publisher

**State.** `pub[p]` is a row of `signal_publications`: its state, whether the
provider's id is known, the snapshot of what was sent and `check_attempts`.
`plan[post]` is what Signal holds now. `remote[p]` is what Post Bridge holds for
the submission: a request on its way (SENT), a post waiting (SCHEDULED), being
sent, settled, refused or gone, and the accounts reported so far. `op[o]` is a
handler: the await it is at and the locals it will still read.

**Actions.** One per stretch of code between two awaits.

| Code | Actions |
|---|---|
| `submit()`: read, refusals and hash gate, upload, INSERT and POST, answer | `SubmitBegin`, `SubmitGate`, `SubmitInsert`, then `SubmitAnswered`, `SubmitFailed` or `SubmitLost` |
| `reconcileAfterAnsweredSubmit()` | the handler of `SubmitAnswered` goes on as a check |
| `reconcile()`, `check()` | `CheckBegin`, `CheckAnswered` or `CheckUnread`, `CheckRecorded` |
| `applyProviderAction()`: comparison with its token | `CompareBegin`, `CompareAnswered` |
| … cancel, restore: DELETE and record | `Withdraw`, `ProviderWithdraws`, `WithdrawRecorded`, `ReplaceFailed`, `Resubmit` |
| … release | `Release` |
| … update of content or schedule, `commitProviderUpdate()` | `UpdateBegin`, `UpdateSend`, `ProviderPatches`, then `UpdateRecorded`, `UpdateErred` or `UpdateLost` |
| any refusal or exception before a write | `Abandon` |
| the process stops | `Crash` |
| Signal's edit of a post | `Edit` |
| Post Bridge, and people working in it | `ProviderAccepts`, `ProviderRefuses`, `ProviderStarts`, `ProviderReports`, `ProviderSettles`, `ExternalDelete`, `ExternalEdit` |

Every UPDATE of a row goes through `Written`, which is the unique index: a
second live row of a post rolls the transaction back.

**Errors.** `request()` of `post-bridge.ts` calls an error ambiguous only where no
status came; any status but success is a refusal, also a 500 or a gateway's 502
and 504 after the post was taken. So `SubmitFailed` and `UpdateErred` may happen
whatever the provider has done or will still do. Such a submission is FAILED without
an id (`Erred`), nothing asks after it again and its post may be submitted anew: the
properties say what holds nevertheless, and that this is the only hole. A success
whose body cannot be read is a post in SUBMITTED (`AnsweredStates`, `CheckUnread`).

**Abstractions.** A plan is a caption, a value that stands for media and
per-account tailoring, and an instant. The plan's hash is the plan itself; the
code's also covers `updated_at`, so there an edit that was undone is refused too,
and the model allows more. The
token of a comparison covers the row, the plan and the provider's record, so
the model begins a comparison only where it offers the action (`CompareBegin`)
and lets the re-read record differ (`CompareAnswered`). Wall-clock time is left
out: an automatic check may be due at any moment, and a waiting post may start at
any moment, which is more than the code allows. Account lists that change and
the text of errors are left out, and so are *Publish now* (an instant that is
always null) and the provider's DRAFT state, which this app never asks for.
After a crash the request already sent may still arrive; a crash between the
INSERT and the POST leaving is the same behaviour with a request that never does.

## Confirmations and Signal's media

`SignalPosts` has the two lists a post's media live in (its own and those of its
platform layers). An edit reads the revision and the stored list (`Begin`), waits
for Drive (`Resolve`) and writes in one transaction that requires the revision its
caller had read (`Write` with `RevisionHolds`). A recheck sends the stored list
through the same resolution, looking one file up again; it neither requires nor
advances the revision. `DriveChanges` is somebody's edit in Drive.

`PublishConfirmations` follows one post: `Create` stores the plan shown;
`Claim` is the conditional UPDATE of an approval; `PreviewAgain`, `BeginSubmit`,
`Insert` and the answer are the four waits of its route and of `submit()`. An
answer with an id is `Answered`, after which the handler may check the post once
(`Checked`); any other is `Unanswered`, told as failed or uncertain whatever the
provider does (`ProviderDecides`). `Decide` is `updateDecision`, which writes over
whatever the row holds. Once its id is known a row goes from any state to any other
(`Settle`: later checks, updates, withdrawals and releases), as far as the unique
index lets it (`Allowed`). Publications made without a request (`PublishDirectly`)
compete for the live row. A retry of a request finds its row and changes nothing.
The plan's hash is the plan.

An edit is refused when the revision has moved, but a recheck moves none and writes
back the list it had read before it waited for Drive, so it undoes what was stored
meanwhile and the next edit is not refused for it. `saw` is what the caller of an edit
was shown and `crossed` whether a recheck has reverted a list since: the edit replaces
what its caller saw, with that one exception (`EditsReplaceWhatWasSeen`).

## What the queues of writes promise

Three parts of the system let an agent ask for a write that a person must allow:
confirmations to publish, writes to Drive, and the writing tools of the assistant.
The code shares nothing between them; the tables, the clean-up and the ways of
failing differ. `ApprovedWrites` is what they promise alike. Of each request it has
`told`, what its row tells the agent, and `sent`, what has become of it outside:
*no*, *maybe* while a call is open, and then *yes* or *never* for good. A request is
sent after the yes and once; it is told *declined* only where nothing has left or
will, *done* only where the outside has acted, and *uncertain* only where something
was sent; told answers are final. *Failed* is the weakest: nothing leaves any more,
but what had left may have been acted upon, or may be later, because all three call
errors failures that came after the effect.

`PublishesAsPromised`, `WritesAsPromised` and `ToolsRunAsPromised` say that the three
implement it, each under its own mapping (`Told`, `Sent`). For a publication `sent`
is `reached`, what the provider has made of the POST, and *done* is the decision
APPROVED, written after an answer with an id. For Drive *maybe* is a call under way,
awaited or not, so a call that Drive carries out after its answer was lost turns a
request that is already *uncertain* or *failed*. For the assistant it is a tool under
way, which ends with the process; the row of an approved tool stays APPROVED, so
*done* does not occur. The promise has no step back: an approval answered twice, an
executing request told as expired, an unanswered submission told as published or a
second call for one request are steps it does not have.

## The Buffer path

Buffer gets a post per target. `BufferPublishing` sends them in the plan's order
(`SubmitBuffer`, then `CreateAccepted`, `CreateFailed` or `CreateAmbiguous`),
reads them back one by one (`StartCheck`, `ReadTarget`, then `CheckFails` or
`FinishCheck`) and cancels
or edits one (`BeginAction`, `BufferActs`, `RecordCancel`, `RecordEdit`). The
state of the row is computed as the code does it in three places
(`SubmittedState`, `CheckedState`, `RecomputedState`); a cancelled target is known
by its error text alone, which a check and an edit clear. The transport turns a
success whose body it cannot read into `{}`, which the write client calls a definite
refusal, and an error status may come after the create was taken: `CreateFailed`
happens whatever Buffer has done. No answer leaves the post SENT, and Buffer may
still take it. What an edit sends is left out.

## Handoffs, work sessions and keyed calls

Every operation is one synchronous transaction and one action of `Coordination`,
with the guard of its `decide…` or `canMutate` function and the writes of its
UPDATEs. The clock advances between operations and never backwards. `Start`
requires a claim and no live session; `Heartbeat` and `Transition` ask for the
owner and an active state and, like the code, not for a running lease; `Reclaim`
is the operator's and reopens the handoff where it is still claimed. A call that
is answered with the row unchanged (a second claim by the claimer, a second
completion) is a stutter. The states PLANNED and CLAIMED of a session are
declared in `shared/agent-work-sessions.ts` and written by no operation, so the
model has no such state.

`HandoffCalls` adds the calls that agents repeat when an answer was lost. `keys`
is `agent_handoff_mutations`, of which the newest `KeyLimit` (500 in the code) are
kept; a call looks its key up first (`Replay`), then applies and records
(`AddHandoffNote`, `CompleteHandoff`, `CancelHandoff`), or is refused and records
nothing (`Refuse`). The key of a post is a column of the handoff (`PostKeyed`).

## Schedules

A run is one transaction and a tick of the deployment handles all due schedules
without a pause, so `RunDueSchedules` and `RunScheduleNow` are one action each,
with the set of schedules whose run fails as their input. Time is counted in
ticks of a fraction of a minute, because a run window is an instant cut down to its
minute; a cron expression is the set of instants it matches. `nextCronRun` looks at
the minutes of 366 days and then gives up (`Horizon`); a schedule with no next run is
over, also one that matches again later, such as a 29 February. `forced` remembers
the windows that *Run now* took: a due run of such a window is skipped without
moving `next_run_at`, so the schedule stands still until a person changes it.

## Change feeds and MCP sessions

`ChangeFeed` keeps the rows of one feed, the newest `Retention` of them, and for
each reader its cursor and, as history, what it has not read. `ReadChanges` is
`readChangeFeed` with its three answers: the tip, an expiry, a page.
`RestoreBackup` puts the rows and their numbers back; a reader whose cursor is
ahead of the restored feed has outrun it and is left out of the claims.

`McpSessions` has the registry as the sequence of ids in the Map's iteration
order, because pruning and the size limit rely on it, a ring of the last messages
of each session, and clients that subscribe, listen, disconnect, come back with
`Last-Event-ID`, are told 404 and start afresh. `Change` records an event and
tips whoever subscribed.

## Assistant turns and Drive writes

`AssistantTurns` is one conversation. `SendMessage` takes its row; the turn waits
for the provider or a tool (`CallReadTool`), ends (`EndTurn`), or stores an
approval and leaves the row to it (`AskApproval`). `Approve` runs the tool without
an abort signal (`ExecuteTool`, `EndResponse`); `RespondTooLate`, `Decline` and
`CancelTurn` end it otherwise. A crash empties what is in memory and leaves the
tables.

A message holds 4000 characters and neither the provider's text nor a tool's result
is cut to that. The text of a turn that asks for an approval is inserted after the
approval was committed and before the row is retained (`turn.ts:405`): where that
throws, the turn clears its row and the approval stays pending (`AskFails`, which
`stranded` remembers). It can then be answered over the row of a later turn, so that
two pieces of work share the conversation. The result of an approved tool is inserted
outside any `try` (`turn.ts:550`): where that throws, nothing removes the row
(`EndFails`, which `left` remembers). `WorkHoldsTheRow`, `PendingIsAwaited` and
`TurnsEnd` hold but for these two, and `ToolsRunAsPromised` holds through both.

`DriveWrites` is the queue of requests. Every operation cleans it first
(`Cleaned`): what waited a day expires, what executed for an hour is uncertain,
and what is decided loses its bytes. An approval claims its request, calls Drive
and records the outcome if the lease has not run out. `AnswerLost` and `Crash`
leave a call that Drive may carry out later (`WritesLate`). `isUncertainProviderError`
knows five codes and a few words; a premature close, an abort, an answer without an
id, or an event that cannot be recorded after the write is told as a failure, so
`Outcomes` allows FAILED after every call. The limit on bytes and folder requests,
which have none, are left out.

## Runs

| Run | Instance | Shows |
|---|---|---|
| `SubmitRaces` | 1 post, 2 submissions, 2 handlers, budget 2, one instant and the plan without a date | `TypeOK`, `WaitingIsLiveOrErred`, `TwiceOnlyAfterAnError`, `CancelledNeverWentOut`, and that the publisher implements `SubmissionLock` (`LockSpec`) |
| `UpdateRaces` | 1 submission, 2 handlers, 2 captions, 2 instants, two plans at a time | `WaitingIsLiveOrErred` while updates race with withdrawals and checks; `SubmitSendsWhatWasConfirmed` |
| `DeliveryLearned` | 1 submission, 2 handlers, 2 accounts, budget 1 | `DeliveryIsLearned`, under fairness |
| `SignalDesk` | 1 list, 1 file with 2 versions, 2 editors, revisions to 3, 1 request, 2 approvals, a publication without a request | `ApprovedPlanIsSent`, `RequestIsSentOnce`, `EditsReplaceWhatWasSeen`, and that publishing by request implements `ApprovedWrites` (`PublishesAsPromised`) |
| `BufferPublishing` | 2 submissions, 2 targets | `VerdictCoversEveryAnswer`, `CancelledStayedHome`, `DoubledOnlyAfterUnknown` |
| `Coordination` | 1 handoff, 2 agents, 3 sessions, leases of 1 and 2, time to 3 | `TypeOK`, `SharedOnlyByLateRenewal`, `ClaimMovesOnlyByReclaim`, `OverStaysOver` |
| `HandoffCalls` | 2 handoffs, 2 agents, 1 request id, 2 keys kept, 2 notes | `RetriesAreAnsweredAlike`, `AnswersAreOnesOwn`, `NotesRepeatOnlyWhenForgotten` |
| `AgentSchedules` | 1 schedule, 3 expressions, 2 ticks a minute, a horizon of 1 minute, time to 7 | `RunsMatchHandoffs`, `NoWindowIsPassedOver`, `DueRunsHappen` |
| `McpSessions` | 1 reader, 1 other agent, 3 sessions of which 2 are kept, retention 2, pages of 1, a ring of 1, 3 events | `CursorsSkipNothing`, `ExpiryMeansLoss`, `UntippedOnlyWhenForgotten`, `SessionsInUseStay` |
| `AssistantTurns` | 3 turns, 2 operator sessions, 2 answers at once, 2 tool calls, a cap of 3 | `WorkHoldsTheRow`, `PendingIsAwaited`, `TurnsEnd`, and that the tools implement `ApprovedWrites` (`ToolsRunAsPromised`) |
| `DriveWrites` | 3 requests in a queue of 2, 2 approvals | `WrittenOnce`, `BytesGoWhenDecided`, `RequestsAreDecided`, and that the queue implements `ApprovedWrites` (`WritesAsPromised`) |
| `ConfirmedTargets` | the instance of `BufferPublishing` | the counterexample to `ConfirmedMeansEveryTarget` |

**Why these bounds.** Two submissions of one post are the least at which a
duplicate can happen and one handler is overtaken by another; a third adds no new
pair, and the theorems hold for any number. A restore needs one handler and both
ids, and its rival the second handler. Budget 2 lets overlapping automatic checks
both be within it and one give up. Two instants and two captions are enough for
both halves of a post to differ; the constraint `MCTwoPlans` of `UpdateRaces` keeps
Signal, the row and the provider from holding three different plans at once, which
is more than a half that is kept or replaced can show, and leaves the plan without
a date, with which no content is sent, to `SubmitRaces`. Two accounts are needed for
a partial delivery. In `Coordination` an agent can lose its claim while a session
of it is active only when two sessions of its were on the handoff; the third
session is that of the agent who comes next. Time to 3 lets a lease of 1 run out,
be renewed late and run out again, beside a lease of 2.

In `SignalDesk` two approvals race for one request, and the request with a
publication made without one for the live row, which stands for another request as
well (`Rival` and `Live` ask only whether some row is live); a file of two versions is what an edit, a recheck or a preview can find
changed, and three revisions let one edit be overtaken by another. In
`BufferPublishing` two targets make every mixture of outcomes and two submissions
a double. `HandoffCalls` keeps 2 keys out of up to 6, so that keys are forgotten;
sessions and the clock are switched off there, because no keyed call reads them.
`AgentSchedules` sees four minutes, enough for missed, forced and failed windows in
a row, with two ticks a minute so that a forced run falls inside a window; one of the
expressions has a gap that is longer than the horizon, the others none. There is one
schedule, because a run touches its own row only. In `McpSessions` retention,
ring and registry overflow with 3 events and 3 sessions, and `Others` crowds the
registry. `AssistantTurns` needs a turn that leaves something behind, one that
follows and one that is late; `DriveWrites` a queue with one more request than
its limit.

`Horizon`, `MaxAttempts`, `DailyTurnCap`, `MaxToolCalls`, `PendingLimit`, `KeyLimit`,
`Retention`, `Limit`, `SessionMax`, `Ttl` and `Buffer` are the code's own limits made
small; `MaxTime`, `MaxNotes`, `MaxEvents`, `MaxMessages`, `MaxVersion` and
`MaxRevision` bound what the code does not. All runs switch deadlock checking off,
because the system may rest: no id is left to draw and nothing waits, or the
clock has reached its bound.

**Symmetry** is over the ids of handlers, publications, agents, handoffs, sessions,
approvals and editors, and in `UpdateRaces` over captions and instants,
which are only compared: nothing distinguishes them. Runs that check liveness use
none.

**Fairness.**

- `Publishing`: weak fairness of every handler under way, since its await is
  answered, fails, or the handler throws, and the HTTP clients time out. For each
  publication, strong fairness of a person's manual refresh, of the answer to a
  check and of its record: somebody keeps pressing *Refresh delivery*, and neither
  the provider nor the process fails every single check. Nothing is assumed of the
  provider's progress, of automatic checks, or of the absence of crashes. Without
  the person the code makes no such promise: automatic checks end at their budget.
- `AgentSchedules`: weak fairness of a tick on which nothing fails. The deployment
  ticks every minute, and a schedule that fails every time never runs.
- `AssistantTurns`: weak fairness of each turn and of each response. Provider calls
  have an abort signal and turns a wall-clock limit; an error ends them as an answer
  does. Nothing is assumed of the operator. A crash, and a result that does not fit a
  message, release from the claim.
- `DriveWrites`: weak fairness of time passing and of somebody listing the queue,
  which the operator's client does when it is opened. Nothing is assumed of
  approvals or of Drive.

## What the code does otherwise than its documents

`ConfirmedTargets` is the one disagreement that a run demonstrates: `reconcileBuffer()`
skips the targets without a remote id, so a submission one of whose targets Buffer
refused becomes CONFIRMED when the others are published, though
`docs/publishing-integration.md:814` says that "every target reported success".

The others were met while modelling and are part of the models as the code has
them; the properties say what holds nevertheless.

- A check or update that was under way when its submission settled writes over the
  settled row, because both UPDATEs name only the id (`service.ts:885`).
  `docs/published-deletion-decision.md:89` calls those states terminal. What holds
  is `WaitingIsLiveOrErred`, `CancelledNeverWentOut` and, under fairness,
  `DeliveryIsLearned`; `SubmissionLock` has the step `Relock` for this.
- `check()` compares successes with the results reported so far
  (`post-bridge.ts:204`), so a check between two accounts' reports says CONFIRMED or
  FAILED of all. Later refreshes correct it.
- UPDATE_SCHEDULE sends the media of the plan as it is now (`service.ts:1663`) with
  the caption the provider has, though `shared/publish.ts:719` says that it leaves
  the content alone and the comment above it (`service.ts:1647`) that each update
  keeps the other half. No property claims it.
- Any error status is a refusal (`post-bridge.ts:85`), so a submission that Post Bridge
  answered with a 502 after taking it is FAILED and may be repeated, though
  `docs/publishing-integration.md:1147` counts such answers among the ambiguous. An
  update answered so puts back the state before it, with a log line that the provider
  still holds what it had. `WaitingIsLiveOrErred` and `TwiceOnlyAfterAnError` name the
  exception.
- A check whose success cannot be read counts as SUBMITTED (`post-bridge.ts:84`) and
  takes a settled row back; `DeliveryIsLearned` says that a later one corrects it.
- A success of Buffer with an unreadable body is told as a definite refusal
  (`server/publish/buffer/transport.ts:72`, `write-client.ts:48`), though the post is
  there. `DoubledOnlyAfterUnknown` counts it among the unanswered.
- Drive's errors after the effect are in part told as failures
  (`server/drive/agent-write.ts:383`), though that function is there to keep them apart.
  `WrittenOnce` and `WritesAsPromised` hold; that a failed request wrote nothing does not.
- A recheck writes back the media it read before it asked Drive, without a revision
  (`server/signal/service.ts:869`), and so undoes an edit stored meanwhile.
- A text too long for a message strands an approval whose turn is over
  (`server/agent-assistant/turn.ts:405`), and a tool's result too long for one keeps the
  conversation's row for good (`turn.ts:550`).
- A schedule whose next match is more than 366 days away ends
  (`shared/agent-schedules.ts:167`) as if it matched no more.
- A submission whose answer was lost has no provider id, no operation stores one
  later, and both checks and comparisons refuse a row without one
  (`service.ts:844`); `docs/publishing-integration.md:1152` promises that a person
  can adopt the post found.
- `check_attempts` is read before the await and written after it
  (`service.ts:871`), so overlapping automatic checks count as one.
- An agent whose lease ran out starts a second session and then renews the first
  (`server/domain/agent-work-sessions.ts:13`); both are live, though a start is refused
  where "another live work session already holds this handoff".
  `SharedOnlyByLateRenewal` says that this is the only way.
- A forced run that takes the window of a due one stops the schedule
  (`server/agent-schedules/service.ts:197`): every later tick skips the same window.
  `DueRunsHappen` names the exception.
- After a restore a feed uses the numbers of undone events again, so a reader whose
  cursor is ahead misses them; `docs/mcp-capability-plan.md:711` has it receive
  "exactly the changes it missed".
- A session that was pruned leaves its stream open, kept alive and never tipped again
  (`server/mcp/http-sessions.ts:126`).
- A turn cancelled while it waits for an approval, or a restart, leaves the
  conversation's row, and every later message of it is dropped after it was counted
  against the day's cap (`server/agent-assistant/turn.ts:273`, `:466`).
- A confirmation that was EXECUTING when the process stopped stays so
  (`server/publish/confirmations.ts:112` expires PENDING ones only). Drive's queue has
  a lease for the same case.
- A Buffer submission with one target refused and the other cancelled stays
  SUBMITTED (`service.ts:1207`) with nothing left to send.

## Proofs

`tlapm` checks every step of the eight `…Proof` modules. The theorems hold for any
finite or infinite sets of posts, submissions, handlers, plans, accounts, handoffs,
agents, sessions, requests, lists, files, turns, schedules and readers, under
assumptions on the constants:

| Assumption | What it says |
|---|---|
| `PublishingAssumption` | every id is drawn for one post, the budget is a positive number, `None` is no id |
| `CoordinationAssumption` | leases are positive numbers, the clock's bound is a number, `None` is no agent, handoff or number |
| `CallsAssumption` | at least one key is kept, the bound on notes is a number |
| `BufferAssumption` | a plan names at least one account, each once (the primary key of `signal_publication_targets`), and `Nobody` is no publication |
| `PostsAssumption` | the bounds on versions and revisions are positive numbers |
| `SchedulesAssumption` | a minute has at least one tick, the clock's bound and the horizon are numbers, crons match only starts of minutes, `None` is neither a number nor a cron expression |
| `FeedAssumption` | retention and page are at least 1, the bound on events is a number, `None` is no number |
| `SessionsAssumption` | the registry and the ring hold at least one entry, the time to live and the bounds are numbers, `None` is no session, and an agent is a reader of the feed or one that only takes up room, not both |
| `TurnsAssumption` | the caps are numbers, `None` is no turn and no session |
| `DriveAssumption` | the queue holds at least one request, `None` is no request |

**Publishing.** None of the safety properties is inductive: that CANCELLED means
nothing went out depends on what a handler between a withdrawal and its record knows
of the provider. `Consistent` adds it: rows follow posts (`RowFollowsPost`), nothing
is reported of a post that was not sent (`ReportsFollowPost`), each handler's locals
are still true of the provider or harmless to write (`HandlerKnows`, with
`MayWrite`), and no two submissions under way have drawn one id (`DistinctIds`).
`PublisherIsConsistent` proves it inductive with one lemma per action, and each
lemma proves the corresponding step of `SubmissionLock` as well. From it follow
`TypesAreKept`, `WaitingPostsAreLive`, `NoPostWaitsTwiceUnseen`,
`CancelledPostsStayHome`, and `PublisherIsALock`, the refinement `Spec => LockSpec`.
A submission that ended with an error status is one the lock has lost sight of
(`Lose`), which it can only before the id is known; afterwards the lock goes when
nothing waits. That the error of a submission is the only exception depends on the
other endings: an update's error puts back a state that was live or harmless, and a
check's unreadable answer writes a live one.

**Content.** `ContentCarried` says what a handler holds at the awaits where it is
about to send: at the upload the plan is the one confirmed, and at the POST the row's
snapshot is. That no update rewrites the snapshot of a submission still posting
follows from `Consistent`: the one has an id and the other has none.
`SubmissionsSendThePlanConfirmed` follows.

**Coordination.** `Accountable` strengthens the properties with what a row's columns
say of each other (`RowsAreWhole`) and with the reason two sessions can overlap at
all (`OlderHadLapsed`: when the younger began the older had expired, or it has been
renewed since). `TablesAreAccountable` proves it inductive; `ColumnsKeepTheirTypes`,
`OnlyLateRenewalShares`, `OnlyReclaimMovesClaims` and `WhatIsOverStaysOver` follow.

**Keyed calls.** `KeysAnswerForCalls` says where a remembered key is: each
remembered call has its key in the table at `Len(keys)` less the number of calls
recorded since, keys are distinct, a key holds the result of its latest call, and a
note's result is a note that the key's own request wrote. `KeysAreKept` proves it
inductive; recording a key drops the oldest, which shifts every other by one place.
`RetriesGetTheirAnswer`, `AnswersAreOfTheCaller` and `NotesAreWrittenOnce` follow.
`CallsAreOperations` is the refinement
`CallsSpec => Spec`: a keyed call is one operation of `Coordination` or leaves its
tables alone, so what is proved there holds of agents that repeat themselves.
`RetriesLeaveTheFinished` is the first instance of that.

**Schedules.** Nothing one schedule does touches another, so `SchedulesKeepUp` is
`KeepsUp` of each row by itself: its columns, one handoff to each window that
succeeded and none to another (`Matches`), and a handoff for every window of the
cron expression from the first the schedule had to the next it waits for, or to the
gap that ended it (`PassesNoneOver`). The last is inductive because `NextCronRun`
leaves out no match within the horizon (`NextRunIsNext`) and a forced run takes the window of the minute it falls in
(`WindowStartsMinute`). `SchedulesAreKept` proves it; `WindowsAreHandedOffOnce`,
`MissedWindowsAreRun` and `ScheduleRowsAreTyped` follow.

**The feed.** That no change slips behind a cursor depends on what a backup would
bring back. `FeedInvariant` therefore says the same of the feed and of its backup:
the numbers of the rows have no gaps (`Gapless`), and each reader's debt follows
them (`Follows`): an event recorded up to then is among the rows or older than all
of them, and every number past the cursor is owed. A cursor is no further than the
tip (`InStep`), but for the readers that a restore has outrun. Backing up copies one
half onto the other and restoring copies it back; recording trims from the old end
only (`NewestIsKept`).

**MCP sessions.** `ServerInvariant` says that the Map holds a session once and in
the order in which its sessions were last touched (`IsMap`), which is what makes the
first the oldest; that the ring holds the last messages without a gap
(`RingIsRecent`); and that no session is touched in the future. `AgentsInvariant`
says that a session has one agent, that both ends of a stream agree, and that an
agent which is behind has been tipped or has a tip waiting (`InTune`, `TipWaits`):
its first connection, a hole in the ring, or a message that will be replayed to it.
Each action is proved once for the feed and once for the registry, and both meet in
`SessionsAreInTune`. `NothingIsSkipped`, `OnlyLossExpires`, `ListenersAreTipped`,
`SessionsAreTyped` and the action property `SessionsAreNotForgotten` follow.

Next runs and the tip of a feed are extrema of sets of numbers. That a set of
naturals has a least element needs no induction here: `NatLessThanWellFounded` and
`WFMin` of the library take no operator, and `MinOfNaturals`, `MinOfNumbers` and
`MaxOfNumbers` follow from them.

**The Buffer path.** That a publication CANCELLED has nothing left at Buffer depends
on what a check or an action remembers from before its await. `RowsFollowBuffer`
therefore has three parts beside the types: each publication's target rows are true
of its posts (`PublicationIsTrue`), the check under way saw what is still so of
posts that cannot change (`CheckIsTrue`), and the target of the action under way has
been answered (`ActionIsTrue`). A fourth, `OneIsSettled`, says that of two
publications one is `Settled` (its posts are at their end, or were never answered
for, or it was checked before its submission was over), which is what keeps two
posts from going out unnoticed. `Goes` collects what no step of a publication
undoes, so that the check and the action of another are not touched by it. From
`RowsAreKept` follow `VerdictsAreBuffers`, `CancelledPostsAreGone`,
`DoublesHaveACause` and the types, `BufferRowsAreTyped`.

**Signal's desk.** `EditsFollowTheirReading` needs only `VersionsAreKnown`, with its
part `ReadingIsTrue`: as long as the revision is the one an edit expects, the lists
show what its caller saw unless a recheck has reverted one. It is inductive because
only an edit that moves the revision and such a recheck change what a list shows.
For the requests, `DeskIsOrderly` joins two invariants: every list and edit
holds versions that exist (`VersionsAreKnown`), which gives the plan its type, and
`RequestsAreHandledOnce`: no two approvals work on one request, each agrees with its
request and its publication, a request that waits or was declined has sent nothing,
an approved one is with the provider, an uncertain one may be, one that failed claims
nothing, and a publication made for a request carries that request's plan.
`WhatWasApprovedIsSent`, `RequestsAreSentOnce` and `DeskIsTyped` follow. An editor's
step stutters for the requests and the other way round, except that it changes the
plan.

**Turns and Drive writes.** `OneAtATime` joins `WorkHoldsTheRow`, `PendingIsAwaited`
and `OnlyApprovedWritesRun` with two facts: a turn that has asked for an approval is
over, and an approval is carried out by one response, whose tool has yet to run. The
first two hold until an approval is stranded, the other facts always, which is why
the refinement needs no exception.
`OncePerRequest` says that the approvals under way have different requests, that a
call still under way or late has not been carried out yet, that a row which says
that nothing was done, because it waits, was denied or expired, is one for which
nothing has left for Drive (`DeclinedRequestsWroteNothing`), and that one which
says APPROVED is one that Drive has carried out. Both are
inductive (`ConversationsAreOrderly`, `RequestsAreCalledOnce`), and the safety
properties of the two modules follow.

**The promise of approved writes.** `RequestsKeepThePromise`, `WritesKeepThePromise`
and `ToolsKeepThePromise` are the three refinements `Spec => Promise!Spec`, for any
number of requests and handlers. Each has one lemma per group of actions that bounds
what the action may do to one request's row and to what is outside (`Moves`), and one
that such moves between states of the inductive invariant are steps of
`ApprovedWrites` (`MovesAreSteps`). The invariants had to say more for this than the
safety properties need: that *done* and *uncertain* are true as well, not only
*declined*.

**Only model-checked:** the liveness properties `DeliveryIsLearned`,
`DueRunsHappen`, `TurnsEnd` and `RequestsAreDecided`, which with fairness and
`ENABLED` are beyond this prover. Every invariant and every action property that a
passing run checks is also a theorem. The inductive invariants were checked by TLC
on the runs' own instances before they were proved. No module has a RECURSIVE
operator.

## Not modelled, and the plan

What remains that has state and more than one actor, in the order of its weight:

1. **Provider inventory:** the paged walk against a list that shifts, and the
   evidence a release takes from it, in place of the free choice in
   `ReleaseOffered`. Until then a release is allowed more than the code allows.
2. **MCP authorisation:** one-time codes and the rotation of credentials, each one
   synchronous transaction, beside the sessions of `McpSessions`, which a revoked
   credential should end.
3. **Retiring and deleting posts** beside a submission that is still uploading
   (`server/signal/service.ts:931`): the publication is inserted for a post that was
   retired meanwhile.
4. **The operator's responses** to a blocked work session, whose replay is looked up
   after the state (`work-sessions.ts:281`), and `markTargetFinished`, a person's
   note on one target.
5. **Folders in Drive:** provisioning, where two requests may both create one.
6. **Budgets and limiters** in memory, with the boundary at which `rate-limit.ts` tells
   a caller to retry after 0 ms while its window is full.
7. **The plan builder, the dependency graph and the client merge:** pure functions or
   one transaction each, as operators over bounded inputs.

The models stand for a small part of the repository's lines, because most of
them are not state: the React client and its tests, the routes and schemas that
hand a request to a service, the descriptions of the MCP tools, SQL text,
migrations, formatting and the parsing of providers' answers. Where such code decides
something, the deciding lines are what the model has; the definitions of `Written`
or `Records` are examples.

Left out for good: rendering and formatting (`client/`), read-only figures
(analytics, ads, cost, health), file and object-store I/O (backup), deployment
scripts, and the vendors' services beyond what `src/` shows of them.
