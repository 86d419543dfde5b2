# TLA+ models of TGvive

TGvive is a Go server that copies messages from one Telegram channel to
another. A user creates *tasks* through an HTTP API; a started task is a
goroutine (a *run*) that first clones the history of the source channel and
then relays new messages until it is stopped. Everything interesting happens
between goroutines: HTTP handlers, runs, pollers, timers, the scheduler's
refresh, the shutdown, and the rows of a database that outlive the process.

This directory holds the models of that behaviour, the TLC configurations that
check them and the TLAPS proofs about them. `PROJECT.json` is the index: runs,
mutants of the modelled code that each property detects, the lines of source
behind every definition, findings, hazards and theorems.

    tlc -workers 2 -config MCLifecycleRaces.cfg MCTaskLifecycle.tla
    tlapm TaskLifecycleProofs.tla

## 1. The parts of the system

Paths are below `src/internal` unless they start with `src/`.

| Part | State it keeps | Operations | Hard behaviour |
|---|---|---|---|
| **Task manager and run lifecycle** `engine/dispatcher.go`, `engine/worker.go`, `api/v1/task.go`, `service/task.go` | per task: state (run id, status, counters), cancel function, publisher, all under `m.mu`; the `task` row | start, restart, pause, stop, edit, delete, poll; the phases of a run; shutdown | handlers of one task overlap; a stop cancels a run but does not wait for it, so old and new runs overlap; deferred releases go by task id; database statements lie outside the lock; the process may end anywhere |
| **Slot scheduler** `engine/scheduler.go` | per task: rules, current slot, used and reserved units, under `s.mu`; slot key and count in the row | RegisterTask, ReservePull, CommitPull, ReleasePull, PeekPull, refresh every minute and after every edit of a strategy | row and memory are reconciled by read-then-write on both sides without a common lock; slots that cross midnight |
| **Daily quota and run window** `engine/quota.go` | counter and date of a run; the row's `today_count` | waitForQuota, quotaAdd, the pause and resumption of a run | a run changes its status by itself while handlers do the same; the counter starts from a row copy |
| **Realtime relay** `engine/monitor.go`, `grouper.go`, `dedup.go` | per task: a queue of 512, album waiters and their channels, cursor; the album timers; the de-duplication window of ten minutes | dispatch of pushed messages, poll, enqueue, album flush, worker loop, unregister | pushes and polls race for the same message; timers against stops; a full queue refuses what is already marked; cursors only move forward |
| **Shared connection of an account** `engine/monitor.go` (`telegramRuntimeManager`) | per session file: one runtime with its client, ready channel, cancel function | start by the first task, wait by the others, reconnect, removal of the account | a start that fails or is cancelled with others waiting on it; two clients on one session file |
| **History clone** `engine/history.go` | `history_cursor` and `history_max_id` of the row | paging old to new, new to old, catch-up of what is newer | send and persist are two steps; a crash or stop in between; two orders share the cursor |
| **Send and publish pipeline** `engine/pipeline*.go`, `sender.go`, `media*.go`, `bot_publish.go`, `stream_transfer.go` | temporary files; the ids of the copies | forward, send by reference, download and upload, by account or bot; retries and fallbacks | lost answers, broken transfers, restricted channels, albums in chunks |
| **Comment mirroring** `engine/producer.go`, `comment*.go` | a SQLite file per task: queue of comments, mapping of discussion roots | queue a comment, flush, edit, restart | a comment arrives before its post is mapped; three goroutines flush; an edit meets a send |
| **Task database** `localdb/manager.go`, `engine/keep_reply.go` | the open connections by task id; the mappings of messages and a cache of them | open, close, destroy; record and look up a mapping | overlapping runs open twice or close under each other; deletion under a run |
| **Strategies and filters** `engine/strategy_cache.go`, `filter.go`, `keyword_*.go` | a cache of strategies without expiry | match, replace; change, delete, look up | a reader puts down what a handler has just replaced |
| **Logins and sessions** `engine/session.go`, `qr_auth.go`, `code_auth.go`, `api/v1/tg_account.go` | login sessions, pending and final session files | QR and code login, answers of the user, cancel, removal | two logins of one phone share a file; timer against confirmation |
| **Bots and proxy** `global/bot_store.go`, `global/proxy_runtime.go`, `engine/proxy_runtime.go` | a list and a configuration in memory and in files; the proxy of each client | add, edit, remove; change and apply to running clients | file against memory; clients dial while the proxy changes |
| **Statistics** `global/stats.go`, `global/stats_persist.go` | atomic counters, business day, numbered log, files | count, log, turn the day, flush, reload | atomics without a common lock; numbers after a crash |
| Utility packages `src/pkg/workerpool`, `src/pkg/retry`; media processors and watermarks; HTTP shell; frontend | none that steps could interleave on | | I/O, formatting, pure functions |

How they meet: a handler reads and writes the row, then calls the task manager.
The manager starts a run, which joins the shared connection of its account, sets up
its publisher, opens the task's database, clones (history, daily quota, pipeline),
registers with the slot scheduler and the realtime relay, and waits for its context
to end. The relay's worker asks the daily quota, then the scheduler, then sends,
then commits to the scheduler and the quota and advances the cursor in the row.
Every send records a mapping in the task's database, and the mapped post releases
the comments that waited for it. Refreshes of the scheduler, polls of the UI and
edits of a task write the same row at any time; changes of strategies, bots and the
proxy reach running tasks through stores in memory.

What makes each part correct, in a sentence: at most one live run per task, known
to the manager and able to be stopped, and nothing of an old run in the way of a
new one (*lifecycle*); no slot grants more than its limit, and none is switched
under a reservation (*scheduler*); no more units a day than the limit, and a count
that tells the truth (*daily quota*); a message is handled once, no refused message
stays marked, the worker is never left waiting (*relay*); the cursors in the row
never enclose a message nobody dealt with, whatever is interrupted (*history*); what
counts as done is in the target, whole, once, and answers the right message
(*pipeline*); a comment is mirrored once, none is forgotten, edits come through
(*comments*); connections are closed and mappings survive (*task database*); one
client per session file, no task waits for ever (*connection*); a login told to be
authorised has left a session that works (*login*); memory, file and users of
bots, proxy and strategies agree (*stores*); today's count is of today and log
numbers are unique (*statistics*).

## 2. The modules

| Module | What it is |
|---|---|
| `TaskLifecycle` | handlers, task manager, runs, shutdown and process restart for one task |
| `SingleRunner` | the abstract promise: runs are admitted one at a time and retire for good |
| `SlotRules` | the arithmetic of daily slots, and the interval each rule stands for |
| `SlotScheduler` | the slot quota of one task in memory and in the row, refresh, runs, poller, edits, restarts |
| `DailyQuota` | the count of the day of one task, in the row and in the goroutine that sends |
| `RealtimeRelay` | updates, poller, de-duplication, album grouping, queue and worker of one run |
| `HistoryClone` | the clone of one task in both orders, with the catch-up, over three starts |
| `ResumableCopy` | the abstract promise: a window of what is done that never takes in a message nobody dealt with |
| `Publishing` | how a unit gets to the target: three modes, publishers, fallbacks, retries, files, mappings |
| `CommentQueue` | the comments of one post from arrival to flush, their edits, and a restart |
| `TaskDatabase` | the connections to a task's SQLite file and the mappings in it |
| `AccountRuntime` | the shared connection of an account |
| `LoginFlow` | logins by QR and by code, and their session files |
| `StrategyCache`, `ProxyStore`, `BotStore` | a strategy and its cached copy; the proxy, its file and the clients; the bots and their file |
| `DashboardStats` | the counters, the business day and the log of the dashboard |
| `Engine` | ten parts next to each other: they have no state in common, so a behaviour moves one of them; the relay by EXTENDS, the others by INSTANCE over shared variables |
| `TaskLifecycleProofs`, `SlotSchedulerProofs`, `RealtimeRelayProofs`, `HistoryCloneProofs`, `PublishingProofs`, `CommentQueueProofs` | what is inductive of the module of that name, and theorems about it (section 4); `SlotSchedulerProofs` has those about `SlotRules` too |
| `KeptStateProofs` | the same for what the engine keeps beside the runs: `LoginFlow`, `AccountRuntime`, `ProxyStore`, `BotStore`, `TaskDatabase`, `DailyQuota`, `StrategyCache`, `DashboardStats`, each an instance under its own names |
| `EngineProofs` | the theorems about `Engine`: each part keeps its inductive invariant, whatever the constants |
| `MCTaskLifecycle`, `MCSlotScheduler`, `MCHistoryClone`, `MCCommentQueue`, `MCEngine` | instances for TLC |

A step is what the code does under one lock, one database statement, one request to
Telegram, one file operation, or what a goroutine does between two of them. Mutated
forms of definitions stand next to the original and say so; `PROJECT.json` tells
which property each violates.

### TaskLifecycle

All maps of the manager are keyed by task id and every operation touches one
key, so one task is enough. A step is what the code does under `m.mu`, one
database statement, or what a goroutine does between two of them; a handler is
therefore several actions (`UpdateTaskStatus` is `Arrive`, `ApplyTaskAction`,
then `StartTask`, or `StopTask` with `PersistSnapshot`, and so on), and between
any two of them other handlers, runs, the shutdown and a crash may move.

| Variable | Code |
|---|---|
| `row` | the `task` row: `status`, one progress counter, soft-deleted |
| `st` | `m.states[taskID]`: run id, status, completed, counter |
| `canceler`, `done` | `m.cancelers[taskID]` and the contexts that are cancelled |
| `pc`, `quota` | where `runTransferLoop` stands, and how far it is in `waitForQuota` |
| `held` | the `defer`s a run has registered and not yet run |
| `mark` | the snapshot `markCompleted` has read and will persist |
| `pub`, `reg`, `conn` | `m.publishers`, `tgRT.tasksByID`, `localdb.Default.conns` for the task, with the run that filled them |
| `req` | what each HTTP handler is doing, with its copy of the row |
| `down`, `doomed` | how far `Shutdown` is, and the cancel function it has taken |
| `finished` | history only: runs that completed, read by one property |

Abstracted: the six counters are always written together and are one counter;
the set-up of peers, sessions and media is one step that succeeds, fails or is
cancelled; history cloning is a number of recorded messages with a quota pause
between any two. The parts that get modules of their own appear only as far as
they hold something of the run.

### SlotScheduler

`SchedulerEngine.tasks` is keyed by task id as well: `st` is the entry of one
task, `row` its slot key and count in the database, `strat` the rules in the
strategy row. `pull[r]` is where a run stands between `RegisterTask`, `ReservePull`,
`CommitPull` or `ReleasePull` and the statement each issues after the unlock;
`ref[f]` is a goroutine inside `refresh()` between its SELECT, `applyRules`,
`syncPersistedState`, `computeNextRun` and its UPDATE; `peek` is the poller's
pending `persistSlotReset`. `now` moves freely, past midnight. A run that is
stopped lives on until it returns, with a cancelled context whose writes fail.
Every statement on the row or the strategy may fail, and the code goes on as if it had
not (`Writes`, `LoadRulesFails`, `LoadLatest`): what the row does not hold, the next
`syncPersistedState` grants again.

`calm` and `tally` are history variables for `QuotaKept`. `calm` says that nobody has
got in another's way so far and no statement has failed. `tally` follows the slot that
is open by the clock: the units granted in it (`n`) and its limit. When an entry finds
its rules rewritten, `applyRules` forgets what was used and the open slot's whole limit
may be granted once more (`scheduler.go:431-443`); the tally then begins a new round and
keeps the sums of the rounds before in `earlier` and `allowed`. A slot that another rule
overlaps is not tallied (`Apart`), since the code itself starts its quota again when it
comes back from the other. One simplification: two pollers do not have a pending
`persistSlotReset` at the same time; that of a cancelled poller fails.

### DailyQuota

`row` and the run's copy `task` hold a date and a count; `quota` is the `taskQuota` of
the goroutine that sends; `at` is where it stands between `waitForQuota` (*gate*), the
send, the day change seen by `quotaAdd` (*roll*) and its UPDATE (*count*). `start` and
`edit` are row copies in the hands of a starting handler and of `UpdateTask`, whose
`Save` writes the whole row. `wrong` records, for the two properties, what has
spoilt the count of the day: a counter made from an outdated copy (*blind*), a unit
that was not counted or a count that was overwritten (*lost*), a count carried over
into another day (*inflated*). The run window, the slot, the cost of a unit and
the limit 0 (none) are left out.

### RealtimeRelay

| Variable | Code |
|---|---|
| `queue`, `waiter`, `chans` | `runtimeTask.queue`, `albumWait` and the channels in it |
| `cursor`, `row` | `latestProcessedIDSnapshot` and the cursor column |
| `call` | `dispatchMessageToRuntimeTask`, by the goroutine of the updates and by the poller |
| `worker`, `poller` | `runtimeTask.run` and `startPoller` with the local variables of `pollOnce` |
| `seen`, `groups`, `fired` | `Deduper.entries`, `AlbumGrouper.groups`, batches a timer has taken and not delivered |
| `live`, `registered`, `done` | the context of the run, its entry in the maps, `runtimeTask.done` |

Telegram may push a message late, out of order, again or not at all. Filtering,
sending and failing are one outcome, *handled*. The de-duplication forgets a message
only when it is settled (`EarlyExpiry = FALSE`): it keeps marks for ten minutes,
and a queue that waits longer than that for its quota is the exception under which
a message may be queued twice.

### HistoryClone

`row` has the two cursors, `run` the local variables of the clone: phase (*catchup*,
*old*, *new*), cursor, page, unit, attempts. A page is up to `PageLimit` messages
next to the cursor; service messages take up room in a page and are not dealt with. For the
catch-up the code asks for the newest message alone and drops it if it is a service message
(`Latest`), so it finds nothing newer and skips the catch-up. Any request
may fail, any answer may be lost, and the run may be interrupted between any two
steps and started again up to `Starts` times. History variables: `sent` and
`torn` count arrivals and arrivals the cursor did not follow.

### Publishing

`setup` is the task (mode, publisher, edited files), `kind` what each message is, `job`
the call under way with its position in the fallbacks, `files` the temporary files with
those a `defer` removes and those whose write failed halfway (`torn`), `target` what has
arrived, in order, `cache` and `db` the mapping of ids. `Replies[m]` has what `m`
replies to, then the top of its thread, which `KeptReply` looks up in this order.
`NothingToDownload` is a medium that turns out to have no file (`ErrUnsupportedMedia`):
it ends the whole unit as if it were done, and `void` remembers it. One call is under
way at a time, because the feed of a task is sequential. KeepReply is on. Captions,
names, formats and thumbnails are left out.

### CommentQueue and TaskDatabase

`CommentQueue` has the table of comments (`rows`), the mapping of the two discussion
roots, the producer's channel and album buffer, the three flushing goroutines (`proc`)
with `sendMu` (`lock`), the pool of edit jobs (`jobs`, `work`) and what the mirrored
comment shows. The ids of roots, posts and comments are plain numbers of different
chats: a repair that takes one for another files the comments under the root of another
post, where they are not followed further (`Misfile`). Every statement may fail, and the
rule may be switched off at any time. `TaskDatabase` has the manager's table (`conns`),
the connections that are open, the progress of each run and of the deletion (`step`,
`hand`), and the mappings in cache and file. `orphans` are connections to a removed
file, `lost` those that a second `Open` has overwritten or a failed one has left open,
`unwritten` the mappings whose INSERT failed, `robbed` the runs whose connection another
actor took.

### AccountRuntime, LoginFlow

`AccountRuntime` numbers the runtimes of one session path in the order they are
created; `entry` is the one in the map, `ready`, `failed`, `cancel` and `stopped` its
channels and flags, `loop` its goroutine, `caller` each task's way through
`ensureTelegramForTask`, `remover` that of `RemoveTGAccount`. `LoginFlow` has the
stage of each login, the state published for the browser, the two session files per
path, the keys Telegram accepts, and the one-place channels into which the HTTP
handlers put code and password. A runtime's loop may end without finishing the start others
wait for (`EndsQuietly`, remembered in `stranded`), a login without a word (`EndQuietly`)
or with the process (`ProcessEnds`), which also may tear the session file being written;
`left` and `broken` remember the files concerned, `told` what the browser was told.

### StrategyCache, ProxyStore, BotStore, DashboardStats

Values are version numbers, so that old and new can be told apart. A handler of
`StrategyCache` changes the row and then the cache; a reader that missed the cache reads
the row and puts it down later. `ProxyStore` renames the file, sets the memory, lists
the runtimes and tells each; a client takes the proxy from memory whenever it dials.
`BotStore` copies the list, writes the file and makes the copy the list, under one lock.
A start that cannot read the file of either goes on with nothing (`unread`), and for the
bots the next change then leaves the others out of the file (`dropped`). In
`DashboardStats` every load and store of an atomic is a step; one counter stands for
success, fail and filtered, which the code treats alike.

## 3. What is checked

| Run | Question | Size (distinct states) |
|---|---|---|
| `lifecycle_races` | two handlers start and stop a task over three runs, with a publisher and crashes: `TypeOK`, `LiveRunIsCurrent`, `RunsAreAdmittedOnce` | 1.0 million |
| `lifecycle_handlers` | all seven operations, localdb, quota pauses, shutdown: `NothingLeaks`, `StaleRunInert` | 1.6 million |
| `lifecycle_drain` | under fairness, with shutdown and crash: `StoppedTaskDrains` | 0.4 million |
| `scheduler_quota` | one run at a time, poller, refresh, edits, restarts, clock, two slots, failing statements: `TypeOK`, `QuotaKept`, `SlotSwitchWaits` | 1.2 million |
| `history_clone` | both orders, three scopes, an album split by a page, three starts, interruptions anywhere, under fairness: `ResentOnlyIfTorn`, `DoneMeansComplete`, `CloneEnds`, `CloneCopies` | 0.7 million |
| `comments` | two comments, alone or an album, or one with two edits; a restart, every failure: `MirroredOnce`, `NotStranded`, `EditsReach` | 1.2 million |
| `engine_parts` | the ten parts of `Engine`, 21 invariants (below) and their types | 2.0 million |
| `lifecycle_scratch`, `lifecycle_delete`, `lifecycle_slots`, `scheduler_leak`, `history_service` | a comment of the code that the code does not keep; TLC shows the trace | small |

The properties of lifecycle, scheduler, history and comments:

- `LiveRunIsCurrent`: a goroutine whose context is alive is the one the manager
  can cancel, unless `Shutdown` has just taken its cancel function.
- `StaleRunInert`: a replaced run changes neither the manager's state nor the
  status column any more, wherever it was when it was replaced.
- `NothingLeaks`: once all runs have returned, publisher, registration and
  localdb slot are empty.
- `StoppedTaskDrains`: what a stopped task holds is released in the end.
- `RunsAreAdmittedOnce`: refinement of `SingleRunner` by `phaseBar`; a run is live
  from `StartTask` until its context is cancelled or its cancel function taken.
- `QuotaKept`: the units granted in a slot that no other overlaps stay within its limit,
  over stops, restarts and refreshes in the middle of a send; and within one limit more
  for each time an entry finds its rules rewritten, however little the edit changed. It
  says so as long as nobody sits between a read and a write of the slot quota while
  another does, no job is cut off by a stop, and no statement on row or rules has failed
  (`calm`). None of these conditions is decoration: without any of them the code breaks the
  limit, see section 5.
- `SlotSwitchWaits`: the slot is not switched under a pending reservation.
- `CloneCopies`: refinement of `ResumableCopy`. The window is what the next run will
  not look at again: up to the cursor (oldest first), or from the cursor to the
  maximum (newest first). It never takes in a message that was not sent, filtered
  or given up, although the newest-first clone writes the maximum before it sends.
- `ResentOnlyIfTorn`: a message arrives twice only after an arrival the cursor did
  not follow, or when a newest-first clone was interrupted before it had a cursor.
- `DoneMeansComplete`: a clone that ends as complete has dealt with all of its scope.
  Premise: no page consists of service messages only; the code takes such a page
  for the end of the history. If a newest-first clone found a service message as the newest
  one (`Blind`), only what `history_max_id` covers is claimed; that the rest is left out
  is the finding of `history_service`.
- `CloneEnds`: a clone that is not interrupted comes to an end.
- `MirroredOnce`: a comment is mirrored once, whatever flushes overlap, and again only
  after an arrival that could not be marked.
- `NotStranded`: once the roots are mapped and everybody rests, what is pending met an error
  or a rule that was off, or was filed under another post's root.
- `EditsReach`: an edit made while its comment is being sent comes through, except for the
  races and lost jobs named in section 5.

Those of `engine_parts`:

- relay: `HandledOnce` (push, polls and album parts of one message reach the worker
  once), `MarkedIsHeld` (no path of the dispatch leaves a mark behind that hides
  the message from later polls), `AlbumAnswered` (the worker waits on an album's
  channel without a timeout: somebody is always on the way to answer it);
- publishing: `SentOnce`, `Delivered`, `FilesWhole`, `TempFilesGone`, `RepliesRight`
  (one copy but for lost answers; done means in the target, if the media had something to
  download; no retry writes behind what an earlier one left; every return removes its
  files, but for a torn one; replies answer the copy of what their source answers, or of
  the top of its thread while that has none);
- logins: `SessionKept`, `PendingGone`; connection: `OneClient`, `WaitersReleased`;
- statistics: `TodayHonest`, `LogNumbersUnique`;
- task database: `HandlesAccounted`, `MappingKept`;
- daily quota: `DailyLimitKept`, `CountHonest`; stores: `CacheFollows`,
  `ProxyReaches`, `BotsKept`.

Several carry exceptions, each for something the code does and a history variable
records (*torn*, *raced*, *shared*, *wrong* and so on). Section 5 says what happens
then; the property says that nothing else goes wrong.

**Bounds.** `MaxRun` (2 or 3) runs per process life: two overlap in every race of old
and new, the third shows that a run two generations old is inert as well; a crash starts
the count again, so longer histories occur. `MaxCount` (0 or 1) messages: counters only
grow by one and are compared with an older copy of themselves, so one step tells old
from new. `Requests` (1 or 2): each handler works with its own copy, two give every
overlap of a read with a write. `DayLen` is 3 minutes, which has a slot over midnight,
one inside the day and a gap; one day (`LastDay`) has the end of yesterday's slot
`Night` = [2,1), the slot `Morning` = [1,2) and the next `Night`, so both switches and
their resets occur. `MaxUsed` is 2 with limits of 1 and 2, so that a limit could be
passed; it bounds the edits too, which go on only while what a slot has been allowed in
all stays within it. `Runs` has one run, which starts again after it has returned, and
there is one refresh: more of either, more days and overlapping slots are in the proofs,
which hold for any number. The rules are edited between two slots and none.

`history_clone` has five messages in pages of two: 1 is the service message every
channel starts with, 2 and 3 are an album split by the first page, 5 is a notice that
makes the catch-up blind; the scopes are all, ids 2 to 3, and two messages; three starts
let a run resume what a resumed run left. `comments` has two comments, which covers an
album and two of a batch of one, or one comment with two edits (`Mix`), so that an
edit meets another; a queue of one, two edit workers with one job waiting, and one
restart. The relay has a single and an album of two with a queue of one
and a poll budget of one, so that refusal, a second poll and a split album occur; once
its run has ended, which nothing undoes, only worker and poller are followed, since the
properties speak of a run that goes on and of what the worker handles (`RelayStep`).
Publishing has an album of two and a reply to it in the thread of another message,
chunks of one, two attempts and one fault per download. Logins, handlers, tasks, workers
and clients come in twos: two give every overlap. Versions and restarts are bounded by
the `Max` constants; two or three versions tell current, replaced and older. The daily
limit is 2 with room for 3 units and one midnight. The checked mutants show that these
bounds suffice to violate every property.

**Fairness.** `FairSpec` of `TaskLifecycle` asks for weak fairness of `Advance(r)`, the
steps that move a run's goroutine on, and of the steps of `Shutdown`: the Go scheduler
runs every runnable goroutine, and all waiting of a run, for Telegram or for its
quota, watches its context. The one property under fairness is about tasks that are
stopped, whose runs' contexts are cancelled. `Record`, which leaves the run where
it is, is not fair. `FairSpec` of `HistoryClone` asks for weak fairness of `Clone`, the
steps of the one goroutine that clones: its requests have deadlines and its
retries a limit. Handlers, posts, interruptions, crashes and clock have none: a user
need not start, stop or poll anything.

**Deadlock** is checked in the runs of the lifecycle and the scheduler. `history_clone`,
`comments` and `engine_parts` switch the check off: there a finite
supply of messages, starts, edits or versions is used up, and the parts may rest.

## 4. What is proved

For every value of the constants, by TLAPS: every invariant that a run checks, except
those named at the end of this section, and both refinements. Each theorem
rests on an inductive invariant, of which the property is one part or a consequence;
TLC checked the parts of it on the instances of section 3 before they were proved.

**Lifecycle** (`TaskLifecycleProofs`): `TypeOK`, `LiveRunIsCurrent`, `StaleRunInert`,
`NothingLeaks`, and the refinement `Spec => Runner!Spec`. The inductive
invariant is `IInv == TypeOK /\ FenceInv /\ SlotInv`. `FenceInv` says how
run ids fence the runs: ids above the current one are unused, the cancel
function in the map is that of the current run and it is alive, and every other
started run is cancelled or in the hands of `Shutdown`; `LiveRunIsCurrent` alone
is not inductive, since it does not say that the next run id is new. `SlotInv`
ties each of the three slots to a run that still has its release ahead; the
weaker `NothingLeaks` says nothing while runs are alive. `OneLiveRunHolds`
carries `SingleRunner`'s own invariant over through the refinement.

**Slots** (`SlotSchedulerProofs`): the key persisted for a slot, its end and its next
start agree with the interval the rule stands for, for every rule, time and length of
day (`KeyNamesTheSlot`, `SlotHasOneKey`, `KeyAndEndAgree`, `NextStartIsNext`);
`pickActiveSlot` picks an open slot that ends first (`PickedSlotEndsFirst`, by
three appeals to the least element of a set of numbers). `TypeOK` and
`SlotSwitchWaits`, from `IInv == TypeOK /\ (~st.known => st = NoState)`: without the
second part a first entry could inherit a reservation.

`QuotaKept` (`SlotQuotaIsKept`) compares units granted over the whole life of a slot with
a limit the code only checks against its own counter, so its invariant `QuotaInv` has to
follow that counter through memory, row and all copies in between, while it is calm:

- `RowFollows`: `RowIs(key, count)` says what the row holds once the statement under way,
  if there is one, has been executed; it is the key and the count of the state in memory,
  or, after the rules have been applied and before the row has been taken over, of a row
  nobody has touched. A restart loses memory and keeps this.
- `TallyInv`: what was granted before the last rewriting of the rules is within what was
  allowed then; what was granted since is within the limit, and at most that count, plus
  the one unit a job may still hold (`Owed`); or the slot is over by the clock and by that
  of every refresh under way (`Past`), and then nothing can be granted in it again.
- `SlotFits`: key, end and index of the state are those of one slot, so a reservation that
  finds the end it expects also has the key it expects (`KeyAndEndAgree`).
- `KeysSeen`: no key names a slot to come, so a switch to another key means that the
  slot that is left is over (`LeftIsOver`), provided no other overlaps it. A refresh that
  switches for the time at which it began needs `ClockInv`, and the rest of the above for
  that time too.
- `Copies`, `ForgetsIdle`, `ActiveIsLive`, `WipedBlank`: who holds a copy of the row, may
  drop the entry, or works at all, while the others wait their turn.

Outside `calm`, that is also after the first failed statement, the theorem says nothing,
and must not: section 5 lists what goes wrong.

**Relay** (`RealtimeRelayProofs`): `RelayInv` carries `AlbumAnswered` and
`MarkedIsHeld`. An album's channel belongs to one job (`OwnChannels`), and as long as
the run goes on a waiter is that of one job that is still unanswered
(`WaitersWait`); parts of an album stay with their album (`AlbumsApart`), and the run
ends for worker, poller and registration at once (`EndsWhole`). So whoever closes
a channel answers the one that waits on it. `MarkedIsHeld` names all the places a
marked message can be in. `OnceInv` carries `HandledOnce`: while the run goes on, a
message is in one place only, a call, a job, a batch of a group or a timer, an
answer or the worker (`OnceThere`), and what has not been handled yet lies in none
of them twice; what was handled is marked or below the cursor. Its theorem has two
hypotheses: `~EarlyExpiry`, for the ten minutes of the de-duplication (section 2),
and `~NewToOld`, since only a cursor that goes up says what was handled.

**History** (`HistoryCloneProofs`): the refinement `CloneCopies`, `ResentOnlyIfTorn`,
`DoneMeansComplete` and `TypeOK`. `PageInv` says what the run has in hand at each of
its steps, `OldInv`, `NewInv` and `CatchUpInv` where cursor and page of each phase lie
against the row, `RowInv` that a newest-first row is a window. On that rests `CopyInv`:
what the run has behind it is dealt with, in the order of its phase, and so is what the
row encloses. A step of the clone then moves the window of `ResumableCopy` only over
messages that are dealt with. `ResentInv` says of each message that it has arrived
as often as it was torn, and once more if the cursors keep it from coming again or it
is the unit in hand. `DoneInv` is about what was posted when the task was started, below
`history_max_id` if the run was blind to what is above it (`Blind`); its
theorem asks for two things beyond the premises of the property. `LastId <=
CatchUpLimit`: the catch-up stops without a word after 10 000 messages. And a range of
message 1 alone has nothing in it (`scope.max = 1 => 1 \in Services`): the clone begins at
cursor 1 and leaves before its first request, as the cursor is already at the end of
the range (`history.go:819`); message 1 of a channel is the notice of its creation.

**Publishing** (`PublishingProofs`): `PublishInv` carries the five properties of a
transfer. `JobInv` says what of the unit is sent, ready and waiting at each step, and
that only a bot's album is sent in parts; `CopiesInv` counts the copies of what is still
ahead against the answers that were lost; `ChunksInv` says that the parts that are
through are in the target, which gives `Delivered`; `FilesInv` that every file has its
deferred removal but for the one under download; `BytesInv` that a download starts with
an empty file; `RepliesInv` that every id in cache and table is that of a post of the
same unit, and the id the call has looked up that of the copy of one of the messages its
source answers, those to be tried before it having none. The exceptions (a torn file, a
unit with nothing to download) are exactly what one action each adds to `torn` and
`void`. The feed is any sequence of disjoint finite units (`FeedAssumption`).

**Comments** (`CommentQueueProofs`): `CommentInv` carries `TypeOK`, `MirroredOnce` and
`EditsReach`. `HandsInv` says what a goroutine has at each of its steps; `LockInv` that
who scans and sends has the lock; `RowInv` that what is in a batch is filed under the
root; `CopyInv` that nothing in a batch has a copy but the unit about to be marked,
which no other goroutine has: the scan reads what is pending only under the lock.
`EditInv` says what the producer knows of the row it is about to edit, `JobsInv` who may
be at work on a comment, and `ShownInv` that the mirrored comment shows the row or a job
is still to bring it over. `NotStranded` needs `CareInv` besides: once the roots are
mapped, everything pending that met no error has somebody who will still look at it (a
goroutine before its scan or with a cursor below it, a batch it is in, the album buffer,
boot's keys) while it is filed under this post. It holds for albums whose parts lie
together (`AlbumsTogether`): a scan that ends in an album takes its later parts in and
goes on behind the last of them (`comment_pending_send.go:537`), so a comment between
two parts would be passed over. Telegram numbers the parts of an album side by side.

**What is kept beside the runs** (`KeptStateProofs`):

- `DailyQuota`: the limit rests on the gate,
  which looks at the goroutine's counter, so the counter has to know every unit
  of the day but the one on its way (`QuotaKnows`), and so has the row, from
  which the next counter is made (`RowKnows`); a reset may forget nothing, because
  while a unit is under way no row is dated after its counter
  (`CounterLeads`); a unit that passed the gate still fits when it is sent
  (`RoomToSend`), and the row never counts it early (`RowHonest`).
- `TaskDatabase`: `HandlesAccounted`, from `HandleInv` (a connection being
  installed or closed is its actor's own and not in the table), and `MappingKept`,
  from `MappingInv`: a recording run that was not robbed finds a connection in the
  table (`StillThere`), and the one it writes through stays open (`WritesLand`),
  since whoever closes it took it off the table, and robbed the run, before. A mapping that
  an open connection refused is in `unwritten`, a connection a failed `Open` left in `lost`.
- `LoginFlow`: `SessionKept` and `PendingGone`, from `LoginInv`: a login that has its path
  to itself finds its own key where it left it (`KeyStored`), so what it moves to the
  final file is what it has authorised (`Kept`); a pending file has a login that will still
  move it or clean it up, or is one that a quiet end or the process left (`PendingHeld`).
- `AccountRuntime`: `OneClient` and `WaitersReleased`, from `RuntimeInv`: a runtime
  that was created is on the map, in the hands of a removal, or dealt with by it
  (`OnTheMap`); a start that has begun has a task or a loop that finishes it, or its loop
  is one of the `stranded` (`StartsFinish`).
- `DashboardStats`: `TodayHonest` and `LogNumbersUnique`, from `StatsInv`: once the
  counters' day is the calendar's, they count nothing from before midnight or somebody
  is about to zero them (`DayTurned`), and so for the flusher's copy and the file
  (`DiskHonest`); lines on their way are newer than any that a restart has seen.
- `StrategyCache`, `ProxyStore`: `CacheFollows` and `ProxyReaches`, which are
  inductive with the types; `BotStore`: `BotsKept`, from the lock: its holder
  alone has a changed copy, which is the list with one entry changed, and the
  file is that copy exactly between the write and the assignment.

**The parts together** (`EngineProofs`): every invariant that `engine_parts` checks is a
theorem about `Suite`. `PartsInv` says of each part that it keeps its inductive
invariant while it is the one that moves; the lemmas come from the modules above through
the same substitutions TLC uses. `TypesInv` adds the types that no other property needs.
Of the dashboard they take counting (`CallsCounted`): a counter has grown at most once
for each call, and a worker under way will make it grow once more, so no counter, no
saved one and no number of a line, also after a restart, exceeds the calls that were
made. Of the database, that a run about to write has a message (`MessageInHand`).

**Assumptions.** On constants: `ConstAssumption`, `DayLenAssumption`,
`SchedulerAssumption`, `RelayAssumption`, `HistoryAssumption`, `CommentAssumption`,
`EngineAssumption` and `SendAssumption` (the feed), which TLC evaluates on every run.
They say that bounds are natural numbers, rules are sequences of slots of the day, pages
and retries are positive, albums consist of messages and do not overlap, and that the
names of roles are not those of runs, logins or workers. Three theorems have hypotheses
of their own, given above with their reasons: `MessagesAreHandledOnce`, `DoneComplete`
and `NoCommentIsForgotten`.

**Only model-checked**: `StoppedTaskDrains` and `CloneEnds` (liveness under fairness is out
of the prover's reach). Every invariant that a passing run checks is proved.

## 5. Where code and comments disagree, and what the exceptions mean

Five runs show a comment the code does not keep (details in `PROJECT.json`):

- `ScratchAfterCompletion`: a completed task that is started again keeps its old
  counters; `ensureStateLocked` overwrites the status that `StartTask` then tests.
- `DeletedTaskHasNoWorker`: a start that has read the row may start a worker
  between the stop and the soft delete of `DeleteTask`.
- `RunKeepsItsSlots`: releases by task id: a replaced run takes the publisher or
  the registration of its successor with it.
- `ReservedMeansPending`: a refresh blanks the slot key under a reservation, the
  commit returns early, and the reservation keeps the slot from ever switching.
- `CaughtUp`: a newest-first clone that finds a service message as the newest skips the
  catch-up and ends as done; what was posted above `history_max_id` stays out until
  somebody posts an ordinary message.

The following was met while modelling and has no run of its own; where a property has
an exception, it is one of these.

*Lifecycle and scheduler.* A run that completes cancels its own context and then uses it to
write the status: the row says *running* for ever (`worker.go:353`, `473`). After a process restart the first stop or pause of a task
persists the zero counters of a new state over the row (`dispatcher.go:245`;
`model/task.go:114` says the counters survive restarts). A poll may overwrite the
state's status with an older row (`dispatcher.go:453`). `UpdateTask` has the same window
as `DeleteTask` between stop and save, and its `Save` writes cursors and counters it
read before (`service/task.go:173`). Two overlaps of the slot quota grant more than the
limit: a refresh that reads the row before a commit and synchronises after it, and a run
registered with an older copy of the row (`TakingTurns` names them); the poller's late
`persistSlotReset` may zero a count (`scheduler.go:737`). Overlapping rules have
different keys and one row: each switch resets the count of the other, so that a slot
which is left for an overlapping one that ends earlier starts its quota again afterwards
(`QuotaKept` does not follow such slots). Any rewriting of the rules, be it of a slot
that is not open, makes `applyRules` grant the open slot's whole limit again
(`scheduler.go:431-443`). Errors of the statements are logged or ignored
(`scheduler.go:358`, `553`, `566`, `731`, `737`, `826-831`): a count that was not
written is granted again after the next `syncPersistedState`, and so is one
`RegisterTask` could not read.

*Daily quota.* The relay starts with the count of the row copy that was read before
the clone (`worker.go:312` refreshes only the cursors): clone and relay may each send
the limit, and when the clone crosses midnight the relay's first look sets the
count of the day back to zero. A failing reset carries yesterday's count on under
today's date. The send waits for a slot after the gate, so it may happen on
another day or outside the run window.

*Relay.* Once a pushed message is handled, older ones only a poll could find lie below
the cursor for good, although `monitor.go:374` promises to catch up what arrived
between the clone and the relay; a poll without a cursor jumps to the newest message
(`monitor.go:424`). Parts of an album that arrive between the timer and the flush, or
without a waiter, are dropped (`strays`). The late cleanup of a replaced run may
drop the marks of its successor (`dedup.go:73`), and a late call of it may add to the
successor's album. Worker and poller write the cursor after the unlock, so it may go back.
The gauge of pending jobs is incremented after the send to the channel and may lose an
increment to a decrement that is clamped at zero (`monitor.go:234`).

*History.* "The last N" with the order old to new clones the oldest N
(`history.go:143` sets a count that the clone applies from the first message on). An
album split by a page goes out in two parts. A newest-first clone interrupted
before it has a cursor starts over and sends its page again. The catch-up ignores
the bounds on purpose. A page of service messages only is taken for the end.

*Publishing.* A unit of an unsupported medium counts as done, and so does one with a
photo that has no size to download, or with a message that a refresh finds with another
medium (`media.go:1014`, `1317`): the other parts of its album are left out. A
watermarked picture that could not be written to its end stays on disk
(`bot_publish.go:515`, `733`), as its removal is registered only after the write. A
reply whose parent has no copy is sent as a reply to the copy of the top of its thread
(`keep_reply.go:79-111`). An album that a bot sends in chunks is sent again from its
first chunk when a later one fails. A stream that is restarted behind its first bytes
splices two readings (`stream_transfer.go:133`). A bot's comment is recorded under the
id of the source comment and overwrites a mapping with that number
(`comment_pending_send.go:478`).

*Comments.* A bot never edits the comments it has mirrored. An edit that comes before
the row of its comment has been inserted is lost, and so may be one that met the row
just before it was sent; an edit that a filter blocks does not hold a comment back that
a flush has already read. `comment_edit_worker.go:20` says that reading the payload late
avoids edits out of order: with four workers the request that reads the older payload
may arrive last. `sendMu` belongs to a run, so a replaced run may still send beside the
next. A send whose success could not be marked is repeated. A root without a mapping is
looked up as the id of a channel post, and a post as a root: when the number exists
there too, the comments are filed under another post's root and sent under that post, or
never (`comment.go:256`, `producer.go:115`). A statement that fails leaves comments
pending until another comment of the post or a restart flushes them (`comment.go:260`,
`producer.go:117`, `comment_pending_send.go:518`); so does a rule that is off, and a
mapping of the roots that could not be stored. Boot's list of roots may fail, and ends
at 100.

*Task database.* Two runs that open at once both install: the first connection is never
closed, nor is one whose `ensureSchema` failed (`manager.go:111-118`). A mapping whose
INSERT failed is logged and stays in memory only (`keep_reply.go:178-192`). A run closes
by task id and so takes the connection of the run that replaced it, whose mappings then
stay in memory only.

*Connection and logins.* The error of a first start is kept: later tasks get it until
the runtime is replaced. A shutdown while the first connection is being made leaves the
waiters (`monitor.go:1240`); so does a dial or a handshake that times out, since "Ignore
normal shutdown" (`monitor.go:1244-1247`) takes every error that wraps a context's for
one: the start is never finished, and later tasks of the account wait on it as well,
until the runtime is replaced. A first run that ends without an error counts as a
finished start although nothing is connected. A shutdown that comes before the cancel
function is stored leaves the client running (`monitor.go:1179`). Two logins of one
phone share the pending file, so the later promotion may store the key of the login that
failed. A pending file stays when the process ends during a login, when the client ends
without an error and without the user (`qr_auth.go:343`, `code_auth.go:299`), or when
the promotion can neither move nor copy it; the next login of the phone begins with what
it holds (`session.go:116-128`). If the process ends while the final file is being
copied, the file is torn. `ProvideCode` and `ProvidePassword` empty a full channel and
then block, with another request possibly having filled it (`code_auth.go:110`). A QR
login without an API app returns and tells nobody (`qr_auth.go:213`).

*Stores.* A strategy put down after it was replaced stays in the cache until the next
change, and a `Save` after a delete inserts the row again. Two overlapping changes of
the proxy may leave file and memory different. A client that refuses to move keeps its
connection. Runs keep the copy of the bot they started with. A start that cannot read or
parse the file of the bots has none, and the next bot that is added is then the only one
in the file (`bot_store.go:61`, `96-107`); one that cannot read the file of the proxy
goes without it until the next change.

*Statistics.* A goroutine that read the clock before midnight may turn the day back and
zero it. A snapshot taken during the turn of the day counts yesterday as today. The
final flush of `StopMonitor` races the exit of the process.

## 6. What is not modelled

- **Media processors, watermarks, FFmpeg probing, HTTP routing, frontend,
  configuration, the list endpoints**: I/O and formatting without state that steps
  could interleave on. Parsing of times, ranges and JSON likewise.
- **Filters and keyword rules**: pure functions of one message and one strategy;
  an outcome in the models that use them.
- **Utility packages**: back-off times and error classes are pure. The pool's
  panic on `Submit` after `Shutdown` (`pool.go:143`) cannot happen, as nothing calls
  `Shutdown`; the jobs it runs are interleaved in `CommentQueue`.
- **The Telegram and Bot APIs**: their answers are nondeterministic, marked external
  in the map.
- `nextRun` of the scheduler is a hint for display and for sleeping; wall-clock zones
  and daylight saving are left out of the slot arithmetic. The run window of the daily
  quota only lets time pass, and its limit is constant: edits of it, which reach a
  running task (`UpdateConfig`), are left out. `os.Remove` is assumed to succeed
  wherever it is called, and the files of the statistics to be readable at start-up.
  Comments that were filed under another post's root are not followed further. Which
  comment a comment answers is left out of `CommentQueue`.
- The components run side by side in `Engine` without sharing state; what they share in
  the program (the row, the context of the run) appears in each as far as it matters:
  stops, crashes, saves and replaced runs are actions of the module concerned.

Worth doing next: the relay and the clone over one row in one model, to state what a user
expects of both together.
