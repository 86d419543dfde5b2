--------------------------- MODULE TaskLifecycle ---------------------------
(***************************************************************************)
(* The life of one forwarding task: the API handlers that start, restart,  *)
(* pause, stop, edit, delete and poll it (api/v1/task.go,                  *)
(* service/task.go), the TaskManager that owns its runs                    *)
(* (engine/dispatcher.go) and the goroutine of each run (engine/worker.go, *)
(* engine/quota.go).                                                       *)
(*                                                                         *)
(* Every map of the manager is keyed by task id and every operation        *)
(* touches one key, so one task is modelled.  A step of the model is what  *)
(* the code does under m.mu, or one database statement, or one step of a   *)
(* goroutine between two of them.  A message counter stands for the six    *)
(* counters, which are all updated together.                               *)
(***************************************************************************)
EXTENDS Naturals, FiniteSets

CONSTANTS
  Requests,   \* the HTTP handler goroutines that may be in flight at once
  Ops,        \* the operations they may carry out
  Separate,   \* task.PublishType is "account" or "bot" (pubRuntime != nil)
  LocalDB,    \* task.KeepReply or comment mirroring: the run opens a localdb
  Quota,      \* task.DailyLimit > 0 or task.RunWindow # "": the run may pause itself
  Exits,      \* how the process may end: "shutdown", "crash" or both
  MaxRun,     \* bound: run ids
  MaxCount    \* bound: processed messages

Actions == {"start", "restart", "pause", "stop"}
AllOps == Actions \cup {"update", "delete", "poll"}

ASSUME ConstAssumption ==
  /\ Ops \subseteq AllOps
  /\ Separate \in BOOLEAN
  /\ LocalDB \in BOOLEAN
  /\ Quota \in BOOLEAN
  /\ Exits \subseteq {"shutdown", "crash"}
  /\ MaxRun \in Nat
  /\ MaxCount \in Nat
  /\ IsFiniteSet(Requests)

VARIABLES
  row,        \* the tasks row: status, progress counter, soft-deleted
  st,         \* m.states[taskID]; the zero record is the same as no entry
  canceler,   \* m.cancelers[taskID]: the run it cancels, NoRun if absent
  done,       \* the runs whose context is cancelled
  pc,         \* where the goroutine of each run stands
  quota,      \* how far the run is in waitForQuota
  held,       \* the deferred releases each run has registered
  finished,   \* history: the runs that completed without realtime
  mark,       \* the counter a run has read in markCompleted, to be persisted
  pub,        \* m.publishers[taskID]: the run that put it there, or NoRun
  reg,        \* tgRT.tasksByID[taskID]: the run registered, or NoRun
  conn,       \* localdb.Default.conns[taskID] is present
  req,        \* what each handler is doing
  down,       \* how far main is in TaskManager.Shutdown
  doomed      \* the run whose cancel function Shutdown has taken, or NoRun

engine == <<st, canceler, done>>
slots  == <<pub, reg, conn>>
local  == <<pc, quota, held, finished, mark>>
leave  == <<down, doomed>>
vars   == <<row, engine, local, slots, req, leave>>

NoRun == 0
Runs  == 1..MaxRun
Count == 0..MaxCount
Status == {"stopped", "running", "paused", "error"}
Resource == {"publisher", "localdb"}

RunPC == {"none", "setup", "publish", "open", "clone", "failing", "failed",
          "enter", "enterPersist", "register", "watch", "finish", "finishPersist",
          "final", "release", "releasePub", "gone"}
Over  == {"none", "gone"}
QuotaPC == {"off", "pausing", "paused", "resuming"}
ShutdownPC == {"up", "taken", "cut", "down"}

ReqAt == {"idle", "mark", "start", "stop", "pause", "persist", "reset", "zero",
          "load", "save", "destroy", "remove", "sync"}
Row == [status : Status, processed : Count, deleted : BOOLEAN]
TaskState == [runId : 0..MaxRun, status : Status, completed : BOOLEAN,
              processed : Count]
\* task is the handler's copy of the row (t model.Task), keep the counter it has
\* read from the state and is about to persist (taskProgressSnapshot).
Request == [op : AllOps, at : ReqAt,
            task : [status : Status, processed : Count], keep : Count]

NoState == [runId |-> 0, status |-> "stopped", completed |-> FALSE, processed |-> 0]
Idle    == [op |-> "poll", at |-> "idle",
            task |-> [status |-> "stopped", processed |-> 0], keep |-> 0]

TypeOK ==
  /\ row \in Row
  /\ st \in TaskState
  /\ canceler \in 0..MaxRun
  /\ done \in SUBSET Runs
  /\ pc \in [Runs -> RunPC]
  /\ quota \in [Runs -> QuotaPC]
  /\ held \in [Runs -> SUBSET Resource]
  /\ finished \in SUBSET Runs
  /\ mark \in [Runs -> Count]
  /\ pub \in 0..MaxRun
  /\ reg \in 0..MaxRun
  /\ conn \in BOOLEAN
  /\ req \in [Requests -> Request]
  /\ down \in ShutdownPC
  /\ doomed \in 0..MaxRun

\* A freshly started server over a row left by CreateTask.
Init ==
  /\ row = [status |-> "stopped", processed |-> 0, deleted |-> FALSE]
  /\ st = NoState
  /\ canceler = NoRun
  /\ done = {}
  /\ pc = [r \in Runs |-> "none"]
  /\ quota = [r \in Runs |-> "off"]
  /\ held = [r \in Runs |-> {}]
  /\ finished = {}
  /\ mark = [r \in Runs |-> 0]
  /\ pub = NoRun
  /\ reg = NoRun
  /\ conn = FALSE
  /\ req = [c \in Requests |-> Idle]
  /\ down = "up"
  /\ doomed = NoRun

-----------------------------------------------------------------------------
(* Helpers *)

Larger(a, b) == IF a > b THEN a ELSE b

\* An UPDATE ... WHERE id = ? touches nothing once the row is soft-deleted.
SetStatus(s) == IF row.deleted THEN row ELSE [row EXCEPT !.status = s]
SetProcessed(n) == IF row.deleted THEN row ELSE [row EXCEPT !.processed = n]

RowCopy == [status |-> row.status, processed |-> row.processed]

Go(c, at) == req' = [req EXCEPT ![c].at = at]
Return(c) == req' = [req EXCEPT ![c] = Idle]

\* ensureStateLocked: counters only grow from the row's, and the status of the
\* row is adopted when the state has the zero status (Stopped).
EnsureState(t) ==
  [st EXCEPT !.processed = Larger(t.processed, @),
             !.status = IF @ = "stopped" THEN t.status ELSE @]

\* "if cancel, ok := m.cancelers[taskID]; ok { cancel() }".
\* Mutations: the entry is deleted but cancel is not called; cancel is called
\* although there is no entry.
CancelForgotten == UNCHANGED done
CancelUnchecked == done' = done \cup {canceler}
CancelCurrent == done' = done \cup ({canceler} \ {NoRun})

\* What Start, Pause and Stop share under m.mu: the publisher and the
\* registration are dropped and the current context is cancelled.
DropRun ==
  /\ pub' = NoRun
  /\ reg' = NoRun
  /\ CancelCurrent

-----------------------------------------------------------------------------
(* API handlers *)

\* The switch of service.ApplyTaskAction and that of the handler.
Requested(op) ==
  CASE op \in {"start", "restart"} -> "running"
    [] op = "stop"  -> "stopped"
    [] op = "pause" -> "paused"

FirstStep(op) == IF op = "restart" THEN "stop" ELSE op

\* UpdateTaskStatus and GetTaskProgress read the row and fail when there is
\* none; UpdateTask and DeleteTask call the engine before they touch the row.
Arrive(c, op) ==
  /\ req[c].at = "idle"
  /\ op \in Ops
  /\ op \notin {"update", "delete"} => ~row.deleted
  /\ req' = [req EXCEPT ![c] =
               [op |-> op, keep |-> 0, task |-> RowCopy,
                at |-> CASE op = "poll" -> "sync"
                         [] op \in {"update", "delete"} -> "stop"
                         [] op \in Actions -> "mark"]]
  /\ UNCHANGED <<row, engine, local, slots, leave>>

\* ApplyTaskAction writes the requested status, no matter what the engine does
\* next, and hands on the copy with that status.
ApplyTaskAction(c) ==
  /\ req[c].at = "mark"
  /\ req[c].op \in Actions
  /\ row' = SetStatus(Requested(req[c].op))
  /\ req' = [req EXCEPT ![c].at = FirstStep(req[c].op),
                        ![c].task.status = Requested(req[c].op)]
  /\ UNCHANGED <<engine, local, slots, leave>>

\* TaskManager.StartTask.
StartTask(c) ==
  /\ req[c].at = "start"
  /\ st.runId < MaxRun
  /\ LET s == EnsureState(req[c].task)
         r == st.runId + 1
         scratch == s.completed /\ s.status = "stopped"
     IN /\ st' = [runId |-> r, status |-> "running",
                  completed |-> s.completed /\ ~scratch,
                  processed |-> IF scratch THEN 0 ELSE s.processed]
        /\ canceler' = r
        /\ pc' = [pc EXCEPT ![r] = "setup"]
        /\ row' = IF scratch THEN SetProcessed(0) ELSE row
  /\ DropRun
  /\ Return(c)
  /\ UNCHANGED <<quota, held, finished, mark, conn, leave>>

\* The section under m.mu of PauseTask and StopTask.
Halt(c, status) ==
  /\ st.runId < MaxRun
  /\ DropRun
  /\ canceler' = NoRun
  /\ st' = [st EXCEPT !.runId = @ + 1, !.status = status]
  /\ req' = [req EXCEPT ![c].at = "persist", ![c].keep = st.processed]
  /\ UNCHANGED <<row, local, conn, leave>>

StopTask(c) == req[c].at = "stop" /\ Halt(c, "stopped")
PauseTask(c) == req[c].at = "pause" /\ Halt(c, "paused")

AfterHalt(op) ==
  CASE op = "restart" -> "reset"
    [] op = "update"  -> "load"
    [] op = "delete"  -> "destroy"
    [] OTHER          -> "idle"

\* persistTaskProgressSnapshot at the end of Pause and Stop, after the unlock.
PersistSnapshot(c) ==
  /\ req[c].at = "persist"
  /\ row' = SetProcessed(req[c].keep)
  /\ IF AfterHalt(req[c].op) = "idle" THEN Return(c) ELSE Go(c, AfterHalt(req[c].op))
  /\ UNCHANGED <<engine, local, slots, leave>>

\* RestartTask: the counters are cleared in memory, then in the row.
ResetCounters(c) ==
  /\ req[c].at = "reset"
  /\ st' = [st EXCEPT !.completed = FALSE, !.processed = 0]
  /\ Go(c, "zero")
  /\ UNCHANGED <<row, canceler, done, local, slots, leave>>

PersistZero(c) ==
  /\ req[c].at = "zero"
  /\ row' = SetProcessed(0)
  /\ Go(c, "start")
  /\ UNCHANGED <<engine, local, slots, leave>>

\* service.UpdateTask reads the whole row, and Save writes the whole row back;
\* when no live row matches, gorm's Save inserts it again (upsert).
LoadRow(c) ==
  /\ req[c].at = "load"
  /\ IF row.deleted THEN Return(c)
     ELSE req' = [req EXCEPT ![c].at = "save", ![c].task = RowCopy]
  /\ UNCHANGED <<row, engine, local, slots, leave>>

SaveRow(c) ==
  /\ req[c].at = "save"
  /\ row' = [status |-> "stopped", processed |-> req[c].task.processed, deleted |-> FALSE]
  /\ Return(c)
  /\ UNCHANGED <<engine, local, slots, leave>>

\* DeleteTask: localdb.Destroy closes the connection and removes the file,
\* then the row is soft-deleted.
DestroyLocalDB(c) ==
  /\ req[c].at = "destroy"
  /\ conn' = FALSE
  /\ Go(c, "remove")
  /\ UNCHANGED <<row, engine, local, pub, reg, leave>>

RemoveRow(c) ==
  /\ req[c].at = "remove"
  /\ row' = [row EXCEPT !.deleted = TRUE]
  /\ Return(c)
  /\ UNCHANGED <<engine, local, slots, leave>>

\* getOrCreateState: the state takes the larger counters and the row's status,
\* from the copy the handler read before it got the lock.
SyncFromDB(c) ==
  /\ req[c].at = "sync"
  /\ st' = [st EXCEPT !.processed = Larger(req[c].task.processed, @),
                      !.status = req[c].task.status]
  /\ Return(c)
  /\ UNCHANGED <<row, canceler, done, local, slots, leave>>

Handler(c) ==
  \/ \E op \in Ops : Arrive(c, op)
  \/ ApplyTaskAction(c)
  \/ StartTask(c) \/ StopTask(c) \/ PauseTask(c) \/ PersistSnapshot(c)
  \/ ResetCounters(c) \/ PersistZero(c) \/ LoadRow(c) \/ SaveRow(c)
  \/ DestroyLocalDB(c) \/ RemoveRow(c) \/ SyncFromDB(c)

-----------------------------------------------------------------------------
(* The goroutine of run r: runTransferLoop *)

\* The fence "st.RunID != runID" of record, setStateStatus and markCompleted.
\* Mutation: only the presence of a state is checked.
Unfenced(r) == r \in Runs
Current(r) == st.runId = r
Cancelled(r) == r \in done

Jump(r, at) == pc' = [pc EXCEPT ![r] = at]
Step(r, from, to) == pc[r] = from /\ Jump(r, to)

\* Where a run goes when it returns: to its deferred releases, if any.
\* Mutation: a return that skips them.
ExitWithoutRelease(r) == Jump(r, "gone")
Exit(r) == Jump(r, IF held[r] = {} THEN "gone" ELSE "release")

\* ensureTelegramForTask, publisher selection and SetupTaskPeers succeed, are
\* cut short by the context, or fail.
SetupReady(r) ==
  /\ Step(r, "setup", "publish")
  /\ UNCHANGED <<row, engine, quota, held, finished, mark, slots, req, leave>>

SetupCancelled(r) ==
  /\ pc[r] = "setup" /\ Cancelled(r)
  /\ Exit(r)
  /\ UNCHANGED <<row, engine, quota, held, finished, mark, slots, req, leave>>

SetupFails(r) ==
  /\ Step(r, "setup", "failing")
  /\ UNCHANGED <<row, engine, quota, held, finished, mark, slots, req, leave>>

\* setPublisher and its deferred clearPublisher.
SetPublisher(r) ==
  /\ Step(r, "publish", "open")
  /\ IF Separate
     THEN pub' = r /\ held' = [held EXCEPT ![r] = @ \cup {"publisher"}]
     ELSE UNCHANGED <<pub, held>>
  /\ UNCHANGED <<row, engine, quota, finished, mark, reg, conn, req, leave>>

\* localdb.Default.Open and its deferred Close; a failed Open is ignored.
OpenLocalDB(r) ==
  /\ Step(r, "open", "clone")
  /\ \/ /\ LocalDB
        /\ conn' = TRUE
        /\ held' = [held EXCEPT ![r] = @ \cup {"localdb"}]
     \/ UNCHANGED <<conn, held>>
  /\ UNCHANGED <<row, engine, quota, finished, mark, pub, reg, req, leave>>

\* One message forwarded by the history clone, by the realtime worker or by the
\* comment sender beside them, and its record(..., 1, 1, 0, ...).  The send
\* itself is not cut by the context once it has reached the server.
Record(r) ==
  /\ pc[r] \in {"clone", "watch"}
  /\ Current(r)
  /\ st.processed < MaxCount
  /\ st' = [st EXCEPT !.processed = @ + 1]
  /\ UNCHANGED <<row, canceler, done, local, slots, req, leave>>

\* markQuotaPaused and markQuotaRunning: the state, then the row.
FencedStatus(r, s) == st' = IF Current(r) THEN [st EXCEPT !.status = s] ELSE st
\* Mutation: the row is written with a context that is never cancelled.
WriteStatusDetached(r, s) == r \in Runs /\ row' = SetStatus(s)
WriteStatus(r, s) == row' = IF Cancelled(r) THEN row ELSE SetStatus(s)

\* waitForQuota of the history clone, or of the realtime worker while the run
\* watches: outside the window or over the daily limit.
QuotaPaused(r) ==
  /\ pc[r] \in {"clone", "watch"} /\ quota[r] \in {"off", "paused"}
  /\ Quota /\ ~Cancelled(r)
  /\ FencedStatus(r, "paused")
  /\ quota' = [quota EXCEPT ![r] = "pausing"]
  /\ UNCHANGED <<row, canceler, done, pc, held, finished, mark, slots, req, leave>>

PersistPaused(r) ==
  /\ quota[r] = "pausing"
  /\ WriteStatus(r, "paused")
  /\ quota' = [quota EXCEPT ![r] = "paused"]
  /\ UNCHANGED <<engine, pc, held, finished, mark, slots, req, leave>>

QuotaRunning(r) ==
  /\ quota[r] = "paused" /\ ~Cancelled(r)
  /\ FencedStatus(r, "running")
  /\ quota' = [quota EXCEPT ![r] = "resuming"]
  /\ UNCHANGED <<row, canceler, done, pc, held, finished, mark, slots, req, leave>>

PersistRunning(r) ==
  /\ quota[r] = "resuming"
  /\ WriteStatus(r, "running")
  /\ quota' = [quota EXCEPT ![r] = "off"]
  /\ UNCHANGED <<engine, pc, held, finished, mark, slots, req, leave>>

\* CloneHistoryWithPeers returns: with the context's error (ignored), with
\* another error, or done; the strategy then decides on realtime.
CloneCancelled(r) ==
  /\ pc[r] = "clone" /\ quota[r] \in {"off", "paused"} /\ Cancelled(r)
  /\ Exit(r)
  /\ UNCHANGED <<row, engine, quota, held, finished, mark, slots, req, leave>>

CloneFails(r) ==
  /\ Step(r, "clone", "failing")
  /\ quota[r] = "off" /\ ~Cancelled(r)
  /\ UNCHANGED <<row, engine, quota, held, finished, mark, slots, req, leave>>

CloneDone(r) ==
  /\ \/ Step(r, "clone", "enter")
     \/ Step(r, "clone", "finish")
  /\ quota[r] = "off" /\ ~Cancelled(r)
  /\ UNCHANGED <<row, engine, quota, held, finished, mark, slots, req, leave>>

\* The error returns: setStateStatus, then updateTaskStatusWithError.
FailState(r) ==
  /\ Step(r, "failing", "failed")
  /\ FencedStatus(r, "error")
  /\ UNCHANGED <<row, canceler, done, quota, held, finished, mark, slots, req, leave>>

FailRow(r) ==
  /\ pc[r] = "failed"
  /\ WriteStatus(r, "error")
  /\ Exit(r)
  /\ UNCHANGED <<engine, quota, held, finished, mark, slots, req, leave>>

\* markCompleted(false) on the way to realtime, persisted after the unlock.
EnterRealtime(r) ==
  /\ IF Current(r)
     THEN /\ Step(r, "enter", "enterPersist")
          /\ st' = [st EXCEPT !.completed = TRUE]
          /\ mark' = [mark EXCEPT ![r] = st.processed]
     ELSE Step(r, "enter", "register") /\ UNCHANGED <<st, mark>>
  /\ UNCHANGED <<row, canceler, done, quota, held, finished, slots, req, leave>>

PersistEnter(r) ==
  /\ Step(r, "enterPersist", "register")
  /\ row' = SetProcessed(mark[r])
  /\ UNCHANGED <<engine, quota, held, finished, mark, slots, req, leave>>

\* registerRealtimeTask replaces whatever is registered for the task.
RegisterRealtimeTask(r) ==
  /\ Step(r, "register", "watch")
  /\ reg' = r
  /\ UNCHANGED <<row, engine, quota, held, finished, mark, pub, conn, req, leave>>

\* Mutation: a run that is no longer current leaves the registration alone.
UnregisterIfCurrent(r) ==
  /\ pc[r] = "watch" /\ Cancelled(r)
  /\ reg' = IF Current(r) THEN NoRun ELSE reg
  /\ Exit(r)
  /\ UNCHANGED <<row, engine, quota, held, finished, mark, pub, conn, req, leave>>

\* <-ctx.Done(), then unregisterTask(taskID, ...): by task id, not by run.
Unregister(r) ==
  /\ pc[r] = "watch" /\ Cancelled(r)
  /\ reg' = NoRun
  /\ Exit(r)
  /\ UNCHANGED <<row, engine, quota, held, finished, mark, pub, conn, req, leave>>

\* markCompleted(true): the run cancels its own context, then persists.
MarkCompleted(r) ==
  /\ IF Current(r)
     THEN /\ Step(r, "finish", "finishPersist")
          /\ st' = [st EXCEPT !.completed = TRUE, !.status = "stopped"]
          /\ mark' = [mark EXCEPT ![r] = st.processed]
          /\ CancelCurrent
          /\ canceler' = NoRun
          /\ finished' = finished \cup {r}
     ELSE Step(r, "finish", "final") /\ UNCHANGED <<st, mark, finished, done, canceler>>
  /\ UNCHANGED <<row, quota, held, slots, req, leave>>

PersistFinish(r) ==
  /\ Step(r, "finishPersist", "final")
  /\ row' = SetProcessed(mark[r])
  /\ UNCHANGED <<engine, quota, held, finished, mark, slots, req, leave>>

\* updateTaskStatus(ctx, taskID, Stopped) with the run's own context.
PersistStopped(r) ==
  /\ pc[r] = "final"
  /\ WriteStatus(r, "stopped")
  /\ Exit(r)
  /\ UNCHANGED <<engine, quota, held, finished, mark, slots, req, leave>>
\* The deferred releases, last registered first.  Both go by task id.
CloseLocalDB(r) ==
  /\ Step(r, "release", "releasePub")
  /\ conn' = IF "localdb" \in held[r] THEN FALSE ELSE conn
  /\ held' = [held EXCEPT ![r] = @ \ {"localdb"}]
  /\ UNCHANGED <<row, engine, quota, finished, mark, pub, reg, req, leave>>

ClearPublisher(r) ==
  /\ Step(r, "releasePub", "gone")
  /\ pub' = IF "publisher" \in held[r] THEN NoRun ELSE pub
  /\ held' = [held EXCEPT ![r] = {}]
  /\ UNCHANGED <<row, engine, quota, finished, mark, reg, conn, req, leave>>

\* Every step of the goroutine but the ones that keep it where it is.
Advance(r) ==
  \/ SetupReady(r) \/ SetupCancelled(r) \/ SetupFails(r) \/ SetPublisher(r)
  \/ OpenLocalDB(r) \/ QuotaPaused(r) \/ PersistPaused(r) \/ QuotaRunning(r)
  \/ PersistRunning(r) \/ CloneCancelled(r) \/ CloneFails(r) \/ CloneDone(r)
  \/ FailState(r) \/ FailRow(r) \/ EnterRealtime(r) \/ PersistEnter(r)
  \/ RegisterRealtimeTask(r) \/ Unregister(r) \/ MarkCompleted(r)
  \/ PersistFinish(r) \/ PersistStopped(r) \/ CloseLocalDB(r) \/ ClearPublisher(r)

RunStep(r) == Record(r) \/ Advance(r)

-----------------------------------------------------------------------------
(* The process *)

\* TaskManager.Shutdown takes the cancel functions under m.mu, calls them after
\* the unlock, then removes the registrations of the tasks it found.  The HTTP
\* server is stopped only afterwards (cmd/server/main.go): handlers go on.
ShutdownTake ==
  /\ "shutdown" \in Exits
  /\ down = "up"
  /\ doomed' = canceler
  /\ canceler' = NoRun
  /\ down' = IF canceler = NoRun THEN "down" ELSE "taken"
  /\ UNCHANGED <<row, st, done, local, slots, req>>

ShutdownCancel ==
  /\ down = "taken"
  /\ done' = done \cup ({doomed} \ {NoRun})
  /\ doomed' = NoRun
  /\ down' = "cut"
  /\ UNCHANGED <<row, st, canceler, local, slots, req>>

ShutdownUnregister ==
  /\ down = "cut"
  /\ reg' = NoRun
  /\ down' = "down"
  /\ UNCHANGED <<row, engine, local, pub, conn, req, doomed>>

ShutdownStep == ShutdownCancel \/ ShutdownUnregister

\* The process dies, or ends once it is shut down, and starts again: only the
\* row survives, and no task is resumed.
Crash ==
  /\ "crash" \in Exits \/ down = "down"
  /\ st' = NoState /\ canceler' = NoRun /\ done' = {}
  /\ pc' = [r \in Runs |-> "none"]
  /\ quota' = [r \in Runs |-> "off"]
  /\ held' = [r \in Runs |-> {}]
  /\ finished' = {}
  /\ mark' = [r \in Runs |-> 0]
  /\ pub' = NoRun /\ reg' = NoRun /\ conn' = FALSE
  /\ req' = [c \in Requests |-> Idle]
  /\ down' = "up" /\ doomed' = NoRun
  /\ UNCHANGED row

Next ==
  \/ \E c \in Requests : Handler(c)
  \/ \E r \in Runs : RunStep(r)
  \/ ShutdownTake \/ ShutdownStep
  \/ Crash

Spec == Init /\ [][Next]_vars

\* A goroutine that can move does move, main included; users are under no
\* obligation.
FairSpec ==
  /\ Spec
  /\ \A r \in Runs : WF_vars(Advance(r))
  /\ WF_vars(ShutdownStep)

-----------------------------------------------------------------------------
(* Properties *)

Live(r) == pc[r] \notin Over /\ ~Cancelled(r)
LastRun == CHOOSE r \in 0..MaxRun :
             /\ r # NoRun => pc[r] # "none"
             /\ \A x \in Runs : pc[x] # "none" => x <= r

\* The run ids of the manager fence the goroutines: however handlers and old
\* runs interleave, a goroutine whose context is alive is the run the manager
\* counts as current and can cancel, so no two of them work at once and none
\* escapes Stop (StartTask, StopTask, PauseTask, markCompleted).  The one
\* exception is the run Shutdown is about to cancel.
LiveRunIsCurrent ==
  \A r \in Runs : Live(r) => (canceler = r /\ st.runId = r) \/ doomed = r

\* A run that is no longer current changes neither the state nor the status
\* column, whatever it was about to do when it was replaced: its record,
\* setStateStatus and markCompleted are fenced by the run id and its
\* updateTaskStatus fails on its cancelled context.
StaleRunInert ==
  [][\A r \in Runs : RunStep(r) /\ r \notin {st.runId, doomed} =>
        /\ UNCHANGED <<st, canceler>>
        /\ row'.status = row.status]_vars

\* When every goroutine of the task has returned, no publisher, no
\* registration and no localdb connection is left behind, in spite of the
\* releases going by task id (the defers of runTransferLoop, unregisterTask).
NothingLeaks ==
  (\A r \in Runs : pc[r] \in Over) => pub = NoRun /\ reg = NoRun /\ ~conn

\* After a stop, a pause or a completion everything the runs held is released
\* in the end, unless the task is started again (a late registration by a run
\* cancelled between its last ctx.Err() check and registerRealtimeTask too).
StoppedTaskDrains ==
  canceler = NoRun ~>
    (canceler # NoRun \/ (pub = NoRun /\ reg = NoRun /\ ~conn))

\* The runs seen as SingleRunner sees them: a run is live from StartTask until
\* its context is cancelled or Shutdown has taken its cancel function.
phaseBar == [r \in Runs |-> IF pc[r] = "none" THEN "idle"
                            ELSE IF Cancelled(r) \/ r = doomed THEN "retired" ELSE "live"]

Runner == INSTANCE SingleRunner WITH phase <- phaseBar

\* StartTask, PauseTask, StopTask, markCompleted, Shutdown and a process restart
\* implement SingleRunner; nothing else retires or revives a run.
RunsAreAdmittedOnce == Runner!Spec

-----------------------------------------------------------------------------
(* What the comments say and the code does not do *)

\* dispatcher.go, StartTask: "Restart from scratch if it has been completed
\* before."
ScratchAfterCompletion ==
  [][(\E c \in Requests : StartTask(c)) /\ LastRun \in finished
        => st'.processed = 0]_vars

\* api/v1/task.go, DeleteTask: the worker is made sure to have stopped before
\* the task is deleted.
DeletedTaskHasNoWorker == row.deleted => \A r \in Runs : ~Live(r)

\* model/task.go, PublishType: with "account" or "bot" the messages go out through
\* that account or bot, and getPublisher = nil publishes with the crawler's
\* account instead; worker.go: a run that waits in realtime monitoring is
\* registered for the updates of its channel.  A live run has what it set up.
RunKeepsItsSlots ==
  \A r \in Runs : Live(r) =>
    /\ Separate /\ pc[r] = "clone" => pub # NoRun
    /\ pc[r] = "watch" => reg # NoRun
=============================================================================
