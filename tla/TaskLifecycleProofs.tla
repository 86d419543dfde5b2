------------------------ MODULE TaskLifecycleProofs ------------------------
(***************************************************************************)
(* Proofs about TaskLifecycle, for every number of handlers, runs and      *)
(* messages and every configuration of the task.                           *)
(***************************************************************************)
EXTENDS TaskLifecycle, TLAPS

-----------------------------------------------------------------------------
(* The inductive invariant *)

\* Run ids are handed out in order: StartTask finds its run id unused.
FreshIds == \A r \in Runs : r > st.runId => pc[r] = "none"

\* Only a run that was started can have been cancelled or wait for its quota.
StartedFirst ==
  \A r \in Runs : r \in done \/ quota[r] # "off" => pc[r] # "none"

\* The context in m.cancelers is that of the current run, and it is alive.
CancelerIsLive ==
  canceler # NoRun =>
    /\ canceler = st.runId /\ canceler # doomed
    /\ canceler \notin done /\ pc[canceler] # "none"

\* Shutdown holds a cancel function only between taking and calling it.
DoomedIsTaken == doomed # NoRun => down = "taken" /\ pc[doomed] # "none"

\* Every other run has been cancelled.
OthersCancelled ==
  \A r \in Runs : pc[r] # "none" /\ r \notin done => r \in {canceler, doomed}

FenceInv ==
  FreshIds /\ StartedFirst /\ CancelerIsLive /\ DoomedIsTaken /\ OthersCancelled

\* What sits in the shared slots belongs to a run that will still release it.
PublisherHeld == pub # NoRun => "publisher" \in held[pub]
WatcherHeld == reg # NoRun => pc[reg] = "watch"
LocalDBHeld == conn => \E r \in Runs : "localdb" \in held[r]
ReleasedInOrder ==
  \A r \in Runs : /\ held[r] # {} => pc[r] \notin Over
                  /\ pc[r] = "releasePub" => "localdb" \notin held[r]

SlotInv == PublisherHeld /\ WatcherHeld /\ LocalDBHeld /\ ReleasedInOrder

IInv == TypeOK /\ FenceInv /\ SlotInv
-----------------------------------------------------------------------------
(* Type correctness *)

\* The initial state has the declared types (NewTaskManager over a new row).
LEMMA InitType == Init => TypeOK
<1> USE ConstAssumption
<1> SUFFICES ASSUME Init PROVE TypeOK
  OBVIOUS
<1>1. 0 \in Count /\ 0 \in 0..MaxRun /\ "stopped" \in Status /\ "none" \in RunPC
  BY DEF Count, Status, RunPC
<1>2. row \in Row /\ st \in TaskState
  BY <1>1 DEF Init, NoState, Row, TaskState
<1>3. Idle \in Request
  BY <1>1 DEF Idle, Request, AllOps, Actions, ReqAt
<1>4. req \in [Requests -> Request]
  BY <1>3 DEF Init
<1>5. /\ pc \in [Runs -> RunPC]
      /\ quota \in [Runs -> QuotaPC]
      /\ down \in ShutdownPC
      /\ held \in [Runs -> SUBSET Resource]
      /\ mark \in [Runs -> Count]
  BY <1>1 DEF Init, QuotaPC, ShutdownPC
<1> QED
  BY <1>1, <1>2, <1>4, <1>5 DEF Init, TypeOK, NoRun

\* Helpers return values of the declared types.
LEMMA HelperTypes ==
  ASSUME TypeOK
  PROVE  /\ \A s \in Status : SetStatus(s) \in Row
         /\ \A n \in Count : SetProcessed(n) \in Row
         /\ canceler \in Runs \cup {NoRun}
         /\ CancelCurrent => done' \in SUBSET Runs
         /\ \A t \in [status : Status, processed : Count] :
              EnsureState(t) \in TaskState
<1>1. \A s \in Status : SetStatus(s) \in Row
  BY DEF TypeOK, SetStatus, Row
<1>2. \A n \in Count : SetProcessed(n) \in Row
  BY DEF TypeOK, SetProcessed, Row
<1>3. canceler \in Runs \cup {NoRun}
  BY ConstAssumption DEF TypeOK, Runs, NoRun
<1>4. CancelCurrent => done' \in SUBSET Runs
  BY <1>3 DEF CancelCurrent, TypeOK
<1>5. \A t \in [status : Status, processed : Count] : EnsureState(t) \in TaskState
  BY DEF TypeOK, EnsureState, TaskState, Larger
<1> QED
  BY <1>1, <1>2, <1>3, <1>4, <1>5

\* A handler step keeps the types.
LEMMA HandlerType ==
  ASSUME TypeOK, NEW c \in Requests, Handler(c)
  PROVE  TypeOK'
<1> USE ConstAssumption
<1>1. ASSUME ApplyTaskAction(c)
      PROVE  TypeOK'
  <2>1. Requested(req[c].op) \in Status /\ FirstStep(req[c].op) \in ReqAt
    BY <1>1 DEF ApplyTaskAction, Actions, Requested, FirstStep, Status, ReqAt
  <2>2. req[c] \in Request
    BY DEF TypeOK
  <2>3. [req[c] EXCEPT !.at = FirstStep(req[c].op), !.task.status = Requested(req[c].op)]
          \in Request
    BY <2>1, <2>2 DEF Request
  <2>4. req' \in [Requests -> Request]
    BY <1>1, <2>3 DEF ApplyTaskAction, TypeOK
  <2>5. row' \in Row
    BY <1>1, <2>1, HelperTypes DEF ApplyTaskAction
  <2> QED
    BY <1>1, <2>4, <2>5 DEF ApplyTaskAction, TypeOK, engine, local, slots, leave
<1>2. ASSUME NEW op \in Ops, Arrive(c, op)
      PROVE  TypeOK'
  <2>1. op \in AllOps /\ {"sync", "stop", "mark"} \subseteq ReqAt
    BY DEF ReqAt, AllOps, Actions
  <2>2. PICK at \in ReqAt :
          req' = [req EXCEPT ![c] = [op |-> op, keep |-> 0, task |-> RowCopy, at |-> at]]
    BY <1>2, <2>1 DEF Arrive, AllOps
  <2>3. 0 \in Count /\ RowCopy \in [status : Status, processed : Count]
    BY DEF Count, TypeOK, Row, RowCopy
  <2>4. req' \in [Requests -> Request]
    BY <2>1, <2>2, <2>3 DEF TypeOK, Request
  <2> QED
    BY <1>2, <2>4 DEF Arrive, TypeOK, engine, local, slots, leave
<1>3. ASSUME StartTask(c)
      PROVE  TypeOK'
  <2>1. req[c].task \in [status : Status, processed : Count] /\ Idle \in Request
    BY DEF TypeOK, Request, Idle, AllOps, Actions, ReqAt, Status, Count
  <2>2. EnsureState(req[c].task) \in TaskState
    BY <2>1, HelperTypes
  <2>3. st.runId + 1 \in Runs /\ st.runId + 1 \in 0..MaxRun
    BY <1>3 DEF StartTask, TypeOK, TaskState, Runs
  <2>4. 0 \in Count /\ "running" \in Status /\ "setup" \in RunPC
    BY DEF Count, Status, RunPC
  <2>5. st' \in TaskState /\ canceler' \in 0..MaxRun
    BY <1>3, <2>2, <2>3, <2>4 DEF StartTask, TaskState
  <2>6. pc' \in [Runs -> RunPC]
    BY <1>3, <2>3, <2>4 DEF StartTask, TypeOK
  <2>7. row' \in Row
    BY <1>3, <2>4, HelperTypes DEF StartTask, TypeOK
  <2>8. done' \in SUBSET Runs /\ pub' \in 0..MaxRun /\ reg' \in 0..MaxRun
    BY <1>3, HelperTypes DEF StartTask, DropRun, NoRun
  <2>9. req' \in [Requests -> Request]
    BY <1>3, <2>1 DEF StartTask, Return, TypeOK
  <2> QED
    BY <1>3, <2>5, <2>6, <2>7, <2>8, <2>9 DEF StartTask, TypeOK, leave
<1>4. ASSUME NEW s \in {"stopped", "paused"}, Halt(c, s)
      PROVE  TypeOK'
  <2>1. st' \in TaskState
    <3>1. st.runId + 1 \in 0..MaxRun
      BY <1>4 DEF Halt, TypeOK, TaskState
    <3>2. s \in Status
      BY DEF Status
    <3>3. st \in TaskState /\ st' = [st EXCEPT !.runId = st.runId + 1, !.status = s]
      BY <1>4 DEF Halt, TypeOK
    <3> QED
      BY <3>1, <3>2, <3>3 DEF TaskState
  <2>2. done' \in SUBSET Runs /\ pub' \in 0..MaxRun /\ reg' \in 0..MaxRun
        /\ canceler' \in 0..MaxRun
    BY <1>4, HelperTypes DEF Halt, DropRun, NoRun
  <2>3. req' \in [Requests -> Request]
    <3>1. st.processed \in Count /\ req[c] \in Request /\ "persist" \in ReqAt
      BY DEF TypeOK, TaskState, ReqAt
    <3>2. [req[c] EXCEPT !.at = "persist", !.keep = st.processed] \in Request
      BY <3>1 DEF Request
    <3>3. req' = [req EXCEPT ![c] = [req[c] EXCEPT !.at = "persist", !.keep = st.processed]]
      BY <1>4 DEF Halt, TypeOK
    <3> QED
      BY <3>2, <3>3 DEF TypeOK
  <2> QED
    BY <1>4, <2>1, <2>2, <2>3 DEF Halt, TypeOK, local, leave
<1>5. ASSUME PersistSnapshot(c)
      PROVE  TypeOK'
  <2>1. req[c] \in Request /\ req[c].keep \in Count /\ Idle \in Request
    BY DEF TypeOK, Request, Idle, AllOps, Actions, ReqAt, Status, Count
  <2>2. AfterHalt(req[c].op) \in ReqAt
    BY DEF AfterHalt, ReqAt
  <2>3. req' \in [Requests -> Request]
    BY <1>5, <2>1, <2>2 DEF PersistSnapshot, Return, Go, TypeOK, Request
  <2>4. row' \in Row
    BY <1>5, <2>1, HelperTypes DEF PersistSnapshot
  <2> QED
    BY <1>5, <2>3, <2>4 DEF PersistSnapshot, TypeOK, engine, local, slots, leave
<1>6. ASSUME ResetCounters(c)
      PROVE  TypeOK'
  <2>1. st' \in TaskState
    <3>1. 0 \in Count /\ st \in TaskState
      BY DEF Count, TypeOK
    <3>2. st' = [st EXCEPT !.completed = FALSE, !.processed = 0]
      BY <1>6 DEF ResetCounters
    <3> QED
      BY <3>1, <3>2 DEF TaskState
  <2>2. req' \in [Requests -> Request]
    BY <1>6 DEF ResetCounters, Go, TypeOK, Request, ReqAt
  <2> QED
    BY <1>6, <2>1, <2>2 DEF ResetCounters, TypeOK, local, slots, leave
<1>7. ASSUME PersistZero(c)
      PROVE  TypeOK'
  <2>1. row' \in Row
    BY <1>7, HelperTypes DEF PersistZero, Count
  <2>2. req' \in [Requests -> Request]
    BY <1>7 DEF PersistZero, Go, TypeOK, Request, ReqAt
  <2> QED
    BY <1>7, <2>1, <2>2 DEF PersistZero, TypeOK, engine, local, slots, leave
<1>8. ASSUME LoadRow(c)
      PROVE  TypeOK'
  <2>1. RowCopy \in [status : Status, processed : Count] /\ Idle \in Request
    BY DEF TypeOK, Row, RowCopy, Request, Idle, AllOps, Actions, ReqAt, Status, Count
  <2>2. req' \in [Requests -> Request]
    BY <1>8, <2>1 DEF LoadRow, Return, TypeOK, Request, ReqAt
  <2> QED
    BY <1>8, <2>2 DEF LoadRow, TypeOK, engine, local, slots, leave
<1>9. ASSUME SaveRow(c)
      PROVE  TypeOK'
  <2>1. row' \in Row
    BY <1>9 DEF SaveRow, TypeOK, Row, Request, Status
  <2>2. Idle \in Request
    BY DEF Request, Idle, AllOps, Actions, ReqAt, Status, Count
  <2>3. req' \in [Requests -> Request]
    BY <1>9, <2>2 DEF SaveRow, Return, TypeOK
  <2> QED
    BY <1>9, <2>1, <2>3 DEF SaveRow, TypeOK, engine, local, slots, leave
<1>10. ASSUME DestroyLocalDB(c)
       PROVE  TypeOK'
  <2>1. req' \in [Requests -> Request]
    BY <1>10 DEF DestroyLocalDB, Go, TypeOK, Request, ReqAt
  <2> QED
    BY <1>10, <2>1 DEF DestroyLocalDB, TypeOK, engine, local, leave
<1>11. ASSUME RemoveRow(c)
       PROVE  TypeOK'
  <2>1. row' \in Row
    BY <1>11 DEF RemoveRow, TypeOK, Row
  <2>2. Idle \in Request
    BY DEF Request, Idle, AllOps, Actions, ReqAt, Status, Count
  <2>3. req' \in [Requests -> Request]
    BY <1>11, <2>2 DEF RemoveRow, Return, TypeOK
  <2> QED
    BY <1>11, <2>1, <2>3 DEF RemoveRow, TypeOK, engine, local, slots, leave
<1>12. ASSUME SyncFromDB(c)
       PROVE  TypeOK'
  <2>1. st' \in TaskState
    BY <1>12 DEF SyncFromDB, TypeOK, TaskState, Larger, Request
  <2>2. Idle \in Request
    BY DEF Request, Idle, AllOps, Actions, ReqAt, Status, Count
  <2>3. req' \in [Requests -> Request]
    BY <1>12, <2>2 DEF SyncFromDB, Return, TypeOK
  <2> QED
    BY <1>12, <2>1, <2>3 DEF SyncFromDB, TypeOK, local, slots, leave
<1> QED
  BY <1>1, <1>2, <1>3, <1>4, <1>5, <1>6, <1>7, <1>8, <1>9, <1>10, <1>11, <1>12
  DEF Handler, StopTask, PauseTask

\* A step of a goroutine moves that goroutine and no other, and touches no
\* handler.
LEMMA RunMoves ==
  ASSUME TypeOK, NEW r \in Runs, RunStep(r)
  PROVE  /\ \E at \in RunPC : pc' = [pc EXCEPT ![r] = at] /\ (at = "none" <=> pc[r] = "none")
         /\ pc[r] = "none" => quota[r] # "off"
         /\ \E q \in QuotaPC : quota' = [quota EXCEPT ![r] = q]
         /\ UNCHANGED <<req, leave>>
<1>1. pc = [pc EXCEPT ![r] = pc[r]] /\ pc[r] \in RunPC
      /\ quota = [quota EXCEPT ![r] = quota[r]] /\ quota[r] \in QuotaPC
  BY DEF TypeOK
<1>2. CASE Record(r)
  BY <1>1, <1>2 DEF Record, local
<1>3. CASE \/ QuotaPaused(r) \/ PersistPaused(r) \/ QuotaRunning(r) \/ PersistRunning(r)
  BY <1>1, <1>3 DEF QuotaPaused, PersistPaused, QuotaRunning, PersistRunning, QuotaPC
<1>4. CASE Advance(r) /\ ~(\/ QuotaPaused(r) \/ PersistPaused(r) \/ QuotaRunning(r)
                           \/ PersistRunning(r))
  <2>1. UNCHANGED <<quota, req, leave>>
    BY <1>4 DEF Advance, SetupReady, SetupCancelled, SetupFails, SetPublisher,
       OpenLocalDB, CloneCancelled, CloneFails, CloneDone, FailState, FailRow,
       EnterRealtime, PersistEnter, RegisterRealtimeTask, Unregister, MarkCompleted,
       PersistFinish, PersistStopped, CloseLocalDB, ClearPublisher
  <2>2. pc[r] # "none" /\ \E at \in RunPC \ {"none"} : pc' = [pc EXCEPT ![r] = at]
    BY <1>4 DEF Advance, Step, Jump, Exit, RunPC, SetupReady, SetupCancelled,
       SetupFails, SetPublisher, OpenLocalDB, CloneCancelled, CloneFails, CloneDone,
       FailState, FailRow, EnterRealtime, PersistEnter, RegisterRealtimeTask,
       Unregister, MarkCompleted, PersistFinish, PersistStopped, CloseLocalDB,
       ClearPublisher
  <2> QED
    BY <1>1, <2>1, <2>2
<1> QED
  BY <1>2, <1>3, <1>4 DEF RunStep

\* A goroutine that takes a step was started and stays started.
LEMMA RunStarted ==
  ASSUME TypeOK, FenceInv, NEW r \in Runs, RunStep(r)
  PROVE  pc[r] # "none" /\ \A x \in Runs : pc'[x] = "none" <=> pc[x] = "none"
<1>1. PICK at \in RunPC : pc' = [pc EXCEPT ![r] = at] /\ (at = "none" <=> pc[r] = "none")
  BY RunMoves
<1>2. pc[r] # "none"
  BY RunMoves DEF FenceInv, StartedFirst
<1> QED
  BY <1>1, <1>2 DEF TypeOK

\* The run id is never changed by a goroutine, and its context is cancelled by
\* a goroutine only in markCompleted, when it is the current run.
LEMMA RunFrame ==
  ASSUME TypeOK, NEW r \in Runs, RunStep(r)
  PROVE  /\ st' \in TaskState
         /\ st'.runId = st.runId
         /\ \/ UNCHANGED <<canceler, done>>
            \/ st.runId = r /\ CancelCurrent /\ canceler' = NoRun
<1> USE ConstAssumption
<1>1. CASE Record(r)
  <2>1. st.processed + 1 \in Count /\ st \in TaskState
    BY <1>1 DEF Record, TypeOK, TaskState, Count
  <2>2. st' = [st EXCEPT !.processed = st.processed + 1]
    BY <1>1 DEF Record
  <2> QED
    BY <1>1, <2>1, <2>2 DEF Record, TaskState
<1>2. CASE QuotaPaused(r) \/ QuotaRunning(r) \/ FailState(r)
  <2>1. PICK s \in Status : FencedStatus(r, s) /\ UNCHANGED <<canceler, done>>
    BY <1>2 DEF QuotaPaused, QuotaRunning, FailState, Status
  <2>2. st \in TaskState /\ (st' = st \/ st' = [st EXCEPT !.status = s])
    BY <2>1 DEF FencedStatus, TypeOK
  <2> QED
    BY <2>1, <2>2 DEF TaskState
<1>3. CASE EnterRealtime(r)
  <2>1. st \in TaskState /\ (st' = st \/ st' = [st EXCEPT !.completed = TRUE])
    BY <1>3 DEF EnterRealtime, TypeOK
  <2> QED
    BY <1>3, <2>1 DEF EnterRealtime, TaskState
<1>4. CASE MarkCompleted(r)
  <2>1. /\ st \in TaskState /\ "stopped" \in Status
        /\ st' = st \/ st' = [st EXCEPT !.completed = TRUE, !.status = "stopped"]
    BY <1>4 DEF MarkCompleted, TypeOK, Status
  <2>2. st' \in TaskState /\ st'.runId = st.runId
    BY <2>1 DEF TaskState
  <2> QED
    BY <1>4, <2>2 DEF MarkCompleted, Current
<1>5. CASE /\ Advance(r)
           /\ ~ (QuotaPaused(r) \/ QuotaRunning(r) \/ FailState(r) \/ EnterRealtime(r)
                 \/ MarkCompleted(r))
  <2>1. UNCHANGED engine
    BY <1>5 DEF Advance, SetupReady, SetupCancelled, SetupFails, SetPublisher,
       OpenLocalDB, PersistPaused, PersistRunning, CloneCancelled, CloneFails,
       CloneDone, FailRow, PersistEnter, RegisterRealtimeTask, Unregister,
       PersistFinish, PersistStopped, CloseLocalDB, ClearPublisher
  <2> QED
    BY <2>1 DEF engine, TypeOK
<1> QED
  BY <1>1, <1>2, <1>3, <1>4, <1>5 DEF RunStep

\* A goroutine writes the row through SetStatus and SetProcessed only.
LEMMA RunWritesRow ==
  ASSUME TypeOK, NEW r \in Runs, RunStep(r)
  PROVE  \/ UNCHANGED row
         \/ \E s \in Status : WriteStatus(r, s)
         \/ \E n \in Count : row' = SetProcessed(n)
<1>1. mark[r] \in Count /\ {"paused", "running", "error", "stopped"} \subseteq Status
  BY DEF TypeOK, Status
<1>2. CASE Record(r)
  BY <1>2 DEF Record
<1>3. CASE Advance(r)
  BY <1>1, <1>3 DEF Advance, SetupReady, SetupCancelled, SetupFails, SetPublisher,
     OpenLocalDB, QuotaPaused, PersistPaused, QuotaRunning, PersistRunning,
     CloneCancelled, CloneFails, CloneDone, FailState, FailRow, EnterRealtime,
     PersistEnter, RegisterRealtimeTask, Unregister, MarkCompleted, PersistFinish,
     PersistStopped, CloseLocalDB, ClearPublisher
<1> QED
  BY <1>2, <1>3 DEF RunStep

\* What a goroutine does to its own releases and to the shared slots.
LEMMA RunSlots ==
  ASSUME TypeOK, NEW r \in Runs, RunStep(r)
  PROVE  \/ UNCHANGED <<held, slots>>
         \/ SetPublisher(r) \/ OpenLocalDB(r) \/ RegisterRealtimeTask(r)
         \/ Unregister(r) \/ CloseLocalDB(r) \/ ClearPublisher(r)
<1>1. CASE Record(r)
  BY <1>1 DEF Record, local
<1>2. CASE Advance(r)
  BY <1>2 DEF Advance, SetupReady, SetupCancelled, SetupFails,
     QuotaPaused, PersistPaused, QuotaRunning, PersistRunning, CloneCancelled,
     CloneFails, CloneDone, FailState, FailRow, EnterRealtime, PersistEnter,
     MarkCompleted, PersistFinish, PersistStopped
<1> QED
  BY <1>1, <1>2 DEF RunStep

\* A step of a goroutine keeps the types.
LEMMA RunType ==
  ASSUME TypeOK, NEW r \in Runs, RunStep(r)
  PROVE  TypeOK'
<1> USE ConstAssumption
<1>1. st' \in TaskState /\ canceler' \in 0..MaxRun /\ done' \in SUBSET Runs
  BY RunFrame, HelperTypes DEF TypeOK, NoRun
<1>2. /\ pc' \in [Runs -> RunPC] /\ quota' \in [Runs -> QuotaPC]
      /\ req' \in [Requests -> Request] /\ down' \in ShutdownPC /\ doomed' \in 0..MaxRun
  BY RunMoves DEF TypeOK, leave
<1>3. row' \in Row
  BY RunWritesRow, HelperTypes DEF WriteStatus, TypeOK
<1>4. /\ held' \in [Runs -> SUBSET Resource]
      /\ pub' \in 0..MaxRun /\ reg' \in 0..MaxRun /\ conn' \in BOOLEAN
  <2>1. r \in 0..MaxRun /\ NoRun \in 0..MaxRun
    BY DEF Runs, NoRun
  <2>2. "publisher" \in Resource /\ "localdb" \in Resource
    BY DEF Resource
  <2>3. CASE UNCHANGED <<held, slots>>
    BY <2>3 DEF slots, TypeOK
  <2>4. CASE SetPublisher(r)
    BY <2>1, <2>2, <2>4 DEF SetPublisher, TypeOK
  <2>5. CASE OpenLocalDB(r)
    BY <2>1, <2>2, <2>5 DEF OpenLocalDB, TypeOK
  <2>6. CASE RegisterRealtimeTask(r) \/ Unregister(r)
    BY <2>1, <2>6 DEF RegisterRealtimeTask, Unregister, TypeOK
  <2>7. CASE CloseLocalDB(r)
    BY <2>1, <2>7 DEF CloseLocalDB, TypeOK
  <2>8. CASE ClearPublisher(r)
    BY <2>1, <2>8 DEF ClearPublisher, TypeOK
  <2> QED
    BY <2>3, <2>4, <2>5, <2>6, <2>7, <2>8, RunSlots
<1>5. finished' \in SUBSET Runs /\ mark' \in [Runs -> Count]
  <2>1. CASE Record(r)
    BY <2>1 DEF Record, local, TypeOK
  <2>2. CASE EnterRealtime(r)
    BY <2>2 DEF EnterRealtime, TypeOK, TaskState
  <2>3. CASE MarkCompleted(r)
    BY <2>3 DEF MarkCompleted, TypeOK, TaskState
  <2>4. CASE Advance(r) /\ ~EnterRealtime(r) /\ ~MarkCompleted(r)
    <3>1. UNCHANGED <<finished, mark>>
      BY <2>4 DEF Advance, SetupReady, SetupCancelled, SetupFails, SetPublisher,
         OpenLocalDB, QuotaPaused, PersistPaused, QuotaRunning, PersistRunning,
         CloneCancelled, CloneFails, CloneDone, FailState, FailRow, PersistEnter,
         RegisterRealtimeTask, Unregister, PersistFinish, PersistStopped,
         CloseLocalDB, ClearPublisher
    <3> QED
      BY <3>1 DEF TypeOK
  <2> QED
    BY <2>1, <2>2, <2>3, <2>4 DEF RunStep
<1> QED
  BY <1>1, <1>2, <1>3, <1>4, <1>5 DEF TypeOK

\* Every step keeps the types.
LEMMA NextType == TypeOK /\ [Next]_vars => TypeOK'
<1> SUFFICES ASSUME TypeOK, [Next]_vars
             PROVE  TypeOK'
  OBVIOUS
<1>1. ASSUME NEW c \in Requests, Handler(c) PROVE TypeOK'
  BY <1>1, HandlerType
<1>2. ASSUME NEW r \in Runs, RunStep(r) PROVE TypeOK'
  BY <1>2, RunType
<1>3. CASE ShutdownTake \/ ShutdownStep
  <2>1. /\ canceler' \in 0..MaxRun /\ reg' \in 0..MaxRun /\ doomed' \in 0..MaxRun
        /\ down' \in ShutdownPC
    BY <1>3, ConstAssumption DEF ShutdownTake, ShutdownStep, ShutdownCancel,
       ShutdownUnregister, TypeOK, NoRun, ShutdownPC, engine, slots
  <2>2. done' = done \/ done' = done \cup ({doomed} \ {NoRun})
    BY <1>3 DEF ShutdownTake, ShutdownStep, ShutdownCancel, ShutdownUnregister, engine
  <2>3. {doomed} \ {NoRun} \subseteq Runs
    BY ConstAssumption DEF TypeOK, NoRun, Runs
  <2>4. done' \in SUBSET Runs
    BY <2>2, <2>3 DEF TypeOK
  <2> QED
    BY <1>3, <2>1, <2>4 DEF ShutdownTake, ShutdownStep, ShutdownCancel,
       ShutdownUnregister, TypeOK, local, slots, engine
<1>4. CASE Crash
  <2>1. row' \in Row
    BY <1>4 DEF Crash, TypeOK
  <2>2. 0 \in Count /\ 0 \in 0..MaxRun /\ "stopped" \in Status /\ "none" \in RunPC
    BY ConstAssumption DEF Count, Status, RunPC
  <2>3. NoState \in TaskState /\ Idle \in Request
    BY <2>2 DEF NoState, TaskState, Idle, Request, AllOps, Actions, ReqAt
  <2> QED
    BY <1>4, <2>1, <2>2, <2>3 DEF Crash, TypeOK, NoRun, QuotaPC, ShutdownPC
<1>5. CASE UNCHANGED vars
  BY <1>5 DEF vars, engine, slots, local, leave, TypeOK
<1> QED
  BY <1>1, <1>2, <1>3, <1>4, <1>5 DEF Next

\* TypeOK: every variable keeps its type, for any number of handlers and runs;
\* in particular the map of cancel functions and the registrations only ever
\* name runs the manager has started or none.
THEOREM TypeCorrect == Spec => []TypeOK
BY InitType, NextType, PTL DEF Spec

-----------------------------------------------------------------------------
(* The fence of run ids *)

\* A handler either starts a run, halts the current one, or leaves the run id,
\* the contexts and the goroutines alone.
LEMMA HandlerFrame ==
  ASSUME TypeOK, NEW c \in Requests, Handler(c)
  PROVE  \/ StartTask(c)
         \/ \E s \in {"stopped", "paused"} : Halt(c, s)
         \/ /\ st'.runId = st.runId
            /\ UNCHANGED <<canceler, done, local, pub, reg, leave>>
            /\ conn' = conn \/ conn' = FALSE
<1>1. CASE ResetCounters(c)
  <2>1. st \in TaskState /\ st' = [st EXCEPT !.completed = FALSE, !.processed = 0]
    BY <1>1 DEF ResetCounters, TypeOK
  <2> QED
    BY <1>1, <2>1 DEF ResetCounters, TaskState, slots
<1>2. CASE SyncFromDB(c)
  <2>1. /\ st \in TaskState
        /\ st' = [st EXCEPT !.processed = Larger(req[c].task.processed, @),
                            !.status = req[c].task.status]
    BY <1>2 DEF SyncFromDB, TypeOK
  <2> QED
    BY <1>2, <2>1 DEF SyncFromDB, TaskState, slots
<1>3. CASE StopTask(c) \/ PauseTask(c)
  BY <1>3 DEF StopTask, PauseTask
<1>4. CASE \/ \E op \in Ops : Arrive(c, op)
           \/ ApplyTaskAction(c) \/ PersistSnapshot(c) \/ PersistZero(c) \/ LoadRow(c)
           \/ SaveRow(c) \/ DestroyLocalDB(c) \/ RemoveRow(c)
  BY <1>4 DEF ApplyTaskAction, Arrive, PersistSnapshot, PersistZero, LoadRow, SaveRow,
     DestroyLocalDB, RemoveRow, engine, slots
<1> QED
  BY <1>1, <1>2, <1>3, <1>4 DEF Handler

\* Cancelling the current context leaves no live run but the doomed one.
LEMMA CancelRetires ==
  ASSUME TypeOK, FenceInv, CancelCurrent
  PROVE  /\ \A r \in Runs : pc[r] # "none" => r \in done' \/ r = doomed
         /\ \A r \in Runs : r \in done' => pc[r] # "none"
BY DEF FenceInv, StartedFirst, CancelerIsLive, OthersCancelled, CancelCurrent, NoRun,
   Runs, TypeOK

\* StartTask takes a run id nobody has had.
LEMMA StartFrame ==
  ASSUME TypeOK, FenceInv, NEW c \in Requests, StartTask(c)
  PROVE  LET n == st.runId + 1 IN
         /\ n \in Runs /\ n # NoRun /\ n # doomed /\ pc[n] = "none" /\ n \notin done'
         /\ st'.runId = n /\ canceler' = n /\ CancelCurrent
         /\ pc' = [pc EXCEPT ![n] = "setup"]
<1>1. st.runId \in Nat /\ st.runId + 1 \in Runs /\ st.runId + 1 > st.runId
  BY ConstAssumption DEF StartTask, TypeOK, TaskState, Runs
<1>2. pc[st.runId + 1] = "none"
  BY <1>1 DEF FenceInv, FreshIds
<1>3. st'.runId = st.runId + 1 /\ canceler' = st.runId + 1 /\ CancelCurrent
      /\ pc' = [pc EXCEPT ![st.runId + 1] = "setup"]
  BY DEF StartTask, DropRun
<1>4. st.runId + 1 \notin done'
  BY <1>1, <1>2, <1>3, CancelRetires
<1>5. st.runId + 1 # doomed
  BY <1>1, <1>2 DEF FenceInv, DoomedIsTaken, NoRun, Runs
<1> QED
  BY <1>1, <1>2, <1>3, <1>4, <1>5 DEF NoRun, Runs

\* The initial state satisfies the fence.
LEMMA FenceInit == Init => FenceInv
BY DEF Init, FenceInv, FreshIds, StartedFirst, CancelerIsLive, DoomedIsTaken,
   OthersCancelled, NoRun

\* Every step keeps the fence.
LEMMA FenceStep == TypeOK /\ FenceInv /\ [Next]_vars => FenceInv'
<1> SUFFICES ASSUME TypeOK, FenceInv, [Next]_vars
             PROVE  FenceInv'
  OBVIOUS
<1> USE DEF FenceInv, FreshIds, StartedFirst, CancelerIsLive, DoomedIsTaken, OthersCancelled
<1>1. ASSUME NEW c \in Requests, StartTask(c) PROVE FenceInv'
  <2> DEFINE n == st.runId + 1
  <2>1. /\ n \in Runs /\ n # NoRun /\ n # doomed /\ pc[n] = "none" /\ n \notin done'
        /\ st'.runId = n /\ canceler' = n /\ pc' = [pc EXCEPT ![n] = "setup"]
    BY <1>1, StartFrame
  <2>2. \A r \in Runs : /\ pc[r] # "none" => r \in done' \/ r = doomed
                        /\ r \in done' => pc[r] # "none"
    BY <1>1, StartFrame, CancelRetires
  <2>3. pc \in [Runs -> RunPC] /\ st.runId \in Nat /\ doomed \in 0..MaxRun
    BY DEF TypeOK, TaskState
  <2>4. UNCHANGED <<quota, down, doomed>>
    BY <1>1 DEF StartTask, leave
  <2>5. FreshIds'
    BY <2>1, <2>3 DEF Runs
  <2>6. DoomedIsTaken'
    BY <2>1, <2>3, <2>4 DEF NoRun, Runs
  <2> QED
    BY <2>1, <2>2, <2>3, <2>4, <2>5, <2>6
<1>2. ASSUME NEW c \in Requests, NEW s \in {"stopped", "paused"}, Halt(c, s)
      PROVE  FenceInv'
  <2>1. CancelCurrent /\ canceler' = NoRun /\ UNCHANGED <<pc, quota, down, doomed>>
    BY <1>2 DEF Halt, DropRun, local, leave
  <2>2. st \in TaskState /\ st' = [st EXCEPT !.runId = st.runId + 1, !.status = s]
    BY <1>2 DEF Halt, TypeOK
  <2>3. st'.runId = st.runId + 1 /\ st.runId \in Nat
    BY <2>2 DEF TaskState
  <2>4. FreshIds'
    BY <2>1, <2>3 DEF Runs
  <2> QED
    BY <2>1, <2>4, CancelRetires
<1>3. ASSUME st'.runId = st.runId, UNCHANGED <<canceler, done, pc, quota, leave>>
      PROVE  FenceInv'
  BY <1>3 DEF leave
<1>4. ASSUME NEW c \in Requests, Handler(c) PROVE FenceInv'
  BY <1>1, <1>2, <1>3, <1>4, HandlerFrame DEF local
<1>5. ASSUME NEW r \in Runs, RunStep(r) PROVE FenceInv'
  <2>1. pc[r] # "none" /\ \A x \in Runs : pc'[x] = "none" <=> pc[x] = "none"
    BY <1>5, RunStarted
  <2>2. \A x \in Runs \ {r} : quota'[x] = quota[x]
    BY <1>5, RunMoves DEF TypeOK
  <2>3. st'.runId = st.runId /\ UNCHANGED leave
    BY <1>5, RunFrame, RunMoves
  <2>4. canceler \in Runs \cup {NoRun} /\ doomed \in Runs \cup {NoRun}
    BY ConstAssumption DEF TypeOK, Runs, NoRun
  <2>5. CASE UNCHANGED <<canceler, done>>
    BY <2>1, <2>2, <2>3, <2>4, <2>5 DEF leave
  <2>6. CASE CancelCurrent /\ canceler' = NoRun
    BY <2>1, <2>2, <2>3, <2>4, <2>6, CancelRetires DEF leave
  <2> QED
    BY <1>5, <2>5, <2>6, RunFrame
<1>6. CASE ShutdownTake
  <2>1. doomed = NoRun
    BY <1>6 DEF ShutdownTake
  <2> QED
    BY <1>6, <2>1 DEF ShutdownTake, local, NoRun
<1>7. CASE ShutdownCancel
  BY <1>7, ConstAssumption DEF ShutdownCancel, local, NoRun, TypeOK, Runs
<1>8. CASE ShutdownUnregister
  BY <1>8 DEF ShutdownUnregister, engine, local
<1>9. CASE Crash
  BY <1>9 DEF Crash, NoRun
<1>10. CASE UNCHANGED vars
  BY <1>10 DEF vars, engine, local, leave
<1> QED
  BY <1>4, <1>5, <1>6, <1>7, <1>8, <1>9, <1>10 DEF Next, ShutdownStep

\* The fence and the types hold in every reachable state.
LEMMA FenceAlways == Spec => [](TypeOK /\ FenceInv)
<1>1. Init => TypeOK /\ FenceInv
  BY InitType, FenceInit
<1>2. TypeOK /\ FenceInv /\ [Next]_vars => (TypeOK /\ FenceInv)'
  BY NextType, FenceStep
<1> QED
  BY <1>1, <1>2, PTL DEF Spec

\* LiveRunIsCurrent: a goroutine whose context is alive is the current run and
\* the one the manager can cancel, however many handlers start, stop, pause,
\* restart, edit and delete the task at once (StartTask, StopTask, PauseTask,
\* markCompleted, Shutdown).
THEOREM LiveRunIsCurrentHolds == Spec => []LiveRunIsCurrent
<1>1. TypeOK /\ FenceInv => LiveRunIsCurrent
  BY DEF FenceInv, OthersCancelled, CancelerIsLive, LiveRunIsCurrent, Live, Cancelled,
     Over, NoRun, Runs
<1> QED
  BY <1>1, FenceAlways, PTL

\* StaleRunInert: a goroutine that is not the current run changes neither the
\* state nor the status column (the RunID checks of worker.go and quota.go, and
\* the cancelled context of updateTaskStatus).
THEOREM StaleRunInertHolds == Spec => StaleRunInert
<1> DEFINE Inert == \A r \in Runs : RunStep(r) /\ r \notin {st.runId, doomed} =>
                      /\ UNCHANGED <<st, canceler>>
                      /\ row'.status = row.status
<1>1. TypeOK /\ FenceInv /\ [Next]_vars => [Inert]_vars
  <2> SUFFICES ASSUME TypeOK, FenceInv, NEW r \in Runs, RunStep(r), r \notin {st.runId, doomed}
               PROVE  UNCHANGED <<st, canceler>> /\ row'.status = row.status
    OBVIOUS
  <2>1. r \in done
    BY RunStarted DEF FenceInv, OthersCancelled, CancelerIsLive, NoRun, Runs
  <2>2. canceler' = canceler
    BY RunFrame
  <2>3. st' = st
    BY DEF RunStep, Record, Current, Advance, FencedStatus, SetupReady, SetupCancelled,
       SetupFails, SetPublisher, OpenLocalDB, QuotaPaused, PersistPaused,
       QuotaRunning, PersistRunning, CloneCancelled, CloneFails, CloneDone, FailState,
       FailRow, EnterRealtime, PersistEnter, RegisterRealtimeTask, Unregister,
       MarkCompleted, PersistFinish, PersistStopped, CloseLocalDB, ClearPublisher,
       engine
  <2>4. row' = row \/ \E n \in Count : row' = SetProcessed(n)
    BY <2>1, RunWritesRow DEF WriteStatus, Cancelled
  <2>5. row'.status = row.status
    BY <2>4 DEF SetProcessed, TypeOK, Row
  <2> QED
    BY <2>2, <2>3, <2>5
<1>2. [](TypeOK /\ FenceInv) /\ [][Next]_vars => [][Inert]_vars
  BY <1>1, PTL
<1> QED
  BY <1>2, FenceAlways, PTL DEF Spec, StaleRunInert

-----------------------------------------------------------------------------
(* The shared slots *)

\* Nothing is held and every slot is empty in a new process.
LEMMA SlotInit == Init => SlotInv
BY DEF Init, SlotInv, PublisherHeld, WatcherHeld, LocalDBHeld, ReleasedInOrder, NoRun

\* Steps that keep the releases and only empty slots keep the slot invariant:
\* the handlers and Shutdown.
LEMMA SlotEmptied ==
  ASSUME TypeOK, SlotInv, UNCHANGED held,
         pub' = pub \/ pub' = NoRun, reg' = reg \/ reg' = NoRun,
         conn' = conn \/ conn' = FALSE,
         \/ UNCHANGED pc
         \/ \E n \in Runs : pc[n] = "none" /\ pc' = [pc EXCEPT ![n] = "setup"]
  PROVE  SlotInv'
<1> USE DEF SlotInv, PublisherHeld, WatcherHeld, LocalDBHeld, ReleasedInOrder
<1>1. PublisherHeld' /\ LocalDBHeld'
  BY DEF NoRun
<1>2. \A x \in Runs : pc[x] # "none" => pc'[x] = pc[x]
  BY DEF TypeOK
<1>3. \A x \in Runs : pc[x] = "none" => held[x] = {}
  BY DEF Over
<1>4. WatcherHeld'
  BY <1>2 DEF NoRun, TypeOK, Runs
<1>5. ReleasedInOrder'
  BY <1>2, <1>3
<1> QED
  BY <1>1, <1>4, <1>5

\* Where a goroutine goes in a step that releases nothing: it is over only if it
\* holds nothing, and it does not leave "watch".
LEMMA RunLeaves ==
  ASSUME TypeOK, NEW r \in Runs, RunStep(r),
         ~Unregister(r), ~CloseLocalDB(r), ~ClearPublisher(r)
  PROVE  \/ UNCHANGED pc
         \/ /\ pc'[r] \in Over => held[r] = {}
            /\ pc'[r] # "releasePub" /\ pc[r] # "watch"
<1>1. pc \in [Runs -> RunPC]
  BY DEF TypeOK
<1>2. CASE Record(r)
  BY <1>2 DEF Record, local
<1>3. CASE Advance(r)
  BY <1>1, <1>3 DEF Advance, Step, Jump, Exit, Over, SetupReady, SetupCancelled,
     SetupFails, SetPublisher, OpenLocalDB, QuotaPaused, PersistPaused, QuotaRunning,
     PersistRunning, CloneCancelled, CloneFails, CloneDone, FailState, FailRow,
     EnterRealtime, PersistEnter, RegisterRealtimeTask, MarkCompleted, PersistFinish,
     PersistStopped
<1> QED
  BY <1>2, <1>3 DEF RunStep

\* A step of a goroutine keeps the slot invariant.
LEMMA RunKeepsSlots ==
  ASSUME TypeOK, SlotInv, NEW r \in Runs, RunStep(r)
  PROVE  SlotInv'
<1> USE DEF SlotInv, PublisherHeld, WatcherHeld, LocalDBHeld, ReleasedInOrder
<1>1. \E at \in RunPC : pc' = [pc EXCEPT ![r] = at]
  BY RunMoves
<1>2. /\ pc \in [Runs -> RunPC] /\ held \in [Runs -> SUBSET Resource]
      /\ pub # NoRun => pub \in Runs
      /\ reg # NoRun => reg \in Runs
      /\ r # NoRun
  BY DEF TypeOK, NoRun, Runs
<1>3. \A x \in Runs \ {r} : pc'[x] = pc[x]
  BY <1>1, <1>2
<1>4. CASE UNCHANGED <<held, slots>> /\ ~Unregister(r) /\ ~CloseLocalDB(r) /\ ~ClearPublisher(r)
  <2>1. \/ UNCHANGED pc
        \/ /\ pc'[r] \in Over => held[r] = {}
           /\ pc'[r] # "releasePub" /\ pc[r] # "watch"
    BY <1>4, RunLeaves
  <2> QED
    BY <1>2, <1>3, <1>4, <2>1 DEF slots
<1>5. CASE SetPublisher(r)
  BY <1>2, <1>3, <1>5 DEF SetPublisher, Step, Jump, Over
<1>6. CASE OpenLocalDB(r)
  BY <1>2, <1>3, <1>6 DEF OpenLocalDB, Step, Jump, Over
<1>7. CASE RegisterRealtimeTask(r)
  BY <1>2, <1>3, <1>7 DEF RegisterRealtimeTask, Step, Jump, Over
<1>8. CASE Unregister(r)
  BY <1>2, <1>3, <1>8 DEF Unregister, Jump, Exit, Over
<1>9. CASE CloseLocalDB(r)
  <2>1. held' = [held EXCEPT ![r] = @ \ {"localdb"}] /\ pc' = [pc EXCEPT ![r] = "releasePub"]
    BY <1>9 DEF CloseLocalDB, Step, Jump
  <2>2. PublisherHeld'
    BY <1>2, <1>9, <2>1 DEF CloseLocalDB
  <2>3. WatcherHeld'
    BY <1>2, <1>9, <2>1 DEF CloseLocalDB, Step
  <2>4. LocalDBHeld'
    BY <1>2, <1>9, <2>1 DEF CloseLocalDB
  <2>5. ReleasedInOrder'
    BY <1>2, <1>3, <2>1 DEF Over
  <2> QED
    BY <2>2, <2>3, <2>4, <2>5
<1>10. CASE ClearPublisher(r)
  <2>1. held' = [held EXCEPT ![r] = {}] /\ pc' = [pc EXCEPT ![r] = "gone"]
    BY <1>10 DEF ClearPublisher, Step, Jump
  <2>2. PublisherHeld'
    BY <1>2, <1>10, <2>1 DEF ClearPublisher
  <2>3. WatcherHeld'
    BY <1>2, <1>10, <2>1 DEF ClearPublisher, Step
  <2>4. LocalDBHeld'
    BY <1>2, <1>10, <2>1 DEF ClearPublisher, Step
  <2>5. ReleasedInOrder'
    BY <1>2, <1>3, <2>1 DEF Over
  <2> QED
    BY <2>2, <2>3, <2>4, <2>5
<1> QED
  BY <1>4, <1>5, <1>6, <1>7, <1>8, <1>9, <1>10, RunSlots

\* Every step keeps the slot invariant.
LEMMA SlotStep == TypeOK /\ FenceInv /\ SlotInv /\ [Next]_vars => SlotInv'
<1> SUFFICES ASSUME TypeOK, FenceInv, SlotInv, [Next]_vars
             PROVE  SlotInv'
  OBVIOUS
<1>1. ASSUME NEW c \in Requests, StartTask(c) PROVE SlotInv'
  <2>1. /\ UNCHANGED <<held, conn>> /\ pub' = NoRun /\ reg' = NoRun
        /\ \E n \in Runs : pc[n] = "none" /\ pc' = [pc EXCEPT ![n] = "setup"]
    BY <1>1, StartFrame DEF StartTask, DropRun
  <2> QED
    BY <2>1, SlotEmptied
<1>2. ASSUME NEW c \in Requests, NEW s \in {"stopped", "paused"}, Halt(c, s)
      PROVE  SlotInv'
  BY <1>2, SlotEmptied DEF Halt, DropRun, local
<1>3. ASSUME NEW c \in Requests, Handler(c) PROVE SlotInv'
  BY <1>1, <1>2, <1>3, HandlerFrame, SlotEmptied DEF local
<1>4. ASSUME NEW r \in Runs, RunStep(r) PROVE SlotInv'
  BY <1>4, RunKeepsSlots
<1>5. CASE ShutdownTake \/ ShutdownStep
  BY <1>5, SlotEmptied DEF ShutdownTake, ShutdownStep, ShutdownCancel,
     ShutdownUnregister, local, slots
<1>6. CASE Crash
  BY <1>6 DEF Crash, SlotInv, PublisherHeld, WatcherHeld, LocalDBHeld,
     ReleasedInOrder, NoRun
<1>7. CASE UNCHANGED vars
  BY <1>7, SlotEmptied DEF vars, local, slots
<1> QED
  BY <1>3, <1>4, <1>5, <1>6, <1>7 DEF Next

\* The inductive invariant holds in every reachable state.
LEMMA IInvAlways == Spec => []IInv
<1>1. Init => IInv
  BY InitType, FenceInit, SlotInit DEF IInv
<1>2. IInv /\ [Next]_vars => IInv'
  BY NextType, FenceStep, SlotStep DEF IInv
<1> QED
  BY <1>1, <1>2, PTL DEF Spec

\* NothingLeaks: once every goroutine of the task has returned, no publisher, no
\* registration and no localdb connection is left, although runTransferLoop and
\* unregisterTask release them by task id and not by run.
THEOREM NothingLeaksHolds == Spec => []NothingLeaks
<1>1. IInv => NothingLeaks
  BY DEF IInv, TypeOK, SlotInv, PublisherHeld, WatcherHeld, LocalDBHeld,
     ReleasedInOrder, NothingLeaks, Over, NoRun, Runs
<1> QED
  BY <1>1, IInvAlways, PTL

-----------------------------------------------------------------------------
(* The manager implements SingleRunner *)

\* Cancelling the current context is SingleRunner's RetireLive.
LEMMA CancelIsRetireLive ==
  ASSUME TypeOK, FenceInv, CancelCurrent, UNCHANGED doomed,
         \A x \in Runs : pc'[x] = "none" <=> pc[x] = "none"
  PROVE  phaseBar' = Runner!RetireLive
BY CancelRetires DEF phaseBar, Cancelled, Runner!RetireLive

\* Steps that cancel nothing and start nothing are invisible to SingleRunner.
LEMMA QuietStutters ==
  ASSUME UNCHANGED <<done, doomed>>, \A x \in Runs : pc'[x] = "none" <=> pc[x] = "none"
  PROVE  phaseBar' = phaseBar
BY DEF phaseBar, Cancelled

\* Shutdown retires the run when it takes the cancel function; calling it later
\* changes nothing.
LEMMA ShutdownRetires ==
  ASSUME TypeOK, FenceInv
  PROVE  /\ ShutdownTake => Runner!Retire
         /\ ShutdownStep => phaseBar' = phaseBar
<1>1. ASSUME ShutdownTake PROVE Runner!Retire
  <2>1. doomed = NoRun /\ doomed' = canceler /\ UNCHANGED <<pc, done>>
    BY <1>1 DEF ShutdownTake, FenceInv, DoomedIsTaken, local
  <2>2. \A r \in Runs : r # NoRun
    BY DEF Runs, NoRun
  <2>3. phaseBar' = Runner!RetireLive
    BY <2>1, <2>2 DEF phaseBar, Cancelled, Runner!RetireLive, FenceInv, OthersCancelled,
       CancelerIsLive
  <2> QED
    BY <2>3 DEF Runner!Retire
<1>2. ASSUME ShutdownStep PROVE phaseBar' = phaseBar
  <2>1. CASE ShutdownCancel
    <3>1. \A r \in Runs : r # NoRun
      BY DEF Runs, NoRun
    <3> QED
      BY <2>1, <3>1 DEF ShutdownCancel, phaseBar, Cancelled, local
  <2>2. CASE ShutdownUnregister
    BY <2>2, QuietStutters DEF ShutdownUnregister, engine, local
  <2> QED
    BY <1>2, <2>1, <2>2 DEF ShutdownStep
<1> QED
  BY <1>1, <1>2

\* StartTask is SingleRunner's Admit.
LEMMA StartAdmits ==
  ASSUME TypeOK, FenceInv, NEW c \in Requests, StartTask(c)
  PROVE  \E r \in Runs : Runner!Admit(r)
<1> DEFINE n == st.runId + 1
<1>1. /\ n \in Runs /\ pc[n] = "none" /\ n \notin done' /\ n # doomed /\ CancelCurrent
      /\ pc' = [pc EXCEPT ![n] = "setup"] /\ UNCHANGED doomed
  BY StartFrame DEF StartTask, leave
<1>2. \A r \in Runs : /\ pc[r] # "none" => r \in done' \/ r = doomed
                      /\ r \in done' => pc[r] # "none"
  BY <1>1, CancelRetires
<1>3. pc \in [Runs -> RunPC]
  BY DEF TypeOK
<1>4. phaseBar[n] = "idle"
  BY <1>1 DEF phaseBar
<1>5. phaseBar' = [Runner!RetireLive EXCEPT ![n] = "live"]
  BY <1>1, <1>2, <1>3 DEF phaseBar, Cancelled, Runner!RetireLive
<1> QED
  BY <1>1, <1>4, <1>5 DEF Runner!Admit

\* Every step of the manager and of its goroutines is a step of SingleRunner.
LEMMA NextImplements ==
  TypeOK /\ FenceInv /\ [Next]_vars => [Runner!Next]_phaseBar
<1> SUFFICES ASSUME TypeOK, FenceInv, [Next]_vars
             PROVE  [Runner!Next]_phaseBar
  OBVIOUS
<1>1. ASSUME NEW c \in Requests, Handler(c) PROVE [Runner!Next]_phaseBar
  <2>1. CASE StartTask(c)
    BY <2>1, StartAdmits DEF Runner!Next
  <2>2. ASSUME NEW s \in {"stopped", "paused"}, Halt(c, s)
        PROVE  Runner!Retire
    BY <2>2, CancelIsRetireLive DEF Halt, DropRun, local, leave, Runner!Retire
  <2>3. CASE UNCHANGED <<canceler, done, local, pub, reg, leave>>
    BY <2>3, QuietStutters DEF local, leave
  <2> QED
    BY <1>1, <2>1, <2>2, <2>3, HandlerFrame DEF Runner!Next
<1>2. ASSUME NEW r \in Runs, RunStep(r) PROVE [Runner!Next]_phaseBar
  <2>1. UNCHANGED doomed /\ \A x \in Runs : pc'[x] = "none" <=> pc[x] = "none"
    BY <1>2, RunStarted, RunMoves DEF leave
  <2>2. CASE UNCHANGED <<canceler, done>>
    BY <2>1, <2>2, QuietStutters
  <2>3. CASE CancelCurrent
    BY <2>1, <2>3, CancelIsRetireLive DEF Runner!Next, Runner!Retire
  <2> QED
    BY <1>2, <2>2, <2>3, RunFrame
<1>3. CASE ShutdownTake \/ ShutdownStep
  BY <1>3, ShutdownRetires DEF Runner!Next
<1>4. CASE Crash
  BY <1>4 DEF Crash, phaseBar, Runner!Next, Runner!Restart
<1>5. CASE UNCHANGED vars
  BY <1>5, QuietStutters DEF vars, engine, local, leave
<1> QED
  BY <1>1, <1>2, <1>3, <1>4, <1>5 DEF Next

\* RunsAreAdmittedOnce: the task manager and its goroutines implement
\* SingleRunner: a run is admitted once, by StartTask, and admitting it retires
\* the one before.
THEOREM RunsAreAdmittedOnceHolds == Spec => RunsAreAdmittedOnce
<1>1. Init => Runner!Init
  BY DEF Init, phaseBar, Runner!Init
<1>2. TypeOK /\ FenceInv /\ [Next]_vars => [Runner!Next]_phaseBar
  BY NextImplements
<1> QED
  BY <1>1, <1>2, FenceAlways, PTL DEF Spec, RunsAreAdmittedOnce, Runner!Spec

\* OneLiveRun holds of the task manager: no two goroutines of one task have a
\* live context, but for the one whose cancel function Shutdown is about to call.
THEOREM OneLiveRunHolds == Spec => []Runner!OneLiveRun
<1>1. TypeOK /\ FenceInv => Runner!OneLiveRun
  BY DEF FenceInv, OthersCancelled, Runner!OneLiveRun, phaseBar, Cancelled
<1> QED
  BY <1>1, FenceAlways, PTL
=============================================================================
