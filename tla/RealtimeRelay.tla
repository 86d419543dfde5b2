--------------------------- MODULE RealtimeRelay ---------------------------
(***************************************************************************)
(* The realtime relay of one run (engine/monitor.go, engine/grouper.go,    *)
(* engine/dedup.go): new channel messages reach it through pushed updates  *)
(* and through its poller, both dispatch them (de-duplication, album       *)
(* grouping, bounded queue), and one worker handles the queue in order and *)
(* moves the cursor.                                                       *)
(*                                                                         *)
(* Messages are numbered as they are posted.  Every section under a lock,  *)
(* every channel operation and every database statement is a step.         *)
(* Filtering, sending and failing are one outcome here, "handled": all of  *)
(* them end in advanceCursor.  The units a message costs the slot are the  *)
(* matter of SlotScheduler, the overlap of runs that of TaskLifecycle:     *)
(* what the run before this one may still do to it is Unregister.  The     *)
(* gauge of pending jobs, which only the dashboard reads, is left out.     *)
(***************************************************************************)
EXTENDS Integers, FiniteSets, Sequences, SequencesExt, FiniteSetsExt

CONSTANTS
  LastId,       \* bound: messages 1..LastId are posted
  Albums,       \* sets of messages that share a grouped_id
  Replies,      \* messages that cost the slot no unit (KeepReply)
  QueueCap,     \* capacity of runtimeTask.queue
  PageSize,     \* defaultHistoryPageSize
  CatchUp,      \* maxCatchUpUnits
  Remaining,    \* what PeekPull may leave to the poller; -1 is no limit
  NewToOld,     \* TRUE iff Task.HistoryOrder is HistoryOrderNewToOld
  Pushes,       \* TRUE iff Task.Realtime: updates are dispatched
  EarlyExpiry   \* TRUE iff the Deduper may forget a message still unhandled

Messages == 1..LastId
Callers  == {"push", "poll"}      \* the goroutines that dispatch messages

ASSUME RelayAssumption ==
  /\ LastId \in Nat /\ QueueCap \in Nat /\ PageSize \in Nat \ {0}
  /\ CatchUp \in Nat /\ Remaining \subseteq Int
  /\ \A a \in Albums : a \subseteq Messages
  /\ \A a, b \in Albums : a = b \/ a \cap b = {}
  /\ NewToOld \in BOOLEAN /\ Pushes \in BOOLEAN /\ EarlyExpiry \in BOOLEAN

VARIABLES
  posted,     \* the newest message of the source channel
  row,        \* the tasks row: the cursor
  live,       \* the run is the active one and its context is not cancelled
  registered, \* the run is in tasksByID and bySource
  done,       \* runtimeTask.done is closed
  queue,      \* runtimeTask.queue
  waiter,     \* runtimeTask.albumWait: per album the number of a channel, or 0
  chans,      \* the album channels made so far
  cursor,     \* latestProcessedIDSnapshot
  worker,     \* runtimeTask.run
  poller,     \* runtimeTask.startPoller
  call,       \* dispatchMessageToRuntimeTask, one per caller
  seen,       \* Deduper.entries of the task
  groups,     \* AlbumGrouper.groups of the task
  fired,      \* batches taken by a timer and not yet delivered
  handled,    \* history: how often the run has handled a message
  strays      \* history: messages of a batch that nobody waited for

life   == <<live, registered, done>>
task   == <<queue, waiter, chans, cursor>>
shared == <<seen, groups, fired, strays>>
vars == <<posted, row, life, task, worker, poller, call, shared, handled>>
-----------------------------------------------------------------------------
Albumed(m) == \E a \in Albums : m \in a
AlbumOf(m) == CHOOSE a \in Albums : m \in a

OffDuty  == [at |-> "off", batch |-> {}, ch |-> 0]
Idle     == [OffDuty EXCEPT !.at = "idle"]
NoPoll   == [at |-> "off", latest |-> 0, after |-> 0, page |-> <<>>, max |-> 0,
             advanced |-> FALSE, units |-> 0, budget |-> 0, limited |-> FALSE,
             albums |-> {}]
Waiting  == [NoPoll EXCEPT !.at = "wait"]
NoCall   == [at |-> "none", id |-> 0]
OpenChan == [closed |-> FALSE, batch |-> {}]
Job(ms, ch) == [batch |-> ms, ch |-> ch]     \* a single has no channel: ch = 0
Jobs == [batch : SUBSET Messages, ch : Nat]

Ended == ~live \/ done

TypeOK ==
  /\ posted \in 0..LastId
  /\ row \in 0..LastId /\ cursor \in 0..LastId
  /\ live \in BOOLEAN /\ registered \in BOOLEAN /\ done \in BOOLEAN
  /\ queue \in Seq(Jobs) /\ Len(queue) <= QueueCap
  /\ waiter \in [Albums -> 0..Len(chans)]
  /\ chans \in Seq([closed : BOOLEAN, batch : SUBSET Messages])
  /\ worker \in [at : {"off", "idle", "album", "handle", "persist", "out"},
                 batch : SUBSET Messages, ch : 0..Len(chans)]
  /\ poller \in [at : {"off", "wait", "asked", "persist", "msgs", "out"},
                 latest : 0..LastId, after : 0..LastId, page : Seq(Messages),
                 max : 0..LastId, advanced : BOOLEAN, units : Nat,
                 budget : Int, limited : BOOLEAN, albums : SUBSET Albums]
  /\ call \in [Callers -> [at : {"none", "mark", "enqueue", "forget", "add"},
                           id : 0..LastId]]
  /\ seen \subseteq Messages /\ strays \subseteq Messages
  /\ groups \in [Albums -> SUBSET Messages]
  /\ fired \subseteq [album : Albums, msgs : SUBSET Messages]
  /\ handled \in [Messages -> Nat]

Init ==
  /\ posted = 0 /\ row = 0
  /\ live = TRUE /\ registered = FALSE /\ done = FALSE
  /\ queue = <<>> /\ waiter = [a \in Albums |-> 0] /\ chans = <<>> /\ cursor = 0
  /\ worker = OffDuty /\ poller = NoPoll /\ call = [c \in Callers |-> NoCall]
  /\ seen = {} /\ groups = [a \in Albums |-> {}] /\ fired = {} /\ strays = {}
  /\ handled = [m \in Messages |-> 0]
-----------------------------------------------------------------------------
(* The channel and the life of the run around the relay. *)

\* Telegram: a message is posted (bound: while the run can still see it).
Post ==
  /\ posted < LastId /\ ~Ended
  /\ posted' = posted + 1
  /\ UNCHANGED <<row, life, task, worker, poller, call, shared, handled>>

\* The history clone of the run ends: it has handled what is posted.
CloneHistory ==
  /\ live /\ worker.at = "off" /\ row < posted
  /\ row' = posted
  /\ UNCHANGED <<posted, life, task, worker, poller, call, shared, handled>>

\* registerRealtimeTask, with the cursor the run has read from the row.
Register ==
  /\ live /\ worker.at = "off"
  /\ registered' = TRUE
  /\ cursor' = row
  /\ worker' = Idle /\ poller' = Waiting
  /\ UNCHANGED <<posted, row, live, done, queue, waiter, chans, call, shared,
                 handled>>

\* runtimeTask.stop: done is closed, every waiter is removed and closed.
StopTask ==
  /\ done' = TRUE
  /\ waiter' = [a \in Albums |-> 0]
  /\ chans' = [i \in DOMAIN chans |->
                 IF i \in Range(waiter) THEN [chans[i] EXCEPT !.closed = TRUE] ELSE chans[i]]

\* unregisterTask goes by the task id: this run's own call after its context
\* ended, or a late one of the run it has replaced.
UnregisterTask ==
  /\ registered' = FALSE
  /\ seen' = {}
  /\ IF registered THEN StopTask ELSE UNCHANGED <<done, waiter, chans>>
Unregister ==
  /\ worker.at # "off" /\ (registered \/ seen # {})
  /\ UnregisterTask
  /\ UNCHANGED <<posted, row, live, queue, cursor, worker, poller, call, groups,
                 fired, strays, handled>>

\* PauseTask, StopTask, or the StartTask of the next run.
CancelRun ==
  /\ live
  /\ live' = FALSE
  /\ groups' = [a \in Albums |-> {}]
  /\ UnregisterTask
  /\ UNCHANGED <<posted, row, queue, cursor, worker, poller, call, fired,
                 strays, handled>>
-----------------------------------------------------------------------------
(* dispatchMessageToRuntimeTask, called for an update and by the poller. *)

\* Stopped, not the active run, or already below the cursor: refused.
RefusedEnded(m) == Ended              \* mutant: the cursor is not looked at
Refused(m) == Ended \/ (~NewToOld /\ cursor > 0 /\ m <= cursor)

\* dispatchChannelMessage for a pushed update; Telegram may push a message late,
\* out of order, again or not at all.
DispatchUpdate(m) ==
  /\ call["push"].at = "none" /\ m <= posted
  /\ registered /\ Pushes /\ ~Refused(m)
  /\ call' = [call EXCEPT !["push"] = [at |-> "mark", id |-> m]]
  /\ UNCHANGED <<posted, row, life, task, worker, poller, shared, handled>>

\* What pollOnce does with the answer for its message.
Cost(p, m) == IF m \in Replies \/ (Albumed(m) /\ AlbumOf(m) \in p.albums) THEN 0 ELSE 1
Told(p, m, ok) ==
  [p EXCEPT !.page = Tail(p.page),
            !.albums = IF Albumed(m) THEN @ \cup {AlbumOf(m)} ELSE @,
            !.advanced = @ \/ ok,
            !.units = IF ok THEN @ + Cost(p, m) ELSE @,
            !.max = IF ok /\ m > @ THEN m ELSE @]
Return(c, ok) ==
  /\ call' = [call EXCEPT ![c] = NoCall]
  /\ poller' = IF c = "push" THEN poller ELSE Told(poller, call[c].id, ok)
GoesTo(c, at) == call' = [call EXCEPT ![c].at = at] /\ UNCHANGED poller

\* Deduper.Seen
Seen(c) ==
  /\ call[c].at = "mark"
  /\ IF call[c].id \in seen
     THEN Return(c, FALSE) /\ UNCHANGED seen
     ELSE GoesTo(c, "enqueue") /\ seen' = seen \cup {call[c].id}
  /\ UNCHANGED <<posted, row, life, task, worker, groups, fired, strays, handled>>

\* runtimeTask.enqueue: with done closed and room left, select takes either.
MayEnqueueAlways == live              \* mutant: the queue has no bound
MayEnqueue == live /\ Len(queue) < QueueCap
MayRefuse  == ~MayEnqueue \/ done

EnqueueSingle(c) ==
  /\ call[c].at = "enqueue" /\ ~Albumed(call[c].id)
  /\ \/ MayEnqueue /\ queue' = Append(queue, Job({call[c].id}, 0)) /\ Return(c, TRUE)
     \/ MayRefuse /\ GoesTo(c, "forget") /\ UNCHANGED queue
  /\ UNCHANGED <<posted, row, life, waiter, chans, cursor, worker, shared, handled>>

\* Mutant: every message of an album queues a job of its own.
EnsureAlbumWaiterAlways(c) ==
  LET a == AlbumOf(call[c].id) n == Len(chans) + 1 IN
  /\ call[c].at = "enqueue" /\ Albumed(call[c].id) /\ MayEnqueue
  /\ queue' = Append(queue, Job({}, n))
  /\ chans' = Append(chans, OpenChan)
  /\ waiter' = [waiter EXCEPT ![a] = n]
  /\ GoesTo(c, "add")
  /\ UNCHANGED <<posted, row, life, cursor, worker, shared, handled>>

\* ensureAlbumWaiter: the first message of an album queues its job.
EnsureAlbumWaiter(c) ==
  LET a == AlbumOf(call[c].id) n == Len(chans) + 1 IN
  /\ call[c].at = "enqueue" /\ Albumed(call[c].id)
  /\ \/ waiter[a] # 0 /\ GoesTo(c, "add") /\ UNCHANGED <<queue, chans, waiter>>
     \/ /\ waiter[a] = 0 /\ MayEnqueue
        /\ queue' = Append(queue, Job({}, n))
        /\ chans' = Append(chans, OpenChan)
        /\ waiter' = [waiter EXCEPT ![a] = n]
        /\ GoesTo(c, "add")
     \/ /\ waiter[a] = 0 /\ MayRefuse
        /\ GoesTo(c, "forget") /\ UNCHANGED <<queue, chans, waiter>>
  /\ UNCHANGED <<posted, row, life, cursor, worker, shared, handled>>

\* Mutant: a refused message stays marked.
ForgetNot(c) ==
  /\ call[c].at = "forget"
  /\ Return(c, FALSE)
  /\ UNCHANGED <<posted, row, life, task, worker, shared, handled>>

\* Deduper.Forget: a refused message may come again.
Forget(c) ==
  /\ call[c].at = "forget"
  /\ seen' = seen \ {call[c].id}
  /\ Return(c, FALSE)
  /\ UNCHANGED <<posted, row, life, task, worker, groups, fired, strays, handled>>

\* AlbumGrouper.Add: a duplicate changes nothing, else the timer starts again.
Add(c) ==
  /\ call[c].at = "add"
  /\ groups' = [groups EXCEPT ![AlbumOf(call[c].id)] = @ \cup {call[c].id}]
  /\ Return(c, TRUE)
  /\ UNCHANGED <<posted, row, life, task, worker, seen, fired, strays, handled>>

\* AlbumGrouper.fire: the last timer set for the group runs out.
Fire(a) ==
  /\ groups[a] # {}
  /\ fired' = fired \cup {[album |-> a, msgs |-> groups[a]]}
  /\ groups' = [groups EXCEPT ![a] = {}]
  /\ UNCHANGED <<posted, row, life, task, worker, poller, call, seen, strays, handled>>

\* runtimeTask.deliverAlbum: without a waiter the batch is dropped.
DeliverAlbum(f) ==
  /\ f \in fired
  /\ fired' = fired \ {f}
  /\ waiter' = [waiter EXCEPT ![f.album] = 0]
  /\ IF waiter[f.album] = 0
     THEN strays' = strays \cup f.msgs /\ UNCHANGED chans
     ELSE /\ chans' = [chans EXCEPT ![waiter[f.album]] = [closed |-> TRUE, batch |-> f.msgs]]
          /\ UNCHANGED strays
  /\ UNCHANGED <<posted, row, life, queue, cursor, worker, poller, call, seen,
                 groups, handled>>

\* Deduper.pruneLocked and evictLocked: ten minutes or 50000 entries later.
Settled(m) == handled[m] > 0 /\ m <= cursor /\ \A c \in Callers : call[c].id # m
Expire(m) ==
  /\ m \in seen /\ (EarlyExpiry \/ Settled(m))
  /\ seen' = seen \ {m}
  /\ UNCHANGED <<posted, row, life, task, worker, poller, call, groups, fired,
                 strays, handled>>
-----------------------------------------------------------------------------
(* runtimeTask.run: the worker. *)

\* drainQueueOnStop, and return
Leave == worker' = [OffDuty EXCEPT !.at = "out"] /\ queue' = <<>>

\* The next job; with done closed, select may still take one and find out.
TakeJob ==
  LET job == Head(queue) IN
  /\ worker.at = "idle" /\ queue # <<>>
  /\ IF Ended THEN Leave
     ELSE /\ queue' = Tail(queue)
          /\ worker' = [at |-> IF job.ch = 0 THEN "handle" ELSE "album",
                        batch |-> job.batch, ch |-> job.ch]
  /\ UNCHANGED <<posted, row, life, waiter, chans, cursor, poller, call, shared,
                 handled>>

\* done or ctx while it waits for a job or for an album.
Stop ==
  /\ worker.at \in {"idle", "album"} /\ Ended
  /\ Leave
  /\ UNCHANGED <<posted, row, life, waiter, chans, cursor, poller, call, shared, handled>>

\* The waits for the quota, the slot and the run window watch only the context.
StopWaiting ==
  /\ worker.at = "handle" /\ ~live
  /\ Leave
  /\ UNCHANGED <<posted, row, life, waiter, chans, cursor, poller, call, shared, handled>>

\* batch = <-job.albumCh; a closed empty channel is an empty batch.
ReceiveAlbum ==
  /\ worker.at = "album" /\ chans[worker.ch].closed
  /\ worker' = IF chans[worker.ch].batch = {} THEN Idle
               ELSE [at |-> "handle", batch |-> chans[worker.ch].batch, ch |-> 0]
  /\ UNCHANGED <<posted, row, life, task, poller, call, shared, handled>>

\* Filtered, sent or failed, then advanceCursor in memory.
AdvanceCursor(m) == cursor' = IF m > cursor THEN m ELSE cursor
HandleBatch ==
  /\ handled' = [m \in Messages |-> IF m \in worker.batch THEN handled[m] + 1 ELSE handled[m]]
  /\ AdvanceCursor(Max(worker.batch))
  /\ worker' = IF Max(worker.batch) > cursor THEN [Idle EXCEPT !.at = "persist"] ELSE Idle
  /\ UNCHANGED <<posted, row, life, queue, waiter, chans, poller, call, shared>>
HandleAlbum  == worker.at = "handle" /\ (\E m \in worker.batch : Albumed(m)) /\ HandleBatch
HandleSingle == worker.at = "handle" /\ (\A m \in worker.batch : ~Albumed(m)) /\ HandleBatch

\* The write of advanceCursor goes through the run's context, after the unlock.
PersistCursor(value) ==
  row' = IF ~live \/ (NewToOld /\ row > value) THEN row ELSE value
WorkerPersists ==
  /\ worker.at = "persist"
  /\ PersistCursor(cursor)
  /\ worker' = Idle
  /\ UNCHANGED <<posted, life, task, poller, call, shared, handled>>
-----------------------------------------------------------------------------
(* startPoller and pollOnce *)

\* The checks, PeekPull and getLatestRemoteMessageID.
PollStart ==
  /\ poller.at = "wait" /\ ~Ended /\ posted > 0
  /\ \E left \in Remaining :
       poller' = [Waiting EXCEPT !.at = "asked", !.latest = posted, !.limited = left >= 0,
                  !.budget = IF left >= 0 /\ left < CatchUp THEN left ELSE CatchUp]
  /\ UNCHANGED <<posted, row, life, task, worker, call, shared, handled>>

\* The next page of history above `after', oldest first, if the poll goes on.
Page(p, after) ==
  LET last == IF after + PageSize < p.latest THEN after + PageSize ELSE p.latest IN
  IF after < p.latest /\ p.units < p.budget
  THEN [p EXCEPT !.at = "msgs", !.after = after, !.max = after, !.advanced = FALSE,
                 !.page = [i \in 1..(last - after) |-> after + i]]
  ELSE Waiting

\* latestProcessedIDSnapshot; without a cursor the poll only sets one.
PollFrom ==
  /\ poller.at = "asked"
  /\ IF cursor = 0
     THEN AdvanceCursor(poller.latest) /\ poller' = [poller EXCEPT !.at = "persist"]
     ELSE poller' = Page(poller, cursor) /\ UNCHANGED cursor
  /\ UNCHANGED <<posted, row, life, queue, waiter, chans, worker, call, shared,
                 handled>>
PollerPersists ==
  /\ poller.at = "persist"
  /\ PersistCursor(poller.latest)
  /\ poller' = Waiting
  /\ UNCHANGED <<posted, life, task, worker, call, shared, handled>>

Beyond(p, m) == p.limited /\ p.units + Cost(p, m) > p.budget

\* One message of the page: skipped below the cursor, else dispatched.
PollMessage ==
  LET m == Head(poller.page) IN
  /\ poller.at = "msgs" /\ poller.page # <<>> /\ call["poll"].at = "none"
  /\ \/ /\ m <= cursor
        /\ poller' = [poller EXCEPT !.page = Tail(@), !.max = m] /\ UNCHANGED call
     \/ /\ m > cursor /\ ~Beyond(poller, m)
        /\ IF Refused(m)
           THEN poller' = Told(poller, m, FALSE) /\ UNCHANGED call
           ELSE /\ call' = [call EXCEPT !["poll"] = [at |-> "mark", id |-> m]]
                /\ UNCHANGED poller
  /\ UNCHANGED <<posted, row, life, task, worker, shared, handled>>

\* The page is through, or its next message is beyond the budget.
PageDone ==
  /\ poller.at = "msgs" /\ call["poll"].at = "none"
  /\ \/ poller.page = <<>>
     \/ /\ poller.page # <<>> /\ Head(poller.page) > cursor
        /\ Beyond(poller, Head(poller.page))
  /\ poller' = IF poller.advanced /\ poller.max > poller.after
               THEN Page(poller, poller.max) ELSE Waiting
  /\ UNCHANGED <<posted, row, life, task, worker, call, shared, handled>>

\* ctx or done ends the poller.
PollerLeaves ==
  /\ poller.at = "wait" /\ Ended
  /\ poller' = [NoPoll EXCEPT !.at = "out"]
  /\ UNCHANGED <<posted, row, life, task, worker, call, shared, handled>>
-----------------------------------------------------------------------------
Work        == TakeJob \/ Stop \/ StopWaiting \/ ReceiveAlbum \/ HandleAlbum
               \/ HandleSingle \/ WorkerPersists
Dispatch(c) == Seen(c) \/ EnqueueSingle(c) \/ EnsureAlbumWaiter(c)
               \/ Forget(c) \/ Add(c)
Poll        == PollStart \/ PollFrom \/ PollerPersists \/ PollMessage \/ PageDone
               \/ PollerLeaves
Deliver(a)  == \E f \in fired : f.album = a /\ DeliverAlbum(f)

Next ==
  \/ Post \/ CloneHistory \/ Register \/ Unregister \/ CancelRun \/ Work \/ Poll
  \/ \E m \in Messages : DispatchUpdate(m) \/ Expire(m)
  \/ \E c \in Callers : Dispatch(c)
  \/ \E a \in Albums : Fire(a) \/ Deliver(a)

Spec == Init /\ [][Next]_vars
-----------------------------------------------------------------------------
\* What the run has in its hands: in a call past the mark, in the queue, in a
\* group, in a fired batch, in a channel or with the worker.
InCalls   == {call[c].id : c \in {c \in Callers : call[c].at \in {"enqueue", "forget", "add"}}}
InQueue   == UNION {queue[i].batch : i \in DOMAIN queue}
InGroups  == UNION {groups[a] : a \in Albums}
InFlight  == UNION {f.msgs : f \in fired}
Awaited   == ({queue[i].ch : i \in DOMAIN queue}
                \cup (IF worker.at = "album" THEN {worker.ch} ELSE {})) \ {0}
InAnswers == UNION {chans[ch].batch : ch \in Awaited}
Held      == InCalls \cup InQueue \cup InGroups \cup InFlight \cup InAnswers \cup worker.batch
Handled   == {m \in Messages : handled[m] > 0}

\* A message reaches the worker once, however its push, its polls and the parts
\* of its album interleave (Deduper.Seen, Deduper.Forget, the cursor check).
HandledOnce == \A m \in Messages : handled[m] <= 1

\* A message the de-duplication remembers is in the hands of the run, or the run
\* has handled it, or it is one of the strays: no path of the dispatch leaves a
\* mark behind that would hide the message from every later poll.
MarkedIsHeld == registered /\ ~Ended => seen \subseteq Held \cup Handled \cup strays

\* The worker blocks on an album's channel with no timeout of its own: while the
\* run goes on, every channel it has to receive from, now or from its queue, is
\* closed or still has an Add, a timer or a flush on its way to it.
Coming(a) == \/ groups[a] # {}
             \/ \E f \in fired : f.album = a
             \/ \E c \in Callers : call[c].at = "add" /\ call[c].id \in a
AlbumAnswered ==
  ~Ended => \A ch \in Awaited : chans[ch].closed \/ \E a \in Albums : waiter[a] = ch /\ Coming(a)
=============================================================================
