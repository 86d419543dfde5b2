------------------------ MODULE RealtimeRelayProofs ------------------------
(***************************************************************************)
(* What is inductive of the relay, for any messages, albums and bounds:    *)
(* RelayInv, and OnceInv for a task that goes from old to new.             *)
(***************************************************************************)
EXTENDS RealtimeRelay, SequenceTheorems, WellFoundedInduction, TLAPS

----------------------------------------------------------------------------
(* The relay: what is inductive                                            *)

\* What has a channel is an album's job and carries no batch of its own.
JobsWhole ==
  /\ \A i \in DOMAIN queue :
       /\ queue[i].ch <= Len(chans)
       /\ queue[i].batch = {} <=> queue[i].ch # 0
  /\ worker.batch # {} <=> worker.at = "handle"
  /\ worker.at = "album" => worker.ch # 0

\* Once its worker is there, the run ends for all of its parts at once.
EndsWhole ==
  /\ worker.at # "off" => done \/ (registered /\ live)
  /\ worker.at = "off" =>
       ~registered /\ poller.at = "off" /\ \A m \in Messages : handled[m] = 0

\* A job of an album has a channel of its own.
OwnChannels ==
  /\ \A i, j \in DOMAIN queue :
       queue[i].ch # 0 /\ queue[i].ch = queue[j].ch => i = j
  /\ worker.at = "album" => \A i \in DOMAIN queue : queue[i].ch # worker.ch

\* A waiter of a run that goes on is one of a job, and unanswered; one of a run
\* that has ended is not the worker's.
WaitersWait ==
  /\ ~Ended => \A a \in Albums : waiter[a] # 0 =>
       /\ waiter[a] \in Awaited /\ ~chans[waiter[a]].closed
       /\ \A b \in Albums : waiter[b] = waiter[a] => a = b
  /\ done /\ worker.at = "album" => \A a \in Albums : waiter[a] # worker.ch
  /\ \A i \in DOMAIN chans : ~chans[i].closed => chans[i].batch = {}

\* The poll waits for the answer about the message its page begins with.
PollCalls ==
  call["poll"].at # "none" => poller.at = "msgs" /\ poller.page # <<>>

AlbumsApart ==
  /\ \A a \in Albums : groups[a] \subseteq a
  /\ \A f \in fired : f.msgs \subseteq f.album
  /\ \A c \in Callers : call[c].at = "add" => Albumed(call[c].id)

\* MarkedIsHeld does not need the registration.
MarksHeld == ~Ended => seen \subseteq Held \cup Handled \cup strays

\* The places a message can be in.
PastMark(c) == call[c].at \in {"enqueue", "forget", "add"}
InCall(m)   == \E c \in Callers : PastMark(c) /\ call[c].id = m
OnQueue(m)  == \E i \in DOMAIN queue : m \in queue[i].batch
InGroup(m)  == \E a \in Albums : m \in groups[a]
InFired(m)  == \E f \in fired : m \in f.msgs
InAnswer(m) == \E ch \in Awaited : m \in chans[ch].batch
WithWorker(m) == m \in worker.batch

\* A message of a run that goes on is in one place, or handled.
Alone(m) ==
  /\ InCall(m) => ~OnQueue(m) /\ ~InGroup(m) /\ ~InFired(m) /\ ~InAnswer(m) /\ ~WithWorker(m)
  /\ OnQueue(m) => ~InGroup(m) /\ ~InFired(m) /\ ~InAnswer(m) /\ ~WithWorker(m)
  /\ InGroup(m) => ~InFired(m) /\ ~InAnswer(m) /\ ~WithWorker(m)
  /\ InFired(m) => ~InAnswer(m) /\ ~WithWorker(m)
  /\ InAnswer(m) => ~WithWorker(m)
  /\ handled[m] > 0 => /\ ~InCall(m) /\ ~OnQueue(m) /\ ~InGroup(m) /\ ~InFired(m)
                       /\ ~InAnswer(m) /\ ~WithWorker(m)

\* And it is there once.
OnlyCall(m) ==
  \A c, d \in Callers : PastMark(c) /\ PastMark(d) /\ call[c].id = m /\ call[d].id = m => c = d
OnlyJob(m) ==
  \A i, j \in DOMAIN queue : m \in queue[i].batch /\ m \in queue[j].batch => i = j
OnlyBatch(m) ==
  \A f, g \in fired : m \in f.msgs /\ m \in g.msgs => f = g
OnlyAnswer(m) ==
  \A h, k \in Awaited : m \in chans[h].batch /\ m \in chans[k].batch => h = k

\* Wherever it is, it is marked; a handled one may lose the mark, but no call is
\* about to dispatch it.
Marked(m) ==
  /\ InCall(m) \/ OnQueue(m) \/ InGroup(m) \/ InFired(m) \/ InAnswer(m) \/ WithWorker(m)
       => m \in seen
  /\ handled[m] > 0 => m \in seen \/ \A c \in Callers : call[c].id # m

OnceThere(m) ==
  Alone(m) /\ OnlyCall(m) /\ OnlyJob(m) /\ OnlyBatch(m) /\ OnlyAnswer(m) /\ Marked(m)

\* Of a run that has ended, only what the worker has can still be handled.
NewToWorker(m) ==
  /\ handled[m] <= 1
  /\ WithWorker(m) => handled[m] = 0
  /\ worker.at = "album" /\ m \in chans[worker.ch].batch => handled[m] = 0
  /\ handled[m] > 0 => m <= cursor

OnceInv == \A m \in Messages : NewToWorker(m) /\ (~Ended => OnceThere(m))

----------------------------------------------------------------------------
(* The types                                                               *)

LifeTyped ==
  /\ posted \in 0..LastId /\ row \in 0..LastId /\ cursor \in 0..LastId
  /\ live \in BOOLEAN /\ registered \in BOOLEAN /\ done \in BOOLEAN
Chan == [closed : BOOLEAN, batch : SUBSET Messages]
QueueTyped ==
  /\ queue \in Seq(Jobs) /\ Len(queue) <= QueueCap
  /\ waiter \in [Albums -> 0..Len(chans)]
  /\ chans \in Seq(Chan)
Duty ==
  [at : {"off", "idle", "album", "handle", "persist", "out"},
   batch : SUBSET Messages, ch : 0..Len(chans)]
WorkerTyped == worker \in Duty
Polling ==
  [at : {"off", "wait", "asked", "persist", "msgs", "out"},
   latest : 0..LastId, after : 0..LastId, page : Seq(Messages),
   max : 0..LastId, advanced : BOOLEAN, units : Nat,
   budget : Int, limited : BOOLEAN, albums : SUBSET Albums]
PollerTyped == poller \in Polling
Calling == [at : {"none", "mark", "enqueue", "forget", "add"}, id : 0..LastId]
CallsTyped ==
  /\ call \in [Callers -> Calling]
  /\ \A c \in Callers : call[c].at # "none" => call[c].id \in Messages
SharedTyped ==
  /\ seen \subseteq Messages /\ strays \subseteq Messages
  /\ groups \in [Albums -> SUBSET Messages]
  /\ fired \subseteq [album : Albums, msgs : SUBSET Messages]
HandledTyped == handled \in [Messages -> Nat]

RelayTyped ==
  /\ LifeTyped /\ QueueTyped /\ WorkerTyped /\ PollerTyped /\ CallsTyped
  /\ SharedTyped /\ HandledTyped

LEMMA TypesTogether == RelayTyped => TypeOK
BY DEF RelayTyped, TypeOK, LifeTyped, QueueTyped, WorkerTyped, PollerTyped, CallsTyped,
       SharedTyped, HandledTyped, Chan, Duty, Polling, Calling

\* Every message of an album has one.
LEMMA AlbumOfMember ==
  ASSUME NEW m, Albumed(m)
  PROVE  /\ AlbumOf(m) \in Albums /\ m \in AlbumOf(m)
         /\ \A a \in Albums : m \in a => a = AlbumOf(m)
<1>1. PICK a \in Albums : m \in a
  BY DEF Albumed
<1>2. AlbumOf(m) \in Albums /\ m \in AlbumOf(m)
  BY <1>1 DEF AlbumOf
<1>3. \A b \in Albums : m \in b => b = AlbumOf(m)
  BY <1>2, RelayAssumption
<1> QED
  BY <1>2, <1>3

\* The greatest of the numbers up to a bound.
LEMMA BoundedMax ==
  ASSUME NEW b \in Nat, NEW S \in SUBSET (0..b), S # {}
  PROVE  Max(S) \in S /\ \A x \in S : x <= Max(S)
<1> DEFINE R == {p \in Nat \X Nat : p[1] < p[2]}
           T == {b - x : x \in S}
<1>1. IsWellFoundedOn(R, Nat)
  BY NatLessThanWellFounded, Zenon DEF OpToRel
<1>0. \A x \in S : x \in Nat /\ x <= b
  OBVIOUS
<1>2. T \subseteq Nat /\ T # {}
  <2>1. \A x \in S : b - x \in Nat
    BY <1>0
  <2> QED
    BY <2>1
<1>3. PICK n \in T : \A k \in T : <<k, n>> \notin R
  <2> HIDE DEF R, T
  <2> QED
    BY <1>1, <1>2, WFMin
<1>4. PICK m \in S : n = b - m
  BY <1>3
<1>5. \A x \in S : m >= x
  <2> SUFFICES ASSUME NEW x \in S PROVE m >= x
    OBVIOUS
  <2>1. b - x \in T /\ b - x \in Nat /\ b - m \in Nat
    BY <1>2, <1>4
  <2>2. ~(b - x < b - m)
    BY <1>3, <1>4, <2>1
  <2>3. x \in Nat /\ m \in Nat
    BY <1>0
  <2> HIDE DEF T, R
  <2> QED
    BY <2>2, <2>3
<1>6. Max(S) \in S /\ \A x \in S : Max(S) >= x
  BY <1>5, Zenon DEF Max
<1>7. \A x \in S : Max(S) \in Nat /\ x \in Nat
  BY <1>0, <1>6
<1> QED
  BY <1>6, <1>7

\* The greatest message of a batch is one of it.
LEMMA MaxOfBatch ==
  ASSUME NEW S \in SUBSET Messages, S # {}
  PROVE  /\ Max(S) \in S /\ Max(S) \in 1..LastId
         /\ \A m \in S : m <= Max(S)
<1>1. LastId \in Nat /\ S \in SUBSET (0..LastId)
  BY RelayAssumption DEF Messages
<1>2. Max(S) \in S /\ \A m \in S : m <= Max(S)
  BY <1>1, BoundedMax
<1> QED
  BY <1>2 DEF Messages

LEMMA InitTyped ==
  ASSUME Init
  PROVE  RelayTyped
<1> USE RelayAssumption DEF Init
<1>1. LifeTyped
  <2>1. LastId \in Nat
    BY DEF RelayAssumption
  <2>2. /\ posted = 0 /\ row = 0 /\ cursor = 0
        /\ live = TRUE /\ registered = FALSE /\ done = FALSE
    BY DEF Init
  <2>3. live \in BOOLEAN /\ registered \in BOOLEAN /\ done \in BOOLEAN
    BY <2>2
  <2>4. posted \in 0..LastId /\ row \in 0..LastId /\ cursor \in 0..LastId
    BY <2>1, <2>2
  <2> QED
    BY <2>3, <2>4 DEF LifeTyped
<1>7. HandledTyped
  BY DEF HandledTyped
<1>2. QueueTyped
  BY DEF QueueTyped
<1>3. WorkerTyped
  BY DEF WorkerTyped, Duty, OffDuty
<1>4. PollerTyped
  BY DEF PollerTyped, Polling, NoPoll
<1>5. CallsTyped
  BY DEF CallsTyped, Calling, NoCall, Callers
<1>6. SharedTyped
  BY DEF SharedTyped
<1> QED
  BY <1>1, <1>2, <1>3, <1>4, <1>5, <1>6, <1>7 DEF RelayTyped

LEMMA LifeStaysTyped ==
  ASSUME RelayTyped, JobsWhole, [Next]_vars
  PROVE  LifeTyped'
<1>0. LifeTyped
  BY DEF RelayTyped
<1> USE RelayAssumption DEF LifeTyped, AdvanceCursor, PersistCursor, UnregisterTask, StopTask,
      life, task
<1>a. CASE Post
  BY <1>0, <1>a DEF Post
<1>b. CASE CloneHistory \/ Register
  BY <1>0, <1>b DEF CloneHistory, Register
<1>1. CASE Unregister \/ CancelRun
  BY <1>0, <1>1 DEF Unregister, CancelRun
<1>2. CASE HandleBatch /\ worker.at = "handle"
  <2>1. Max(worker.batch) \in 1..LastId
    BY <1>2, MaxOfBatch DEF JobsWhole, RelayTyped, WorkerTyped, Duty
  <2> QED
    BY <1>0, <1>2, <2>1 DEF HandleBatch
<1>3. CASE WorkerPersists
  BY <1>0, <1>3 DEF WorkerPersists
<1>4. CASE PollFrom \/ PollerPersists
  <2>1. poller.latest \in 0..LastId
    BY DEF RelayTyped, PollerTyped, Polling
  <2> QED
    BY <1>0, <1>4, <2>1 DEF PollFrom, PollerPersists
<1>5. CASE TakeJob \/ Stop \/ StopWaiting \/ ReceiveAlbum
  BY <1>0, <1>5 DEF TakeJob, Stop, StopWaiting, ReceiveAlbum
<1>6. CASE PollStart \/ PollMessage \/ PageDone \/ PollerLeaves
  BY <1>0, <1>6 DEF PollStart, PollMessage, PageDone, PollerLeaves
<1>7. ASSUME NEW m \in Messages, DispatchUpdate(m) \/ Expire(m)
      PROVE  LifeTyped'
  BY <1>0, <1>7 DEF DispatchUpdate, Expire
<1>8. ASSUME NEW c \in Callers, Dispatch(c)
      PROVE  LifeTyped'
  BY <1>0, <1>8 DEF Dispatch, Seen, EnqueueSingle, EnsureAlbumWaiter, Forget, Add
<1>9. ASSUME NEW a \in Albums, Fire(a) \/ Deliver(a)
      PROVE  LifeTyped'
  BY <1>0, <1>9 DEF Fire, Deliver, DeliverAlbum
<1>10. CASE UNCHANGED vars
  BY <1>0, <1>10 DEF vars
<1> QED
  BY <1>a, <1>b, <1>1, <1>2, <1>3, <1>4, <1>5, <1>6, <1>7, <1>8, <1>9, <1>10
     DEF Next, Work, Poll, HandleAlbum, HandleSingle

\* The jobs, the channels of the albums and those who wait for them.
LEMMA QueueStaysTyped ==
  ASSUME RelayTyped, JobsWhole, [Next]_vars
  PROVE  /\ QueueTyped' /\ Len(chans) <= Len(chans')
<1>0. QueueTyped
  BY DEF RelayTyped
<1> USE RelayAssumption DEF UnregisterTask, life, task, GoesTo, Return
<1>a. CASE UNCHANGED <<queue, waiter, chans>>
  BY <1>0, <1>a DEF QueueTyped
<1>b. CASE StopTask /\ UNCHANGED queue
  <2>1. /\ chans' \in Seq(Chan)
        /\ Len(chans') = Len(chans)
    <3>1. chans' = [i \in 1..Len(chans) |->
                      IF i \in Range(waiter) THEN [chans[i] EXCEPT !.closed = TRUE] ELSE chans[i]]
      BY <1>0, <1>b DEF StopTask, QueueTyped
    <3>2. \A i \in 1..Len(chans) : chans[i] \in Chan
      BY <1>0 DEF QueueTyped
    <3>3. \A i \in 1..Len(chans) : chans'[i] \in Chan
      <4> SUFFICES ASSUME NEW i \in 1..Len(chans) PROVE chans'[i] \in Chan
        OBVIOUS
      <4>1. chans[i] \in Chan
        BY <3>2
      <4>2. [chans[i] EXCEPT !.closed = TRUE] \in Chan
        BY <4>1 DEF Chan
      <4> QED
        BY <3>1, <4>1, <4>2
    <3>4. Len(chans) \in Nat
      BY <1>0 DEF QueueTyped
    <3> QED
      BY <3>1, <3>3, <3>4
  <2> QED
    BY <1>0, <1>b, <2>1 DEF StopTask, QueueTyped
<1>c. ASSUME queue' = Tail(queue), queue # <<>>, UNCHANGED <<waiter, chans>>
      PROVE  QueueTyped'
  BY <1>0, <1>c DEF QueueTyped
<1>d. ASSUME queue' = <<>>, UNCHANGED <<waiter, chans>>
      PROVE  QueueTyped'
  BY <1>0, <1>d DEF QueueTyped
<1>1. CASE Unregister \/ CancelRun
  BY <1>1, <1>a, <1>b DEF Unregister, CancelRun
<1>2. CASE TakeJob
  BY <1>2, <1>c, <1>d, <1>0 DEF TakeJob, Leave, QueueTyped
<1>3. CASE Stop \/ StopWaiting
  BY <1>3, <1>d, <1>0 DEF Stop, StopWaiting, Leave, QueueTyped
<1>4. ASSUME NEW c \in Callers, EnqueueSingle(c)
      PROVE  QueueTyped' /\ Len(chans) <= Len(chans')
  <2>1. CASE UNCHANGED queue
    BY <1>4, <2>1, <1>a DEF EnqueueSingle
  <2>2. CASE MayEnqueue /\ queue' = Append(queue, Job({call[c].id}, 0))
    <3>1. Job({call[c].id}, 0) \in Jobs
      BY <1>4 DEF Job, Jobs, RelayTyped, CallsTyped, EnqueueSingle
    <3> QED
      BY <1>0, <1>4, <2>2, <3>1 DEF EnqueueSingle, QueueTyped, MayEnqueue
  <2> QED
    BY <1>4, <2>1, <2>2 DEF EnqueueSingle
<1>5. ASSUME NEW c \in Callers, EnsureAlbumWaiter(c)
      PROVE  QueueTyped' /\ Len(chans) <= Len(chans')
  <2> DEFINE a == AlbumOf(call[c].id)
             n == Len(chans) + 1
  <2>1. CASE UNCHANGED <<queue, chans, waiter>>
    BY <2>1, <1>a
  <2>2. CASE /\ MayEnqueue
             /\ queue' = Append(queue, Job({}, n))
             /\ chans' = Append(chans, OpenChan)
             /\ waiter' = [waiter EXCEPT ![a] = n]
    <3>1. Len(chans) \in Nat /\ Job({}, n) \in Jobs
      BY <1>0 DEF QueueTyped, Job, Jobs
    <3>2. OpenChan \in Chan
      BY DEF OpenChan, Chan
    <3>3. chans' \in Seq(Chan) /\ Len(chans') = n
      BY <1>0, <2>2, <3>2 DEF QueueTyped
    <3>4. queue' \in Seq(Jobs) /\ Len(queue') <= QueueCap
      BY <1>0, <2>2, <3>1 DEF QueueTyped, MayEnqueue
    <3>5. waiter' \in [Albums -> 0..Len(chans')]
      <4>1. n \in 0..n /\ \A i \in 0..Len(chans) : i \in 0..n
        BY <3>1
      <4> HIDE DEF n, a
      <4>2. waiter' = [waiter EXCEPT ![a] = n] /\ Len(chans') = n
        BY <2>2, <3>3
      <4>3. waiter \in [Albums -> 0..n]
        BY <1>0, <4>1 DEF QueueTyped
      <4> QED
        BY <4>1, <4>2, <4>3
    <3> QED
      BY <3>1, <3>3, <3>4, <3>5 DEF QueueTyped
  <2> QED
    BY <1>5, <2>1, <2>2 DEF EnsureAlbumWaiter
<1>6. ASSUME NEW a \in Albums, Deliver(a)
      PROVE  QueueTyped' /\ Len(chans) <= Len(chans')
  <2>1. PICK f \in fired : DeliverAlbum(f)
    BY <1>6 DEF Deliver
  <2>2. f.album \in Albums /\ f.msgs \in SUBSET Messages
    BY DEF RelayTyped, SharedTyped
  <2>3. CASE UNCHANGED chans
    BY <1>0, <2>1, <2>2, <2>3 DEF DeliverAlbum, QueueTyped
  <2>4. CASE /\ waiter[f.album] # 0
             /\ chans' = [chans EXCEPT ![waiter[f.album]] = [closed |-> TRUE, batch |-> f.msgs]]
    <3>1. [closed |-> TRUE, batch |-> f.msgs] \in Chan
      BY <2>2 DEF Chan
    <3>2. /\ chans' \in Seq(Chan)
          /\ Len(chans') = Len(chans)
      <4> DEFINE k == waiter[f.album]
                 e == [closed |-> TRUE, batch |-> f.msgs]
      <4>1. chans \in Seq(Chan) /\ chans' = [chans EXCEPT ![k] = e] /\ e \in Chan
        BY <1>0, <2>4, <3>1 DEF QueueTyped
      <4>2. k \in 1..Len(chans)
        BY <1>0, <2>1, <2>2, <2>4 DEF DeliverAlbum, QueueTyped
      <4> HIDE DEF k, e
      <4> QED
        BY <4>1, <4>2, ExceptSeq
    <3> QED
      BY <1>0, <2>1, <2>2, <3>2 DEF DeliverAlbum, QueueTyped
  <2> QED
    BY <2>1, <2>3, <2>4 DEF DeliverAlbum
<1>7. CASE Post \/ CloneHistory \/ Register \/ ReceiveAlbum \/ HandleBatch \/ WorkerPersists
  BY <1>7, <1>a DEF Post, CloneHistory, Register, ReceiveAlbum, HandleBatch, WorkerPersists
<1>8. CASE Poll
  BY <1>8, <1>a DEF Poll, PollStart, PollFrom, PollerPersists, PollMessage, PageDone, PollerLeaves
<1>9. ASSUME NEW m \in Messages, DispatchUpdate(m) \/ Expire(m)
      PROVE  QueueTyped' /\ Len(chans) <= Len(chans')
  BY <1>9, <1>a DEF DispatchUpdate, Expire
<1>10. ASSUME NEW c \in Callers, Seen(c) \/ Forget(c) \/ Add(c)
      PROVE  QueueTyped' /\ Len(chans) <= Len(chans')
  BY <1>10, <1>a DEF Seen, Forget, Add
<1>11. ASSUME NEW a \in Albums, Fire(a)
      PROVE  QueueTyped' /\ Len(chans) <= Len(chans')
  BY <1>11, <1>a DEF Fire
<1>12. CASE UNCHANGED vars
  BY <1>12, <1>a DEF vars
<1> QED
  BY <1>1, <1>2, <1>3, <1>4, <1>5, <1>6, <1>7, <1>8, <1>9, <1>10, <1>11, <1>12
     DEF Next, Work, HandleAlbum, HandleSingle, Dispatch

LEMMA WorkerStaysTyped ==
  ASSUME RelayTyped, JobsWhole, [Next]_vars
  PROVE  WorkerTyped'
<1>0. /\ WorkerTyped /\ Len(chans) \in Nat /\ Len(chans') \in Nat
      /\ Len(chans) <= Len(chans')
  BY QueueStaysTyped DEF RelayTyped, QueueTyped
<1>a. CASE UNCHANGED worker
  BY <1>0, <1>a DEF WorkerTyped, Duty
<1>b. ASSUME NEW d \in Duty, worker' = d
      PROVE  WorkerTyped'
  BY <1>0, <1>b DEF WorkerTyped, Duty
<1>c. /\ OffDuty \in Duty /\ Idle \in Duty
      /\ [OffDuty EXCEPT !.at = "out"] \in Duty /\ [Idle EXCEPT !.at = "persist"] \in Duty
  <2>1. \A s \in {"off", "idle", "out", "persist"} : [at |-> s, batch |-> {}, ch |-> 0] \in Duty
    BY <1>0 DEF Duty
  <2>2. OffDuty \in Duty
    BY <2>1 DEF OffDuty
  <2>3. \A d \in Duty, s \in {"idle", "out", "persist"} : [d EXCEPT !.at = s] \in Duty
    BY DEF Duty
  <2>4. Idle \in Duty
    BY <2>2, <2>3 DEF Idle
  <2> QED
    BY <2>2, <2>3, <2>4
<1>1. CASE Register
  BY <1>1, <1>b, <1>c DEF Register
<1>2. CASE TakeJob
  <2>1. CASE Ended
    BY <1>2, <1>b, <1>c, <2>1 DEF TakeJob, Leave
  <2>2. CASE ~Ended
    <3>1. 1 \in DOMAIN queue /\ Head(queue) = queue[1] /\ queue[1] \in Jobs
      BY <1>2 DEF TakeJob, RelayTyped, QueueTyped
    <3>2. queue[1].ch \in 0..Len(chans) /\ queue[1].batch \in SUBSET Messages
      BY <1>0, <3>1 DEF JobsWhole, Jobs
    <3> QED
      BY <1>2, <1>b, <2>2, <3>1, <3>2 DEF TakeJob, Duty
  <2> QED
    BY <2>1, <2>2
<1>3. CASE Stop \/ StopWaiting
  BY <1>3, <1>b, <1>c DEF Stop, StopWaiting, Leave
<1>4. CASE ReceiveAlbum
  <2>1. worker.ch \in 1..Len(chans)
    BY <1>0, <1>4 DEF ReceiveAlbum, JobsWhole, WorkerTyped, Duty
  <2>2. chans[worker.ch] \in Chan
    BY <2>1 DEF RelayTyped, QueueTyped
  <2>3. [at |-> "handle", batch |-> chans[worker.ch].batch, ch |-> 0] \in Duty
    BY <1>0, <2>2 DEF Chan, Duty
  <2> QED
    BY <1>4, <1>b, <1>c, <2>3 DEF ReceiveAlbum
<1>5. CASE HandleBatch \/ WorkerPersists
  BY <1>5, <1>b, <1>c DEF HandleBatch, WorkerPersists
<1>6. CASE Post \/ CloneHistory \/ Unregister \/ CancelRun
  BY <1>6, <1>a DEF Post, CloneHistory, Unregister, CancelRun
<1>7. CASE Poll
  BY <1>7, <1>a DEF Poll, PollStart, PollFrom, PollerPersists, PollMessage, PageDone, PollerLeaves
<1>8. ASSUME NEW m \in Messages, DispatchUpdate(m) \/ Expire(m)
      PROVE  WorkerTyped'
  BY <1>8, <1>a DEF DispatchUpdate, Expire
<1>9. ASSUME NEW c \in Callers, Dispatch(c)
      PROVE  WorkerTyped'
  BY <1>9, <1>a DEF Dispatch, Seen, EnqueueSingle, EnsureAlbumWaiter, Forget, Add
<1>10. ASSUME NEW a \in Albums, Fire(a) \/ Deliver(a)
      PROVE  WorkerTyped'
  BY <1>10, <1>a DEF Fire, Deliver, DeliverAlbum
<1>11. CASE UNCHANGED vars
  BY <1>11, <1>a DEF vars
<1> QED
  BY <1>1, <1>2, <1>3, <1>4, <1>5, <1>6, <1>7, <1>8, <1>9, <1>10, <1>11
     DEF Next, Work, HandleAlbum, HandleSingle

LEMMA WaitingTyped ==
  \A s \in {"off", "wait", "out"} : [NoPoll EXCEPT !.at = s] \in Polling
<1>1. LastId \in Nat /\ 0 \in 0..LastId
  BY RelayAssumption
<1>2. <<>> \in Seq(Messages)
  OBVIOUS
<1>3. {} \in SUBSET Albums /\ FALSE \in BOOLEAN /\ 0 \in Nat /\ 0 \in Int
  OBVIOUS
<1>4. NoPoll \in Polling
  BY <1>1, <1>2, <1>3 DEF NoPoll, Polling
<1>5. \A p \in Polling, s \in {"off", "wait", "out"} : [p EXCEPT !.at = s] \in Polling
  BY DEF Polling
<1> QED
  BY <1>4, <1>5

\* What the answer of a dispatch does to the poll, and where a page begins.
LEMMA ToldTyped ==
  ASSUME NEW p \in Polling, p.page # <<>>, NEW m \in Messages, NEW ok \in BOOLEAN
  PROVE  Told(p, m, ok) \in Polling
<1> DEFINE q == Told(p, m, ok)
<1>1. /\ p.max \in 0..LastId /\ p.units \in Nat /\ p.albums \in SUBSET Albums
      /\ p.page \in Seq(Messages) /\ m \in 0..LastId /\ p.advanced \in BOOLEAN
  BY DEF Polling, Messages
<1>2. Cost(p, m) \in {0, 1}
  BY DEF Cost
<1>3. Tail(p.page) \in Seq(Messages)
  BY <1>1
<1>4. (p.advanced \/ ok) \in BOOLEAN
  OBVIOUS
<1>5. Albumed(m) => p.albums \cup {AlbumOf(m)} \in SUBSET Albums
  BY <1>1, AlbumOfMember
<1> DEFINE pages == Tail(p.page)
           albs == IF Albumed(m) THEN p.albums \cup {AlbumOf(m)} ELSE p.albums
           adv == p.advanced \/ ok
           us == IF ok THEN p.units + Cost(p, m) ELSE p.units
           top == IF ok /\ m > p.max THEN m ELSE p.max
<1>6. q = [p EXCEPT !.page = pages, !.albums = albs, !.advanced = adv, !.units = us, !.max = top]
  BY Zenon DEF Told
<1>7. \A pg \in Seq(Messages), al \in SUBSET Albums, ad \in BOOLEAN, u \in Nat, mx \in 0..LastId :
        [p EXCEPT !.page = pg, !.albums = al, !.advanced = ad, !.units = u, !.max = mx] \in Polling
  BY DEF Polling
<1>8. /\ pages \in Seq(Messages) /\ albs \in SUBSET Albums /\ adv \in BOOLEAN
      /\ us \in Nat /\ top \in 0..LastId
  BY <1>1, <1>2, <1>3, <1>4, <1>5
<1> HIDE DEF q, pages, albs, adv, us, top
<1>9. q \in Polling
  BY <1>6, <1>7, <1>8
<1> QED
  BY <1>9 DEF q

LEMMA PageTyped ==
  ASSUME NEW p \in Polling, NEW after \in 0..LastId
  PROVE  Page(p, after) \in Polling
<1> USE RelayAssumption
<1>1. Waiting \in Polling
  BY WaitingTyped DEF Waiting
<1>2. CASE after < p.latest /\ p.units < p.budget
  <2> DEFINE last == IF after + PageSize < p.latest THEN after + PageSize ELSE p.latest
             pg == [i \in 1..(last - after) |-> after + i]
  <2>1. p.latest \in 0..LastId
    BY DEF Polling
  <2>2. last \in Nat /\ last - after \in Nat /\ last <= LastId
    BY <1>2, <2>1
  <2>3. \A i \in 1..(last - after) : after + i \in Messages
    BY <2>2 DEF Messages
  <2>4. pg \in Seq(Messages)
    <3> HIDE DEF last
    <3> QED
      BY <2>2, <2>3
  <2> HIDE DEF pg
  <2>5. Page(p, after) = [p EXCEPT !.at = "msgs", !.after = after, !.max = after,
                                   !.advanced = FALSE, !.page = pg]
    BY <1>2 DEF Page, pg
  <2>6. \A sq \in Seq(Messages) :
          [p EXCEPT !.at = "msgs", !.after = after, !.max = after, !.advanced = FALSE,
                    !.page = sq] \in Polling
    BY DEF Polling
  <2> QED
    BY <2>4, <2>5, <2>6
<1>3. CASE ~(after < p.latest /\ p.units < p.budget)
  BY <1>1, <1>3 DEF Page
<1> QED
  BY <1>2, <1>3

LEMMA PollerStaysTyped ==
  ASSUME RelayTyped, PollCalls, [Next]_vars
  PROVE  PollerTyped'
<1>0. poller \in Polling
  BY DEF RelayTyped, PollerTyped
<1> USE RelayAssumption DEF PollerTyped
<1>a. Waiting \in Polling
  BY WaitingTyped DEF Waiting
<1>b. ASSUME NEW c \in Callers, NEW ok \in BOOLEAN, Return(c, ok), call[c].at # "none"
      PROVE  PollerTyped'
  <2>1. CASE c = "push"
    BY <1>0, <1>b, <2>1 DEF Return
  <2>2. CASE c = "poll"
    <3>1. call[c].id \in Messages /\ poller.page # <<>>
      BY <1>b, <2>2 DEF RelayTyped, CallsTyped, PollCalls
    <3> QED
      BY <1>0, <1>b, <2>2, <3>1, ToldTyped DEF Return
  <2> QED
    BY <2>1, <2>2 DEF Callers
<1>1. CASE Register
  BY <1>1, <1>a DEF Register
<1>2. CASE PollStart
  <2>1. PICK left \in Remaining :
          poller' = [Waiting EXCEPT !.at = "asked", !.latest = posted, !.limited = left >= 0,
                     !.budget = IF left >= 0 /\ left < CatchUp THEN left ELSE CatchUp]
    BY <1>2 DEF PollStart
  <2>2. posted \in 0..LastId
    BY DEF RelayTyped, LifeTyped
  <2>3. (IF left >= 0 /\ left < CatchUp THEN left ELSE CatchUp) \in Int
    OBVIOUS
  <2>4. (left >= 0) \in BOOLEAN
    OBVIOUS
  <2> QED
    BY <1>a, <2>1, <2>2, <2>3, <2>4 DEF Polling
<1>3. CASE PollFrom
  <2>1. cursor \in 0..LastId
    BY DEF RelayTyped, LifeTyped
  <2>2. [poller EXCEPT !.at = "persist"] \in Polling
    BY <1>0 DEF Polling
  <2> QED
    BY <1>0, <1>3, <2>1, <2>2, PageTyped DEF PollFrom
<1>4. CASE PollerPersists
  BY <1>4, <1>a DEF PollerPersists
<1>5. CASE PollMessage
  <2>1. /\ poller.page \in Seq(Messages) /\ poller.page # <<>>
        /\ Head(poller.page) \in Messages /\ Tail(poller.page) \in Seq(Messages)
    BY <1>0, <1>5 DEF PollMessage, Polling
  <2>2. [poller EXCEPT !.page = Tail(@), !.max = Head(poller.page)] \in Polling
    <3>1. \A sq \in Seq(Messages), m \in 0..LastId :
            [poller EXCEPT !.page = sq, !.max = m] \in Polling
      BY <1>0 DEF Polling
    <3>2. Head(poller.page) \in 0..LastId
      BY <2>1 DEF Messages
    <3>3. [poller EXCEPT !.page = Tail(@), !.max = Head(poller.page)]
            = [poller EXCEPT !.page = Tail(poller.page), !.max = Head(poller.page)]
      OBVIOUS
    <3> QED
      BY <2>1, <3>1, <3>2, <3>3
  <2>3. Told(poller, Head(poller.page), FALSE) \in Polling
    BY <1>0, <2>1, ToldTyped
  <2> QED
    BY <1>0, <1>5, <2>2, <2>3 DEF PollMessage
<1>6. CASE PageDone
  <2>1. poller.max \in 0..LastId
    BY <1>0 DEF Polling
  <2> QED
    BY <1>0, <1>6, <1>a, <2>1, PageTyped DEF PageDone
<1>7. CASE PollerLeaves
  <2>1. [NoPoll EXCEPT !.at = "out"] \in Polling
    BY WaitingTyped
  <2> QED
    BY <1>7, <2>1 DEF PollerLeaves
<1>8. ASSUME NEW c \in Callers, Dispatch(c)
      PROVE  PollerTyped'
  <2>1. CASE Seen(c)
    BY <1>0, <1>b, <2>1 DEF Seen, GoesTo
  <2>2. CASE EnqueueSingle(c)
    BY <1>0, <1>b, <2>2 DEF EnqueueSingle, GoesTo
  <2>3. CASE EnsureAlbumWaiter(c)
    BY <1>0, <2>3 DEF EnsureAlbumWaiter, GoesTo
  <2>4. CASE Forget(c)
    BY <1>0, <1>b, <2>4 DEF Forget
  <2>5. CASE Add(c)
    BY <1>0, <1>b, <2>5 DEF Add
  <2> QED
    BY <1>8, <2>1, <2>2, <2>3, <2>4, <2>5 DEF Dispatch
<1>9. CASE Post \/ CloneHistory \/ Unregister \/ CancelRun
  BY <1>0, <1>9 DEF Post, CloneHistory, Unregister, CancelRun
<1>10. CASE TakeJob \/ Stop \/ StopWaiting \/ ReceiveAlbum \/ HandleBatch \/ WorkerPersists
  BY <1>0, <1>10 DEF TakeJob, Stop, StopWaiting, ReceiveAlbum, HandleBatch, WorkerPersists
<1>11. ASSUME NEW m \in Messages, DispatchUpdate(m) \/ Expire(m)
      PROVE  PollerTyped'
  BY <1>0, <1>11 DEF DispatchUpdate, Expire
<1>12. ASSUME NEW a \in Albums, Fire(a) \/ Deliver(a)
      PROVE  PollerTyped'
  BY <1>0, <1>12 DEF Fire, Deliver, DeliverAlbum
<1>13. CASE UNCHANGED vars
  BY <1>0, <1>13 DEF vars
<1> QED
  BY <1>1, <1>2, <1>3, <1>4, <1>5, <1>6, <1>7, <1>8, <1>9, <1>10, <1>11, <1>12, <1>13
     DEF Next, Work, Poll, HandleAlbum, HandleSingle

\* The calls and the marks, the groups and the batches of fired timers.
LEMMA CallsStayTyped ==
  ASSUME RelayTyped, PollCalls, EndsWhole, [Next]_vars
  PROVE  CallsTyped' /\ PollCalls'
<1>0. /\ CallsTyped /\ call \in [Callers -> Calling] /\ "poll" \in Callers
      /\ poller \in Polling
  BY DEF RelayTyped, CallsTyped, PollerTyped, Callers
<1>p. PollCalls
  OBVIOUS
<1> USE DEF Calling
<1>a. CASE UNCHANGED <<call, poller>>
  BY <1>0, <1>a DEF CallsTyped, PollCalls
<1>b. ASSUME NEW c \in Callers, NEW ok \in BOOLEAN, Return(c, ok)
      PROVE  CallsTyped' /\ PollCalls'
  <2>1. CallsTyped'
    BY <1>0, <1>b, RelayAssumption DEF Return, CallsTyped, NoCall
  <2>2. CASE c = "poll"
    <3>1. call' = [call EXCEPT !["poll"] = NoCall]
      BY <1>b, <2>2 DEF Return
    <3>2. call'["poll"].at = "none"
      BY <1>0, <3>1 DEF NoCall
    <3> QED
      BY <2>1, <3>2 DEF PollCalls
  <2>3. CASE c = "push"
    <3>1. call' = [call EXCEPT !["push"] = NoCall] /\ UNCHANGED poller
      BY <1>b, <2>3 DEF Return
    <3>2. call'["poll"] = call["poll"]
      BY <1>0, <3>1
    <3> QED
      BY <1>p, <2>1, <3>1, <3>2 DEF PollCalls
  <2> QED
    BY <2>1, <2>2, <2>3 DEF Callers
<1>c. ASSUME NEW c \in Callers, NEW s \in {"enqueue", "forget", "add"}, GoesTo(c, s), call[c].at # "none"
      PROVE  CallsTyped' /\ PollCalls'
  BY <1>0, <1>c DEF GoesTo, CallsTyped, PollCalls
<1>1. ASSUME NEW m \in Messages, DispatchUpdate(m)
      PROVE  CallsTyped' /\ PollCalls'
  BY <1>0, <1>1 DEF DispatchUpdate, CallsTyped, PollCalls, Messages, Callers
<1>2. ASSUME NEW c \in Callers, Dispatch(c)
      PROVE  CallsTyped' /\ PollCalls'
  <2>1. CASE Seen(c)
    BY <1>b, <1>c, <2>1 DEF Seen
  <2>2. CASE EnqueueSingle(c)
    BY <1>b, <1>c, <2>2 DEF EnqueueSingle
  <2>3. CASE EnsureAlbumWaiter(c)
    BY <1>c, <2>3 DEF EnsureAlbumWaiter
  <2>4. CASE Forget(c)
    BY <1>b, <2>4 DEF Forget
  <2>5. CASE Add(c)
    BY <1>b, <2>5 DEF Add
  <2> QED
    BY <1>2, <2>1, <2>2, <2>3, <2>4, <2>5 DEF Dispatch
<1>3. CASE PollMessage
  <2>1. /\ Head(poller.page) \in Messages /\ poller.page # <<>> /\ call["poll"].at = "none"
        /\ poller.at = "msgs"
    BY <1>0, <1>3 DEF PollMessage, Polling
  <2>2. CASE UNCHANGED call
    BY <1>0, <2>1, <2>2 DEF CallsTyped, PollCalls
  <2>3. CASE /\ call' = [call EXCEPT !["poll"] = [at |-> "mark", id |-> Head(poller.page)]]
             /\ UNCHANGED poller
    BY <1>0, <2>1, <2>3 DEF CallsTyped, PollCalls, Messages
  <2> QED
    BY <1>3, <2>2, <2>3 DEF PollMessage
<1>4. CASE PollStart \/ PollFrom \/ PollerPersists \/ PageDone \/ PollerLeaves
  <2>1. UNCHANGED call /\ call["poll"].at = "none"
    BY <1>4 DEF PollStart, PollFrom, PollerPersists, PageDone, PollerLeaves, PollCalls
  <2> QED
    BY <1>0, <2>1 DEF CallsTyped, PollCalls
<1>5. CASE Register
  <2>1. UNCHANGED call /\ call["poll"].at = "none"
    BY <1>5 DEF Register, PollCalls, EndsWhole
  <2> QED
    BY <1>0, <2>1 DEF CallsTyped, PollCalls
<1>6. CASE Post \/ CloneHistory \/ Unregister \/ CancelRun
  BY <1>6, <1>a DEF Post, CloneHistory, Unregister, CancelRun
<1>7. CASE TakeJob \/ Stop \/ StopWaiting \/ ReceiveAlbum \/ HandleBatch \/ WorkerPersists
  BY <1>7, <1>a DEF TakeJob, Stop, StopWaiting, ReceiveAlbum, HandleBatch, WorkerPersists
<1>8. ASSUME NEW m \in Messages, Expire(m)
      PROVE  CallsTyped' /\ PollCalls'
  BY <1>8, <1>a DEF Expire
<1>9. ASSUME NEW a \in Albums, Fire(a) \/ Deliver(a)
      PROVE  CallsTyped' /\ PollCalls'
  BY <1>9, <1>a DEF Fire, Deliver, DeliverAlbum
<1>10. CASE UNCHANGED vars
  BY <1>10, <1>a DEF vars
<1> QED
  BY <1>1, <1>2, <1>3, <1>4, <1>5, <1>6, <1>7, <1>8, <1>9, <1>10
     DEF Next, Work, Poll, HandleAlbum, HandleSingle

LEMMA SharedStaysTyped ==
  ASSUME RelayTyped, [Next]_vars
  PROVE  SharedTyped' /\ HandledTyped'
<1>0. SharedTyped /\ HandledTyped
  BY DEF RelayTyped
<1>a. \A c \in Callers : call[c].at # "none" => call[c].id \in Messages
  BY DEF RelayTyped, CallsTyped
<1> USE DEF SharedTyped, HandledTyped, shared
<1>1. CASE Unregister \/ CancelRun
  BY <1>0, <1>1 DEF Unregister, CancelRun, UnregisterTask
<1>2. ASSUME NEW c \in Callers, Seen(c) \/ Forget(c)
      PROVE  SharedTyped' /\ HandledTyped'
  <2>1. UNCHANGED <<strays, groups, fired, handled>>
    BY <1>2 DEF Seen, Forget
  <2>2. call[c].at # "none" /\ call[c].id \in Messages
    BY <1>a, <1>2 DEF Seen, Forget
  <2>3. seen' \in {seen, seen \cup {call[c].id}, seen \ {call[c].id}}
    BY <1>2 DEF Seen, Forget
  <2>4. seen' \subseteq Messages
    BY <1>0, <2>2, <2>3
  <2> QED
    BY <1>0, <2>1, <2>4
<1>3. ASSUME NEW c \in Callers, Add(c)
      PROVE  SharedTyped' /\ HandledTyped'
  BY <1>0, <1>a, <1>3 DEF Add
<1>4. ASSUME NEW c \in Callers, EnqueueSingle(c) \/ EnsureAlbumWaiter(c)
      PROVE  SharedTyped' /\ HandledTyped'
  BY <1>0, <1>4 DEF EnqueueSingle, EnsureAlbumWaiter
<1>5. ASSUME NEW a \in Albums, Fire(a)
      PROVE  SharedTyped' /\ HandledTyped'
  <2>1. [album |-> a, msgs |-> groups[a]] \in [album : Albums, msgs : SUBSET Messages]
    BY <1>0
  <2> QED
    BY <1>0, <1>5, <2>1 DEF Fire
<1>6. ASSUME NEW f \in fired, DeliverAlbum(f)
      PROVE  SharedTyped' /\ HandledTyped'
  <2>1. f.msgs \in SUBSET Messages
    BY <1>0
  <2> QED
    BY <1>0, <1>6, <2>1 DEF DeliverAlbum
<1>7. ASSUME NEW m \in Messages, DispatchUpdate(m) \/ Expire(m)
      PROVE  SharedTyped' /\ HandledTyped'
  BY <1>0, <1>7 DEF DispatchUpdate, Expire
<1>8. CASE HandleBatch
  BY <1>0, <1>8 DEF HandleBatch
<1>9. CASE TakeJob \/ Stop \/ StopWaiting \/ ReceiveAlbum \/ WorkerPersists
  BY <1>0, <1>9 DEF TakeJob, Stop, StopWaiting, ReceiveAlbum, WorkerPersists
<1>10. CASE Poll
  BY <1>0, <1>10 DEF Poll, PollStart, PollFrom, PollerPersists, PollMessage, PageDone, PollerLeaves
<1>11. CASE Post \/ CloneHistory \/ Register
  BY <1>0, <1>11 DEF Post, CloneHistory, Register
<1>12. CASE UNCHANGED vars
  BY <1>0, <1>12 DEF vars
<1> QED
  BY <1>1, <1>2, <1>3, <1>4, <1>5, <1>6, <1>7, <1>8, <1>9, <1>10, <1>11, <1>12
     DEF Next, Work, HandleAlbum, HandleSingle, Dispatch, Deliver

----------------------------------------------------------------------------
(* The jobs, the channels and those who wait for them                     *)

\* A run that has ended stays so.
LEMMA EndedStays ==
  ASSUME [Next]_vars, Ended
  PROVE  Ended'
<1> USE DEF Ended, life, task, UnregisterTask, StopTask
<1>1. CASE Post \/ CloneHistory \/ Register \/ Unregister \/ CancelRun
  BY <1>1 DEF Post, CloneHistory, Register, Unregister, CancelRun
<1>2. CASE Work
  BY <1>2 DEF Work, TakeJob, Stop, StopWaiting, ReceiveAlbum, HandleAlbum, HandleSingle,
              HandleBatch, WorkerPersists
<1>3. CASE Poll
  BY <1>3 DEF Poll, PollStart, PollFrom, PollerPersists, PollMessage, PageDone, PollerLeaves
<1>4. ASSUME NEW m \in Messages, DispatchUpdate(m) \/ Expire(m)
      PROVE  Ended'
  BY <1>4 DEF DispatchUpdate, Expire
<1>5. ASSUME NEW c \in Callers, Dispatch(c)
      PROVE  Ended'
  BY <1>5 DEF Dispatch, Seen, EnqueueSingle, EnsureAlbumWaiter, Forget, Add
<1>6. ASSUME NEW a \in Albums, Fire(a) \/ Deliver(a)
      PROVE  Ended'
  BY <1>6 DEF Fire, Deliver, DeliverAlbum
<1>7. CASE UNCHANGED vars
  BY <1>7 DEF vars
<1> QED
  BY <1>1, <1>2, <1>3, <1>4, <1>5, <1>6, <1>7 DEF Next

LEMMA EndsStayWhole ==
  ASSUME RelayTyped, EndsWhole, PollCalls, [Next]_vars
  PROVE  EndsWhole'
<1>0. /\ live \in BOOLEAN /\ registered \in BOOLEAN /\ done \in BOOLEAN
      /\ handled \in [Messages -> Nat]
  BY DEF RelayTyped, LifeTyped, HandledTyped
<1> USE DEF EndsWhole, life, task, UnregisterTask, StopTask
<1>a. ASSUME UNCHANGED <<live, registered, done>>, worker.at # "off", worker'.at # "off"
      PROVE  EndsWhole'
  BY <1>a
<1>b. ASSUME UNCHANGED <<live, registered, done, worker, handled>>,
             poller.at = "off" => poller'.at = "off"
      PROVE  EndsWhole'
  BY <1>b
<1>1. CASE Post \/ CloneHistory
  BY <1>b, <1>1 DEF Post, CloneHistory
<1>2. CASE Register
  BY <1>2 DEF Register, Idle, OffDuty
<1>3. CASE Unregister
  BY <1>3 DEF Unregister
<1>4. CASE CancelRun
  BY <1>4 DEF CancelRun
<1>5. CASE TakeJob
  BY <1>a, <1>5 DEF TakeJob, Leave, OffDuty
<1>6. CASE Stop \/ StopWaiting
  BY <1>a, <1>6 DEF Stop, StopWaiting, Leave, OffDuty
<1>7. CASE ReceiveAlbum
  BY <1>a, <1>7 DEF ReceiveAlbum, Idle, OffDuty
<1>8. CASE worker.at = "handle" /\ HandleBatch
  BY <1>a, <1>8 DEF HandleBatch, Idle, OffDuty
<1>9. CASE WorkerPersists
  BY <1>a, <1>9 DEF WorkerPersists, Idle, OffDuty
<1>10. CASE Poll
  <2>1. poller.at # "off"
    BY <1>10 DEF Poll, PollStart, PollFrom, PollerPersists, PollMessage, PageDone, PollerLeaves
  <2>2. UNCHANGED <<live, registered, done, worker, handled>>
    BY <1>10 DEF Poll, PollStart, PollFrom, PollerPersists, PollMessage, PageDone, PollerLeaves
  <2> QED
    BY <1>b, <2>1, <2>2
<1>11. ASSUME NEW m \in Messages, DispatchUpdate(m) \/ Expire(m)
      PROVE  EndsWhole'
  BY <1>b, <1>11 DEF DispatchUpdate, Expire
<1>12. ASSUME NEW c \in Callers, Dispatch(c)
      PROVE  EndsWhole'
  <2>1. UNCHANGED <<live, registered, done, worker, handled>>
    BY <1>12 DEF Dispatch, Seen, EnqueueSingle, EnsureAlbumWaiter, Forget, Add
  <2>2. call[c].at # "none"
    BY <1>12 DEF Dispatch, Seen, EnqueueSingle, EnsureAlbumWaiter, Forget, Add
  <2>3. poller' = poller \/ c = "poll"
    BY <1>12 DEF Dispatch, Seen, EnqueueSingle, EnsureAlbumWaiter, Forget, Add, Return, GoesTo,
                 Callers
  <2>4. c = "poll" => poller.at # "off"
    BY <2>2 DEF PollCalls
  <2> QED
    BY <1>b, <2>1, <2>3, <2>4
<1>13. ASSUME NEW a \in Albums, Fire(a) \/ Deliver(a)
      PROVE  EndsWhole'
  BY <1>b, <1>13 DEF Fire, Deliver, DeliverAlbum
<1>14. CASE UNCHANGED vars
  BY <1>b, <1>14 DEF vars
<1> QED
  BY <1>1, <1>2, <1>3, <1>4, <1>5, <1>6, <1>7, <1>8, <1>9, <1>10, <1>11, <1>12, <1>13, <1>14
     DEF Next, Work, HandleAlbum, HandleSingle

LEMMA JobsStayWhole ==
  ASSUME RelayTyped, JobsWhole, [Next]_vars
  PROVE  JobsWhole'
<1>0. /\ Len(chans) \in Nat /\ Len(chans') \in Nat /\ Len(chans) <= Len(chans')
      /\ queue \in Seq(Jobs)
  BY QueueStaysTyped DEF RelayTyped, QueueTyped
<1> DEFINE Whole(j, n) == j.ch <= n /\ (j.batch = {} <=> j.ch # 0)
           Fit(w) == (w.batch # {} <=> w.at = "handle") /\ (w.at = "album" => w.ch # 0)
<1>1. /\ \A i \in DOMAIN queue : Whole(queue[i], Len(chans)) /\ queue[i].ch \in Nat
      /\ Fit(worker)
  <2>1. \A i \in DOMAIN queue : queue[i] \in Jobs
    BY <1>0
  <2>2. \A i \in DOMAIN queue : queue[i].ch \in Nat
    BY <2>1 DEF Jobs
  <2> QED
    BY <2>2 DEF JobsWhole
<1>2. ASSUME \A i \in DOMAIN queue' : Whole(queue'[i], Len(chans')), Fit(worker')
      PROVE  JobsWhole'
  BY <1>2 DEF JobsWhole
<1>3. \A i \in DOMAIN queue : Whole(queue[i], Len(chans'))
  BY <1>0, <1>1
<1>4. Fit(OffDuty) /\ Fit(Idle) /\ Fit([OffDuty EXCEPT !.at = "out"])
      /\ Fit([Idle EXCEPT !.at = "persist"])
  BY DEF OffDuty, Idle
<1> HIDE DEF Whole, Fit
<1>a. CASE UNCHANGED <<queue, worker>>
  BY <1>1, <1>2, <1>3, <1>a
<1>b. ASSUME Fit(worker'), UNCHANGED queue
      PROVE  JobsWhole'
  BY <1>2, <1>3, <1>b
<1>c. CASE Leave
  BY <1>2, <1>4, <1>c DEF Leave
<1>d. ASSUME NEW j, Whole(j, Len(chans')), queue' = Append(queue, j), UNCHANGED worker
      PROVE  JobsWhole'
  BY <1>0, <1>1, <1>2, <1>3, <1>d
<1> USE DEF life, task
<1>5. CASE Post \/ CloneHistory \/ Unregister \/ CancelRun
  BY <1>5, <1>a DEF Post, CloneHistory, Unregister, CancelRun
<1>6. CASE Register \/ WorkerPersists
  BY <1>6, <1>4, <1>b DEF Register, WorkerPersists
<1>7. CASE TakeJob
  <2>1. CASE ~Ended
    <3>1. 1 \in DOMAIN queue /\ Head(queue) = queue[1] /\ queue' = Tail(queue)
      BY <1>0, <1>7, <2>1 DEF TakeJob
    <3>2. \A i \in DOMAIN queue' : i + 1 \in DOMAIN queue /\ queue'[i] = queue[i + 1]
      BY <1>0, <1>7, <3>1 DEF TakeJob
    <3>3. Fit(worker')
      BY <1>1, <1>7, <2>1, <3>1 DEF TakeJob, Fit, Whole
    <3> QED
      BY <1>2, <1>3, <3>2, <3>3
  <2> QED
    BY <1>7, <1>c, <2>1 DEF TakeJob
<1>8. CASE Stop \/ StopWaiting
  BY <1>8, <1>c DEF Stop, StopWaiting
<1>9. CASE ReceiveAlbum
  <2>1. \A b : b # {} => Fit([at |-> "handle", batch |-> b, ch |-> 0])
    BY DEF Fit
  <2> QED
    BY <1>9, <1>4, <1>b, <2>1 DEF ReceiveAlbum
<1>10. CASE HandleBatch
  BY <1>10, <1>4, <1>b DEF HandleBatch
<1>11. CASE Poll
  BY <1>11, <1>a DEF Poll, PollStart, PollFrom, PollerPersists, PollMessage, PageDone, PollerLeaves
<1>12. ASSUME NEW m \in Messages, DispatchUpdate(m) \/ Expire(m)
      PROVE  JobsWhole'
  BY <1>12, <1>a DEF DispatchUpdate, Expire
<1>13. ASSUME NEW c \in Callers, Seen(c) \/ Forget(c) \/ Add(c)
      PROVE  JobsWhole'
  BY <1>13, <1>a DEF Seen, Forget, Add
<1>14. ASSUME NEW c \in Callers, EnqueueSingle(c)
      PROVE  JobsWhole'
  <2>1. Whole(Job({call[c].id}, 0), Len(chans'))
    <3>1. Job({call[c].id}, 0).ch = 0 /\ Job({call[c].id}, 0).batch = {call[c].id}
      BY DEF Job
    <3>2. {call[c].id} # {} /\ 0 <= Len(chans')
      BY <1>0
    <3> QED
      BY <3>1, <3>2 DEF Whole
  <2> QED
    BY <1>14, <1>a, <1>d, <2>1 DEF EnqueueSingle
<1>15. ASSUME NEW c \in Callers, EnsureAlbumWaiter(c)
      PROVE  JobsWhole'
  <2>1. CASE chans' = Append(chans, OpenChan)
    <3>1. Len(chans') = Len(chans) + 1
      BY <2>1, <1>0 DEF RelayTyped, QueueTyped
    <3>2. Whole(Job({}, Len(chans) + 1), Len(chans'))
      BY <1>0, <3>1 DEF Whole, Job
    <3> QED
      BY <1>15, <1>a, <1>d, <3>2 DEF EnsureAlbumWaiter
  <2> QED
    BY <1>15, <1>a, <2>1 DEF EnsureAlbumWaiter
<1>16. ASSUME NEW a \in Albums, Fire(a) \/ Deliver(a)
      PROVE  JobsWhole'
  BY <1>16, <1>a DEF Fire, Deliver, DeliverAlbum
<1>17. CASE UNCHANGED vars
  BY <1>17, <1>a DEF vars
<1> QED
  BY <1>5, <1>6, <1>7, <1>8, <1>9, <1>10, <1>11, <1>12, <1>13, <1>14, <1>15, <1>16, <1>17
     DEF Next, Work, HandleAlbum, HandleSingle, Dispatch

LEMMA AlbumsStayApart ==
  ASSUME RelayTyped, AlbumsApart, [Next]_vars
  PROVE  AlbumsApart'
<1>0. /\ groups \in [Albums -> SUBSET Messages]
      /\ fired \subseteq [album : Albums, msgs : SUBSET Messages]
  BY DEF RelayTyped, SharedTyped
<1> USE DEF AlbumsApart, shared
<1>c. call \in [Callers -> Calling] /\ "poll" \in Callers /\ "push" \in Callers
  BY DEF RelayTyped, CallsTyped, Callers
<1>a. CASE UNCHANGED <<groups, fired, call>>
  BY <1>a
<1>b. ASSUME NEW c \in Callers, NEW r, UNCHANGED <<groups, fired>>,
             call' = [call EXCEPT ![c] = r], r.at = "add" => Albumed(r.id)
      PROVE  AlbumsApart'
  BY <1>c, <1>b DEF Calling
<1>d. ASSUME NEW c \in Callers, NEW s \in {"enqueue", "forget", "add"}, s = "add" => Albumed(call[c].id),
             GoesTo(c, s), UNCHANGED <<groups, fired>>
      PROVE  AlbumsApart'
  <2>1. call' = [call EXCEPT ![c] = [call[c] EXCEPT !.at = s]]
    BY <1>d DEF GoesTo
  <2>2. [call[c] EXCEPT !.at = s].at = s /\ [call[c] EXCEPT !.at = s].id = call[c].id
    BY <1>c DEF Calling
  <2> QED
    BY <1>b, <1>d, <2>1, <2>2
<1>e. ASSUME NEW c \in Callers, NEW ok, Return(c, ok), UNCHANGED <<groups, fired>>
      PROVE  AlbumsApart'
  BY <1>b, <1>e DEF Return, NoCall
<1>1. CASE Post \/ CloneHistory \/ Register \/ Unregister \/ Work
  BY <1>a, <1>1 DEF Post, CloneHistory, Register, Unregister, Work, Poll, TakeJob, Stop,
     StopWaiting, ReceiveAlbum, HandleAlbum, HandleSingle, HandleBatch, WorkerPersists
<1>9. CASE PollStart \/ PollFrom \/ PollerPersists \/ PageDone \/ PollerLeaves
  BY <1>a, <1>9 DEF PollStart, PollFrom, PollerPersists, PageDone, PollerLeaves
<1>10. CASE PollMessage
  <2>1. \A m : [at |-> "mark", id |-> m].at # "add"
    OBVIOUS
  <2> QED
    BY <1>a, <1>b, <1>c, <1>10, <2>1 DEF PollMessage
<1>2. CASE CancelRun
  BY <1>2 DEF CancelRun
<1>3. ASSUME NEW m \in Messages, DispatchUpdate(m) \/ Expire(m)
      PROVE  AlbumsApart'
  <2>1. [at |-> "mark", id |-> m].at # "add"
    OBVIOUS
  <2> QED
    BY <1>a, <1>b, <1>c, <1>3, <2>1 DEF DispatchUpdate, Expire
<1>4. ASSUME NEW c \in Callers, Seen(c) \/ EnqueueSingle(c) \/ EnsureAlbumWaiter(c) \/ Forget(c)
      PROVE  AlbumsApart'
  <2>1. UNCHANGED <<groups, fired>>
    BY <1>4 DEF Seen, EnqueueSingle, EnsureAlbumWaiter, Forget
  <2>2. CASE Seen(c)
    <3>1. Return(c, FALSE) \/ GoesTo(c, "enqueue")
      BY <2>2 DEF Seen
    <3> QED
      BY <1>d, <1>e, <2>1, <3>1
  <2>3. CASE EnqueueSingle(c)
    <3>1. Return(c, TRUE) \/ GoesTo(c, "forget")
      BY <2>3 DEF EnqueueSingle
    <3> QED
      BY <1>d, <1>e, <2>1, <3>1
  <2>4. CASE EnsureAlbumWaiter(c)
    <3>1. Albumed(call[c].id) /\ (GoesTo(c, "add") \/ GoesTo(c, "forget"))
      BY <2>4 DEF EnsureAlbumWaiter
    <3>2. CASE GoesTo(c, "add")
      BY <1>d, <2>1, <3>1, <3>2
    <3>3. CASE GoesTo(c, "forget")
      BY <1>d, <2>1, <3>3
    <3> QED
      BY <3>1, <3>2, <3>3
  <2>5. CASE Forget(c)
    BY <1>e, <2>1, <2>5 DEF Forget
  <2> QED
    BY <1>4, <2>2, <2>3, <2>4, <2>5
<1>5. ASSUME NEW c \in Callers, Add(c)
      PROVE  AlbumsApart'
  <2> DEFINE a == AlbumOf(call[c].id)
             m == call[c].id
  <2>1. /\ groups' = [groups EXCEPT ![a] = groups[a] \cup {m}]
        /\ UNCHANGED fired
    BY <1>5 DEF Add
  <2>2. Albumed(m) => m \in a
    BY AlbumOfMember
  <2>3. call[c].at = "add"
    BY <1>5 DEF Add
  <2>4. Albumed(m)
    BY <2>3
  <2>5. \A d \in Callers : call'[d].at = "add" => call'[d] = call[d]
    BY <1>c, <1>5 DEF Add, Return, NoCall
  <2> HIDE DEF a, m
  <2> QED
    BY <1>0, <2>1, <2>2, <2>4, <2>5
<1>6. ASSUME NEW a \in Albums, Fire(a)
      PROVE  AlbumsApart'
  BY <1>0, <1>6 DEF Fire
<1>7. ASSUME NEW f \in fired, DeliverAlbum(f)
      PROVE  AlbumsApart'
  BY <1>0, <1>7 DEF DeliverAlbum
<1>8. CASE UNCHANGED vars
  BY <1>a, <1>8 DEF vars
<1> QED
  BY <1>1, <1>2, <1>3, <1>4, <1>5, <1>6, <1>7, <1>8, <1>9, <1>10 DEF Next, Poll, Dispatch, Deliver

LEMMA ChannelsStayOwn ==
  ASSUME RelayTyped, JobsWhole, OwnChannels, [Next]_vars
  PROVE  OwnChannels'
<1>0. queue \in Seq(Jobs) /\ Len(chans) \in Nat /\ worker.ch \in 0..Len(chans)
  BY DEF RelayTyped, QueueTyped, WorkerTyped, Duty
<1>1. \A i \in DOMAIN queue : queue[i].ch \in Nat /\ queue[i].ch <= Len(chans)
  <2>1. \A i \in DOMAIN queue : queue[i] \in Jobs
    BY <1>0
  <2> QED
    BY <2>1 DEF JobsWhole, Jobs
<1> USE DEF life, task
<1>a. ASSUME UNCHANGED queue, worker'.at # "album" \/ UNCHANGED worker
      PROVE  OwnChannels'
  BY <1>a DEF OwnChannels
<1>b. CASE Leave
  BY <1>b DEF Leave, OwnChannels, OffDuty
<1>c. ASSUME NEW j, queue' = Append(queue, j), UNCHANGED worker,
             j.ch = 0 \/ j.ch = Len(chans) + 1
      PROVE  OwnChannels'
  <2>1. /\ DOMAIN queue' = 1..(Len(queue) + 1) /\ DOMAIN queue = 1..Len(queue)
        /\ Len(queue) \in Nat
        /\ queue'[Len(queue) + 1] = j /\ \A i \in DOMAIN queue : queue'[i] = queue[i]
    BY <1>0, <1>c
  <2>2. \A i \in DOMAIN queue : j.ch = 0 \/ queue[i].ch # j.ch
    BY <1>0, <1>1, <1>c
  <2>3. worker.at = "album" => worker.ch # j.ch
    BY <1>0, <1>c DEF JobsWhole
  <2>4. \A i, k \in DOMAIN queue' :
          queue'[i].ch # 0 /\ queue'[i].ch = queue'[k].ch => i = k
    BY <2>1, <2>2 DEF OwnChannels
  <2>5. worker.at = "album" => \A i \in DOMAIN queue' : queue'[i].ch # worker.ch
    BY <2>1, <2>3 DEF OwnChannels
  <2> QED
    BY <1>c, <2>4, <2>5 DEF OwnChannels
<1>2. CASE Post \/ CloneHistory \/ Unregister \/ CancelRun
  BY <1>2, <1>a DEF Post, CloneHistory, Unregister, CancelRun
<1>3. CASE Register \/ WorkerPersists
  BY <1>3, <1>a DEF Register, WorkerPersists, Idle, OffDuty
<1>4. CASE TakeJob
  <2>1. CASE ~Ended
    <3>1. /\ DOMAIN queue' = 1..(Len(queue) - 1) /\ DOMAIN queue = 1..Len(queue)
          /\ \A i \in DOMAIN queue' : i + 1 \in DOMAIN queue /\ queue'[i] = queue[i + 1]
          /\ Head(queue) = queue[1] /\ 1 \in DOMAIN queue /\ Len(queue) \in Nat
      BY <1>0, <1>4, <2>1 DEF TakeJob
    <3>2. /\ worker'.ch = queue[1].ch
          /\ worker'.at = IF queue[1].ch = 0 THEN "handle" ELSE "album"
      BY <1>4, <2>1, <3>1 DEF TakeJob
    <3>3. \A i, k \in DOMAIN queue' :
            queue'[i].ch # 0 /\ queue'[i].ch = queue'[k].ch => i = k
      <4> SUFFICES ASSUME NEW i \in DOMAIN queue', NEW k \in DOMAIN queue',
                          queue'[i].ch # 0, queue'[i].ch = queue'[k].ch
                   PROVE  i = k
        OBVIOUS
      <4>1. i + 1 = k + 1
        BY <3>1 DEF OwnChannels
      <4> QED
        BY <3>1, <4>1
    <3>4. worker'.at = "album" => \A i \in DOMAIN queue' : queue'[i].ch # worker'.ch
      <4> SUFFICES ASSUME queue[1].ch # 0, NEW i \in DOMAIN queue', queue'[i].ch = queue[1].ch
                   PROVE  FALSE
        BY <3>2
      <4>1. i + 1 = 1
        BY <3>1 DEF OwnChannels
      <4> QED
        BY <3>1, <4>1
    <3> QED
      BY <3>3, <3>4 DEF OwnChannels
  <2> QED
    BY <1>4, <1>b, <2>1 DEF TakeJob
<1>5. CASE Stop \/ StopWaiting
  BY <1>5, <1>b DEF Stop, StopWaiting
<1>6. CASE ReceiveAlbum
  BY <1>6, <1>a DEF ReceiveAlbum, Idle, OffDuty
<1>7. CASE HandleBatch
  BY <1>7, <1>a DEF HandleBatch, Idle, OffDuty
<1>8. CASE Poll
  BY <1>8, <1>a DEF Poll, PollStart, PollFrom, PollerPersists, PollMessage, PageDone, PollerLeaves
<1>9. ASSUME NEW m \in Messages, DispatchUpdate(m) \/ Expire(m)
      PROVE  OwnChannels'
  BY <1>9, <1>a DEF DispatchUpdate, Expire
<1>10. ASSUME NEW c \in Callers, Seen(c) \/ Forget(c) \/ Add(c)
      PROVE  OwnChannels'
  BY <1>10, <1>a DEF Seen, Forget, Add
<1>11. ASSUME NEW c \in Callers, EnqueueSingle(c)
      PROVE  OwnChannels'
  <2>1. Job({call[c].id}, 0).ch = 0
    BY DEF Job
  <2> QED
    BY <1>11, <1>a, <1>c, <2>1 DEF EnqueueSingle
<1>12. ASSUME NEW c \in Callers, EnsureAlbumWaiter(c)
      PROVE  OwnChannels'
  <2>1. Job({}, Len(chans) + 1).ch = Len(chans) + 1
    BY DEF Job
  <2> QED
    BY <1>12, <1>a, <1>c, <2>1 DEF EnsureAlbumWaiter
<1>13. ASSUME NEW a \in Albums, Fire(a) \/ Deliver(a)
      PROVE  OwnChannels'
  BY <1>13, <1>a DEF Fire, Deliver, DeliverAlbum
<1>14. CASE UNCHANGED vars
  BY <1>14, <1>a DEF vars
<1> QED
  BY <1>2, <1>3, <1>4, <1>5, <1>6, <1>7, <1>8, <1>9, <1>10, <1>11, <1>12, <1>13, <1>14
     DEF Next, Work, HandleAlbum, HandleSingle, Dispatch

----------------------------------------------------------------------------
(* No album is waited for in vain                                          *)

\* Who waits for a channel.
LEMMA AwaitedIs ==
  \A ch : ch \in Awaited <=>
            /\ ch # 0
            /\ \/ \E i \in DOMAIN queue : queue[i].ch = ch
               \/ worker.at = "album" /\ worker.ch = ch
BY DEF Awaited

\* A channel comes with its job, goes with the worker's receive, and no other
\* step of a run that goes on changes who waits.
LEMMA AwaitedStep ==
  ASSUME RelayTyped, JobsWhole, OwnChannels, [Next]_vars, ~Ended'
  PROVE  \/ /\ Awaited' = Awaited
            /\ ~ReceiveAlbum
            /\ \/ UNCHANGED <<chans, waiter>>
               \/ \E f \in fired : DeliverAlbum(f)
         \/ ReceiveAlbum /\ Awaited' = Awaited \ {worker.ch}
         \/ /\ \E c \in Callers :
                 /\ EnsureAlbumWaiter(c)
                 /\ GoesTo(c, "add")
                 /\ waiter[AlbumOf(call[c].id)] = 0
                 /\ waiter' = [waiter EXCEPT ![AlbumOf(call[c].id)] = Len(chans) + 1]
            /\ queue' = Append(queue, Job({}, Len(chans) + 1))
            /\ chans' = Append(chans, OpenChan)
            /\ Awaited' = Awaited \cup {Len(chans) + 1}
            /\ Len(chans) + 1 \notin Awaited
<1> DEFINE Same == /\ Awaited' = Awaited /\ ~ReceiveAlbum
                   /\ \/ UNCHANGED <<chans, waiter>>
                      \/ \E f \in fired : DeliverAlbum(f)
<1>0. queue \in Seq(Jobs) /\ Len(chans) \in Nat /\ worker.ch \in 0..Len(chans)
  BY DEF RelayTyped, QueueTyped, WorkerTyped, Duty
<1>1. \A i \in DOMAIN queue : queue[i].ch \in Nat /\ queue[i].ch <= Len(chans)
  <2>1. \A i \in DOMAIN queue : queue[i] \in Jobs
    BY <1>0
  <2> QED
    BY <2>1 DEF JobsWhole, Jobs
<1> USE DEF life, task
<1>a. ASSUME UNCHANGED <<queue, chans, waiter>>, worker'.at # "album", worker.at # "album"
      PROVE  Same
  BY <1>a DEF Awaited, ReceiveAlbum
<1>b. ASSUME UNCHANGED <<queue, worker>>, UNCHANGED <<chans, waiter>> \/ \E f \in fired : DeliverAlbum(f),
             ~ReceiveAlbum
      PROVE  Same
  BY <1>b DEF Awaited
<1>c. ASSUME Leave, worker.at \in {"idle", "album", "handle"}, Ended
      PROVE  FALSE
  BY <1>c, EndedStays
<1>d. ASSUME ReceiveAlbum
      PROVE  Awaited' = Awaited \ {worker.ch}
  <2>1. worker'.at # "album" /\ worker.at = "album" /\ UNCHANGED queue /\ worker.ch # 0
    BY <1>d DEF ReceiveAlbum, Idle, OffDuty, JobsWhole
  <2>2. \A i \in DOMAIN queue : queue[i].ch # worker.ch
    BY <2>1 DEF OwnChannels
  <2>3. Awaited' = {queue[i].ch : i \in DOMAIN queue} \ {0}
    BY <2>1 DEF Awaited
  <2>4. Awaited = ({queue[i].ch : i \in DOMAIN queue} \cup {worker.ch}) \ {0}
    BY <2>1 DEF Awaited
  <2> QED
    BY <2>2, <2>3, <2>4
<1>e. ASSUME NEW j, queue' = Append(queue, j), UNCHANGED worker
      PROVE  Awaited' = Awaited \cup ({j.ch} \ {0})
  <2>1. /\ DOMAIN queue' = DOMAIN queue \cup {Len(queue) + 1}
        /\ queue'[Len(queue) + 1] = j /\ \A i \in DOMAIN queue : queue'[i] = queue[i]
    BY <1>0, <1>e
  <2>2. {queue'[i].ch : i \in DOMAIN queue'} = {queue[i].ch : i \in DOMAIN queue} \cup {j.ch}
    BY <2>1
  <2> QED
    BY <1>e, <2>2 DEF Awaited
<1>n. ReceiveAlbum => worker' # worker
  BY DEF ReceiveAlbum, Idle, OffDuty
<1>2. CASE Post \/ CloneHistory
  BY <1>2, <1>b, <1>n DEF Post, CloneHistory
<1>3. CASE Register \/ WorkerPersists
  BY <1>3, <1>a DEF Register, WorkerPersists, Idle, OffDuty
<1>4. CASE Unregister \/ CancelRun
  <2>1. UNCHANGED <<queue, worker, chans, waiter>> \/ done' \/ ~live'
    BY <1>4 DEF Unregister, CancelRun, UnregisterTask, StopTask
  <2>2. UNCHANGED <<queue, worker, chans, waiter>>
    BY <2>1 DEF Ended
  <2>3. ReceiveAlbum => worker' # worker
    BY DEF ReceiveAlbum, Idle, OffDuty
  <2> QED
    BY <1>b, <2>2, <2>3
<1>5. CASE TakeJob
  <2>1. ~Ended
    BY <1>5, <1>c DEF TakeJob
  <2>2. /\ DOMAIN queue' = 1..(Len(queue) - 1) /\ DOMAIN queue = 1..Len(queue)
        /\ \A i \in DOMAIN queue' : i + 1 \in DOMAIN queue /\ queue'[i] = queue[i + 1]
        /\ Head(queue) = queue[1] /\ 1 \in DOMAIN queue /\ Len(queue) \in Nat
    BY <1>0, <1>5, <2>1 DEF TakeJob
  <2>3. /\ worker'.ch = queue[1].ch /\ worker.at = "idle"
        /\ worker'.at = IF queue[1].ch = 0 THEN "handle" ELSE "album"
        /\ UNCHANGED <<chans, waiter>>
    BY <1>5, <2>1, <2>2 DEF TakeJob
  <2>4. \A k \in DOMAIN queue : k = 1 \/ \E i \in DOMAIN queue' : k = i + 1
    <3> SUFFICES ASSUME NEW k \in DOMAIN queue, k # 1
                 PROVE  k - 1 \in DOMAIN queue' /\ k = (k - 1) + 1
      OBVIOUS
    <3> QED
      BY <2>2
  <2>5. {queue[i].ch : i \in DOMAIN queue}
          = {queue'[i].ch : i \in DOMAIN queue'} \cup {queue[1].ch}
    BY <2>2, <2>4
  <2>6. Awaited' = Awaited
    BY <2>3, <2>5 DEF Awaited
  <2> QED
    BY <2>3, <2>6 DEF ReceiveAlbum
<1>6. CASE Stop \/ StopWaiting
  BY <1>6, <1>c DEF Stop, StopWaiting, Ended
<1>7. CASE worker.at = "handle" /\ HandleBatch
  BY <1>7, <1>a DEF HandleBatch, Idle, OffDuty
<1>8. CASE Poll
  <2>1. UNCHANGED <<queue, worker, chans, waiter>>
    BY <1>8 DEF Poll, PollStart, PollFrom, PollerPersists, PollMessage, PageDone, PollerLeaves
  <2> QED
    BY <1>b, <1>n, <2>1
<1>9. ASSUME NEW m \in Messages, DispatchUpdate(m) \/ Expire(m)
      PROVE  Same
  <2>1. UNCHANGED <<queue, worker, chans, waiter>>
    BY <1>9 DEF DispatchUpdate, Expire
  <2> QED
    BY <1>b, <1>n, <2>1
<1>10. ASSUME NEW c \in Callers, Seen(c) \/ Forget(c) \/ Add(c)
      PROVE  Same
  <2>1. UNCHANGED <<queue, worker, chans, waiter>>
    BY <1>10 DEF Seen, Forget, Add
  <2> QED
    BY <1>b, <1>n, <2>1
<1>11. ASSUME NEW c \in Callers, EnqueueSingle(c)
      PROVE  Same
  <2>1. UNCHANGED <<worker, chans, waiter>>
    BY <1>11 DEF EnqueueSingle
  <2>2. Job({call[c].id}, 0).ch = 0
    BY DEF Job
  <2>3. UNCHANGED queue \/ queue' = Append(queue, Job({call[c].id}, 0))
    BY <1>11 DEF EnqueueSingle
  <2> QED
    BY <1>b, <1>e, <1>n, <2>1, <2>2, <2>3
<1>12. ASSUME NEW c \in Callers, EnsureAlbumWaiter(c)
      PROVE  \/ Same
             \/ /\ \E d \in Callers :
                     /\ EnsureAlbumWaiter(d)
                     /\ GoesTo(d, "add")
                     /\ waiter[AlbumOf(call[d].id)] = 0
                     /\ waiter' = [waiter EXCEPT ![AlbumOf(call[d].id)] = Len(chans) + 1]
                /\ queue' = Append(queue, Job({}, Len(chans) + 1))
                /\ chans' = Append(chans, OpenChan)
                /\ Awaited' = Awaited \cup {Len(chans) + 1}
                /\ Len(chans) + 1 \notin Awaited
  <2>1. UNCHANGED worker
    BY <1>12 DEF EnsureAlbumWaiter
  <2>2. CASE UNCHANGED <<queue, chans, waiter>>
    BY <1>b, <1>n, <2>1, <2>2
  <2>3. CASE /\ GoesTo(c, "add")
             /\ waiter[AlbumOf(call[c].id)] = 0
             /\ waiter' = [waiter EXCEPT ![AlbumOf(call[c].id)] = Len(chans) + 1]
             /\ queue' = Append(queue, Job({}, Len(chans) + 1))
             /\ chans' = Append(chans, OpenChan)
    <3>1. Job({}, Len(chans) + 1).ch = Len(chans) + 1 /\ Len(chans) + 1 # 0
      BY <1>0 DEF Job
    <3>2. Awaited' = Awaited \cup {Len(chans) + 1}
      BY <1>e, <2>1, <2>3, <3>1
    <3>3. Len(chans) + 1 \notin Awaited
      BY <1>0, <1>1, AwaitedIs
    <3> QED
      BY <1>12, <2>3, <3>2, <3>3
  <2> QED
    BY <1>12, <2>2, <2>3 DEF EnsureAlbumWaiter
<1>13. ASSUME NEW a \in Albums, Fire(a) \/ Deliver(a)
      PROVE  Same
  <2>1. UNCHANGED <<queue, worker>>
    BY <1>13 DEF Fire, Deliver, DeliverAlbum
  <2>2. UNCHANGED <<chans, waiter>> \/ \E f \in fired : DeliverAlbum(f)
    BY <1>13 DEF Fire, Deliver
  <2> QED
    BY <1>b, <1>n, <2>1, <2>2
<1>14. CASE UNCHANGED vars
  <2>1. UNCHANGED <<queue, worker, chans, waiter>>
    BY <1>14 DEF vars
  <2> QED
    BY <1>b, <1>n, <2>1
<1>15. CASE ReceiveAlbum
  BY <1>d, <1>15
<1> QED
  BY <1>2, <1>3, <1>4, <1>5, <1>6, <1>7, <1>8, <1>9, <1>10, <1>11, <1>12, <1>13, <1>14, <1>15
     DEF Next, Work, HandleAlbum, HandleSingle, Dispatch

LEMMA WaitersStayWaiting ==
  ASSUME RelayTyped, JobsWhole, EndsWhole, OwnChannels, WaitersWait, [Next]_vars
  PROVE  WaitersWait'
<1>0. /\ chans \in Seq(Chan) /\ waiter \in [Albums -> 0..Len(chans)]
      /\ Len(chans) \in Nat /\ DOMAIN chans = 1..Len(chans)
      /\ worker.ch \in 0..Len(chans)
  BY DEF RelayTyped, QueueTyped, WorkerTyped, Duty
<1> DEFINE Pending == \A a \in Albums : waiter[a] # 0 =>
                        /\ waiter[a] \in Awaited /\ ~chans[waiter[a]].closed
                        /\ \A b \in Albums : waiter[b] = waiter[a] => a = b
           Apart == \A a \in Albums : waiter[a] # worker.ch
           Blank == \A i \in DOMAIN chans : ~chans[i].closed => chans[i].batch = {}
<1>1. /\ ~Ended => Pending
      /\ done /\ worker.at = "album" => Apart
      /\ Blank
  BY DEF WaitersWait
<1>2. ASSUME ~Ended' PROVE Pending'
  <2>0. ~Ended /\ Pending
    BY <1>1, <1>2, EndedStays
  <2>1. CASE Awaited' = Awaited /\ UNCHANGED <<chans, waiter>>
    BY <2>0, <2>1
  <2>2. ASSUME NEW f \in fired, DeliverAlbum(f), Awaited' = Awaited
        PROVE  Pending'
    <3>1. f.album \in Albums
      BY DEF RelayTyped, SharedTyped
    <3>2. \A a \in Albums : waiter'[a] = IF a = f.album THEN 0 ELSE waiter[a]
      BY <1>0, <2>2, <3>1 DEF DeliverAlbum
    <3>3. \A i \in DOMAIN chans : i # waiter[f.album] => chans'[i] = chans[i]
      BY <1>0, <2>2 DEF DeliverAlbum
    <3>4. \A a \in Albums : waiter[a] # 0 => waiter[a] \in DOMAIN chans
      BY <1>0
    <3> SUFFICES ASSUME NEW a \in Albums, waiter'[a] # 0
                 PROVE  /\ waiter'[a] \in Awaited /\ ~chans'[waiter'[a]].closed
                        /\ \A b \in Albums : waiter'[b] = waiter'[a] => a = b
      BY <2>2
    <3>5. a # f.album /\ waiter'[a] = waiter[a] /\ waiter[a] # waiter[f.album]
      BY <2>0, <3>1, <3>2
    <3>6. chans'[waiter[a]] = chans[waiter[a]]
      BY <3>2, <3>3, <3>4, <3>5
    <3> QED
      BY <2>0, <3>2, <3>5, <3>6
  <2>3. CASE ReceiveAlbum /\ Awaited' = Awaited \ {worker.ch}
    BY <2>0, <2>3 DEF ReceiveAlbum, task
  <2>4. ASSUME NEW c \in Callers, EnsureAlbumWaiter(c),
               waiter' = [waiter EXCEPT ![AlbumOf(call[c].id)] = Len(chans) + 1],
               chans' = Append(chans, OpenChan), Awaited' = Awaited \cup {Len(chans) + 1}
        PROVE  Pending'
    <3> DEFINE n == Len(chans) + 1
               d == AlbumOf(call[c].id)
    <3>1. /\ \A i \in DOMAIN chans : chans'[i] = chans[i]
          /\ chans'[n] = OpenChan
      BY <1>0, <2>4
    <3>2. \A a \in Albums : waiter[a] # n /\ (waiter[a] # 0 => waiter[a] \in DOMAIN chans)
      BY <1>0
    <3>3. \A a \in Albums : waiter'[a] = IF a = d THEN n ELSE waiter[a]
      BY <1>0, <2>4
    <3> HIDE DEF n, d
    <3> SUFFICES ASSUME NEW a \in Albums, waiter'[a] # 0
                 PROVE  /\ waiter'[a] \in Awaited' /\ ~chans'[waiter'[a]].closed
                        /\ \A b \in Albums : waiter'[b] = waiter'[a] => a = b
      BY Zenon
    <3>4. Awaited' = Awaited \cup {n}
      BY <2>4 DEF n
    <3>5. CASE a = d
      BY <3>1, <3>2, <3>3, <3>4, <3>5 DEF OpenChan
    <3>6. CASE a # d
      BY <2>0, <3>1, <3>2, <3>3, <3>4, <3>6
    <3> QED
      BY <3>5, <3>6
  <2> QED
    BY <1>2, <2>1, <2>2, <2>3, <2>4, AwaitedStep
<1> USE DEF life, task
<1>a. CASE UNCHANGED <<chans, waiter, worker, done>>
  BY <1>1, <1>2, <1>a DEF WaitersWait
<1>b. ASSUME UNCHANGED <<chans, waiter, done>>, worker'.at # "album"
      PROVE  WaitersWait'
  BY <1>1, <1>2, <1>b DEF WaitersWait
<1>c. CASE StopTask /\ UNCHANGED worker
  <2>1. \A i \in DOMAIN chans' : i \in DOMAIN chans
          /\ (~chans'[i].closed => chans'[i] = chans[i])
    <3> SUFFICES ASSUME NEW i \in DOMAIN chans, i \in Range(waiter)
                 PROVE  [chans[i] EXCEPT !.closed = TRUE].closed
      BY <1>c DEF StopTask
    <3>1. chans[i] \in Chan
      BY <1>0
    <3> QED
      BY <3>1 DEF Chan
  <2>2. Blank'
    BY <1>1, <2>1
  <2>3. worker.at = "album" => Apart'
    BY <1>c DEF StopTask, JobsWhole
  <2> QED
    BY <1>2, <1>c, <2>2, <2>3 DEF WaitersWait
<1>3. CASE Post \/ CloneHistory
  BY <1>3, <1>a DEF Post, CloneHistory
<1>4. CASE Register \/ WorkerPersists
  BY <1>4, <1>b DEF Register, WorkerPersists, Idle, OffDuty
<1>5. CASE Unregister \/ CancelRun
  BY <1>5, <1>a, <1>c DEF Unregister, CancelRun, UnregisterTask
<1>6. CASE TakeJob
  <2>1. CASE Ended
    BY <1>6, <1>b, <2>1 DEF TakeJob, Leave, OffDuty
  <2>2. CASE ~Ended
    <3>1. UNCHANGED <<chans, waiter, done>> /\ ~done
      BY <1>6, <2>2 DEF TakeJob, Ended
    <3> QED
      BY <1>1, <1>2, <3>1 DEF WaitersWait
  <2> QED
    BY <2>1, <2>2
<1>7. CASE Stop \/ StopWaiting
  BY <1>7, <1>b DEF Stop, StopWaiting, Leave, OffDuty
<1>8. CASE ReceiveAlbum
  BY <1>8, <1>b DEF ReceiveAlbum, Idle, OffDuty
<1>9. CASE HandleBatch
  BY <1>9, <1>b DEF HandleBatch, Idle, OffDuty
<1>10. CASE Poll
  BY <1>10, <1>a DEF Poll, PollStart, PollFrom, PollerPersists, PollMessage, PageDone, PollerLeaves
<1>11. ASSUME NEW m \in Messages, DispatchUpdate(m) \/ Expire(m)
      PROVE  WaitersWait'
  BY <1>11, <1>a DEF DispatchUpdate, Expire
<1>12. ASSUME NEW c \in Callers, Seen(c) \/ Forget(c) \/ Add(c) \/ EnqueueSingle(c)
      PROVE  WaitersWait'
  BY <1>12, <1>a DEF Seen, Forget, Add, EnqueueSingle
<1>13. ASSUME NEW c \in Callers, EnsureAlbumWaiter(c)
      PROVE  WaitersWait'
  <2>1. CASE UNCHANGED <<chans, waiter>>
    BY <1>13, <1>a, <2>1 DEF EnsureAlbumWaiter
  <2>2. CASE /\ waiter' = [waiter EXCEPT ![AlbumOf(call[c].id)] = Len(chans) + 1]
             /\ chans' = Append(chans, OpenChan)
    <3>1. Blank'
      BY <1>0, <1>1, <2>2 DEF OpenChan
    <3>2. Len(chans) + 1 # worker.ch
      BY <1>0
    <3>3. Apart => Apart'
      BY <1>0, <1>13, <2>2, <3>2 DEF EnsureAlbumWaiter
    <3> QED
      BY <1>1, <1>2, <1>13, <3>1, <3>3 DEF WaitersWait, EnsureAlbumWaiter
  <2> QED
    BY <1>13, <2>1, <2>2 DEF EnsureAlbumWaiter
<1>14. ASSUME NEW f \in fired, DeliverAlbum(f)
      PROVE  WaitersWait'
  <2>1. UNCHANGED <<worker, done>>
    BY <1>14 DEF DeliverAlbum
  <2>2. worker.at = "album" /\ Apart => Apart'
    BY <1>0, <1>14, <2>1 DEF DeliverAlbum, JobsWhole
  <2>3. Blank'
    <3>1. CASE UNCHANGED chans
      BY <1>1, <3>1
    <3>2. ASSUME NEW k, chans' = [chans EXCEPT ![k] = [closed |-> TRUE, batch |-> f.msgs]]
          PROVE  Blank'
      <4>1. /\ DOMAIN chans' = DOMAIN chans
            /\ \A i \in DOMAIN chans : chans'[i].closed \/ chans'[i] = chans[i]
        BY <1>0, <3>2
      <4> QED
        BY <1>1, <4>1
    <3> QED
      BY <1>14, <3>1, <3>2 DEF DeliverAlbum
  <2> QED
    BY <1>1, <1>2, <2>1, <2>2, <2>3 DEF WaitersWait
<1>15. ASSUME NEW a \in Albums, Fire(a)
      PROVE  WaitersWait'
  BY <1>15, <1>a DEF Fire
<1>16. CASE UNCHANGED vars
  BY <1>16, <1>a DEF vars
<1> QED
  BY <1>3, <1>4, <1>5, <1>6, <1>7, <1>8, <1>9, <1>10, <1>11, <1>12, <1>13, <1>14, <1>15, <1>16
     DEF Next, Work, HandleAlbum, HandleSingle, Dispatch, Deliver

\* What is on its way to an album stays on its way, or comes.
LEMMA ComingStays ==
  ASSUME RelayTyped, AlbumsApart, [Next]_vars, ~Ended', NEW a \in Albums, Coming(a)
  PROVE  Coming(a)' \/ \E f \in fired : f.album = a /\ DeliverAlbum(f)
<1>0. /\ groups \in [Albums -> SUBSET Messages]
      /\ call \in [Callers -> Calling]
      /\ "poll" \in Callers /\ "push" \in Callers
  BY DEF RelayTyped, SharedTyped, CallsTyped, Callers
<1> USE DEF shared
<1>b. ASSUME NEW c \in Callers, NEW r, call[c].at # "add", call' = [call EXCEPT ![c] = r],
             UNCHANGED <<groups, fired>>
      PROVE  Coming(a)'
  BY <1>0, <1>b DEF Coming
<1>a. ASSUME UNCHANGED <<groups, fired, call>>
      PROVE  Coming(a)'
  BY <1>a DEF Coming
<1>1. CASE Post \/ CloneHistory \/ Register \/ Unregister \/ Work
  BY <1>a, <1>1 DEF Post, CloneHistory, Register, Unregister, Work, TakeJob, Stop,
     StopWaiting, ReceiveAlbum, HandleAlbum, HandleSingle, HandleBatch, WorkerPersists
<1>2. CASE CancelRun
  BY <1>2 DEF CancelRun, Ended
<1>3. ASSUME NEW m \in Messages, DispatchUpdate(m) \/ Expire(m)
      PROVE  Coming(a)'
  <2>1. CASE DispatchUpdate(m)
    <3>1. call["push"].at # "add" /\ UNCHANGED <<groups, fired>>
      BY <2>1 DEF DispatchUpdate
    <3>2. call' = [call EXCEPT !["push"] = [at |-> "mark", id |-> m]]
      BY <2>1 DEF DispatchUpdate
    <3> QED
      BY <1>b, <1>0, <3>1, <3>2
  <2>2. CASE Expire(m)
    BY <1>a, <2>2 DEF Expire
  <2> QED
    BY <1>3, <2>1, <2>2
<1>4. ASSUME NEW c \in Callers, Seen(c) \/ EnqueueSingle(c) \/ EnsureAlbumWaiter(c) \/ Forget(c)
      PROVE  Coming(a)'
  <2>1. UNCHANGED <<groups, fired>> /\ call[c].at # "add"
    BY <1>4 DEF Seen, EnqueueSingle, EnsureAlbumWaiter, Forget
  <2>2. \E r : call' = [call EXCEPT ![c] = r]
    BY <1>4 DEF Seen, EnqueueSingle, EnsureAlbumWaiter, Forget, Return, GoesTo
  <2> QED
    BY <1>b, <2>1, <2>2
<1>5. ASSUME NEW c \in Callers, Add(c)
      PROVE  Coming(a)'
  <2> DEFINE b == AlbumOf(call[c].id)
             m == call[c].id
  <2>1. /\ groups' = [groups EXCEPT ![b] = groups[b] \cup {m}]
        /\ UNCHANGED fired
    BY <1>5 DEF Add
  <2>2. Albumed(m) /\ b \in Albums /\ \A d \in Albums : m \in d => d = b
    BY <1>5, AlbumOfMember DEF Add, AlbumsApart
  <2>3. \A d \in Callers : d # c => call'[d] = call[d]
    BY <1>0, <1>5 DEF Add, Return
  <2> HIDE DEF b, m
  <2>4. CASE groups[a] # {}
    <3>1. groups'[a] # {}
      BY <1>0, <2>1, <2>4
    <3> QED
      BY <3>1 DEF Coming
  <2>5. CASE \E f \in fired : f.album = a
    BY <2>1, <2>5 DEF Coming
  <2>6. ASSUME NEW d \in Callers, call[d].at = "add", call[d].id \in a
        PROVE  Coming(a)'
    <3>1. CASE d = c
      <4>1. a = b
        BY <2>2, <2>6, <3>1 DEF m
      <4>2. groups'[a] # {}
        BY <1>0, <2>1, <2>2, <4>1
      <4> QED
        BY <4>2 DEF Coming
    <3>2. CASE d # c
      BY <2>3, <2>6, <3>2 DEF Coming
    <3> QED
      BY <3>1, <3>2
  <2> QED
    BY <2>4, <2>5, <2>6 DEF Coming
<1>6. ASSUME NEW b \in Albums, Fire(b)
      PROVE  Coming(a)'
  <2>1. CASE a = b
    <3>1. [album |-> a, msgs |-> groups[a]] \in fired'
      BY <1>6, <2>1 DEF Fire
    <3>2. [album |-> a, msgs |-> groups[a]].album = a
      OBVIOUS
    <3> QED
      BY <3>1, <3>2 DEF Coming
  <2>2. CASE a # b
    <3>1. groups'[a] = groups[a] /\ fired \subseteq fired' /\ UNCHANGED call
      BY <1>0, <1>6, <2>2 DEF Fire
    <3> QED
      BY <3>1 DEF Coming
  <2> QED
    BY <2>1, <2>2
<1>7. ASSUME NEW f \in fired, DeliverAlbum(f), f.album # a
      PROVE  Coming(a)'
  BY <1>7 DEF DeliverAlbum, Coming
<1>8. CASE UNCHANGED vars
  BY <1>a, <1>8 DEF vars
<1>9. CASE PollStart \/ PollFrom \/ PollerPersists \/ PageDone \/ PollerLeaves
  BY <1>a, <1>9 DEF PollStart, PollFrom, PollerPersists, PageDone, PollerLeaves
<1>10. CASE PollMessage
  BY <1>a, <1>b, <1>0, <1>10 DEF PollMessage
<1> QED
  BY <1>1, <1>2, <1>3, <1>4, <1>5, <1>6, <1>7, <1>8, <1>9, <1>10
     DEF Next, Poll, Dispatch, Deliver

LEMMA AlbumStaysAnswered ==
  ASSUME RelayTyped, JobsWhole, EndsWhole, OwnChannels, WaitersWait, AlbumsApart,
         AlbumAnswered, [Next]_vars
  PROVE  AlbumAnswered'
<1>0. /\ chans \in Seq(Chan) /\ waiter \in [Albums -> 0..Len(chans)]
      /\ Len(chans) \in Nat /\ DOMAIN chans = 1..Len(chans)
  BY DEF RelayTyped, QueueTyped
<1>1. \A ch \in Awaited : ch \in DOMAIN chans
  <2>1. \A i \in DOMAIN queue : queue[i].ch \in Nat /\ queue[i].ch <= Len(chans)
    <3>1. \A i \in DOMAIN queue : queue[i] \in Jobs
      BY DEF RelayTyped, QueueTyped
    <3> QED
      BY <3>1 DEF JobsWhole, Jobs
  <2>2. worker.ch \in 0..Len(chans)
    BY DEF RelayTyped, WorkerTyped, Duty
  <2>3. \A ch \in Awaited : ch \in Nat /\ ch # 0 /\ ch <= Len(chans)
    BY <1>0, <2>1, <2>2, AwaitedIs
  <2> QED
    BY <1>0, <2>3
<1> SUFFICES ASSUME ~Ended', NEW ch \in Awaited'
             PROVE  chans'[ch].closed \/ \E a \in Albums : waiter'[a] = ch /\ Coming(a)'
  BY DEF AlbumAnswered
<1>2. ~Ended
  BY EndedStays
<1>3. ASSUME ch \in Awaited, UNCHANGED <<chans, waiter>>, ~\E f \in fired : DeliverAlbum(f)
      PROVE  chans'[ch].closed \/ \E a \in Albums : waiter'[a] = ch /\ Coming(a)'
  <2>1. CASE chans[ch].closed
    BY <1>3, <2>1
  <2>2. ASSUME NEW a \in Albums, waiter[a] = ch, Coming(a)
        PROVE  \E d \in Albums : waiter'[d] = ch /\ Coming(d)'
    <3>1. Coming(a)'
      BY <1>3, <2>2, ComingStays
    <3> QED
      BY <1>3, <2>2, <3>1
  <2> QED
    BY <1>2, <1>3, <2>1, <2>2 DEF AlbumAnswered
<1>4. ASSUME ch \in Awaited, NEW f \in fired, DeliverAlbum(f)
      PROVE  chans'[ch].closed \/ \E a \in Albums : waiter'[a] = ch /\ Coming(a)'
  <2>1. f.album \in Albums
    BY DEF RelayTyped, SharedTyped
  <2>2. \A a \in Albums : a # f.album => waiter'[a] = waiter[a]
    BY <1>0, <1>4, <2>1 DEF DeliverAlbum
  <2>3. chans[ch].closed => chans'[ch].closed
    BY <1>0, <1>1, <1>4 DEF DeliverAlbum
  <2>4. ch = waiter[f.album] => chans'[ch].closed
    <3>1. ch # 0
      BY <1>0, <1>1, <1>4
    <3> QED
      BY <1>0, <1>1, <1>4, <3>1 DEF DeliverAlbum
  <2>5. ASSUME NEW a \in Albums, waiter[a] = ch, Coming(a), a # f.album
        PROVE  \E d \in Albums : waiter'[d] = ch /\ Coming(d)'
    <3>1. Coming(a)'
      <4>1. \A g \in fired : g # f => g \in fired'
        BY <1>4 DEF DeliverAlbum
      <4>2. UNCHANGED <<groups, call>>
        BY <1>4 DEF DeliverAlbum
      <4> QED
        BY <2>5, <4>1, <4>2 DEF Coming
    <3> QED
      BY <2>2, <2>5, <3>1
  <2> QED
    BY <1>2, <1>4, <2>3, <2>4, <2>5 DEF AlbumAnswered
<1>5. ASSUME ReceiveAlbum, ch \in Awaited
      PROVE  chans'[ch].closed \/ \E a \in Albums : waiter'[a] = ch /\ Coming(a)'
  <2>1. UNCHANGED <<chans, waiter, groups, fired, call>>
    BY <1>5 DEF ReceiveAlbum, task, shared
  <2> QED
    BY <1>2, <1>5, <2>1 DEF AlbumAnswered, Coming
<1>6. ASSUME NEW c \in Callers, EnsureAlbumWaiter(c), GoesTo(c, "add"),
             waiter[AlbumOf(call[c].id)] = 0,
             waiter' = [waiter EXCEPT ![AlbumOf(call[c].id)] = Len(chans) + 1],
             chans' = Append(chans, OpenChan), Awaited' = Awaited \cup {Len(chans) + 1}
      PROVE  chans'[ch].closed \/ \E a \in Albums : waiter'[a] = ch /\ Coming(a)'
  <2>0. PICK d \in Albums : d = AlbumOf(call[c].id)
    BY <1>6, AlbumOfMember DEF EnsureAlbumWaiter
  <2>8. PICK n : n = Len(chans) + 1
    OBVIOUS
  <2>1. \A i \in DOMAIN chans : chans'[i] = chans[i]
    BY <1>0, <1>6
  <2>2. \A a \in Albums : waiter'[a] = IF a = d THEN n ELSE waiter[a]
    BY <1>0, <1>6, <2>0, <2>8
  <2>3. d \in Albums /\ call[c].id \in d
    BY <1>6, <2>0, AlbumOfMember DEF EnsureAlbumWaiter
  <2>4. /\ UNCHANGED <<groups, fired>>
        /\ call'[c].at = "add" /\ call'[c].id = call[c].id
        /\ \A e \in Callers : e # c => call'[e] = call[e]
        /\ call[c].at = "enqueue"
    <3>1. call \in [Callers -> Calling] /\ call[c] \in Calling
      BY DEF RelayTyped, CallsTyped
    <3>2. call' = [call EXCEPT ![c] = [call[c] EXCEPT !.at = "add"]]
      BY <1>6 DEF GoesTo
    <3>3. call'[c] = [call[c] EXCEPT !.at = "add"]
      BY <3>1, <3>2
    <3> QED
      BY <1>6, <3>1, <3>2, <3>3 DEF EnsureAlbumWaiter, shared, Calling
  <2>5. Coming(d)'
    BY <2>3, <2>4 DEF Coming
  <2>6. CASE ch = n
    BY <2>2, <2>3, <2>5, <2>6
  <2>7. CASE ch \in Awaited
    <3>1. CASE chans[ch].closed
      BY <1>1, <2>1, <2>7, <3>1
    <3>2. ASSUME NEW a \in Albums, waiter[a] = ch, Coming(a)
          PROVE  \E e \in Albums : waiter'[e] = ch /\ Coming(e)'
      <4>1. ch # 0
        BY <1>0, <1>1, <2>7
      <4>2. a # d
        BY <1>6, <2>0, <3>2, <4>1
      <4>3. Coming(a)'
        <5>1. \A e \in Callers : call[e].at = "add" => call'[e] = call[e]
          BY <2>4
        <5> QED
          BY <2>4, <3>2, <5>1 DEF Coming
      <4> QED
        BY <2>2, <3>2, <4>2, <4>3
    <3> QED
      BY <1>2, <2>7, <3>1, <3>2 DEF AlbumAnswered
  <2> QED
    BY <1>6, <2>6, <2>7, <2>8
<1>7. (\E f \in fired : DeliverAlbum(f)) \/ ~\E f \in fired : DeliverAlbum(f)
  OBVIOUS
<1> QED
  BY <1>3, <1>4, <1>5, <1>6, <1>7, AwaitedStep

----------------------------------------------------------------------------
(* No mark is left behind                                                  *)

RelayWhole ==
  /\ RelayTyped /\ JobsWhole /\ EndsWhole /\ OwnChannels /\ WaitersWait
  /\ AlbumsApart /\ PollCalls

Placed(m) ==
  InCall(m) \/ OnQueue(m) \/ InGroup(m) \/ InFired(m) \/ InAnswer(m) \/ WithWorker(m)

LEMMA HeldIs == \A m : m \in Held <=> Placed(m)
BY DEF Held, InCalls, InQueue, InGroups, InFlight, InAnswers, Placed, InCall, PastMark, OnQueue,
       InGroup, InFired, InAnswer, WithWorker

\* The batches the run waits for are there before and after, but for what is
\* delivered and received.
LEMMA AnswersStay ==
  ASSUME RelayWhole, [Next]_vars, ~Ended', ~ReceiveAlbum
  PROVE  \A ch \in Awaited :
           /\ ch \in Awaited' /\ ch \in DOMAIN chans
           /\ \/ chans'[ch] = chans[ch]
              \/ chans[ch].batch = {} /\ \E f \in fired :
                   DeliverAlbum(f) /\ chans'[ch].batch = f.msgs /\ waiter[f.album] = ch
<1>0. /\ chans \in Seq(Chan) /\ waiter \in [Albums -> 0..Len(chans)]
      /\ Len(chans) \in Nat /\ DOMAIN chans = 1..Len(chans)
  BY DEF RelayWhole, RelayTyped, QueueTyped
<1>1. \A ch \in Awaited : ch \in DOMAIN chans
  <2>1. \A i \in DOMAIN queue : queue[i].ch \in Nat /\ queue[i].ch <= Len(chans)
    <3>1. \A i \in DOMAIN queue : queue[i] \in Jobs
      BY DEF RelayWhole, RelayTyped, QueueTyped
    <3> QED
      BY <3>1 DEF RelayWhole, JobsWhole, Jobs
  <2>2. worker.ch \in 0..Len(chans)
    BY DEF RelayWhole, RelayTyped, WorkerTyped, Duty
  <2>3. \A ch \in Awaited : ch \in Nat /\ ch # 0 /\ ch <= Len(chans)
    BY <1>0, <2>1, <2>2, AwaitedIs
  <2> QED
    BY <1>0, <2>3
<1> SUFFICES ASSUME NEW ch \in Awaited
             PROVE  /\ ch \in Awaited'
                    /\ \/ chans'[ch] = chans[ch]
                       \/ chans[ch].batch = {} /\ \E f \in fired :
                            DeliverAlbum(f) /\ chans'[ch].batch = f.msgs /\ waiter[f.album] = ch
  BY <1>1
<1>2. ~Ended
  BY EndedStays
<1>3. CASE Awaited' = Awaited /\ UNCHANGED <<chans, waiter>>
  BY <1>3
<1>4. ASSUME Awaited' = Awaited, NEW f \in fired, DeliverAlbum(f)
      PROVE  \/ chans'[ch] = chans[ch]
             \/ /\ chans[ch].batch = {}
                /\ chans'[ch].batch = f.msgs /\ waiter[f.album] = ch
  <2>1. CASE UNCHANGED chans
    BY <2>1
  <2>2. CASE /\ waiter[f.album] # 0
             /\ chans' = [chans EXCEPT ![waiter[f.album]] = [closed |-> TRUE, batch |-> f.msgs]]
    <3>1. CASE waiter[f.album] = ch
      <4>1. f.album \in Albums /\ ~chans[ch].closed
        BY <1>2, <2>2, <3>1 DEF RelayWhole, RelayTyped, SharedTyped, WaitersWait
      <4>2. chans[ch].batch = {}
        BY <1>1, <4>1 DEF RelayWhole, WaitersWait
      <4> QED
        BY <1>0, <1>1, <2>2, <3>1, <4>2
    <3>2. CASE waiter[f.album] # ch
      BY <1>0, <1>1, <2>2, <3>2
    <3> QED
      BY <3>1, <3>2
  <2> QED
    BY <1>4, <2>1, <2>2 DEF DeliverAlbum
<1>5. CASE chans' = Append(chans, OpenChan) /\ Awaited' = Awaited \cup {Len(chans) + 1}
  BY <1>0, <1>1, <1>5
<1> QED
  BY <1>3, <1>4, <1>5, AwaitedStep DEF RelayWhole

\* A message of a run that goes on does not get lost between its places.
Kept(m) == Placed(m) \/ handled[m] > 0 \/ m \in strays

LEMMA KeptStays ==
  ASSUME RelayWhole, [Next]_vars, ~Ended', NEW m \in Messages, Kept(m), m \in seen'
  PROVE  Kept(m)'
<1>0. /\ ~Ended
      /\ call \in [Callers -> Calling] /\ "poll" \in Callers /\ "push" \in Callers
      /\ queue \in Seq(Jobs) /\ handled \in [Messages -> Nat]
      /\ groups \in [Albums -> SUBSET Messages]
      /\ fired \subseteq [album : Albums, msgs : SUBSET Messages]
  BY EndedStays DEF RelayWhole, RelayTyped, CallsTyped, QueueTyped, HandledTyped, SharedTyped,
     Callers
<1>c. UNCHANGED call => (InCall(m) => Kept(m)')
  BY DEF InCall, PastMark, Kept, Placed
<1>q. UNCHANGED queue => (OnQueue(m) => Kept(m)')
  BY DEF OnQueue, Kept, Placed
<1>g. UNCHANGED groups => (InGroup(m) => Kept(m)')
  BY DEF InGroup, Kept, Placed
<1>f. UNCHANGED fired => (InFired(m) => Kept(m)')
  BY DEF InFired, Kept, Placed
<1>w. worker'.batch = worker.batch => (WithWorker(m) => Kept(m)')
  BY DEF WithWorker, Kept, Placed
<1>s. /\ UNCHANGED handled => (handled[m] > 0 => Kept(m)')
      /\ UNCHANGED strays => (m \in strays => Kept(m)')
  BY DEF Kept
<1>n. ~ReceiveAlbum => (InAnswer(m) => Kept(m)')
  <2> SUFFICES ASSUME ~ReceiveAlbum, NEW ch \in Awaited, m \in chans[ch].batch
               PROVE  InAnswer(m)'
    BY DEF InAnswer, Kept, Placed
  <2>1. ch \in Awaited' /\ chans'[ch] = chans[ch]
    BY AnswersStay
  <2> QED
    BY <2>1 DEF InAnswer
<1>a. ASSUME NEW c \in Callers, NEW r, call' = [call EXCEPT ![c] = r],
             PastMark(c) /\ call[c].id = m => r.at \in {"enqueue", "forget", "add"} /\ r.id = m,
             InCall(m)
      PROVE  Kept(m)'
  <2>1. PICK d \in Callers : PastMark(d) /\ call[d].id = m
    BY <1>a DEF InCall
  <2>2. call'[d] = IF d = c THEN r ELSE call[d]
    BY <1>0, <1>a
  <2>3. InCall(m)'
    BY <1>a, <2>1, <2>2 DEF InCall, PastMark
  <2> QED
    BY <2>3 DEF Kept, Placed
\* A call that ends, or goes on, with the message it has or with another one.
<1>b. ASSUME NEW c \in Callers, call' = [call EXCEPT ![c] = NoCall], InCall(m),
             PastMark(c) => call[c].id # m
      PROVE  Kept(m)'
  BY <1>a, <1>b
<1>d. ASSUME NEW c \in Callers, NEW s \in {"enqueue", "forget", "add"}, GoesTo(c, s), InCall(m)
      PROVE  Kept(m)'
  <2>1. call' = [call EXCEPT ![c] = [call[c] EXCEPT !.at = s]]
    BY <1>d DEF GoesTo
  <2>2. [call[c] EXCEPT !.at = s].at = s /\ [call[c] EXCEPT !.at = s].id = call[c].id
    BY <1>0 DEF Calling
  <2> QED
    BY <1>a, <1>d, <2>1, <2>2
<1>k. \/ InCall(m) \/ OnQueue(m) \/ InGroup(m) \/ InFired(m) \/ InAnswer(m) \/ WithWorker(m)
      \/ handled[m] > 0 \/ m \in strays
  BY DEF Kept, Placed
<1>z. ASSUME UNCHANGED <<call, queue, groups, fired, handled, strays>>,
             worker'.batch = worker.batch, ~ReceiveAlbum
      PROVE  Kept(m)'
  BY <1>c, <1>q, <1>g, <1>f, <1>w, <1>s, <1>n, <1>k, <1>z
\* A step of a call.
<1>y. ASSUME UNCHANGED <<groups, fired, worker, handled, strays>>, ~ReceiveAlbum,
             InCall(m) => Kept(m)', OnQueue(m) => Kept(m)'
      PROVE  Kept(m)'
  BY <1>g, <1>f, <1>w, <1>s, <1>n, <1>k, <1>y
<1> USE DEF life, task, shared
<1>r. ReceiveAlbum => worker' # worker
  BY DEF ReceiveAlbum, Idle, OffDuty
<1>1. CASE Post \/ CloneHistory
  <2>1. UNCHANGED <<call, queue, groups, fired, worker, handled, strays>>
    BY <1>1 DEF Post, CloneHistory
  <2> QED
    BY <1>r, <1>z, <2>1
<1>2. CASE Register
  <2>1. /\ UNCHANGED <<call, queue, groups, fired, handled, strays>>
        /\ worker.at = "off" /\ worker' = Idle
    BY <1>2 DEF Register
  <2>2. worker.batch = {} /\ worker'.batch = {} /\ ~ReceiveAlbum
    BY <2>1 DEF RelayWhole, JobsWhole, Idle, OffDuty, ReceiveAlbum
  <2> QED
    BY <1>z, <2>1, <2>2
<1>3. CASE WorkerPersists
  <2>1. /\ UNCHANGED <<call, queue, groups, fired, handled, strays>>
        /\ worker.at = "persist" /\ worker' = Idle
    BY <1>3 DEF WorkerPersists
  <2>2. worker.batch = {} /\ worker'.batch = {} /\ ~ReceiveAlbum
    BY <2>1 DEF RelayWhole, JobsWhole, Idle, OffDuty, ReceiveAlbum
  <2> QED
    BY <1>z, <2>1, <2>2
<1>4. CASE Unregister
  <2>1. UNCHANGED <<call, queue, groups, fired, worker, handled, strays>>
    BY <1>4 DEF Unregister
  <2> QED
    BY <1>r, <1>z, <2>1
<1>5. CASE CancelRun
  BY <1>5 DEF CancelRun, Ended
<1>6. CASE TakeJob
  <2>1. /\ queue' = Tail(queue) /\ queue # <<>>
        /\ worker'.batch = Head(queue).batch /\ worker.at = "idle"
        /\ UNCHANGED <<call, groups, fired, handled, strays>>
    BY <1>0, <1>6 DEF TakeJob
  <2>2. ~ReceiveAlbum /\ worker.batch = {}
    BY <2>1 DEF ReceiveAlbum, RelayWhole, JobsWhole
  <2>3. ASSUME NEW i \in DOMAIN queue, m \in queue[i].batch
        PROVE  Kept(m)'
    <3>1. CASE i = 1
      BY <1>0, <2>1, <2>3, <3>1 DEF Kept, Placed, WithWorker
    <3>2. CASE i # 1
      <4>1. i - 1 \in DOMAIN queue' /\ queue'[i - 1] = queue[i]
        BY <1>0, <2>1, <2>3, <3>2
      <4> QED
        BY <2>3, <4>1 DEF Kept, Placed, OnQueue
    <3> QED
      BY <3>1, <3>2
  <2>4. OnQueue(m) => Kept(m)'
    BY <2>3 DEF OnQueue
  <2>5. ~WithWorker(m)
    BY <2>2 DEF WithWorker
  <2> QED
    BY <1>c, <1>g, <1>f, <1>s, <1>n, <1>k, <2>1, <2>2, <2>4, <2>5
<1>7. CASE Stop \/ StopWaiting
  BY <1>0, <1>7 DEF Stop, StopWaiting, Ended
<1>8. CASE ReceiveAlbum
  <2>1. /\ UNCHANGED <<call, queue, groups, fired, handled, strays, chans>>
        /\ worker.at = "album"
        /\ worker'.batch = chans[worker.ch].batch
    <3>1. Idle.batch = {}
      BY DEF Idle, OffDuty
    <3> QED
      BY <1>8, <3>1 DEF ReceiveAlbum
  <2>2. worker.batch = {} /\ worker.ch # 0
    BY <2>1 DEF RelayWhole, JobsWhole
  <2>3. Awaited' = Awaited \ {worker.ch}
    BY <1>8, <1>r, AwaitedStep DEF RelayWhole, EnsureAlbumWaiter
  <2>4. ~WithWorker(m)
    BY <2>2 DEF WithWorker
  <2>5. ASSUME NEW ch \in Awaited, m \in chans[ch].batch
        PROVE  Kept(m)'
    BY <2>1, <2>3, <2>5 DEF Kept, Placed, InAnswer, WithWorker
  <2>6. InAnswer(m) => Kept(m)'
    BY <2>5 DEF InAnswer
  <2> QED
    BY <1>c, <1>q, <1>g, <1>f, <1>s, <1>k, <2>1, <2>4, <2>6
<1>9. CASE worker.at = "handle" /\ HandleBatch
  <2>1. /\ UNCHANGED <<call, queue, groups, fired, strays>>
        /\ handled'[m] = IF m \in worker.batch THEN handled[m] + 1 ELSE handled[m]
    BY <1>9 DEF HandleBatch
  <2>2. ~ReceiveAlbum /\ handled[m] \in Nat
    BY <1>0, <1>9 DEF ReceiveAlbum
  <2>3. WithWorker(m) \/ handled[m] > 0 => Kept(m)'
    BY <2>1, <2>2 DEF Kept, WithWorker
  <2> QED
    BY <1>c, <1>q, <1>g, <1>f, <1>s, <1>n, <1>k, <2>1, <2>2, <2>3
<1>10. CASE PollStart \/ PollFrom \/ PollerPersists \/ PageDone \/ PollerLeaves
  <2>1. UNCHANGED <<call, queue, groups, fired, worker, handled, strays>>
    BY <1>10 DEF PollStart, PollFrom, PollerPersists, PageDone, PollerLeaves
  <2> QED
    BY <1>r, <1>z, <2>1
<1>11. CASE PollMessage
  <2>1. UNCHANGED <<queue, groups, fired, worker, handled, strays>>
    BY <1>11 DEF PollMessage
  <2>2. CASE UNCHANGED call
    BY <1>r, <1>z, <2>1, <2>2
  <2>3. ASSUME NEW r, call' = [call EXCEPT !["poll"] = r], call["poll"].at = "none"
        PROVE  Kept(m)'
    <3>1. InCall(m) => Kept(m)'
      BY <1>0, <1>a, <2>3 DEF PastMark
    <3> QED
      BY <1>q, <1>r, <1>y, <2>1, <3>1
  <2> QED
    BY <1>11, <2>2, <2>3 DEF PollMessage
<1>12. ASSUME NEW x \in Messages, DispatchUpdate(x)
       PROVE  Kept(m)'
  <2>1. UNCHANGED <<queue, groups, fired, worker, handled, strays>>
    BY <1>12 DEF DispatchUpdate
  <2>2. /\ call' = [call EXCEPT !["push"] = [at |-> "mark", id |-> x]]
        /\ call["push"].at = "none"
    BY <1>12 DEF DispatchUpdate
  <2>3. InCall(m) => Kept(m)'
    BY <1>0, <1>a, <2>2 DEF PastMark
  <2> QED
    BY <1>q, <1>r, <1>y, <2>1, <2>3
<1>13. ASSUME NEW x \in Messages, Expire(x)
       PROVE  Kept(m)'
  <2>1. UNCHANGED <<call, queue, groups, fired, worker, handled, strays>>
    BY <1>13 DEF Expire
  <2> QED
    BY <1>r, <1>z, <2>1
<1>14. ASSUME NEW c \in Callers, Seen(c)
       PROVE  Kept(m)'
  <2>1. UNCHANGED <<queue, groups, fired, worker, handled, strays>> /\ ~PastMark(c)
    BY <1>14 DEF Seen, PastMark
  <2>2. CASE call' = [call EXCEPT ![c] = NoCall]
    BY <1>b, <1>q, <1>r, <1>y, <2>1, <2>2
  <2>3. CASE GoesTo(c, "enqueue")
    BY <1>d, <1>q, <1>r, <1>y, <2>1, <2>3
  <2> QED
    BY <1>14, <2>2, <2>3 DEF Seen, Return
<1>15. ASSUME NEW c \in Callers, EnqueueSingle(c)
       PROVE  Kept(m)'
  <2>1. UNCHANGED <<groups, fired, worker, handled, strays>>
    BY <1>15 DEF EnqueueSingle
  <2>2. CASE /\ queue' = Append(queue, Job({call[c].id}, 0))
             /\ call' = [call EXCEPT ![c] = NoCall]
    <3>1. /\ \A i \in DOMAIN queue : i \in DOMAIN queue' /\ queue'[i] = queue[i]
          /\ Len(queue) + 1 \in DOMAIN queue'
          /\ queue'[Len(queue) + 1].batch = {call[c].id}
      BY <1>0, <2>2 DEF Job
    <3>2. OnQueue(m) \/ call[c].id = m => Kept(m)'
      BY <3>1 DEF OnQueue, Kept, Placed
    <3>3. InCall(m) => Kept(m)'
      BY <1>b, <2>2, <3>2
    <3> QED
      BY <1>r, <1>y, <2>1, <3>2, <3>3
  <2>3. CASE GoesTo(c, "forget") /\ UNCHANGED queue
    BY <1>d, <1>q, <1>r, <1>y, <2>1, <2>3
  <2> QED
    BY <1>15, <2>2, <2>3 DEF EnqueueSingle, Return
<1>16. ASSUME NEW c \in Callers, EnsureAlbumWaiter(c)
       PROVE  Kept(m)'
  <2>1. UNCHANGED <<groups, fired, worker, handled, strays>>
    BY <1>16 DEF EnsureAlbumWaiter
  <2>2. GoesTo(c, "add") \/ GoesTo(c, "forget")
    BY <1>16 DEF EnsureAlbumWaiter
  <2>3. InCall(m) => Kept(m)'
    BY <1>d, <2>2
  <2>4. UNCHANGED queue \/ queue' = Append(queue, Job({}, Len(chans) + 1))
    BY <1>16 DEF EnsureAlbumWaiter
  <2>5. \A i \in DOMAIN queue : i \in DOMAIN queue' /\ queue'[i] = queue[i]
    BY <1>0, <2>4, SMTT(30)
  <2>6. OnQueue(m) => Kept(m)'
    BY <2>5 DEF OnQueue, Kept, Placed
  <2> QED
    BY <1>r, <1>y, <2>1, <2>3, <2>6
<1>17. ASSUME NEW c \in Callers, Forget(c)
       PROVE  Kept(m)'
  <2>1. UNCHANGED <<queue, groups, fired, worker, handled, strays>>
    BY <1>17 DEF Forget
  <2>2. call' = [call EXCEPT ![c] = NoCall] /\ call[c].id # m
    BY <1>17 DEF Forget, Return
  <2>3. InCall(m) => Kept(m)'
    BY <1>b, <2>2
  <2> QED
    BY <1>q, <1>r, <1>y, <2>1, <2>3
<1>18. ASSUME NEW c \in Callers, Add(c)
       PROVE  Kept(m)'
  <2>1. UNCHANGED <<queue, fired, worker, handled, strays>>
    BY <1>18 DEF Add
  <2>2. /\ call' = [call EXCEPT ![c] = NoCall]
        /\ groups' = [groups EXCEPT ![AlbumOf(call[c].id)]
                        = groups[AlbumOf(call[c].id)] \cup {call[c].id}]
    BY <1>18 DEF Add, Return
  <2>3. AlbumOf(call[c].id) \in Albums
    BY <1>18, AlbumOfMember DEF Add, RelayWhole, AlbumsApart
  <2>4. InGroup(m) \/ m = call[c].id => InGroup(m)'
    BY <1>0, <2>2, <2>3 DEF InGroup
  <2>5. InGroup(m) \/ m = call[c].id => Kept(m)'
    BY <2>4 DEF Kept, Placed
  <2>6. InCall(m) => Kept(m)'
    BY <1>b, <2>2, <2>5
  <2> QED
    BY <1>q, <1>f, <1>w, <1>s, <1>n, <1>k, <1>r, <2>1, <2>5, <2>6
<1>19. ASSUME NEW a \in Albums, Fire(a)
       PROVE  Kept(m)'
  <2>1. UNCHANGED <<call, queue, worker, handled, strays>>
    BY <1>19 DEF Fire
  <2>2. /\ fired' = fired \cup {[album |-> a, msgs |-> groups[a]]}
        /\ groups' = [groups EXCEPT ![a] = {}]
    BY <1>19 DEF Fire
  <2>3. m \in groups[a] \/ InFired(m) => InFired(m)'
    <3>1. [album |-> a, msgs |-> groups[a]].msgs = groups[a]
      OBVIOUS
    <3> QED
      BY <2>2, <3>1 DEF InFired
  <2>4. InGroup(m) => m \in groups[a] \/ InGroup(m)'
    BY <1>0, <2>2 DEF InGroup
  <2>5. InGroup(m) \/ InFired(m) => Kept(m)'
    BY <2>3, <2>4 DEF Kept, Placed
  <2> QED
    BY <1>c, <1>q, <1>w, <1>s, <1>n, <1>k, <1>r, <2>1, <2>5
<1>20. ASSUME NEW f \in fired, DeliverAlbum(f)
       PROVE  Kept(m)'
  <2>1. /\ UNCHANGED <<call, queue, groups, worker, handled>>
        /\ fired' = fired \ {f}
    BY <1>20 DEF DeliverAlbum
  <2>2. ~ReceiveAlbum
    BY <1>r, <2>1
  <2>3. m \in strays => m \in strays'
    BY <1>20 DEF DeliverAlbum
  <2>4. m \in f.msgs => Kept(m)'
    <3>1. CASE waiter[f.album] = 0
      BY <1>20, <3>1 DEF DeliverAlbum, Kept
    <3>2. CASE waiter[f.album] # 0
      <4>1. f.album \in Albums /\ waiter[f.album] \in Awaited
        BY <1>0, <3>2 DEF RelayWhole, WaitersWait
      <4>2. waiter[f.album] \in Awaited' /\ waiter[f.album] \in DOMAIN chans
        BY <2>2, <4>1, AnswersStay
      <4>3. chans'[waiter[f.album]].batch = f.msgs
        BY <1>20, <3>2, <4>2 DEF DeliverAlbum
      <4> QED
        BY <4>2, <4>3 DEF Kept, Placed, InAnswer
    <3> QED
      BY <3>1, <3>2
  <2>5. InFired(m) => Kept(m)'
    BY <2>1, <2>4 DEF InFired, Kept, Placed
  <2>6. m \in strays => Kept(m)'
    BY <2>3 DEF Kept
  <2> QED
    BY <1>c, <1>q, <1>g, <1>w, <1>s, <1>n, <1>k, <2>1, <2>2, <2>5, <2>6
<1>21. CASE UNCHANGED vars
  <2>1. UNCHANGED <<call, queue, groups, fired, worker, handled, strays>>
    BY <1>21 DEF vars
  <2> QED
    BY <1>r, <1>z, <2>1
<1> QED
  BY <1>1, <1>2, <1>3, <1>4, <1>5, <1>6, <1>7, <1>8, <1>9, <1>10, <1>11, <1>12, <1>13, <1>14,
     <1>15, <1>16, <1>17, <1>18, <1>19, <1>20, <1>21
     DEF Next, Work, HandleAlbum, HandleSingle, Poll, Dispatch, Deliver

\* A mark is set by a call that goes on with the message.
LEMMA NewMark ==
  ASSUME RelayWhole, [Next]_vars, NEW m \in seen', m \notin seen
  PROVE  InCall(m)'
<1>0. call \in [Callers -> Calling]
  BY DEF RelayWhole, RelayTyped, CallsTyped
<1> USE DEF shared
<1>1. ASSUME NEW c \in Callers, Seen(c)
      PROVE  InCall(m)'
  <2>1. m = call[c].id /\ GoesTo(c, "enqueue")
    BY <1>1 DEF Seen
  <2>2. call' = [call EXCEPT ![c] = [call[c] EXCEPT !.at = "enqueue"]]
    BY <2>1 DEF GoesTo
  <2>3. call'[c] = [call[c] EXCEPT !.at = "enqueue"] /\ call[c] \in Calling
    BY <1>0, <2>2
  <2>4. call'[c].at = "enqueue" /\ call'[c].id = m
    BY <2>1, <2>3 DEF Calling
  <2> QED
    BY <2>4 DEF InCall, PastMark
<1>2. CASE Post \/ CloneHistory \/ Register \/ Unregister \/ CancelRun
  BY <1>2 DEF Post, CloneHistory, Register, Unregister, CancelRun, UnregisterTask
<1>3. CASE Work
  BY <1>3 DEF Work, TakeJob, Stop, StopWaiting, ReceiveAlbum, HandleAlbum, HandleSingle,
              HandleBatch, WorkerPersists
<1>4. CASE Poll
  BY <1>4 DEF Poll, PollStart, PollFrom, PollerPersists, PollMessage, PageDone, PollerLeaves
<1>5. ASSUME NEW x \in Messages, DispatchUpdate(x) \/ Expire(x)
      PROVE  InCall(m)'
  BY <1>5 DEF DispatchUpdate, Expire
<1>6. ASSUME NEW c \in Callers, EnqueueSingle(c) \/ EnsureAlbumWaiter(c) \/ Forget(c) \/ Add(c)
      PROVE  InCall(m)'
  BY <1>6 DEF EnqueueSingle, EnsureAlbumWaiter, Forget, Add
<1>7. ASSUME NEW a \in Albums, Fire(a) \/ Deliver(a)
      PROVE  InCall(m)'
  BY <1>7 DEF Fire, Deliver, DeliverAlbum
<1>8. CASE UNCHANGED vars
  BY <1>8 DEF vars
<1> QED
  BY <1>1, <1>2, <1>3, <1>4, <1>5, <1>6, <1>7, <1>8 DEF Next, Dispatch

LEMMA MarksStayHeld ==
  ASSUME RelayWhole, MarksHeld, [Next]_vars
  PROVE  MarksHeld'
<1>1. \A m \in Messages : (m \in Held \cup Handled \cup strays) <=> Kept(m)
  BY HeldIs DEF Kept, Handled
<1>2. \A m \in Messages : (m \in (Held \cup Handled \cup strays)') <=> Kept(m)'
  <2>1. \A m : (m \in Held)' <=> Placed(m)'
    BY DEF Held, InCalls, InQueue, InGroups, InFlight, InAnswers, Placed, InCall, PastMark,
           OnQueue, InGroup, InFired, InAnswer, WithWorker
  <2> QED
    BY <2>1 DEF Kept, Handled
<1> SUFFICES ASSUME ~Ended', NEW m \in seen'
             PROVE  m \in (Held \cup Handled \cup strays)'
  BY DEF MarksHeld
<1>3. m \in Messages
  BY SharedStaysTyped DEF RelayWhole, SharedTyped
<1>4. CASE m \in seen
  <2>1. Kept(m)
    BY <1>1, <1>3, <1>4, EndedStays DEF MarksHeld
  <2> QED
    BY <1>2, <1>3, <2>1, KeptStays
<1>5. CASE m \notin seen
  <2>1. InCall(m)'
    BY <1>5, NewMark
  <2> QED
    BY <1>2, <1>3, <2>1 DEF Kept, Placed
<1> QED
  BY <1>4, <1>5

\* The inductive invariant of the relay.
RelayInv == RelayWhole /\ AlbumAnswered /\ MarksHeld

LEMMA RelayInitInv == Init => RelayInv
<1> SUFFICES ASSUME Init PROVE RelayInv
  OBVIOUS
<1>1. RelayTyped
  BY InitTyped
<1>2. /\ queue = <<>> /\ DOMAIN queue = {} /\ chans = <<>> /\ DOMAIN chans = {} /\ worker = OffDuty
      /\ OffDuty.at = "off" /\ OffDuty.batch = {}
      /\ seen = {} /\ fired = {}
      /\ poller = NoPoll /\ NoPoll.at = "off" /\ registered = FALSE
      /\ call = [c \in Callers |-> NoCall] /\ NoCall.at = "none"
      /\ "poll" \in Callers
      /\ \A a \in Albums : waiter[a] = 0 /\ groups[a] = {}
      /\ \A m \in Messages : handled[m] = 0
  BY DEF Init, OffDuty, NoPoll, NoCall, Callers
<1>3. JobsWhole /\ EndsWhole /\ OwnChannels
  BY <1>2 DEF JobsWhole, EndsWhole, OwnChannels
<1>4. WaitersWait /\ AlbumsApart /\ PollCalls
  BY <1>2 DEF WaitersWait, AlbumsApart, PollCalls
<1>5. Awaited = {}
  BY <1>2 DEF Awaited
<1>6. AlbumAnswered /\ MarksHeld
  BY <1>2, <1>5 DEF AlbumAnswered, MarksHeld
<1> QED
  BY <1>1, <1>3, <1>4, <1>6 DEF RelayInv, RelayWhole

LEMMA RelayStepInv == RelayInv /\ [Next]_vars => RelayInv'
<1> SUFFICES ASSUME RelayInv, [Next]_vars PROVE RelayInv'
  OBVIOUS
<1> USE DEF RelayInv, RelayWhole
<1>1. RelayTyped'
  BY LifeStaysTyped, QueueStaysTyped, WorkerStaysTyped, PollerStaysTyped, CallsStayTyped,
     SharedStaysTyped DEF RelayTyped
<1>2. JobsWhole' /\ EndsWhole' /\ OwnChannels' /\ WaitersWait'
  BY JobsStayWhole, EndsStayWhole, ChannelsStayOwn, WaitersStayWaiting
<1>3. AlbumsApart' /\ PollCalls'
  BY AlbumsStayApart, CallsStayTyped
<1>4. AlbumAnswered' /\ MarksHeld'
  BY AlbumStaysAnswered, MarksStayHeld
<1> QED
  BY <1>1, <1>2, <1>3, <1>4

LEMMA RelayInvImplies == RelayInv => TypeOK /\ AlbumAnswered /\ MarkedIsHeld
BY TypesTogether DEF RelayInv, RelayWhole, MarksHeld, MarkedIsHeld

----------------------------------------------------------------------------
(* No message is handled twice                                             *)

\* Nothing comes into a channel but what is delivered to it.
LEMMA AnswersCome ==
  ASSUME RelayWhole, [Next]_vars, ~Ended', ~ReceiveAlbum
  PROVE  \A ch \in Awaited' :
           \/ chans'[ch].batch = {}
           \/ ch \in Awaited /\ chans'[ch] = chans[ch]
           \/ ch \in Awaited /\ chans[ch].batch = {}
              /\ \E f \in fired :
                   DeliverAlbum(f) /\ chans'[ch].batch = f.msgs /\ waiter[f.album] = ch
<1>0. chans \in Seq(Chan) /\ Len(chans) \in Nat
  BY DEF RelayWhole, RelayTyped, QueueTyped
<1>1. \/ Awaited' = Awaited
      \/ Awaited' = Awaited \cup {Len(chans) + 1} /\ chans' = Append(chans, OpenChan)
  BY AwaitedStep DEF RelayWhole
<1>2. chans' = Append(chans, OpenChan) => chans'[Len(chans) + 1].batch = {}
  BY <1>0 DEF OpenChan
<1>3. \A ch \in Awaited' : ch \in Awaited \/ chans'[ch].batch = {}
  BY <1>1, <1>2
<1> QED
  BY <1>3, AnswersStay

\* The worker has nothing it has handled, also when the run has ended.
LEMMA NewStaysNew ==
  ASSUME RelayWhole, OnceInv, [Next]_vars, NEW m \in Messages
  PROVE  NewToWorker(m)'
<1>0. /\ cursor \in Nat /\ m \in Nat \ {0} /\ handled \in [Messages -> Nat] /\ handled[m] \in Nat
      /\ chans \in Seq(Chan) /\ Len(chans) \in Nat /\ DOMAIN chans = 1..Len(chans)
      /\ worker.ch \in 0..Len(chans) /\ NewToWorker(m)
  BY RelayAssumption DEF RelayWhole, RelayTyped, LifeTyped, HandledTyped, QueueTyped,
     WorkerTyped, Duty, Messages, OnceInv
<1> USE DEF life, task
<1>a. ASSUME UNCHANGED <<handled, worker, chans>>, cursor' = cursor
      PROVE  NewToWorker(m)'
  BY <1>0, <1>a DEF NewToWorker, WithWorker
<1>b. ASSUME UNCHANGED <<handled, cursor>>, worker'.batch = {}, worker'.at # "album"
      PROVE  NewToWorker(m)'
  BY <1>0, <1>b DEF NewToWorker, WithWorker
<1>c. ASSUME UNCHANGED <<handled, worker, cursor>>,
             worker.at = "album" => chans'[worker.ch].batch = chans[worker.ch].batch
      PROVE  NewToWorker(m)'
  BY <1>0, <1>c DEF NewToWorker, WithWorker
<1>1. CASE Post \/ CloneHistory
  BY <1>1, <1>a DEF Post, CloneHistory
<1>2. CASE Register
  <2>1. handled[m] = 0 /\ UNCHANGED handled /\ worker'.batch = {} /\ worker'.at # "album"
    BY <1>2 DEF Register, RelayWhole, EndsWhole, Idle, OffDuty
  <2> QED
    BY <2>1 DEF NewToWorker, WithWorker
<1>3. CASE Unregister \/ CancelRun
  <2>1. UNCHANGED <<handled, worker, cursor>>
    BY <1>3 DEF Unregister, CancelRun
  <2>2. UNCHANGED chans \/ StopTask
    BY <1>3 DEF Unregister, CancelRun, UnregisterTask
  <2>3. worker.at = "album" => worker.ch \in DOMAIN chans
    BY <1>0 DEF RelayWhole, JobsWhole
  <2>4. ASSUME StopTask, worker.ch \in DOMAIN chans
        PROVE  chans'[worker.ch].batch = chans[worker.ch].batch
    <3>1. chans[worker.ch] \in Chan
      BY <1>0, <2>4
    <3>2. [chans[worker.ch] EXCEPT !.closed = TRUE].batch = chans[worker.ch].batch
      BY <3>1 DEF Chan
    <3> QED
      BY <2>4, <3>2 DEF StopTask
  <2> QED
    BY <1>c, <2>1, <2>2, <2>3, <2>4
<1>4. CASE TakeJob
  <2>1. CASE Ended
    BY <1>4, <1>b, <2>1 DEF TakeJob, Leave, OffDuty
  <2>2. CASE ~Ended
    <3>1. OnceThere(m)
      BY <2>2 DEF OnceInv
    <3>2. /\ UNCHANGED <<handled, cursor, chans>>
          /\ worker'.batch = Head(queue).batch
          /\ worker'.at = (IF Head(queue).ch = 0 THEN "handle" ELSE "album")
          /\ worker'.ch = Head(queue).ch
          /\ Head(queue) = queue[1] /\ 1 \in DOMAIN queue
      BY <1>4, <2>2 DEF TakeJob, RelayWhole, RelayTyped, QueueTyped
    <3>3. m \in queue[1].batch => handled[m] = 0
      <4>1. m \in queue[1].batch => OnQueue(m)
        BY <3>2 DEF OnQueue
      <4> QED
        BY <1>0, <3>1, <4>1 DEF OnceThere, Alone
    <3>4. queue[1].ch # 0 /\ m \in chans[queue[1].ch].batch => handled[m] = 0
      <4>1. queue[1].ch # 0 => queue[1].ch \in Awaited
        BY <3>2, AwaitedIs
      <4>2. queue[1].ch # 0 /\ m \in chans[queue[1].ch].batch => InAnswer(m)
        BY <4>1 DEF InAnswer
      <4> QED
        BY <1>0, <3>1, <4>2 DEF OnceThere, Alone
    <3> QED
      BY <1>0, <3>2, <3>3, <3>4 DEF NewToWorker, WithWorker
  <2> QED
    BY <2>1, <2>2
<1>5. CASE Stop \/ StopWaiting
  BY <1>5, <1>b DEF Stop, StopWaiting, Leave, OffDuty
<1>6. CASE ReceiveAlbum
  <2>1. /\ UNCHANGED <<handled, cursor>> /\ worker.at = "album"
        /\ worker'.batch = chans[worker.ch].batch /\ worker'.at # "album"
    <3>1. Idle.batch = {} /\ Idle.at # "album"
      BY DEF Idle, OffDuty
    <3> QED
      BY <1>6, <3>1 DEF ReceiveAlbum
  <2> QED
    BY <1>0, <2>1 DEF NewToWorker, WithWorker
<1>7. CASE worker.at = "handle" /\ HandleBatch
  <2>1. handled'[m] = IF m \in worker.batch THEN handled[m] + 1 ELSE handled[m]
    BY <1>7 DEF HandleBatch
  <2>2. worker'.batch = {} /\ worker'.at # "album"
    BY <1>7 DEF HandleBatch, Idle, OffDuty
  <2>3. worker.batch \in SUBSET Messages /\ worker.batch # {}
    BY <1>7 DEF RelayWhole, RelayTyped, WorkerTyped, Duty, JobsWhole
  <2>4. Max(worker.batch) \in 1..LastId /\ (m \in worker.batch => m <= Max(worker.batch))
    BY <2>3, MaxOfBatch
  <2>5. LastId \in Nat
    BY RelayAssumption
  <2>6. cursor' \in Nat /\ cursor <= cursor' /\ Max(worker.batch) <= cursor'
    BY <1>0, <1>7, <2>4, <2>5 DEF HandleBatch, AdvanceCursor
  <2>7. handled'[m] > 0 => m <= cursor'
    BY <1>0, <2>1, <2>4, <2>5, <2>6 DEF NewToWorker
  <2>8. handled'[m] <= 1
    BY <1>0, <2>1 DEF NewToWorker, WithWorker
  <2> QED
    BY <2>2, <2>7, <2>8 DEF NewToWorker, WithWorker
<1>8. CASE WorkerPersists
  BY <1>8, <1>b DEF WorkerPersists, Idle, OffDuty
<1>9. CASE PollFrom
  <2>1. UNCHANGED <<handled, worker, chans>>
    BY <1>9 DEF PollFrom
  <2>2. cursor' \in Nat /\ cursor <= cursor'
    <3>1. poller.latest \in Nat
      BY RelayAssumption DEF RelayWhole, RelayTyped, PollerTyped, Polling
    <3> QED
      BY <1>0, <1>9, <3>1 DEF PollFrom, AdvanceCursor
  <2> QED
    BY <1>0, <2>1, <2>2 DEF NewToWorker, WithWorker
<1>10. CASE PollStart \/ PollerPersists \/ PollMessage \/ PageDone \/ PollerLeaves
  BY <1>10, <1>a DEF PollStart, PollerPersists, PollMessage, PageDone, PollerLeaves
<1>11. ASSUME NEW x \in Messages, DispatchUpdate(x) \/ Expire(x)
       PROVE  NewToWorker(m)'
  BY <1>11, <1>a DEF DispatchUpdate, Expire
<1>12. ASSUME NEW c \in Callers, Seen(c) \/ EnqueueSingle(c) \/ Forget(c) \/ Add(c)
       PROVE  NewToWorker(m)'
  BY <1>12, <1>a DEF Seen, EnqueueSingle, Forget, Add
<1>13. ASSUME NEW c \in Callers, EnsureAlbumWaiter(c)
       PROVE  NewToWorker(m)'
  <2>1. UNCHANGED <<handled, worker, cursor>>
    BY <1>13 DEF EnsureAlbumWaiter
  <2>2. UNCHANGED chans \/ chans' = Append(chans, OpenChan)
    BY <1>13 DEF EnsureAlbumWaiter
  <2>3. worker.at = "album" => worker.ch \in DOMAIN chans
    BY <1>0 DEF RelayWhole, JobsWhole
  <2>4. worker.at = "album" => chans'[worker.ch] = chans[worker.ch]
    BY <1>0, <2>2, <2>3
  <2> QED
    BY <1>c, <2>1, <2>4
<1>14. ASSUME NEW a \in Albums, Fire(a)
       PROVE  NewToWorker(m)'
  BY <1>14, <1>a DEF Fire
<1>15. ASSUME NEW f \in fired, DeliverAlbum(f)
       PROVE  NewToWorker(m)'
  <2>1. UNCHANGED <<handled, worker, cursor>>
    BY <1>15 DEF DeliverAlbum
  <2>2. CASE UNCHANGED chans
    BY <1>c, <2>1, <2>2
  <2>3. CASE chans' = [chans EXCEPT ![waiter[f.album]] = [closed |-> TRUE, batch |-> f.msgs]]
             /\ waiter[f.album] # worker.ch
    <3>1. worker.at = "album" => worker.ch \in DOMAIN chans
      BY <1>0 DEF RelayWhole, JobsWhole
    <3>2. worker.at = "album" => chans'[worker.ch] = chans[worker.ch]
      BY <1>0, <2>3, <3>1
    <3> QED
      BY <1>c, <2>1, <3>2
  <2>4. CASE worker.at = "album" /\ waiter[f.album] = worker.ch /\ ~done
    <3>1. ~Ended /\ OnceThere(m)
      BY <2>4 DEF RelayWhole, EndsWhole, Ended, OnceInv
    <3>2. m \in f.msgs => handled[m] = 0
      BY <1>0, <3>1 DEF OnceThere, Alone, InFired
    <3>3. worker.ch \in DOMAIN chans
      BY <1>0, <2>4 DEF RelayWhole, JobsWhole
    <3>4. chans'[worker.ch].batch = f.msgs \/ UNCHANGED chans
      BY <1>0, <1>15, <2>4, <3>3 DEF DeliverAlbum
    <3>5. handled'[m] = handled[m] /\ (WithWorker(m)' <=> WithWorker(m)) /\ cursor' = cursor
          /\ worker'.ch = worker.ch
      BY <2>1 DEF WithWorker
    <3> QED
      BY <1>0, <2>2, <3>2, <3>4, <3>5 DEF NewToWorker
  <2>5. f.album \in Albums
    BY DEF RelayWhole, RelayTyped, SharedTyped
  <2>6. done /\ worker.at = "album" => waiter[f.album] # worker.ch
    BY <2>5 DEF RelayWhole, WaitersWait
  <2>7. worker.at # "album" => NewToWorker(m)'
    BY <1>c, <2>1
  <2> QED
    BY <1>15, <2>2, <2>3, <2>4, <2>6, <2>7 DEF DeliverAlbum
<1>16. CASE UNCHANGED vars
  BY <1>16, <1>a DEF vars
<1> QED
  BY <1>1, <1>2, <1>3, <1>4, <1>5, <1>6, <1>7, <1>8, <1>9, <1>10, <1>11, <1>12, <1>13, <1>14,
     <1>15, <1>16 DEF Next, Work, HandleAlbum, HandleSingle, Poll, Dispatch, Deliver

LEMMA ThereStaysOnce ==
  ASSUME ~EarlyExpiry, ~NewToOld, RelayWhole, OnceInv, [Next]_vars, ~Ended', NEW m \in Messages
  PROVE  OnceThere(m)'
<1>0. /\ ~Ended
      /\ call \in [Callers -> Calling] /\ "poll" \in Callers /\ "push" \in Callers
      /\ queue \in Seq(Jobs) /\ handled \in [Messages -> Nat] /\ handled[m] \in Nat
      /\ groups \in [Albums -> SUBSET Messages]
      /\ fired \subseteq [album : Albums, msgs : SUBSET Messages]
      /\ cursor \in Nat /\ m \in Nat \ {0}
  BY EndedStays, RelayAssumption DEF RelayWhole, RelayTyped, CallsTyped, QueueTyped, HandledTyped,
     SharedTyped, LifeTyped, Callers, Messages
<1>1. /\ Alone(m) /\ OnlyCall(m) /\ OnlyJob(m) /\ OnlyBatch(m) /\ OnlyAnswer(m) /\ Marked(m)
      /\ NewToWorker(m)
  BY <1>0 DEF OnceInv, OnceThere
\* What a step that leaves a place alone does to the message's being there.
<1>c. UNCHANGED call => (InCall(m)' <=> InCall(m)) /\ OnlyCall(m)'
  BY <1>1 DEF InCall, PastMark, OnlyCall
<1>q. UNCHANGED queue => (OnQueue(m)' <=> OnQueue(m)) /\ OnlyJob(m)'
  BY <1>1 DEF OnQueue, OnlyJob
<1>g. UNCHANGED groups => (InGroup(m)' <=> InGroup(m))
  BY DEF InGroup
<1>f. UNCHANGED fired => (InFired(m)' <=> InFired(m)) /\ OnlyBatch(m)'
  BY <1>1 DEF InFired, OnlyBatch
<1>w. worker'.batch = worker.batch => (WithWorker(m)' <=> WithWorker(m))
  BY DEF WithWorker
<1>n. ~ReceiveAlbum /\ ~(\E f \in fired : DeliverAlbum(f))
        => (InAnswer(m)' <=> InAnswer(m)) /\ OnlyAnswer(m)'
  <2> SUFFICES ASSUME ~ReceiveAlbum, ~\E f \in fired : DeliverAlbum(f)
               PROVE  (InAnswer(m)' <=> InAnswer(m)) /\ OnlyAnswer(m)'
    OBVIOUS
  <2>1. \A ch \in Awaited : ch \in Awaited' /\ chans'[ch] = chans[ch]
    BY AnswersStay
  <2>2. \A ch \in Awaited' : m \in chans'[ch].batch => ch \in Awaited /\ chans'[ch] = chans[ch]
    BY AnswersCome
  <2> QED
    BY <1>1, <2>1, <2>2 DEF InAnswer, OnlyAnswer
\* The call of a caller becomes another one.
<1>a. ASSUME NEW c \in Callers, NEW r, call' = [call EXCEPT ![c] = r],
             r.at \notin {"enqueue", "forget", "add"}
      PROVE  /\ InCall(m)' => InCall(m)
             /\ InCall(m)' => call[c].id # m \/ ~PastMark(c)
             /\ ~PastMark(c) => (InCall(m)' <=> InCall(m))
             /\ OnlyCall(m)'
  <2>1. \A d \in Callers : call'[d] = IF d = c THEN r ELSE call[d]
    BY <1>0, <1>a
  <2>2. \A d \in Callers : PastMark(d)' => d # c /\ PastMark(d) /\ call'[d] = call[d]
    BY <1>a, <2>1 DEF PastMark
  <2>3. \A d \in Callers : d # c /\ PastMark(d) => PastMark(d)' /\ call'[d] = call[d]
    BY <1>a, <2>1 DEF PastMark
  <2> QED
    BY <1>1, <2>2, <2>3 DEF InCall, OnlyCall
\* A call past the mark goes on.
<1>d. ASSUME NEW c \in Callers, NEW s \in {"enqueue", "forget", "add"}, GoesTo(c, s), PastMark(c)
      PROVE  /\ InCall(m)' <=> InCall(m)
             /\ OnlyCall(m)'
             /\ \A d \in Callers : call'[d].id = call[d].id
  <2>1. call' = [call EXCEPT ![c] = [call[c] EXCEPT !.at = s]] /\ call[c] \in Calling
    BY <1>0, <1>d DEF GoesTo
  <2>2. [call[c] EXCEPT !.at = s].at = s /\ [call[c] EXCEPT !.at = s].id = call[c].id
    BY <2>1 DEF Calling
  <2>3. \A d \in Callers : call'[d] = IF d = c THEN [call[c] EXCEPT !.at = s] ELSE call[d]
    BY <1>0, <2>1
  <2>4. \A d \in Callers : call'[d].id = call[d].id /\ (PastMark(d)' <=> PastMark(d))
    BY <1>d, <2>2, <2>3 DEF PastMark
  <2> QED
    BY <1>1, <2>4 DEF InCall, OnlyCall
<1>e. NoCall.at \notin {"enqueue", "forget", "add"} /\ NoCall.id # m
  BY <1>0 DEF NoCall
\* No place changes.
<1>z. ASSUME UNCHANGED <<queue, groups, fired, handled, seen>>, worker'.batch = worker.batch,
             ~ReceiveAlbum, ~\E f \in fired : DeliverAlbum(f),
             InCall(m)' <=> InCall(m), OnlyCall(m)',
             \A c \in Callers : call'[c].id = m => call[c].id = m \/ handled[m] = 0
      PROVE  OnceThere(m)'
  <2>1. Alone(m)'
    BY <1>1, <1>q, <1>g, <1>f, <1>w, <1>n, <1>z DEF Alone
  <2>2. Marked(m)'
    BY <1>0, <1>1, <1>q, <1>g, <1>f, <1>w, <1>n, <1>z DEF Marked
  <2> QED
    BY <1>q, <1>f, <1>n, <1>z, <2>1, <2>2 DEF OnceThere
<1> USE DEF life, task, shared
<1>r. /\ ReceiveAlbum => worker' # worker
      /\ (\E f \in fired : DeliverAlbum(f)) => fired' # fired
  <2>1. ReceiveAlbum => worker' # worker
    BY DEF ReceiveAlbum, Idle, OffDuty
  <2>2. (\E f \in fired : DeliverAlbum(f)) => fired' # fired
    BY DEF DeliverAlbum
  <2> QED
    BY <2>1, <2>2
<1>2. ASSUME UNCHANGED <<call, queue, groups, fired, handled, seen>>,
             worker'.batch = worker.batch, ~ReceiveAlbum
      PROVE  OnceThere(m)'
  <2>1. ~\E f \in fired : DeliverAlbum(f)
    BY <1>2, <1>r
  <2>2. UNCHANGED call
    BY <1>2
  <2>3. \A c \in Callers : call'[c].id = m => call[c].id = m \/ handled[m] = 0
    BY <2>2
  <2>4. UNCHANGED <<queue, groups, fired, handled, seen>>
    BY <1>2
  <2> QED
    BY <1>2, <1>c, <1>z, <2>1, <2>2, <2>3, <2>4
<1>22. ASSUME UNCHANGED <<call, queue, groups, fired, worker, handled, seen>>
       PROVE  OnceThere(m)'
  <2>1. UNCHANGED <<call, queue, groups, fired, handled, seen>> /\ worker'.batch = worker.batch
    BY <1>22
  <2>2. ~ReceiveAlbum
    BY <1>22, <1>r
  <2> QED
    BY <1>2, <2>1, <2>2
<1>3. CASE Post \/ CloneHistory
  <2>1. UNCHANGED <<call, queue, groups, fired, worker, handled, seen>>
    BY <1>3 DEF Post, CloneHistory
  <2> QED
    BY <1>22, <2>1
<1>23. CASE Register \/ WorkerPersists
  <2>1. UNCHANGED <<call, queue, groups, fired, handled, seen>>
    BY <1>23 DEF Register, WorkerPersists
  <2>2. worker.at \in {"off", "persist"} /\ worker'.batch = {}
    BY <1>23 DEF Register, WorkerPersists, Idle, OffDuty
  <2>3. worker'.batch = worker.batch /\ ~ReceiveAlbum
    BY <2>2 DEF RelayWhole, JobsWhole, ReceiveAlbum
  <2> QED
    BY <1>2, <2>1, <2>3
<1>4. CASE Unregister \/ CancelRun
  <2>1. Ended'
    BY <1>4 DEF Unregister, CancelRun, UnregisterTask, StopTask, Ended, RelayWhole, EndsWhole
  <2> QED
    BY <2>1
<1>5. CASE PollStart \/ PollFrom \/ PollerPersists \/ PageDone \/ PollerLeaves
  <2>1. UNCHANGED <<call, queue, groups, fired, worker, handled, seen>>
    BY <1>5 DEF PollStart, PollFrom, PollerPersists, PageDone, PollerLeaves
  <2> QED
    BY <1>22, <2>1
\* A dispatch begins, above the cursor.
<1>6. ASSUME NEW c \in Callers, NEW x, x > cursor \/ cursor = 0, call[c].at = "none",
             call' = [call EXCEPT ![c] = [at |-> "mark", id |-> x]],
             UNCHANGED <<queue, groups, fired, worker, handled, seen>>
      PROVE  OnceThere(m)'
  <2>1. InCall(m)' <=> InCall(m)
    BY <1>a, <1>6 DEF PastMark
  <2>2. OnlyCall(m)'
    BY <1>a, <1>6
  <2>3. x = m => handled[m] = 0
    BY <1>0, <1>1, <1>6 DEF NewToWorker
  <2>4. \A d \in Callers : call'[d] = IF d = c THEN [at |-> "mark", id |-> x] ELSE call[d]
    BY <1>0, <1>6
  <2>5. \A d \in Callers : call'[d].id = m => call[d].id = m \/ handled[m] = 0
    BY <2>3, <2>4
  <2> QED
    BY <1>6, <1>r, <1>z, <2>1, <2>2, <2>5
<1>7. CASE PollMessage
  <2>1. UNCHANGED <<queue, groups, fired, worker, handled, seen>>
    BY <1>7 DEF PollMessage
  <2>2. CASE UNCHANGED call
    <3>1. UNCHANGED <<call, queue, groups, fired, worker, handled, seen>>
      BY <2>1, <2>2
    <3> QED
      BY <1>22, <3>1
  <2>3. CASE /\ Head(poller.page) > cursor /\ call["poll"].at = "none"
             /\ call' = [call EXCEPT !["poll"] = [at |-> "mark", id |-> Head(poller.page)]]
    BY <1>0, <1>6, <2>1, <2>3
  <2> QED
    BY <1>7, <2>2, <2>3 DEF PollMessage
<1>8. ASSUME NEW x \in Messages, DispatchUpdate(x)
      PROVE  OnceThere(m)'
  <2>1. UNCHANGED <<queue, groups, fired, worker, handled, seen>>
    BY <1>8 DEF DispatchUpdate
  <2>2. x > cursor \/ cursor = 0
    BY <1>0, <1>8 DEF DispatchUpdate, Refused, Messages
  <2>3. /\ call["push"].at = "none"
        /\ call' = [call EXCEPT !["push"] = [at |-> "mark", id |-> x]]
    BY <1>8 DEF DispatchUpdate
  <2> QED
    BY <1>0, <1>6, <2>1, <2>2, <2>3
<1>9. ASSUME NEW x \in Messages, Expire(x)
      PROVE  OnceThere(m)'
  <2>1. /\ UNCHANGED <<call, queue, groups, fired, worker, handled>>
        /\ seen' = seen \ {x} /\ Settled(x)
    BY <1>9 DEF Expire
  <2>2. Alone(m)'
    BY <1>1, <1>c, <1>q, <1>g, <1>f, <1>w, <1>n, <1>r, <2>1 DEF Alone
  <2>3. Marked(m)'
    <3>1. CASE x = m
      <4>1. /\ handled[m] > 0 /\ \A c \in Callers : call'[c].id # m
        BY <2>1, <3>1 DEF Settled
      <4> QED
        BY <1>1, <2>1, <2>2, <4>1 DEF Marked, Alone
    <3>2. CASE x # m
      BY <1>1, <1>c, <1>q, <1>g, <1>f, <1>w, <1>n, <1>r, <2>1, <3>2 DEF Marked
    <3> QED
      BY <3>1, <3>2
  <2> QED
    BY <1>c, <1>q, <1>f, <1>n, <1>r, <2>1, <2>2, <2>3 DEF OnceThere
<1>10. ASSUME NEW c \in Callers, Seen(c)
       PROVE  OnceThere(m)'
  <2>1. UNCHANGED <<queue, groups, fired, worker, handled>> /\ call[c].at = "mark"
    BY <1>10 DEF Seen
  <2>2. ~PastMark(c)
    BY <2>1 DEF PastMark
  <2>3. CASE call' = [call EXCEPT ![c] = NoCall] /\ UNCHANGED seen
    <3>1. \A d \in Callers : call'[d] = IF d = c THEN NoCall ELSE call[d]
      BY <1>0, <2>3
    <3>2. \A d \in Callers : call'[d].id = m => call[d].id = m
      BY <1>e, <3>1
    <3> QED
      BY <1>a, <1>e, <1>r, <1>z, <2>1, <2>2, <2>3, <3>2
  <2>4. CASE /\ call[c].id \notin seen /\ GoesTo(c, "enqueue")
             /\ seen' = seen \cup {call[c].id}
    <3>1. call' = [call EXCEPT ![c] = [call[c] EXCEPT !.at = "enqueue"]] /\ call[c] \in Calling
      BY <1>0, <2>4 DEF GoesTo
    <3>2. /\ [call[c] EXCEPT !.at = "enqueue"].at = "enqueue"
          /\ [call[c] EXCEPT !.at = "enqueue"].id = call[c].id
      BY <3>1 DEF Calling
    <3>3. \A d \in Callers :
            call'[d] = IF d = c THEN [call[c] EXCEPT !.at = "enqueue"] ELSE call[d]
      BY <1>0, <3>1
    <3>4. \A d \in Callers : /\ call'[d].id = call[d].id
                             /\ d # c => (PastMark(d)' <=> PastMark(d))
      BY <3>2, <3>3 DEF PastMark
    <3>5. CASE call[c].id = m
      <4>1. m \notin seen /\ m \in seen'
        BY <2>4, <3>5
      <4>2. /\ ~InCall(m) /\ ~OnQueue(m) /\ ~InGroup(m) /\ ~InFired(m) /\ ~InAnswer(m)
            /\ ~WithWorker(m) /\ handled[m] = 0
        BY <1>0, <1>1, <3>5, <4>1 DEF Marked
      <4>3. OnlyCall(m)'
        BY <3>4, <4>2 DEF OnlyCall, InCall
      <4>4. Alone(m)' /\ Marked(m)'
        BY <1>q, <1>g, <1>f, <1>w, <1>n, <1>r, <2>1, <4>1, <4>2 DEF Alone, Marked
      <4> QED
        BY <1>q, <1>f, <1>n, <1>r, <2>1, <4>3, <4>4 DEF OnceThere
    <3>6. CASE call[c].id # m
      <4>1. (InCall(m)' <=> InCall(m)) /\ OnlyCall(m)'
        BY <1>1, <3>4, <3>6 DEF InCall, OnlyCall
      <4>2. m \in seen' <=> m \in seen
        BY <2>4, <3>6
      <4>3. Alone(m)'
        BY <1>1, <1>q, <1>g, <1>f, <1>w, <1>n, <1>r, <2>1, <4>1 DEF Alone
      <4>4. Marked(m)'
        BY <1>1, <1>q, <1>g, <1>f, <1>w, <1>n, <1>r, <2>1, <3>4, <4>1, <4>2 DEF Marked
      <4> QED
        BY <1>q, <1>f, <1>n, <1>r, <2>1, <4>1, <4>3, <4>4 DEF OnceThere
    <3> QED
      BY <3>5, <3>6
  <2> QED
    BY <1>10, <2>3, <2>4 DEF Seen, Return
\* The message of a call that has been past the mark is in no other place.
<1>o. ASSUME NEW c \in Callers, PastMark(c), call[c].id = m
      PROVE  /\ InCall(m) /\ ~OnQueue(m) /\ ~InGroup(m) /\ ~InFired(m) /\ ~InAnswer(m)
             /\ ~WithWorker(m) /\ handled[m] = 0 /\ m \in seen
             /\ \A d \in Callers : d # c /\ PastMark(d) => call[d].id # m
  <2>1. InCall(m)
    BY <1>o DEF InCall
  <2> QED
    BY <1>0, <1>1, <1>o, <2>1 DEF Alone, Marked, OnlyCall
\* A call past the mark ends.
<1>p. ASSUME NEW c \in Callers, PastMark(c), call' = [call EXCEPT ![c] = NoCall]
      PROVE  /\ OnlyCall(m)'
             /\ InCall(m)' <=> InCall(m) /\ call[c].id # m
             /\ \A d \in Callers : call'[d].id = m => call[d].id = m
  <2>1. \A d \in Callers : call'[d] = IF d = c THEN NoCall ELSE call[d]
    BY <1>0, <1>p
  <2>2. \A d \in Callers : call'[d].id = m => call[d].id = m
    BY <1>e, <2>1
  <2>3. \A d \in Callers : PastMark(d)' <=> d # c /\ PastMark(d)
    BY <1>e, <2>1 DEF PastMark
  <2>4. InCall(m)' => InCall(m) /\ call[c].id # m
    <3> SUFFICES ASSUME NEW d \in Callers, PastMark(d)', call'[d].id = m
                 PROVE  InCall(m) /\ call[c].id # m
      BY DEF InCall
    <3>1. d # c /\ PastMark(d) /\ call[d].id = m
      BY <2>1, <2>3
    <3> QED
      BY <1>1, <1>p, <3>1 DEF InCall, OnlyCall
  <2>5. InCall(m) /\ call[c].id # m => InCall(m)'
    BY <2>1, <2>3 DEF InCall
  <2>6. OnlyCall(m)'
    BY <1>1, <2>1, <2>3 DEF OnlyCall
  <2> QED
    BY <2>2, <2>4, <2>5, <2>6
<1>11. ASSUME NEW c \in Callers, EnqueueSingle(c)
       PROVE  OnceThere(m)'
  <2>1. UNCHANGED <<groups, fired, worker, handled, seen>> /\ PastMark(c)
    BY <1>11 DEF EnqueueSingle, PastMark
  <2>2. CASE GoesTo(c, "forget") /\ UNCHANGED queue
    BY <1>d, <1>r, <1>z, <2>1, <2>2
  <2>3. CASE /\ queue' = Append(queue, Job({call[c].id}, 0))
             /\ call' = [call EXCEPT ![c] = NoCall]
    <3>1. /\ DOMAIN queue' = DOMAIN queue \cup {Len(queue) + 1}
          /\ Len(queue) + 1 \notin DOMAIN queue
          /\ \A i \in DOMAIN queue : queue'[i] = queue[i]
          /\ queue'[Len(queue) + 1].batch = {call[c].id}
      BY <1>0, <2>3 DEF Job
    <3>2. OnQueue(m)' <=> OnQueue(m) \/ call[c].id = m
      BY <3>1 DEF OnQueue
    <3>3. OnlyJob(m)'
      <4>1. CASE call[c].id = m
        <5>1. \A i \in DOMAIN queue : m \notin queue[i].batch
          BY <1>o, <2>1, <4>1 DEF OnQueue
        <5> QED
          BY <3>1, <5>1 DEF OnlyJob
      <4>2. CASE call[c].id # m
        BY <1>1, <3>1, <4>2 DEF OnlyJob
      <4> QED
        BY <4>1, <4>2
    <3>4. Alone(m)'
      BY <1>1, <1>g, <1>f, <1>w, <1>n, <1>o, <1>p, <1>r, <2>1, <2>3, <3>2 DEF Alone
    <3>5. Marked(m)'
      BY <1>1, <1>g, <1>f, <1>w, <1>n, <1>o, <1>p, <1>r, <2>1, <2>3, <3>2 DEF Marked
    <3> QED
      BY <1>f, <1>n, <1>p, <1>r, <2>1, <2>3, <3>3, <3>4, <3>5 DEF OnceThere
  <2> QED
    BY <1>11, <2>2, <2>3 DEF EnqueueSingle, Return
<1>12. ASSUME NEW c \in Callers, EnsureAlbumWaiter(c)
       PROVE  OnceThere(m)'
  <2>1. UNCHANGED <<groups, fired, worker, handled, seen>> /\ PastMark(c)
    BY <1>12 DEF EnsureAlbumWaiter, PastMark
  <2>2. GoesTo(c, "add") \/ GoesTo(c, "forget")
    BY <1>12 DEF EnsureAlbumWaiter
  <2>3. /\ InCall(m)' <=> InCall(m)
        /\ OnlyCall(m)'
        /\ \A d \in Callers : call'[d].id = call[d].id
    BY <1>d, <2>1, <2>2
  <2>4. UNCHANGED queue \/ queue' = Append(queue, Job({}, Len(chans) + 1))
    BY <1>12 DEF EnsureAlbumWaiter
  <2>5. CASE UNCHANGED queue
    BY <1>r, <1>z, <2>1, <2>3, <2>5
  <2>6. CASE queue' = Append(queue, Job({}, Len(chans) + 1))
    <3>1. /\ DOMAIN queue' = DOMAIN queue \cup {Len(queue) + 1}
          /\ \A i \in DOMAIN queue : queue'[i] = queue[i]
          /\ queue'[Len(queue) + 1].batch = {}
      BY <1>0, <2>6 DEF Job
    <3>2. (OnQueue(m)' <=> OnQueue(m)) /\ OnlyJob(m)'
      BY <1>1, <3>1 DEF OnQueue, OnlyJob
    <3>3. Alone(m)'
      BY <1>1, <1>g, <1>f, <1>w, <1>n, <1>r, <2>1, <2>3, <3>2 DEF Alone
    <3>4. Marked(m)'
      BY <1>1, <1>g, <1>f, <1>w, <1>n, <1>r, <2>1, <2>3, <3>2 DEF Marked
    <3> QED
      BY <1>f, <1>n, <1>r, <2>1, <2>3, <3>2, <3>3, <3>4 DEF OnceThere
  <2> QED
    BY <2>4, <2>5, <2>6
<1>13. ASSUME NEW c \in Callers, Forget(c)
       PROVE  OnceThere(m)'
  <2>1. /\ UNCHANGED <<queue, groups, fired, worker, handled>> /\ PastMark(c)
        /\ call' = [call EXCEPT ![c] = NoCall] /\ seen' = seen \ {call[c].id}
    BY <1>13 DEF Forget, PastMark, Return
  <2>2. Alone(m)'
    BY <1>1, <1>q, <1>g, <1>f, <1>w, <1>n, <1>p, <1>r, <2>1 DEF Alone
  <2>3. Marked(m)'
    <3>1. CASE call[c].id = m
      <4>1. /\ ~OnQueue(m) /\ ~InGroup(m) /\ ~InFired(m) /\ ~InAnswer(m) /\ ~WithWorker(m)
            /\ handled[m] = 0
        BY <1>o, <2>1, <3>1
      <4>2. ~InCall(m)'
        BY <1>p, <2>1, <3>1
      <4>3. /\ ~OnQueue(m)' /\ ~InGroup(m)' /\ ~InFired(m)' /\ ~InAnswer(m)'
            /\ ~WithWorker(m)' /\ handled'[m] = 0
        BY <1>q, <1>g, <1>f, <1>w, <1>n, <1>r, <2>1, <4>1
      <4> QED
        BY <4>2, <4>3 DEF Marked
    <3>2. CASE call[c].id # m
      BY <1>1, <1>q, <1>g, <1>f, <1>w, <1>n, <1>p, <1>r, <2>1, <3>2 DEF Marked
    <3> QED
      BY <3>1, <3>2
  <2> QED
    BY <1>q, <1>f, <1>n, <1>p, <1>r, <2>1, <2>2, <2>3 DEF OnceThere
<1>14. ASSUME NEW c \in Callers, Add(c)
       PROVE  OnceThere(m)'
  <2>1. /\ UNCHANGED <<queue, fired, worker, handled, seen>> /\ PastMark(c)
        /\ call' = [call EXCEPT ![c] = NoCall]
        /\ groups' = [groups EXCEPT ![AlbumOf(call[c].id)]
                        = groups[AlbumOf(call[c].id)] \cup {call[c].id}]
    BY <1>14 DEF Add, PastMark, Return
  <2>2. AlbumOf(call[c].id) \in Albums
    BY <1>14, AlbumOfMember DEF Add, RelayWhole, AlbumsApart
  <2>3. InGroup(m)' <=> InGroup(m) \/ m = call[c].id
    BY <1>0, <2>1, <2>2 DEF InGroup
  <2>4. Alone(m)'
    BY <1>1, <1>q, <1>f, <1>w, <1>n, <1>o, <1>p, <1>r, <2>1, <2>3 DEF Alone
  <2>5. Marked(m)'
    BY <1>1, <1>q, <1>f, <1>w, <1>n, <1>o, <1>p, <1>r, <2>1, <2>3 DEF Marked
  <2> QED
    BY <1>q, <1>f, <1>n, <1>p, <1>r, <2>1, <2>4, <2>5 DEF OnceThere
<1>15. ASSUME NEW a \in Albums, Fire(a)
       PROVE  OnceThere(m)'
  <2>1. /\ UNCHANGED <<call, queue, worker, handled, seen>>
        /\ fired' = fired \cup {[album |-> a, msgs |-> groups[a]]}
        /\ groups' = [groups EXCEPT ![a] = {}]
    BY <1>15 DEF Fire
  <2>2. [album |-> a, msgs |-> groups[a]].msgs = groups[a]
    OBVIOUS
  <2>3. ~\E f \in fired : DeliverAlbum(f)
    BY <1>0, <1>15 DEF Fire, DeliverAlbum
  <2>4. ~ReceiveAlbum
    BY <1>r, <2>1
  <2>5. CASE m \in groups[a]
    <3>1. InGroup(m) /\ ~InFired(m) /\ ~InGroup(m)' /\ InFired(m)'
      <4>1. InGroup(m)
        BY <2>5 DEF InGroup
      <4>2. ~InFired(m)
        BY <1>1, <4>1 DEF Alone
      <4>3. InFired(m)'
        BY <2>1, <2>2, <2>5 DEF InFired
      <4>4. \A b \in Albums : m \in groups[b] => b = a
        BY <2>5, RelayAssumption DEF RelayWhole, AlbumsApart
      <4>5. ~InGroup(m)'
        BY <1>0, <2>1, <4>4 DEF InGroup
      <4> QED
        BY <4>1, <4>2, <4>3, <4>5
    <3>2. OnlyBatch(m)'
      BY <2>1, <3>1 DEF InFired, OnlyBatch
    <3>3. Alone(m)'
      BY <1>1, <1>c, <1>q, <1>w, <1>n, <2>1, <2>3, <2>4, <3>1 DEF Alone
    <3>4. Marked(m)'
      BY <1>1, <1>c, <1>q, <1>w, <1>n, <2>1, <2>3, <2>4, <3>1 DEF Marked
    <3> QED
      BY <1>c, <1>q, <1>n, <2>1, <2>3, <2>4, <3>2, <3>3, <3>4 DEF OnceThere
  <2>6. CASE m \notin groups[a]
    <3>1. InGroup(m)' <=> InGroup(m)
      BY <1>0, <2>1, <2>6 DEF InGroup
    <3>2. (InFired(m)' <=> InFired(m)) /\ OnlyBatch(m)'
      BY <1>1, <2>1, <2>2, <2>6 DEF InFired, OnlyBatch
    <3>3. Alone(m)'
      BY <1>1, <1>c, <1>q, <1>w, <1>n, <2>1, <2>3, <2>4, <3>1, <3>2 DEF Alone
    <3>4. Marked(m)'
      BY <1>1, <1>c, <1>q, <1>w, <1>n, <2>1, <2>3, <2>4, <3>1, <3>2 DEF Marked
    <3> QED
      BY <1>c, <1>q, <1>n, <2>1, <2>3, <2>4, <3>2, <3>3, <3>4 DEF OnceThere
  <2> QED
    BY <2>5, <2>6
<1>16. ASSUME NEW f \in fired, DeliverAlbum(f)
       PROVE  OnceThere(m)'
  <2>1. /\ UNCHANGED <<call, queue, groups, worker, handled, seen>> /\ fired' = fired \ {f}
    BY <1>16 DEF DeliverAlbum
  <2>2. ~ReceiveAlbum
    BY <1>r, <2>1
  <2>3. \A g \in fired : DeliverAlbum(g) => g = f
    BY <2>1 DEF DeliverAlbum
  <2>4. OnlyBatch(m)' /\ (InFired(m)' <=> InFired(m) /\ m \notin f.msgs)
    BY <1>1, <2>1 DEF OnlyBatch, InFired
  <2>5. \A ch \in Awaited' : m \in chans'[ch].batch =>
          \/ ch \in Awaited /\ m \in chans[ch].batch /\ chans'[ch] = chans[ch]
          \/ m \in f.msgs /\ waiter[f.album] = ch
    BY <2>2, <2>3, AnswersCome
  <2>6. CASE m \in f.msgs
    <3>1. InFired(m) /\ ~InAnswer(m)
      BY <1>1, <2>6 DEF InFired, Alone
    <3>2. OnlyAnswer(m)'
      BY <2>5, <3>1 DEF OnlyAnswer, InAnswer
    <3>3. Alone(m)'
      BY <1>1, <1>c, <1>q, <1>g, <1>w, <2>1, <2>4, <2>6, <3>1 DEF Alone
    <3>4. Marked(m)'
      BY <1>1, <1>c, <1>q, <1>g, <1>w, <2>1, <2>4, <2>6, <3>1 DEF Marked
    <3> QED
      BY <1>c, <1>q, <2>1, <2>4, <3>2, <3>3, <3>4 DEF OnceThere
  <2>7. CASE m \notin f.msgs
    <3>1. InAnswer(m)' => InAnswer(m)
      BY <2>5, <2>7 DEF InAnswer
    <3>2. OnlyAnswer(m)'
      BY <1>1, <2>5, <2>7 DEF OnlyAnswer
    <3>3. Alone(m)'
      BY <1>1, <1>c, <1>q, <1>g, <1>w, <2>1, <2>4, <2>7, <3>1 DEF Alone
    <3>4. Marked(m)'
      BY <1>1, <1>c, <1>q, <1>g, <1>w, <2>1, <2>4, <2>7, <3>1 DEF Marked
    <3> QED
      BY <1>c, <1>q, <2>1, <2>4, <3>2, <3>3, <3>4 DEF OnceThere
  <2> QED
    BY <2>6, <2>7
<1>17. CASE TakeJob
  <2>1. /\ queue' = Tail(queue) /\ queue # <<>>
        /\ worker'.batch = Head(queue).batch /\ worker.at = "idle"
        /\ UNCHANGED <<call, groups, fired, handled, seen>>
    BY <1>0, <1>17 DEF TakeJob
  <2>2. ~ReceiveAlbum /\ worker.batch = {} /\ ~\E f \in fired : DeliverAlbum(f)
    BY <2>1, <1>r DEF ReceiveAlbum, RelayWhole, JobsWhole
  <2>3. /\ \A i \in DOMAIN queue' : i + 1 \in DOMAIN queue /\ queue'[i] = queue[i + 1]
        /\ \A i \in DOMAIN queue : i # 1 => i - 1 \in DOMAIN queue' /\ queue'[i - 1] = queue[i]
        /\ 1 \in DOMAIN queue /\ Head(queue) = queue[1]
        /\ DOMAIN queue' \subseteq Nat \ {0} /\ DOMAIN queue \subseteq Nat
    BY <1>0, <2>1
  <2>4. OnlyJob(m)'
    <3> SUFFICES ASSUME NEW i \in DOMAIN queue', NEW j \in DOMAIN queue',
                        m \in queue'[i].batch, m \in queue'[j].batch
                 PROVE  i = j
      BY DEF OnlyJob
    <3>1. i + 1 = j + 1
      BY <1>1, <2>3 DEF OnlyJob
    <3> QED
      BY <2>3, <3>1
  <2>5. OnQueue(m)' => OnQueue(m) /\ m \notin queue[1].batch
    <3> SUFFICES ASSUME NEW i \in DOMAIN queue', m \in queue'[i].batch, m \in queue[1].batch
                 PROVE  FALSE
      BY <2>3 DEF OnQueue
    <3>1. i + 1 = 1
      BY <1>1, <2>3 DEF OnlyJob
    <3> QED
      BY <2>3, <3>1
  <2>6. WithWorker(m)' <=> m \in queue[1].batch
    BY <2>1, <2>3 DEF WithWorker
  <2>7. m \in queue[1].batch => OnQueue(m)
    BY <2>3 DEF OnQueue
  <2>8. ~WithWorker(m)
    BY <2>2 DEF WithWorker
  <2>9. Alone(m)'
    BY <1>1, <1>c, <1>g, <1>f, <1>n, <2>1, <2>2, <2>5, <2>6, <2>7, <2>8 DEF Alone
  <2>10. Marked(m)'
    BY <1>1, <1>c, <1>g, <1>f, <1>n, <2>1, <2>2, <2>5, <2>6, <2>7, <2>8 DEF Marked
  <2> QED
    BY <1>c, <1>f, <1>n, <2>1, <2>2, <2>4, <2>9, <2>10 DEF OnceThere
<1>18. CASE ReceiveAlbum
  <2>1. /\ UNCHANGED <<call, queue, groups, fired, handled, seen, chans>>
        /\ worker.at = "album"
        /\ worker'.batch = chans[worker.ch].batch
    <3>1. Idle.batch = {}
      BY DEF Idle, OffDuty
    <3> QED
      BY <1>18, <3>1 DEF ReceiveAlbum
  <2>2. worker.batch = {} /\ worker.ch # 0
    BY <2>1 DEF RelayWhole, JobsWhole
  <2>3. Awaited' = Awaited \ {worker.ch}
    BY <1>18, <1>r, AwaitedStep DEF RelayWhole, EnsureAlbumWaiter
  <2>4. worker.ch \in Awaited
    BY <2>1, <2>2, AwaitedIs
  <2>5. ~WithWorker(m)
    BY <2>2 DEF WithWorker
  <2>6. WithWorker(m)' <=> m \in chans[worker.ch].batch
    BY <2>1 DEF WithWorker
  <2>7. WithWorker(m)' => InAnswer(m)
    BY <2>4, <2>6 DEF InAnswer
  <2>8. InAnswer(m)' => InAnswer(m) /\ ~WithWorker(m)'
    BY <1>1, <2>1, <2>3, <2>4, <2>6 DEF InAnswer, OnlyAnswer
  <2>9. OnlyAnswer(m)'
    BY <1>1, <2>1, <2>3 DEF OnlyAnswer
  <2>10. Alone(m)'
    BY <1>1, <1>c, <1>q, <1>g, <1>f, <2>1, <2>5, <2>7, <2>8 DEF Alone
  <2>11. Marked(m)'
    BY <1>1, <1>c, <1>q, <1>g, <1>f, <2>1, <2>5, <2>7, <2>8 DEF Marked
  <2> QED
    BY <1>c, <1>q, <1>f, <2>1, <2>9, <2>10, <2>11 DEF OnceThere
<1>19. CASE worker.at = "handle" /\ HandleBatch
  <2>1. /\ UNCHANGED <<call, queue, groups, fired, seen>>
        /\ handled'[m] = IF m \in worker.batch THEN handled[m] + 1 ELSE handled[m]
    BY <1>19 DEF HandleBatch
  <2>2. ~ReceiveAlbum /\ ~\E f \in fired : DeliverAlbum(f)
    BY <1>19, <1>r, <2>1 DEF ReceiveAlbum
  <2>3. ~WithWorker(m)'
    BY <1>19 DEF HandleBatch, Idle, OffDuty, WithWorker
  <2>4. handled'[m] > 0 <=> WithWorker(m) \/ handled[m] > 0
    BY <1>0, <2>1 DEF WithWorker
  <2>5. Alone(m)'
    BY <1>1, <1>c, <1>q, <1>g, <1>f, <1>n, <2>1, <2>2, <2>3, <2>4 DEF Alone
  <2>6. Marked(m)'
    BY <1>1, <1>c, <1>q, <1>g, <1>f, <1>n, <2>1, <2>2, <2>3, <2>4 DEF Marked
  <2> QED
    BY <1>c, <1>q, <1>f, <1>n, <2>1, <2>2, <2>5, <2>6 DEF OnceThere
<1>20. CASE Stop \/ StopWaiting
  BY <1>0, <1>20 DEF Stop, StopWaiting, Ended
<1>21. CASE UNCHANGED vars
  <2>1. UNCHANGED <<call, queue, groups, fired, worker, handled, seen>>
    BY <1>21 DEF vars
  <2> QED
    BY <1>22, <2>1
<1> QED
  BY <1>3, <1>4, <1>5, <1>7, <1>8, <1>9, <1>10, <1>11, <1>12, <1>13, <1>14, <1>15, <1>16, <1>17,
     <1>18, <1>19, <1>20, <1>21, <1>23
     DEF Next, Work, HandleAlbum, HandleSingle, Poll, Dispatch, Deliver

LEMMA OnceInitInv == Init => OnceInv
<1> SUFFICES ASSUME Init, NEW m \in Messages PROVE NewToWorker(m) /\ OnceThere(m)
  BY DEF OnceInv
<1>1. /\ queue = <<>> /\ DOMAIN queue = {} /\ worker = OffDuty
      /\ OffDuty.at = "off" /\ OffDuty.batch = {}
      /\ seen = {} /\ fired = {} /\ call = [c \in Callers |-> NoCall] /\ NoCall.at = "none"
      /\ \A a \in Albums : groups[a] = {}
      /\ handled[m] = 0
  BY DEF Init, OffDuty, NoCall
<1>2. Awaited = {}
  BY <1>1 DEF Awaited
<1>3. /\ ~InCall(m) /\ ~OnQueue(m) /\ ~InGroup(m) /\ ~InFired(m) /\ ~InAnswer(m) /\ ~WithWorker(m)
      /\ \A c \in Callers : ~PastMark(c)
  BY <1>1, <1>2 DEF InCall, PastMark, OnQueue, InGroup, InFired, InAnswer, WithWorker
<1>4. NewToWorker(m)
  BY <1>1, <1>3 DEF NewToWorker
<1>5. Alone(m) /\ Marked(m)
  BY <1>1, <1>3 DEF Alone, Marked
<1>6. OnlyCall(m) /\ OnlyJob(m) /\ OnlyBatch(m) /\ OnlyAnswer(m)
  BY <1>1, <1>2, <1>3 DEF OnlyCall, OnlyJob, OnlyBatch, OnlyAnswer
<1> QED
  BY <1>4, <1>5, <1>6 DEF OnceThere

LEMMA OnceStepInv ==
  ASSUME ~EarlyExpiry, ~NewToOld, RelayInv, OnceInv, [Next]_vars
  PROVE  OnceInv'
BY NewStaysNew, ThereStaysOnce DEF OnceInv, RelayInv

LEMMA OnceInvImplies == OnceInv => HandledOnce
BY DEF OnceInv, NewToWorker, HandledOnce

=============================================================================
