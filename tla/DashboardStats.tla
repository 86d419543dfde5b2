--------------------------- MODULE DashboardStats ---------------------------
(***************************************************************************)
(* The dashboard's counters and log (internal/global): the totals and the  *)
(* counts of the business day (stats.go), their file, the log events with  *)
(* their numbers, and the reload after a restart (stats_persist.go).       *)
(*                                                                         *)
(* The counters are atomics without a common lock, so every load and store *)
(* of an operation is a step of its own.  One counter stands for success,  *)
(* fail and filtered, which every operation treats alike.  The host        *)
(* samples, which are only displayed, are left out.                        *)
(***************************************************************************)
EXTENDS Naturals, Sequences, FiniteSets, FiniteSetsExt

CONSTANTS Workers,     \* goroutines that count and log
          LastDay,     \* bound on the calendar
          MaxCalls,    \* bound on the calls of the workers
          MaxCrashes   \* bound on the restarts

Flusher == "flusher"
Procs == Workers \cup {Flusher}
Nobody == "nobody"
Days == 0..LastDay
Ids == 0..MaxCalls
Event == [id : Ids, day : Days]

VARIABLES
  clock,     \* the calendar day
  bizDay,    \* the day the counters of the day belong to
  total,     \* successes ever
  today,     \* successes of the business day
  seq,       \* number of the last log event
  queue,     \* persistLogCh: events on their way to the file
  pc,        \* step of each goroutine
  held,      \* the event a worker has numbered and not yet published
  now,       \* the day each goroutine has read from the clock for its operation
  rotator,   \* who holds bizMu
  snap,      \* what the flusher has read so far
  disk,      \* stats.json
  file,      \* lines of the log files
  calls,     \* calls made, for the bound
  crashes,   \* restarts, for the bound
  counted,   \* successes added to the day's counter since midnight
  torn       \* a snapshot taken in the middle of a rotation has been loaded

vars == <<clock, bizDay, total, today, seq, queue, pc, held, now, rotator, snap,
          disk, file, calls, crashes, counted, torn>>

NoEvent == [id |-> 0, day |-> 0]
Empty == [day |-> 0, total |-> 0, today |-> 0, seq |-> 0, mixed |-> FALSE]
Steps == {"idle", "enter", "locked", "zero", "total", "today", "publish", "counts"}

Init ==
  /\ clock = 0 /\ bizDay = 0
  /\ total = 0 /\ today = 0 /\ seq = 0
  /\ queue = <<>> /\ file = <<>>
  /\ pc = [p \in Procs |-> "idle"]
  /\ held = [w \in Workers |-> NoEvent]
  /\ now = [p \in Procs |-> 0]
  /\ rotator = Nobody
  /\ snap = Empty /\ disk = Empty
  /\ calls = 0 /\ crashes = 0 /\ counted = 0
  /\ torn = FALSE

At(p, s) == pc[p] = s
Goes(p, s) == pc' = [pc EXCEPT ![p] = s]

\* What an operation does once the business day is settled.
AfterDay(p) == IF p = Flusher THEN "counts" ELSE "total"

----------------------------------------------------------------------------
(* ensureBizDay.                                                           *)

\* The day is read without the lock; the expected one needs nothing more.
CheckDay(p) ==
  /\ At(p, "enter")
  /\ Goes(p, IF bizDay = now[p] THEN AfterDay(p) ELSE "locked")
  /\ UNCHANGED <<clock, bizDay, total, today, seq, queue, held, rotator, snap, disk,
                 file, calls, crashes, counted, torn, now>>

\* Under the lock it is read again, and the new day is stored first.  The
\* clock is not: a goroutine that read it before midnight turns the day back ...
TurnDay(p) ==
  /\ At(p, "locked") /\ rotator = Nobody
  /\ IF bizDay = now[p]
     THEN Goes(p, AfterDay(p)) /\ UNCHANGED <<bizDay, rotator>>
     ELSE Goes(p, "zero") /\ bizDay' = now[p] /\ rotator' = p
  /\ UNCHANGED <<clock, total, today, seq, queue, held, snap, disk, file, calls,
                 crashes, counted, torn, now>>

\* mutant: the day turns and its counters go on.
KeepCounters(p) ==
  /\ At(p, "zero")
  /\ rotator' = Nobody
  /\ Goes(p, AfterDay(p))
  /\ UNCHANGED <<clock, bizDay, total, today, seq, queue, held, snap, disk, file,
                 calls, crashes, counted, torn, now>>

\* ... and then the counters are zeroed: what another goroutine has counted
\* under the new day in between is lost.
ZeroCounters(p) ==
  /\ At(p, "zero")
  /\ today' = 0
  /\ rotator' = Nobody
  /\ Goes(p, AfterDay(p))
  /\ UNCHANGED <<clock, bizDay, total, seq, queue, held, snap, disk, file, calls,
                 crashes, counted, torn, now>>

----------------------------------------------------------------------------
(* AddSuccess and its like.                                                *)

Count(w) ==
  /\ At(w, "idle") /\ calls < MaxCalls
  /\ calls' = calls + 1
  /\ now' = [now EXCEPT ![w] = clock]
  /\ Goes(w, "enter")
  /\ UNCHANGED <<clock, bizDay, total, today, seq, queue, held, rotator, snap, disk,
                 file, crashes, counted, torn>>

AddTotal(w) ==
  /\ At(w, "total")
  /\ total' = total + 1
  /\ Goes(w, "today")
  /\ UNCHANGED <<clock, bizDay, today, seq, queue, held, rotator, snap, disk, file,
                 calls, crashes, counted, torn, now>>

AddToday(w) ==
  /\ At(w, "today")
  /\ today' = today + 1
  /\ counted' = counted + 1
  /\ Goes(w, "idle")
  /\ UNCHANGED <<clock, bizDay, total, seq, queue, held, rotator, snap, disk, file,
                 calls, crashes, torn, now>>

----------------------------------------------------------------------------
(* BroadcastLog and persistDashboardLogsLoop.                              *)

NumberEvent(w) ==
  /\ At(w, "idle") /\ calls < MaxCalls
  /\ calls' = calls + 1
  /\ seq' = seq + 1
  /\ held' = [held EXCEPT ![w] = [id |-> seq + 1, day |-> clock]]
  /\ Goes(w, "publish")
  /\ UNCHANGED <<clock, bizDay, total, today, queue, rotator, snap, disk, file,
                 crashes, counted, torn, now>>

\* Two events may be published in the other order, and a full channel drops.
PublishEvent(w) ==
  /\ At(w, "publish")
  /\ queue' \in {queue, Append(queue, held[w])}
  /\ held' = [held EXCEPT ![w] = NoEvent]
  /\ Goes(w, "idle")
  /\ UNCHANGED <<clock, bizDay, total, today, seq, rotator, snap, disk, file, calls,
                 crashes, counted, torn, now>>

WriteEvent ==
  /\ queue # <<>>
  /\ file' = Append(file, Head(queue))
  /\ queue' = Tail(queue)
  /\ UNCHANGED <<clock, bizDay, total, today, seq, pc, held, rotator, snap, disk, calls,
                 crashes, counted, torn, now>>

----------------------------------------------------------------------------
(* persistDashboardStatsLoop: the fields are read one after the other.     *)

ReadTotals ==
  /\ At(Flusher, "idle")
  /\ snap' = [Empty EXCEPT !.seq = seq, !.total = total]
  /\ now' = [now EXCEPT ![Flusher] = clock]
  /\ Goes(Flusher, "enter")
  /\ UNCHANGED <<clock, bizDay, total, today, seq, queue, held, rotator, disk, file,
                 calls, crashes, counted, torn>>

\* The day is the one ensureBizDay returned; the counter may still be the
\* one of the day before, while another goroutine turns the day.
WriteStats ==
  /\ At(Flusher, "counts")
  /\ disk' = [snap EXCEPT !.day = now[Flusher], !.today = today, !.mixed = rotator # Nobody]
  /\ Goes(Flusher, "idle")
  /\ snap' = Empty
  /\ UNCHANGED <<clock, bizDay, total, today, seq, queue, held, rotator, file, calls,
                 crashes, counted, torn, now>>

----------------------------------------------------------------------------

Midnight ==
  /\ clock < LastDay
  /\ clock' = clock + 1
  /\ counted' = 0
  /\ UNCHANGED <<bizDay, total, today, seq, queue, pc, held, rotator, snap, disk, file,
                 calls, crashes, torn, now>>

\* The lines of yesterday and today are read back.
Recent == { i \in 1..Len(file) : file[i].day + 1 >= clock }
SeededSeq == Max({0} \cup { file[i].id : i \in Recent })

\* mutant: the numbering goes on from the saved statistics only.
SavedSeq == disk.seq

NextSeq == Max({disk.seq, SeededSeq})

\* loadPersistedDashboardState, after whatever was in memory is gone.
Restart ==
  /\ crashes < MaxCrashes
  /\ crashes' = crashes + 1
  /\ total' = disk.total
  /\ seq' = NextSeq
  /\ bizDay' = clock
  /\ today' = IF disk.day = clock THEN disk.today ELSE 0
  /\ torn' = (torn \/ (disk.mixed /\ disk.day = clock))
  /\ queue' = <<>>
  /\ pc' = [p \in Procs |-> "idle"]
  /\ held' = [w \in Workers |-> NoEvent]
  /\ now' = [p \in Procs |-> clock]
  /\ rotator' = Nobody
  /\ snap' = Empty
  /\ UNCHANGED <<clock, disk, file, calls, counted>>

Next ==
  \/ \E p \in Procs : CheckDay(p) \/ TurnDay(p) \/ ZeroCounters(p)
  \/ \E w \in Workers :
       Count(w) \/ AddTotal(w) \/ AddToday(w) \/ NumberEvent(w) \/ PublishEvent(w)
  \/ WriteEvent \/ ReadTotals \/ WriteStats \/ Midnight \/ Restart

Spec == Init /\ [][Next]_vars

----------------------------------------------------------------------------

TypeOK ==
  /\ {clock, bizDay} \subseteq Days
  /\ {total, today, seq, calls, counted} \subseteq Ids
  /\ queue \in Seq(Event) /\ file \in Seq(Event)
  /\ pc \in [Procs -> Steps]
  /\ held \in [Workers -> Event]
  /\ now \in [Procs -> Days]
  /\ rotator \in Procs \cup {Nobody}
  /\ {snap, disk} \subseteq [day : Days, total : Ids, today : Ids, seq : Ids, mixed : BOOLEAN]
  /\ crashes \in 0..MaxCrashes
  /\ torn \in BOOLEAN

\* The count shown for today never exceeds what was counted since midnight,
\* through the change of the day, a flush and a restart.  Excused: while the
\* day is being turned, and after a restart from a snapshot that the flusher
\* took in that moment (ensureBizDay stores the day before it zeroes).
TodayHonest ==
  bizDay = clock /\ rotator = Nobody /\ ~torn => today <= counted

\* The numbers of the log lines the dashboard loads are unique, also across
\* restarts that lost the last numbers (seedDashboardLogsFromDisk): a client
\* that polls with the last number it has seen does not miss a new line.
LogNumbersUnique ==
  \A i, j \in Recent : file[i].id = file[j].id => i = j

=============================================================================
