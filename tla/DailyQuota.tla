----------------------------- MODULE DailyQuota -----------------------------
(***************************************************************************)
(* The daily limit of one task: engine/quota.go, as the history clone and  *)
(* the realtime worker of a run use it, one after the other.               *)
(*                                                                         *)
(* The count of the day is kept twice, in the row and in a taskQuota of    *)
(* the goroutine that sends.  A taskQuota is made from a copy of the row   *)
(* that the starting handler has read, and so is the second one of a run,  *)
(* when it goes from the clone to the relay.  The run window, the slot the *)
(* relay reserves between its gate and its send, and units that cost       *)
(* nothing only let time pass between the steps.                           *)
(***************************************************************************)
EXTENDS Naturals

CONSTANTS
  Limit,    \* Task.DailyLimit; a limit of 0 means none and is left out
  LastDay,  \* bound: the midnights that pass
  MaxSent   \* bound: the units sent in a day

VARIABLES
  day,       \* time.Now(), as a date
  row,       \* today_date and today_count of the task's row
  start,     \* the row as a handler that starts the task has read it, if any
  edit,      \* the row as UpdateTask has read it and will save it, if it has
  phase,     \* what the run is doing: "off", "clone" or "relay"
  task,      \* the run's copy of the row
  quota,     \* its taskQuota: todayDate and todayCount
  at,        \* where it is: "gate", "send", "roll" or "count"
  sent,      \* units sent since midnight
  wrong      \* what went wrong with today's count, of Flaws

vars == <<day, row, start, edit, phase, task, quota, at, sent, wrong>>
memory == <<phase, task, quota, at>>

----------------------------------------------------------------------------
(* Types and helpers *)

Counter == [date : 0..LastDay, count : Nat]
Zero(d) == [date |-> d, count |-> 0]

\* A taskQuota was made from an outdated copy; a unit was sent and is not
\* counted in the row; the row counts units of an earlier day under its date.
Flaws == {"blind", "lost", "inflated"}
If(condition, flaw) == IF condition THEN {flaw} ELSE {}

\* What a counter says of the current day.
Today(c) == IF c.date = day THEN c.count ELSE 0

TypeOK ==
  /\ day \in 0..LastDay
  /\ row \in Counter /\ task \in Counter /\ quota \in Counter
  /\ start \subseteq Counter /\ edit \subseteq Counter
  /\ phase \in {"off", "clone", "relay"}
  /\ at \in {"gate", "send", "roll", "count"}
  /\ sent \in Nat
  /\ wrong \subseteq Flaws

Init ==
  /\ day = 0 /\ row = Zero(0) /\ start = {} /\ edit = {}
  /\ phase = "off" /\ task = Zero(0) /\ quota = Zero(0) /\ at = "gate"
  /\ sent = 0 /\ wrong = {}

\* A unit was sent and is not in the row yet.
Uncounted == phase # "off" /\ at \in {"roll", "count"}
Pending == IF Uncounted THEN 1 ELSE 0

----------------------------------------------------------------------------
(* Handlers *)

\* A handler reads the task it is going to start, with a run alive or not.
LoadTask ==
  /\ start = {}
  /\ start' = {row}
  /\ UNCHANGED <<day, row, edit, memory, sent, wrong>>

\* Mutation: a new taskQuota counts from zero.
FreshQuota(copy) == [copy EXCEPT !.count = 0]

\* newTaskQuota: the count and the date of the copy.
NewQuota(copy) == copy

\* StartTask, up to CloneHistoryWithPeers.
StartTask ==
  /\ phase = "off"
  /\ \E copy \in start :
       /\ phase' = "clone" /\ task' = copy /\ at' = "gate"
       /\ quota' = NewQuota(copy)
       /\ wrong' = wrong \cup If(Today(copy) < Today(row), "blind")
  /\ start' = {}
  /\ UNCHANGED <<day, row, edit, sent>>

\* The run ends: stopped, failed or gone with the process.  A unit may be in
\* the target or on its way there, and its increment is refused by the
\* cancelled context.
StopRun ==
  /\ phase # "off"
  /\ phase' = "off" /\ at' = "gate"
  /\ \/ wrong' = wrong \cup If(Uncounted, "lost") /\ UNCHANGED sent
     \/ /\ at = "send" /\ sent < MaxSent
        /\ sent' = sent + 1 /\ wrong' = wrong \cup {"lost"}
  /\ UNCHANGED <<day, row, start, edit, task, quota>>

\* UpdateTask reads the row after it has stopped the run and saves all of it.
LoadForEdit ==
  /\ edit = {} /\ phase = "off"
  /\ edit' = {row}
  /\ UNCHANGED <<day, row, start, memory, sent, wrong>>

SaveEdit ==
  /\ \E copy \in edit :
       /\ row' = copy
       /\ wrong' = wrong \cup If(Today(copy) + Pending < sent, "lost")
                         \cup If(Today(copy) + Pending > sent, "inflated")
  /\ edit' = {}
  /\ UNCHANGED <<day, start, memory, sent>>

----------------------------------------------------------------------------
(* waitForQuota *)

\* The counter is of another day.
Outdated == quota.date # day

\* The first look at a new day: the count in memory is reset, then the row,
\* which may count units of the day already that this counter knows nothing
\* of.  If that fails the clone returns with the error; the relay tries its
\* gate again, and finds the date of its counter to be today's.
RollDate(next) ==
  /\ Outdated
  /\ quota' = Zero(day)
  /\ \/ /\ row' = Zero(day) /\ at' = next
        /\ wrong' = (wrong \ {"inflated"})
                      \cup If(Today(row) > 0, "lost")
                      \cup If(at = "roll" /\ sent = 0, "inflated")
        /\ UNCHANGED phase
     \/ /\ at' = "gate" /\ UNCHANGED row
        /\ phase' = IF phase = "clone" THEN "off" ELSE phase
        /\ wrong' = wrong \cup If(at = "roll" /\ sent > 0, "lost")

RollAtGate ==
  /\ phase # "off" /\ at = "gate"
  /\ RollDate("gate")
  /\ UNCHANGED <<day, start, edit, task, sent>>

\* There is room for one more unit.
HasRoom == quota.count + 1 <= Limit

PassGate ==
  /\ phase # "off" /\ at = "gate" /\ ~Outdated
  /\ HasRoom
  /\ at' = "send"
  /\ UNCHANGED <<day, row, start, edit, phase, task, quota, sent, wrong>>

----------------------------------------------------------------------------
(* The send and quotaAdd *)

\* The unit is sent and the answer comes.
SendUnit ==
  /\ phase # "off" /\ at = "send" /\ sent < MaxSent
  /\ sent' = sent + 1 /\ at' = "roll"
  /\ UNCHANGED <<day, row, start, edit, phase, task, quota, wrong>>

\* processWithRetry sends again after an answer that was lost.
AnswerLost ==
  /\ phase # "off" /\ at = "send" /\ sent < MaxSent
  /\ sent' = sent + 1 /\ wrong' = wrong \cup {"lost"}
  /\ UNCHANGED <<day, row, start, edit, memory>>

\* All attempts fail: the relay goes on, the clone skips the unit or returns.
SendFails ==
  /\ phase # "off" /\ at = "send"
  /\ at' = "gate"
  /\ \/ UNCHANGED phase
     \/ phase = "clone" /\ phase' = "off"
  /\ UNCHANGED <<day, row, start, edit, task, quota, sent, wrong>>

\* quotaAdd at another day than the gate: the unit counts on the new day.  If
\* the reset fails the unit is not counted at all.
RollAtAdd ==
  /\ phase # "off" /\ at = "roll"
  /\ RollDate("count")
  /\ UNCHANGED <<day, start, edit, task, sent>>

SameDay ==
  /\ phase # "off" /\ at = "roll" /\ ~Outdated
  /\ at' = "count"
  /\ UNCHANGED <<day, row, start, edit, phase, task, quota, sent, wrong>>

\* Mutation: the row gets the count in memory, plus one.
IncrementCopy(c) == [date |-> quota.date, count |-> quota.count + 1]

\* persistQuotaIncrement: today_count + 1 in SQL, on top of the count of
\* whatever date the row has, then the same in memory.
Increment(c) == [date |-> quota.date, count |-> c.count + 1]

AddUnit ==
  /\ phase # "off" /\ at = "count"
  /\ row' = Increment(row)
  /\ quota' = Increment(quota)
  /\ wrong' = wrong \cup If(row.date # quota.date, "inflated")
  /\ at' = "gate"
  /\ UNCHANGED <<day, start, edit, phase, task, sent>>

\* The increment fails: the clone returns, the relay logs it and goes on.
AddFails ==
  /\ phase # "off" /\ at = "count"
  /\ at' = "gate" /\ wrong' = wrong \cup {"lost"}
  /\ phase' = IF phase = "clone" THEN "off" ELSE phase
  /\ UNCHANGED <<day, row, start, edit, task, quota, sent>>

----------------------------------------------------------------------------
(* From the clone to the relay: a second taskQuota from the first copy.    *)

BeginRelay ==
  /\ phase = "clone" /\ at = "gate"
  /\ phase' = "relay"
  /\ quota' = NewQuota(task)
  /\ wrong' = wrong \cup If(Today(task) < Today(row), "blind")
  /\ UNCHANGED <<day, row, start, edit, task, at, sent>>

\* What went wrong with yesterday's count does not matter today.
Midnight ==
  /\ day < LastDay
  /\ day' = day + 1
  /\ sent' = 0 /\ wrong' = {}
  /\ UNCHANGED <<row, start, edit, memory>>

Next ==
  \/ LoadTask \/ StartTask \/ StopRun \/ LoadForEdit \/ SaveEdit
  \/ RollAtGate \/ PassGate \/ SendUnit \/ AnswerLost \/ SendFails
  \/ RollAtAdd \/ SameDay \/ AddUnit \/ AddFails \/ BeginRelay \/ Midnight

Spec == Init /\ [][Next]_vars

----------------------------------------------------------------------------
(* Properties *)

\* quota.go, waitForQuota: over the stops, starts and edits of a day no more
\* units are sent than its limit, unless a sent unit could not be counted or a
\* counter was made from a copy of the row that was outdated, which the relay's
\* is whenever the clone has sent something.
DailyLimitKept == wrong \cap {"blind", "lost"} = {} => sent <= Limit

\* quota.go, quotaAdd: the row counts every unit of the day except the one
\* that has just been sent, and no unit that belongs to another day, unless a
\* reset failed or a unit was sent before midnight and counted after it.
CountHonest ==
  /\ "lost" \notin wrong => sent <= Today(row) + Pending
  /\ "inflated" \notin wrong => Today(row) <= sent

============================================================================
