--------------------------- MODULE SlotScheduler ---------------------------
(***************************************************************************)
(* The slot quota of one task (engine/scheduler.go): the state in memory,  *)
(* its copy in the tasks row, the refreshes that reconcile the two, and    *)
(* the realtime runs of the task that reserve, commit and release units    *)
(* (engine/monitor.go, engine/worker.go).                                  *)
(*                                                                         *)
(* SchedulerEngine.tasks is keyed by task id, so one task is modelled.     *)
(* Every section under s.mu is a step and so is every database statement.  *)
(* A job takes one unit (quotaUnitsForSingle and quotaUnitsForBatch return *)
(* 0 or 1).  No statement's error goes further than the log.  nextRun is a *)
(* hint for the UI and for sleeping: left out.                             *)
(***************************************************************************)
EXTENDS SlotRules

CONSTANTS
  RuleSets,    \* the values strategy.schedule_rules may take
  Runs,        \* the runs of the task; one that has returned may be reused
  Refreshers,  \* the goroutines in refresh(): the loop and API requests
  NoRun,       \* no run
  LastDay,     \* bound: the days 1..LastDay
  MaxUsed      \* bound: units counted in a slot, and allowed in it before an edit

ASSUME SchedulerAssumption ==
  /\ \A rs \in RuleSets : rs \in Seq(Rule)
  /\ NoRun \notin Runs
  /\ LastDay \in Nat
  /\ MaxUsed \in Nat

VARIABLES
  now,      \* time.Now()
  strat,    \* the strategy row: schedule_rules
  row,      \* the tasks row: wanted (running or paused), slot key and count
  st,       \* s.tasks[taskID]
  live,     \* the run whose context is alive, or NoRun
  pull,     \* what each run is doing
  peek,     \* the poller: the key persistSlotReset has still to write, or Blank
  ref,      \* what each refresh is doing
  calm,     \* history: so far nobody has got in another's way, and no statement failed
  tally     \* history: a slot, the units granted in it and its limit, and the sums of
            \*   both before the rules were last rewritten

vars == <<now, strat, row, st, live, pull, peek, ref, calm, tally>>

Blank == [day |-> -1, start |-> 0, end |-> 0]    \* current_slot_key = ""
Never == At(-1, 0)                               \* the zero time
NoState == [known |-> FALSE, rules |-> <<>>, idx |-> 0, ends |-> Never,
            limit |-> 0, used |-> 0, reserved |-> 0, key |-> Blank]
Off == [at |-> "off", held |-> 0, rules |-> <<>>, key |-> Blank, count |-> 0]
Resting == [at |-> "idle", row |-> [wanted |-> FALSE, key |-> Blank, count |-> 0],
            rules |-> <<>>, now |-> Never, wiped |-> FALSE, key |-> Blank]
NoTally == [key |-> Blank, n |-> 0, limit |-> 0, earlier |-> 0, allowed |-> 0]

PullAt == {"off", "clone", "apply", "latest", "sync", "idle", "reset", "send", "persist"}
RefAt  == {"idle", "apply", "sync", "compute", "write"}

RulesOf == RuleSets \cup {<<>>}
Row == [wanted : BOOLEAN, key : Key, count : Nat]
Tally == [key : Key, n : Nat, limit : Nat, earlier : Nat, allowed : Nat]
ScheduleState == [known : BOOLEAN, rules : RulesOf, idx : Nat, ends : Time,
                  limit : Nat, used : Nat, reserved : Nat, key : Key]
PullState == [at : PullAt, held : {0, 1}, rules : RulesOf, key : Key, count : Nat]
RefreshState == [at : RefAt, row : Row, rules : RulesOf, now : Time,
                 wiped : BOOLEAN, key : Key]

TypeOK ==
  /\ now \in Time
  /\ strat \in RuleSets
  /\ row \in Row
  /\ st \in ScheduleState
  /\ live \in Runs \cup {NoRun}
  /\ pull \in [Runs -> PullState]
  /\ peek \in Key
  /\ ref \in [Refreshers -> RefreshState]
  /\ calm \in BOOLEAN
  /\ tally \in Tally

Init ==
  /\ now = Midnight(1)
  /\ strat \in RuleSets
  /\ row = [wanted |-> FALSE, key |-> Blank, count |-> 0]
  /\ st = NoState
  /\ live = NoRun
  /\ pull = [r \in Runs |-> Off]
  /\ peek = Blank
  /\ ref = [f \in Refreshers |-> Resting]
  /\ calm = TRUE
  /\ tally = NoTally

-----------------------------------------------------------------------------
(* The sections under s.mu, as functions of the state *)

Limited == st.known /\ HasSlots(st.rules)

\* applyRules: changed rules wipe the slot; a first entry is not a change.
Changes(rules) == st.known /\ rules # st.rules
Applied(rules) ==
  IF st.known /\ rules = st.rules THEN st
  ELSE [NoState EXCEPT !.known = TRUE, !.rules = rules]

\* syncPersistedState.
\* Mutation: the count of the row is not taken over.
SyncedKeyOnly(key, count) ==
  IF st.known /\ count \in Nat THEN [st EXCEPT !.key = key] ELSE st
Synced(key, count) ==
  IF ~st.known \/ (st.reserved > 0 /\ Blank \notin {key, st.key} /\ key # st.key)
  THEN st
  ELSE [st EXCEPT !.key = key, !.used = count]

\* "st.activeRuleIdx != idx || !st.slotEnd.Equal(end)", and the switch itself:
\* the quota starts again when the key is another one.
Elsewhere(i, t) == st.idx # i \/ st.ends # EndTime(st.rules[i], t)

\* Mutation: the switch does not wait for the pending reservations.
MaySwitchAlways == st.reserved \in Nat
MaySwitch == st.reserved = 0

SwitchedTo(i, t) ==
  LET key  == SlotKey(st.rules[i], t)
      slot == [st EXCEPT !.idx = i, !.ends = EndTime(st.rules[i], t),
                         !.limit = st.rules[i].limit]
  IN IF key = st.key THEN slot
     ELSE [slot EXCEPT !.key = key, !.used = 0, !.reserved = 0]

\* The state in which Reserve and Peek look at the quota of slot i.
Entered(i) == IF Elsewhere(i, now) THEN SwitchedTo(i, now) ELSE st
MayEnter(i) == Elsewhere(i, now) => MaySwitch
Remaining(s) == s.limit - s.used - s.reserved

\* A reservation that a change of the rules may have wiped before.
\* Mutation: the counter may go below zero.
UnreservedBelowZero(n) == n - 1
Unreserved(n) == IF n > 0 THEN n - 1 ELSE 0

-----------------------------------------------------------------------------
(* History *)

Busy(r) == pull[r].at \in {"apply", "latest", "sync", "reset", "persist"}
Sending(r) == pull[r].at = "send"
Refreshing(f) == ref[f].at # "idle"

\* Of the refreshes, the poller and the runs at most one is between a read and a
\* write, and no run works with a copy of a row that has changed.
TakingTurns ==
  /\ \A r \in Runs, q \in Runs : Busy(r) /\ Busy(q) => r = q
  /\ \A f \in Refreshers, g \in Refreshers : Refreshing(f) /\ Refreshing(g) => f = g
  /\ \A r \in Runs : Busy(r) => peek = Blank /\ \A f \in Refreshers : ~Refreshing(f)
  /\ \A f \in Refreshers : Refreshing(f) => peek = Blank
  /\ \A r \in Runs : pull[r].at \in {"clone", "apply", "sync"} /\ pull[r].key # Blank
       => pull[r].key = row.key /\ pull[r].count = row.count

\* No job is cut off by a stop, a new start or the end of the process.
CutOff == live' # live /\ (peek # Blank \/ \E r \in Runs : Busy(r) \/ Sending(r))

Granted(r) == pull[r].held = 0 /\ pull'[r].held = 1 /\ Limited
\* A unit that is given back: a commit would have gone on to persist it.
Released(r) ==
  /\ Sending(r) /\ pull'[r].at = "idle"
  /\ Limited /\ st.limit > 0 /\ st.key # Blank
Rewritten == st.known /\ st'.known /\ st.rules # st'.rules

\* The slot that is open by the clock, whatever the state says.
OpenSlot ==
  IF ActiveSlots(now, st.rules) = {} THEN Blank
  ELSE SlotKey(st.rules[PickActiveSlot(now, st.rules)], now)

Counted ==
  IF \E r \in Runs : Granted(r)
  THEN [(IF tally.key = OpenSlot THEN tally ELSE NoTally) EXCEPT
          !.key = OpenSlot, !.n = @ + 1, !.limit = st'.limit]
  ELSE IF \E r \in Runs : Released(r)
  THEN [tally EXCEPT !.n = IF @ > 0 THEN @ - 1 ELSE 0]
  ELSE IF Rewritten
  THEN [tally EXCEPT !.n = 0, !.limit = 0, !.earlier = @ + tally.n, !.allowed = @ + tally.limit]
  ELSE tally

\* A slot that another one overlaps is not followed: the code starts its quota
\* again when it comes back from the other.
Track ==
  /\ calm' = (calm /\ TakingTurns' /\ ~CutOff)
  /\ tally' = IF calm' /\ Apart(st'.rules, Counted.key) THEN Counted ELSE NoTally

\* A statement fails that reads or writes the row or the rules.
TrackFailure == calm' = FALSE /\ tally' = NoTally

-----------------------------------------------------------------------------
(* The runs *)

Cancelled(r) == live # r
Steps(r, at) == pull' = [pull EXCEPT ![r].at = at]

\* A database write, and one with the run's context.
Writes(key, count) ==
  \/ row' = [row EXCEPT !.key = key, !.count = count] /\ Track
  \/ UNCHANGED row /\ TrackFailure
RunWrites(r, key, count) == Writes(key, count) /\ (Cancelled(r) => UNCHANGED row)

\* StartTask: the run works with the copy of the row its handler has read.  The
\* context of the run before is cancelled, and what its poller had to write lost.
StartRun(r) ==
  /\ pull[r].at = "off"
  /\ live' = r
  /\ row' = [row EXCEPT !.wanted = TRUE]
  /\ pull' = [pull EXCEPT ![r] = [Off EXCEPT !.at = "clone", !.key = row.key,
                                             !.count = row.count]]
  /\ peek' = Blank
  /\ UNCHANGED <<now, strat, st, ref>>
  /\ Track

StopTask ==
  /\ live # NoRun \/ row.wanted
  /\ live' = NoRun
  /\ row' = [row EXCEPT !.wanted = FALSE]
  /\ peek' = Blank
  /\ UNCHANGED <<now, strat, st, pull, ref>>
  /\ Track

\* RegisterTask: the strategy's rules are read, applied, and the slot of the
\* row is taken over, from the run's copy unless that has none.
LoadRules(r) ==
  /\ pull[r].at = "clone" /\ ~Cancelled(r)
  /\ pull' = [pull EXCEPT ![r].at = "apply", ![r].rules = strat]
  /\ UNCHANGED <<now, strat, row, st, live, peek, ref>>
  /\ Track

\* The rules cannot be read, and the run goes on all the same.
LoadRulesFails(r) ==
  /\ pull[r].at = "clone"
  /\ pull' = [pull EXCEPT ![r] = [Off EXCEPT !.at = "idle"]]
  /\ UNCHANGED <<now, strat, row, st, live, peek, ref>>
  /\ TrackFailure

SetRules(r) ==
  /\ pull[r].at = "apply"
  /\ st' = Applied(pull[r].rules)
  /\ pull' = [pull EXCEPT ![r].at = IF pull[r].key = Blank THEN "latest" ELSE "sync",
                          ![r].rules = <<>>]
  /\ UNCHANGED <<now, strat, row, live, peek, ref>>
  /\ Track

LoadLatest(r) ==
  /\ pull[r].at = "latest"
  /\ UNCHANGED <<now, strat, row, st, live, peek, ref>>
  /\ \/ /\ ~Cancelled(r)
        /\ pull' = [pull EXCEPT ![r].at = "sync", ![r].key = row.key, ![r].count = row.count]
        /\ Track
     \/ Steps(r, "sync") /\ TrackFailure

SyncRun(r) ==
  /\ pull[r].at = "sync"
  /\ st' = Synced(pull[r].key, pull[r].count)
  /\ pull' = [pull EXCEPT ![r] = [Off EXCEPT !.at = "idle"]]
  /\ UNCHANGED <<now, strat, row, live, peek, ref>>
  /\ Track

\* ReservePull without rules: the unit is granted and not accounted for.
ReserveUnlimited(r) ==
  /\ pull[r].at = "idle" /\ ~Cancelled(r)
  /\ ~Limited
  /\ pull' = [pull EXCEPT ![r].at = "send", ![r].held = 1]
  /\ UNCHANGED <<now, strat, row, st, live, peek, ref>>
  /\ Track

\* ReservePull in a slot.  Without a unit left the run sleeps and tries again.
ReservePull(r) ==
  /\ pull[r].at = "idle" /\ ~Cancelled(r)
  /\ Limited
  /\ ActiveSlots(now, st.rules) # {}
  /\ LET i == PickActiveSlot(now, st.rules)
         s == Entered(i)
         grant == IF Remaining(s) > 0 THEN 1 ELSE 0
     IN /\ MayEnter(i)
        /\ st' = [s EXCEPT !.reserved = @ + grant]
        /\ pull' = [pull EXCEPT ![r] =
             [Off EXCEPT !.held = grant,
                         !.at  = IF s.key # st.key THEN "reset"
                                 ELSE IF grant = 1 THEN "send" ELSE "idle",
                         !.key = IF s.key # st.key THEN s.key ELSE Blank]]
  /\ UNCHANGED <<now, strat, row, live, peek, ref>>
  /\ Track

\* persistSlotReset of ReservePull.
ResetRow(r) ==
  /\ pull[r].at = "reset"
  /\ pull' = [pull EXCEPT ![r].at = IF pull[r].held = 1 THEN "send" ELSE "idle",
                          ![r].key = Blank]
  /\ UNCHANGED <<now, strat, st, live, peek, ref>>
  /\ RunWrites(r, pull[r].key, 0)

\* The job has been sent: CommitPull, which persists after the unlock.
CommitPull(r) ==
  /\ pull[r].at = "send" /\ st.used < MaxUsed
  /\ IF st.known /\ st.rules # <<>> /\ st.limit > 0 /\ st.key # Blank
     THEN /\ st' = [st EXCEPT !.reserved = Unreserved(@), !.used = @ + 1]
          /\ pull' = [pull EXCEPT ![r] = [Off EXCEPT !.at = "persist", !.key = st.key,
                                                     !.count = st.used + 1]]
     ELSE /\ pull' = [pull EXCEPT ![r] = [Off EXCEPT !.at = "idle"]]
          /\ UNCHANGED st
  /\ UNCHANGED <<now, strat, row, live, peek, ref>>
  /\ Track

PersistCount(r) ==
  /\ pull[r].at = "persist"
  /\ pull' = [pull EXCEPT ![r] = [Off EXCEPT !.at = "idle"]]
  /\ UNCHANGED <<now, strat, st, live, peek, ref>>
  /\ RunWrites(r, pull[r].key, pull[r].count)

\* The job has failed or was cut short: ReleasePull.
ReleasePull(r) ==
  /\ pull[r].at = "send"
  /\ st' = IF st.known THEN [st EXCEPT !.reserved = Unreserved(@)] ELSE st
  /\ pull' = [pull EXCEPT ![r] = [Off EXCEPT !.at = "idle"]]
  /\ UNCHANGED <<now, strat, row, live, peek, ref>>
  /\ Track

RunReturns(r) ==
  /\ pull[r].at \in {"clone", "idle"} /\ Cancelled(r)
  /\ pull' = [pull EXCEPT ![r] = Off]
  /\ UNCHANGED <<now, strat, row, st, live, peek, ref>>
  /\ Track

\* PeekPull, called by the poller of the live run.
PeekPull ==
  /\ live # NoRun /\ pull[live].at \notin {"off", "clone", "apply", "latest", "sync"}
  /\ peek = Blank
  /\ Limited /\ ActiveSlots(now, st.rules) # {}
  /\ LET i == PickActiveSlot(now, st.rules)
     IN /\ MayEnter(i) /\ Elsewhere(i, now)
        /\ st' = Entered(i)
        /\ peek' = IF Entered(i).key # st.key THEN Entered(i).key ELSE Blank
  /\ UNCHANGED <<now, strat, row, live, pull, ref>>
  /\ Track

\* Its persistSlotReset.
PeekResets ==
  /\ peek # Blank
  /\ peek' = Blank
  /\ UNCHANGED <<now, strat, st, live, pull, ref>>
  /\ Writes(peek, 0)

RunStep(r) ==
  \/ LoadRules(r) \/ LoadRulesFails(r) \/ SetRules(r) \/ LoadLatest(r) \/ SyncRun(r)
  \/ ReserveUnlimited(r) \/ ReservePull(r) \/ ResetRow(r)
  \/ CommitPull(r) \/ PersistCount(r) \/ ReleasePull(r) \/ RunReturns(r)

-----------------------------------------------------------------------------
(* refresh() *)

\* The SELECT over the running and paused tasks, then time.Now().
ReadRow(f) ==
  /\ ref[f].at = "idle"
  /\ ref' = [ref EXCEPT ![f] = [Resting EXCEPT !.at = "apply", !.row = row,
                                               !.rules = strat, !.now = now]]
  /\ UNCHANGED <<now, strat, row, st, live, pull, peek>>
  /\ Track

\* A task that was not selected loses its entry.
Forget(f) ==
  /\ ref[f].at = "apply" /\ ~ref[f].row.wanted
  /\ st' = NoState
  /\ ref' = [ref EXCEPT ![f] = Resting]
  /\ UNCHANGED <<now, strat, row, live, pull, peek>>
  /\ Track

ApplyRules(f) ==
  /\ ref[f].at = "apply" /\ ref[f].row.wanted
  /\ st' = Applied(ref[f].rules)
  /\ ref' = [ref EXCEPT ![f] =
       IF Changes(ref[f].rules)
       THEN [Resting EXCEPT !.at = "compute", !.now = ref[f].now, !.wiped = TRUE]
       ELSE [ref[f] EXCEPT !.at = "sync", !.rules = <<>>]]
  /\ UNCHANGED <<now, strat, row, live, pull, peek>>
  /\ Track

SyncPersistedState(f) ==
  /\ ref[f].at = "sync"
  /\ st' = Synced(ref[f].row.key, ref[f].row.count)
  /\ ref' = [ref EXCEPT ![f] = [Resting EXCEPT !.at = "compute", !.now = ref[f].now]]
  /\ UNCHANGED <<now, strat, row, live, pull, peek>>
  /\ Track

\* computeNextRun, for the time at which the refresh began.
ComputeNextRun(f) ==
  /\ ref[f].at = "compute"
  /\ LET t == ref[f].now
         i == PickActiveSlot(t, st.rules)
         switch == /\ Limited /\ ActiveSlots(t, st.rules) # {}
                   /\ Elsewhere(i, t) /\ MaySwitch
         s == IF switch THEN SwitchedTo(i, t) ELSE st
         key == IF s.key # st.key THEN s.key ELSE Blank
     IN /\ st' = s
        /\ ref' = [ref EXCEPT ![f] =
             IF ref[f].wiped \/ key # Blank
             THEN [Resting EXCEPT !.at = "write", !.key = key]
             ELSE Resting]
  /\ UNCHANGED <<now, strat, row, live, pull, peek>>
  /\ Track

\* The UPDATE, whose context is never cancelled.
WriteReset(f) ==
  /\ ref[f].at = "write"
  /\ ref' = [ref EXCEPT ![f] = Resting]
  /\ UNCHANGED <<now, strat, st, live, pull, peek>>
  /\ Writes(ref[f].key, 0)

Refresh(f) ==
  \/ ReadRow(f) \/ Forget(f) \/ ApplyRules(f) \/ SyncPersistedState(f)
  \/ ComputeNextRun(f) \/ WriteReset(f)

-----------------------------------------------------------------------------
(* The surroundings *)

Tick ==
  /\ now # At(LastDay, DayLen - 1)
  /\ now' = IF now.min = DayLen - 1 THEN Midnight(now.day + 1) ELSE [now EXCEPT !.min = @ + 1]
  /\ UNCHANGED <<strat, row, st, live, pull, peek, ref>>
  /\ Track

\* service.UpdateStrategy.
EditRules ==
  /\ tally.allowed + tally.limit <= MaxUsed
  /\ strat' \in RuleSets \ {strat}
  /\ UNCHANGED <<now, row, st, live, pull, peek, ref>>
  /\ Track

\* The process ends and starts again; no run is resumed.
Restart ==
  /\ st' = NoState
  /\ live' = NoRun
  /\ pull' = [r \in Runs |-> Off]
  /\ peek' = Blank
  /\ ref' = [f \in Refreshers |-> Resting]
  /\ UNCHANGED <<now, strat, row>>
  /\ Track

Next ==
  \/ \E r \in Runs : StartRun(r) \/ RunStep(r)
  \/ StopTask \/ PeekPull \/ PeekResets
  \/ \E f \in Refreshers : Refresh(f)
  \/ Tick \/ EditRules \/ Restart

Spec == Init /\ [][Next]_vars

-----------------------------------------------------------------------------
(* Properties *)

\* In a slot that no other slot of the rules overlaps no more units are granted than
\* its limit allows, across restarts, stops and clock changes (model/task.go,
\* "CurrentSlotCount/Key persist scheduler slot quota across restarts.").  Each time
\* an entry finds its rules rewritten, in whichever slot, applyRules forgets what was
\* used and the limit may be granted once more: the sum of these limits is kept.
\* Nothing is claimed once somebody has read the row and written it later while
\* another did, or once a statement on the row or the rules has failed: what the row
\* does not hold the next syncPersistedState grants again.
QuotaKept == tally.earlier + tally.n <= tally.allowed + tally.limit

\* The slot is never switched under a pending reservation, neither by a run, nor
\* by its poller, nor by a refresh (ReservePull, PeekPull, computeNextRun).
SlotSwitchWaits ==
  [][st.reserved > 0 /\ st'.known /\ st'.rules = st.rules
       => st'.idx = st.idx /\ st'.ends = st.ends]_vars

-----------------------------------------------------------------------------
(* What a comment says and the code does not do *)

\* ReservePull and PeekPull: "Do not switch slot while there are pending reserved
\* jobs."  A reservation that keeps the slot from switching is pending: a job
\* holds it and will commit or release it.
ReservedMeansPending == st.reserved > 0 => \E r \in Runs : pull[r].held = 1
=============================================================================
