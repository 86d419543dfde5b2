------------------------ MODULE SlotSchedulerProofs ------------------------
(***************************************************************************)
(* The slot arithmetic agrees with the intervals it stands for, for every  *)
(* rule, every time and every length of the day; then, for every set of    *)
(* rules, runs and refreshes: the types of the scheduler, the pending      *)
(* reservations that hold a slot, and the quota of a slot, which is kept   *)
(* as long as runs, poller and refreshes take turns at the row.            *)
(***************************************************************************)
EXTENDS SlotScheduler, WellFoundedInduction, TLAPS

----------------------------------------------------------------------------
(* The slot arithmetic *)

\* contains, endTime and buildSlotKey: a time the rule contains lies in the
\* slot that began on the day of its key and ends at its end time.
THEOREM KeyNamesTheSlot ==
  ASSUME NEW r \in Rule, NEW t \in Time, Contains(r, t)
  PROVE  /\ InSlot(r, SlotKey(r, t).day, t)
         /\ EndTime(r, t) = SlotEnd(r, SlotKey(r, t).day)
<1> USE DayLenAssumption DEF Rule, Time, Minute, At, Midnight, AllDay, CrossMidnight
<1>1. InSlot(r, SlotKey(r, t).day, t)
  BY DEF Contains, InSlot, SlotBegin, SlotEnd, SlotKey, Before
<1>2. EndTime(r, t) = SlotEnd(r, SlotKey(r, t).day)
  BY DEF Contains, EndTime, SlotEnd, SlotKey
<1> QED
  BY <1>1, <1>2

\* The other way round: a time inside the slot that began on day d is contained,
\* and its key names that day.
THEOREM SlotHasOneKey ==
  ASSUME NEW r \in Rule, NEW t \in Time, NEW d \in Int, InSlot(r, d, t)
  PROVE  Contains(r, t) /\ SlotKey(r, t).day = d
<1> USE DayLenAssumption DEF Rule, Time, Minute, At, Midnight, AllDay, CrossMidnight
<1>1. Contains(r, t)
  BY DEF Contains, InSlot, SlotBegin, SlotEnd, Before
<1>2. SlotKey(r, t).day = d
  BY DEF InSlot, SlotBegin, SlotEnd, SlotKey, Before
<1> QED
  BY <1>1, <1>2

\* Two times of a rule share the key of the persisted quota exactly when they
\* share the slot end the scheduler compares (ReservePull, PeekPull,
\* computeNextRun).
COROLLARY KeyAndEndAgree ==
  ASSUME NEW r \in Rule, NEW t \in Time, NEW u \in Time,
         Contains(r, t), Contains(r, u)
  PROVE  SlotKey(r, t) = SlotKey(r, u) <=> EndTime(r, t) = EndTime(r, u)
<1> USE DayLenAssumption DEF Rule, Time, Minute, At, Midnight, AllDay, CrossMidnight
<1>1. EndTime(r, t) = SlotEnd(r, SlotKey(r, t).day) /\ EndTime(r, u) = SlotEnd(r, SlotKey(r, u).day)
  BY KeyNamesTheSlot
<1>2. SlotKey(r, t).day \in Int /\ SlotKey(r, u).day \in Int
  BY DEF SlotKey
<1>3. SlotKey(r, t) = SlotKey(r, u) <=> SlotKey(r, t).day = SlotKey(r, u).day
  BY DEF SlotKey
<1> QED
  BY <1>1, <1>2, <1>3 DEF SlotEnd

\* nextStart: outside the slot the time it gives is the first one at which the
\* slot is open again.
THEOREM NextStartIsNext ==
  ASSUME NEW r \in Rule, NEW t \in Time, ~Contains(r, t)
  PROVE  /\ Before(t, NextStart(r, t)) /\ Contains(r, NextStart(r, t))
         /\ \A u \in Time : Before(t, u) /\ Before(u, NextStart(r, t)) => ~Contains(r, u)
<1> USE DayLenAssumption DEF Rule, Time, Minute, At, AllDay, CrossMidnight, NextStart
<1>1. Before(t, NextStart(r, t)) /\ Contains(r, NextStart(r, t))
  BY DEF Contains, Before
<1>2. ASSUME NEW u \in Time, Before(t, u), Before(u, NextStart(r, t))
      PROVE  ~Contains(r, u)
  BY <1>2 DEF Contains, Before
<1> QED
  BY <1>1, <1>2

\* Every nonempty set of natural numbers has a least element.
LEMMA LeastNat ==
  ASSUME NEW S, S \subseteq Nat, S # {}
  PROVE  \E n \in S : \A k \in S : n <= k
<1> DEFINE R == {p \in Nat \X Nat : p[1] < p[2]}
<1>1. IsWellFoundedOn(R, Nat)
  BY NatLessThanWellFounded, Zenon DEF OpToRel
<1>2. PICK n \in S : \A k \in S : <<k, n>> \notin R
  <2> HIDE DEF R
  <2> QED
    BY <1>1, WFMin
<1>3. ASSUME NEW k \in S
      PROVE  n <= k
  <2>1. n \in Nat /\ k \in Nat /\ ~(k < n)
    BY <1>2
  <2> QED
    BY <2>1
<1> QED
  BY <1>3

\* endTime gives a time of today or tomorrow.
LEMMA EndIsAhead ==
  ASSUME NEW r \in Rule, NEW t \in Time
  PROVE  EndTime(r, t) \in Time /\ EndTime(r, t).day - t.day \in Nat
<1> USE DayLenAssumption DEF Rule, Time, Minute, At, Midnight, EndTime
<1>1. CASE AllDay(r)
  BY <1>1
<1>2. CASE ~AllDay(r)
  BY <1>2
<1> QED
  BY <1>1, <1>2

\* pickActiveSlot: whenever some slot is open it picks an open one, and no open
\* slot ends earlier.
THEOREM PickedSlotEndsFirst ==
  ASSUME NEW rules \in Seq(Rule), NEW t \in Time, ActiveSlots(t, rules) # {}
  PROVE  LET i == PickActiveSlot(t, rules)
         IN /\ i \in ActiveSlots(t, rules)
            /\ \A j \in ActiveSlots(t, rules) :
                 ~Before(EndTime(rules[j], t), EndTime(rules[i], t))
<1> DEFINE active == ActiveSlots(t, rules)
           ends(i) == EndTime(rules[i], t)
           days == {ends(i).day - t.day : i \in active}
<1>0. active \subseteq DOMAIN rules /\ active \subseteq Nat
  BY DEF ActiveSlots
<1>1. ASSUME NEW i \in active
      PROVE  ends(i) \in Time /\ ends(i).day - t.day \in Nat
  <2>1. rules[i] \in Rule
    BY <1>0
  <2>2. EndTime(rules[i], t) \in Time /\ EndTime(rules[i], t).day - t.day \in Nat
    BY <2>1, EndIsAhead
  <2> QED
    BY <2>2
<1>2. PICK d \in days : \A e \in days : d <= e
  <2>1. days \subseteq Nat /\ days # {}
    BY <1>1
  <2> HIDE DEF days
  <2> QED
    BY <2>1, LeastNat
<1> DEFINE first == {i \in active : ends(i).day - t.day = d}
           mins == {ends(i).min : i \in first}
<1>3. PICK m \in mins : \A e \in mins : m <= e
  <2>1. mins \subseteq Nat /\ mins # {}
    BY <1>1, <1>2 DEF Time, Minute
  <2> HIDE DEF mins
  <2> QED
    BY <2>1, LeastNat
<1> DEFINE best == {i \in first : ends(i).min = m}
<1>4. PICK i \in best : \A j \in best : i <= j
  <2>1. best \subseteq Nat /\ best # {}
    BY <1>0, <1>3
  <2> HIDE DEF best
  <2> QED
    BY <2>1, LeastNat
<1>5. i \in active /\ ends(i).day - t.day = d /\ ends(i).min = m
  BY <1>4
<1>6. ASSUME NEW j \in active
      PROVE  Before(ends(i), ends(j)) \/ (ends(i) = ends(j) /\ i <= j)
  <2>1. ends(j).day - t.day \in days
    OBVIOUS
  <2>2. d <= ends(j).day - t.day
    BY <1>2, <2>1
  <2>3. ends(i) \in Time /\ ends(j) \in Time /\ t.day \in Int
    BY <1>1, <1>5 DEF Time
  <2>4. CASE ends(j).day - t.day = d
    <3>1. j \in first /\ ends(j).min \in mins
      BY <2>4
    <3>2. m <= ends(j).min
      BY <1>3, <3>1
    <3>3. ends(j).min = m => i <= j
      BY <1>4, <3>1
    <3>4. ends(i).day = ends(j).day
      BY <1>5, <2>3, <2>4 DEF Time
    <3> HIDE DEF active, ends, first, mins, best
    <3> QED
      BY <1>5, <2>3, <3>2, <3>3, <3>4 DEF Time, Minute, Before
  <2>5. CASE ends(j).day - t.day # d
    <3> HIDE DEF active, ends, days, first, mins, best
    <3>1. ends(i).day < ends(j).day
      BY <1>5, <2>1, <2>2, <2>3, <2>5 DEF Time
    <3> QED
      BY <3>1 DEF Before
  <2> QED
    BY <2>4, <2>5
<1> DEFINE p == PickActiveSlot(t, rules)
<1>7. p \in active /\ \A j \in active : Before(ends(p), ends(j)) \/ (ends(p) = ends(j) /\ p <= j)
  <2>1. \E x \in active : \A j \in active : Before(ends(x), ends(j)) \/ (ends(x) = ends(j) /\ x <= j)
    BY <1>5, <1>6
  <2> QED
    BY <2>1, Zenon DEF PickActiveSlot
<1>8. ASSUME NEW j \in active
      PROVE  ~Before(ends(j), ends(p))
  <2>1. ends(p) \in Time /\ ends(j) \in Time
    BY <1>1, <1>7
  <2>2. Before(ends(p), ends(j)) \/ ends(p) = ends(j)
    BY <1>7
  <2> HIDE DEF active, ends, p
  <2> QED
    BY <2>1, <2>2, DayLenAssumption DEF Time, Minute, Before
<1> QED
  BY <1>7, <1>8

----------------------------------------------------------------------------
(* Types of the scheduler *)

\* A task without an entry in s.tasks has no quota state at all: the first entry
\* starts from nothing, which is why applying rules to it switches no slot.
IInv == TypeOK /\ (~st.known => st = NoState)

\* A time of day, a blank key and the zero time are what they are taken for.
LEMMA ConstantsTyped ==
  Blank \in Key /\ Never \in Time /\ Midnight(1) \in Time /\ <<>> \in RulesOf
BY DayLenAssumption DEF Blank, Key, Never, Time, Minute, At, Midnight, RulesOf

\* Rules of a strategy are sequences of rules.
LEMMA RulesAreSeq == \A rules \in RulesOf : rules \in Seq(Rule)
<1>1. \A rules \in RuleSets : rules \in Seq(Rule)
  BY SchedulerAssumption
<1>2. <<>> \in Seq(Rule)
  OBVIOUS
<1> QED
  BY <1>1, <1>2, Zenon DEF RulesOf

\* So have the records with which a task, a run and a refresh begin.
LEMMA RecordsTyped ==
  NoState \in ScheduleState /\ Off \in PullState /\ Resting \in RefreshState
BY ConstantsTyped
   DEF NoState, ScheduleState, Off, PullState, PullAt, Resting, RefreshState, RefAt, Row

\* buildSlotKey gives a key.
LEMMA SlotKeyTyped ==
  ASSUME NEW r \in Rule, NEW t \in Time
  PROVE  SlotKey(r, t) \in Key
BY DayLenAssumption DEF Rule, Time, Minute, Key, SlotKey, AllDay, CrossMidnight

\* applyRules.
LEMMA AppliedTyped ==
  ASSUME IInv, NEW rules \in RulesOf
  PROVE  /\ Applied(rules) \in ScheduleState
         /\ Applied(rules).known
         /\ Applied(rules).rules = rules
         /\ st.reserved > 0 /\ Applied(rules).rules = st.rules => Applied(rules) = st
<1>1. NoState \in ScheduleState /\ st \in ScheduleState
  BY RecordsTyped DEF IInv, TypeOK
<1>2. CASE st.known /\ rules = st.rules
  BY <1>1, <1>2 DEF Applied
<1>3. CASE ~(st.known /\ rules = st.rules)
  <2> DEFINE new == [NoState EXCEPT !.known = TRUE, !.rules = rules]
  <2>1. Applied(rules) = new
    BY <1>3 DEF Applied
  <2>2. new \in ScheduleState /\ new.known /\ new.rules = rules
    BY <1>1 DEF ScheduleState
  <2>3. ~(st.reserved > 0 /\ rules = st.rules)
    BY <1>3 DEF IInv, NoState
  <2> QED
    BY <2>1, <2>2, <2>3
<1> QED
  BY <1>2, <1>3

\* syncPersistedState.
LEMMA SyncedTyped ==
  ASSUME IInv, NEW key \in Key, NEW count \in Nat
  PROVE  /\ Synced(key, count) \in ScheduleState
         /\ Synced(key, count).known = st.known
         /\ Synced(key, count).idx = st.idx /\ Synced(key, count).ends = st.ends
         /\ ~st.known => Synced(key, count) = st
BY DEF IInv, TypeOK, Synced, ScheduleState

\* The switch of ReservePull, PeekPull and computeNextRun, to an open slot.
LEMMA SwitchedTyped ==
  ASSUME IInv, NEW t \in Time, ActiveSlots(t, st.rules) # {}
  PROVE  LET i == PickActiveSlot(t, st.rules)
         IN /\ SwitchedTo(i, t) \in ScheduleState
            /\ SwitchedTo(i, t).known = st.known
<1> DEFINE i == PickActiveSlot(t, st.rules)
<1>1. st.rules \in Seq(Rule) /\ st \in ScheduleState
  BY RulesAreSeq DEF IInv, TypeOK, ScheduleState
<1>2. i \in ActiveSlots(t, st.rules)
  BY <1>1, PickedSlotEndsFirst
<1>3. i \in Nat /\ st.rules[i] \in Rule
  BY <1>1, <1>2 DEF ActiveSlots
<1>4. EndTime(st.rules[i], t) \in Time /\ SlotKey(st.rules[i], t) \in Key
  BY <1>3, EndIsAhead, SlotKeyTyped
<1>5. st.rules[i].limit \in Nat
  BY <1>3 DEF Rule
<1> HIDE DEF i
<1> QED
  BY <1>1, <1>3, <1>4, <1>5 DEF SwitchedTo, ScheduleState, i

\* The slot that is open by the clock.
LEMMA OpenSlotTyped == IInv => OpenSlot \in Key
<1> SUFFICES ASSUME IInv
             PROVE  OpenSlot \in Key
  OBVIOUS
<1>1. CASE ActiveSlots(now, st.rules) = {}
  BY <1>1, ConstantsTyped DEF OpenSlot
<1>2. CASE ActiveSlots(now, st.rules) # {}
  <2> DEFINE i == PickActiveSlot(now, st.rules)
  <2>1. st.rules \in Seq(Rule) /\ now \in Time
    BY RulesAreSeq DEF IInv, TypeOK, ScheduleState
  <2>2. i \in ActiveSlots(now, st.rules)
    BY <2>1, <1>2, PickedSlotEndsFirst
  <2>3. st.rules[i] \in Rule
    BY <2>1, <2>2 DEF ActiveSlots
  <2> QED
    BY <2>1, <2>3, <1>2, SlotKeyTyped DEF OpenSlot
<1> QED
  BY <1>1, <1>2

\* A step goes into the history, or with a failure ends what is followed.
Tracked == Track \/ TrackFailure

\* The history is typed as long as the scheduler is.
LEMMA TrackTyped ==
  ASSUME IInv, st' \in ScheduleState, Tracked
  PROVE  calm' \in BOOLEAN /\ tally' \in Tally
<1>1. NoTally \in Tally
  BY ConstantsTyped DEF NoTally, Tally
<1>2. st'.limit \in Nat /\ OpenSlot \in Key
  BY OpenSlotTyped DEF ScheduleState
<1>3. calm' \in BOOLEAN
  BY DEF Tracked, Track, TrackFailure
<1>4. tally \in Tally
  BY DEF IInv, TypeOK
<1>5. Counted \in Tally
  <2>1. [(IF tally.key = OpenSlot THEN tally ELSE NoTally) EXCEPT
           !.key = OpenSlot, !.n = @ + 1, !.limit = st'.limit] \in Tally
    <3> DEFINE t == IF tally.key = OpenSlot THEN tally ELSE NoTally
    <3>1. t \in Tally
      BY <1>1, <1>4
    <3> HIDE DEF t
    <3>2. t.n + 1 \in Nat
      BY <3>1 DEF Tally
    <3>3. [t EXCEPT !.key = OpenSlot, !.n = t.n + 1, !.limit = st'.limit] \in Tally
      BY <3>1, <3>2, <1>2 DEF Tally
    <3> QED
      BY <3>3 DEF t
  <2>2. [tally EXCEPT !.n = IF @ > 0 THEN @ - 1 ELSE 0] \in Tally
    BY <1>4 DEF Tally
  <2>3. [tally EXCEPT !.n = 0, !.limit = 0, !.earlier = @ + tally.n,
                      !.allowed = @ + tally.limit] \in Tally
    <3>1. tally.earlier + tally.n \in Nat /\ tally.allowed + tally.limit \in Nat
      BY <1>4 DEF Tally
    <3>2. \A a, b \in Nat :
            [tally EXCEPT !.n = 0, !.limit = 0, !.earlier = a, !.allowed = b] \in Tally
      BY <1>4 DEF Tally
    <3> QED
      BY <3>1, <3>2
  <2>4. CASE \E r \in Runs : Granted(r)
    BY <2>1, <2>4 DEF Counted
  <2>5. CASE ~(\E r \in Runs : Granted(r)) /\ \E r \in Runs : Released(r)
    BY <2>2, <2>5 DEF Counted
  <2>6. CASE ~(\E r \in Runs : Granted(r)) /\ ~(\E r \in Runs : Released(r))
    BY <1>4, <2>3, <2>6 DEF Counted
  <2> QED
    BY <2>4, <2>5, <2>6
<1>6. tally' = Counted \/ tally' = NoTally
  BY DEF Tracked, Track, TrackFailure
<1> QED
  BY <1>1, <1>3, <1>5, <1>6

\* The invariant of the types: it holds at the start, and every step keeps it.
LEMMA InitInv == Init => IInv
BY ConstantsTyped, RecordsTyped
   DEF Init, IInv, TypeOK, Row, NoTally, Tally

\* It is enough to look at what a step does to the scheduler itself.
LEMMA Retyped ==
  ASSUME IInv, Tracked,
         now' \in Time, strat' \in RuleSets, row' \in Row, live' \in Runs \cup {NoRun},
         st' \in ScheduleState, ~st'.known => st' = NoState,
         pull' \in [Runs -> PullState], peek' \in Key, ref' \in [Refreshers -> RefreshState]
  PROVE  IInv'
<1>1. calm' \in BOOLEAN /\ tally' \in Tally
  BY TrackTyped
<1>2. TypeOK'
  BY <1>1 DEF TypeOK
<1>3. (~st.known => st = NoState)'
  BY DEF NoState
<1> QED
  BY <1>2, <1>3 DEF IInv

\* The row keeps its type, written or not.
LEMMA RowTyped ==
  ASSUME row \in Row, NEW key \in Key, NEW count \in Nat
  PROVE  /\ [row EXCEPT !.key = key, !.count = count] \in Row
         /\ [row EXCEPT !.key = key, !.count = count].wanted = row.wanted
<1>1. [row EXCEPT !.key = key, !.count = count] \in Row
  BY DEF Row
<1>2. [row EXCEPT !.key = key, !.count = count].wanted = row.wanted
  BY DEF Row
<1> QED
  BY <1>1, <1>2

LEMMA WrittenTyped ==
  ASSUME row \in Row, NEW key \in Key, NEW count \in Nat, Writes(key, count)
  PROVE  row' \in Row /\ row'.wanted = row.wanted
<1> DEFINE written == [row EXCEPT !.key = key, !.count = count]
<1>1. written \in Row /\ written.wanted = row.wanted
  BY RowTyped
<1>2. row' = written \/ row' = row
  BY DEF Writes
<1> HIDE DEF written
<1> QED
  BY <1>1, <1>2

\* A step of a run or its start.
LEMMA RunStepInv ==
  ASSUME IInv, NEW r \in Runs, RunStep(r) \/ StartRun(r)
  PROVE  IInv'
<1> USE DEF IInv, TypeOK, Tracked
<1>0. pull[r] \in PullState
  OBVIOUS
<1>1. CASE StartRun(r)
  <2>1. pull' \in [Runs -> PullState] /\ row' \in Row
    BY RecordsTyped, <1>0, <1>1 DEF StartRun, PullState, PullAt, Row
  <2> QED
    BY <2>1, <1>1, ConstantsTyped, Retyped DEF StartRun
<1>2. CASE LoadRules(r)
  <2>1. pull' \in [Runs -> PullState]
    BY <1>0, <1>2 DEF LoadRules, LoadRulesFails, PullState, PullAt, RulesOf
  <2> QED
    BY <2>1, <1>2, Retyped DEF LoadRules
<1>3. CASE SetRules(r)
  <2>1. pull' \in [Runs -> PullState]
    BY ConstantsTyped, <1>0, <1>3 DEF SetRules, PullState, PullAt
  <2>2. st' \in ScheduleState /\ st'.known
    BY AppliedTyped, <1>0, <1>3 DEF SetRules, PullState
  <2> QED
    BY <2>1, <2>2, <1>3, Retyped DEF SetRules
<1>13. CASE LoadRulesFails(r)
  <2>1. pull' \in [Runs -> PullState]
    BY RecordsTyped, <1>0, <1>13 DEF LoadRulesFails, PullState, PullAt
  <2> QED
    BY <2>1, <1>13, Retyped DEF LoadRulesFails
<1>4. CASE LoadLatest(r)
  <2>1. PICK p \in PullState : pull' = [pull EXCEPT ![r] = p]
    <3>1. [pull[r] EXCEPT !.at = "sync"] \in PullState
      BY <1>0 DEF PullState, PullAt
    <3>2. [pull[r] EXCEPT !.at = "sync", !.key = row.key, !.count = row.count] \in PullState
      BY <1>0 DEF PullState, PullAt, Row
    <3> QED
      BY <3>1, <3>2, <1>4 DEF LoadLatest, Steps
  <2> QED
    BY <2>1, <1>4, Retyped DEF LoadLatest, Steps
<1>5. CASE SyncRun(r)
  <2>1. pull' \in [Runs -> PullState]
    BY RecordsTyped, <1>0, <1>5 DEF SyncRun, PullState, PullAt
  <2>2. st' \in ScheduleState /\ (~st'.known => st' = NoState)
    BY SyncedTyped, <1>0, <1>5 DEF SyncRun, PullState
  <2> QED
    BY <2>1, <2>2, <1>5, Retyped DEF SyncRun
<1>6. CASE ReserveUnlimited(r)
  <2>1. pull' \in [Runs -> PullState]
    BY <1>0, <1>6 DEF ReserveUnlimited, PullState, PullAt
  <2> QED
    BY <2>1, <1>6, Retyped DEF ReserveUnlimited
<1>7. CASE ReservePull(r)
  <2>1. PICK s \in ScheduleState, grant \in {0, 1} :
          /\ s.known /\ st' = [s EXCEPT !.reserved = @ + grant]
          /\ pull' = [pull EXCEPT ![r] =
               [Off EXCEPT !.held = grant,
                           !.at  = IF s.key # st.key THEN "reset"
                                   ELSE IF grant = 1 THEN "send" ELSE "idle",
                           !.key = IF s.key # st.key THEN s.key ELSE Blank]]
    <3> DEFINE i == PickActiveSlot(now, st.rules)
    <3>1. Entered(i) \in ScheduleState /\ Entered(i).known
      BY SwitchedTyped, <1>7 DEF ReservePull, Entered, Limited
    <3> HIDE DEF i
    <3> QED
      BY <3>1, <1>7 DEF ReservePull, i
  <2>2. pull' \in [Runs -> PullState]
    BY RecordsTyped, ConstantsTyped, <2>1 DEF PullState, PullAt, ScheduleState
  <2>3. st' \in ScheduleState /\ st'.known
    BY <2>1 DEF ScheduleState
  <2> QED
    BY <2>2, <2>3, <1>7, Retyped DEF ReservePull
<1>8. CASE ResetRow(r)
  <2>1. pull' \in [Runs -> PullState]
    BY ConstantsTyped, <1>0, <1>8 DEF ResetRow, PullState, PullAt
  <2>2. row' \in Row
    BY <1>0, <1>8, WrittenTyped DEF ResetRow, PullState, RunWrites
  <2> QED
    BY <2>1, <2>2, <1>8, Retyped DEF ResetRow, RunWrites, Writes
<1>9. CASE CommitPull(r)
  <2> DEFINE counted == [Off EXCEPT !.at = "persist", !.key = st.key, !.count = st.used + 1]
             rested == [Off EXCEPT !.at = "idle"]
             spent == [st EXCEPT !.reserved = Unreserved(@), !.used = @ + 1]
  <2>1. \/ st' = spent /\ st.known /\ pull' = [pull EXCEPT ![r] = counted]
        \/ st' = st /\ pull' = [pull EXCEPT ![r] = rested]
    BY <1>9 DEF CommitPull
  <2>0. st.key \in Key /\ st.used + 1 \in Nat /\ Unreserved(st.reserved) \in Nat
    BY DEF ScheduleState, Unreserved
  <2>2. counted \in PullState /\ rested \in PullState
    BY <2>0, RecordsTyped DEF PullState, PullAt
  <2>3. spent \in ScheduleState /\ spent.known = st.known
    BY <2>0 DEF ScheduleState
  <2> HIDE DEF counted, rested, spent
  <2>4. pull' \in [Runs -> PullState]
    BY <2>1, <2>2
  <2>5. st' \in ScheduleState /\ (~st'.known => st' = NoState)
    BY <2>1, <2>3
  <2> QED
    BY <2>4, <2>5, <1>9, Retyped DEF CommitPull
<1>10. CASE PersistCount(r)
  <2>1. pull' \in [Runs -> PullState] /\ row' \in Row
    BY RecordsTyped, <1>0, <1>10, WrittenTyped DEF PersistCount, PullState, PullAt, RunWrites
  <2> QED
    BY <2>1, <1>10, Retyped DEF PersistCount, RunWrites, Writes
<1>11. CASE ReleasePull(r)
  <2>1. pull' \in [Runs -> PullState]
    BY RecordsTyped, <1>0, <1>11 DEF ReleasePull, PullState, PullAt
  <2>2. st' \in ScheduleState /\ (~st'.known => st' = NoState)
    BY <1>11 DEF ReleasePull, ScheduleState, Unreserved
  <2> QED
    BY <2>1, <2>2, <1>11, Retyped DEF ReleasePull
<1>12. CASE RunReturns(r)
  <2>1. pull' \in [Runs -> PullState]
    BY RecordsTyped, <1>0, <1>12 DEF RunReturns, PullState
  <2> QED
    BY <2>1, <1>12, Retyped DEF RunReturns
<1> QED
  BY <1>1, <1>2, <1>3, <1>4, <1>5, <1>6, <1>7, <1>8, <1>9, <1>10, <1>11, <1>12, <1>13 DEF RunStep

\* A step of a refresh.
LEMMA RefreshInv ==
  ASSUME IInv, NEW f \in Refreshers, Refresh(f)
  PROVE  IInv'
<1> USE DEF IInv, TypeOK, Tracked
<1>0. ref[f] \in RefreshState
  OBVIOUS
<1>1. CASE ReadRow(f)
  <2>1. ref' \in [Refreshers -> RefreshState]
    BY RecordsTyped, <1>1 DEF ReadRow, RefreshState, RefAt, RulesOf
  <2> QED
    BY <2>1, <1>1, Retyped DEF ReadRow
<1>2. CASE Forget(f)
  <2>1. ref' \in [Refreshers -> RefreshState] /\ st' \in ScheduleState
    BY RecordsTyped, <1>2 DEF Forget
  <2> QED
    BY <2>1, <1>2, Retyped DEF Forget
<1>3. CASE ApplyRules(f)
  <2>1. ref' \in [Refreshers -> RefreshState]
    BY RecordsTyped, ConstantsTyped, <1>0, <1>3 DEF ApplyRules, RefreshState, RefAt
  <2>2. st' \in ScheduleState /\ st'.known
    BY AppliedTyped, <1>0, <1>3 DEF ApplyRules, RefreshState
  <2> QED
    BY <2>1, <2>2, <1>3, Retyped DEF ApplyRules
<1>4. CASE SyncPersistedState(f)
  <2>1. ref' \in [Refreshers -> RefreshState]
    BY RecordsTyped, <1>0, <1>4 DEF SyncPersistedState, RefreshState, RefAt
  <2>2. st' \in ScheduleState /\ (~st'.known => st' = NoState)
    BY SyncedTyped, <1>0, <1>4 DEF SyncPersistedState, RefreshState, Row
  <2> QED
    BY <2>1, <2>2, <1>4, Retyped DEF SyncPersistedState
<1>5. CASE ComputeNextRun(f)
  <2>1. PICK s \in ScheduleState :
          /\ st' = s /\ (~s.known => s = NoState)
          /\ ref' = [ref EXCEPT ![f] =
               IF ref[f].wiped \/ (IF s.key # st.key THEN s.key ELSE Blank) # Blank
               THEN [Resting EXCEPT !.at = "write",
                                    !.key = IF s.key # st.key THEN s.key ELSE Blank]
               ELSE Resting]
    <3> DEFINE t == ref[f].now
               i == PickActiveSlot(t, st.rules)
               switch == /\ Limited /\ ActiveSlots(t, st.rules) # {}
                         /\ Elsewhere(i, t) /\ MaySwitch
    <3>1. CASE switch
      <4>1. SwitchedTo(i, t) \in ScheduleState /\ SwitchedTo(i, t).known
        BY SwitchedTyped, <1>0, <3>1 DEF RefreshState, Limited
      <4> QED
        BY <4>1, <3>1, <1>5 DEF ComputeNextRun
    <3>2. CASE ~switch
      BY <3>2, <1>5 DEF ComputeNextRun
    <3> QED
      BY <3>1, <3>2
  <2>2. ref' \in [Refreshers -> RefreshState]
    BY RecordsTyped, ConstantsTyped, <2>1 DEF RefreshState, RefAt, ScheduleState
  <2> QED
    BY <2>1, <2>2, <1>5, Retyped DEF ComputeNextRun
<1>6. CASE WriteReset(f)
  <2>1. ref' \in [Refreshers -> RefreshState] /\ row' \in Row
    BY RecordsTyped, <1>0, <1>6, WrittenTyped DEF WriteReset, RefreshState
  <2> QED
    BY <2>1, <1>6, Retyped DEF WriteReset, Writes
<1> QED
  BY <1>1, <1>2, <1>3, <1>4, <1>5, <1>6 DEF Refresh

\* Every step of the system keeps it, one lemma above for each party.
LEMMA StepInv == IInv /\ [Next]_vars => IInv'
<1> SUFFICES ASSUME IInv, [Next]_vars
             PROVE  IInv'
  OBVIOUS
<1> USE DEF Tracked
<1>1. ASSUME NEW r \in Runs, StartRun(r) \/ RunStep(r)
      PROVE  IInv'
  BY <1>1, RunStepInv
<1>2. CASE StopTask
  <2>1. row' \in Row
    BY <1>2 DEF StopTask, IInv, TypeOK, Row
  <2> QED
    BY <2>1, <1>2, ConstantsTyped, Retyped DEF StopTask, IInv, TypeOK
<1>3. CASE PeekPull
  <2>1. st' \in ScheduleState /\ st'.known
    BY SwitchedTyped, <1>3 DEF PeekPull, Entered, Limited, IInv, TypeOK
  <2>2. peek' \in Key
    BY <2>1, ConstantsTyped, <1>3 DEF PeekPull, ScheduleState
  <2> QED
    BY <2>1, <2>2, <1>3, Retyped DEF PeekPull, IInv, TypeOK
<1>4. CASE PeekResets
  <2>1. row' \in Row /\ peek' \in Key
    BY <1>4, ConstantsTyped, WrittenTyped DEF PeekResets, IInv, TypeOK
  <2> QED
    BY <2>1, <1>4, Retyped DEF PeekResets, Writes, IInv, TypeOK
<1>5. ASSUME NEW f \in Refreshers, Refresh(f)
      PROVE  IInv'
  BY <1>5, RefreshInv
<1>6. CASE Tick
  <2>1. now' \in Time
    BY DayLenAssumption, <1>6 DEF Tick, IInv, TypeOK, Time, Minute, At, Midnight
  <2> QED
    BY <2>1, <1>6, Retyped DEF Tick, IInv, TypeOK
<1>7. CASE EditRules
  BY <1>7, Retyped DEF EditRules, IInv, TypeOK
<1>8. CASE Restart
  <2>1. /\ st' \in ScheduleState /\ peek' \in Key
        /\ pull' \in [Runs -> PullState] /\ ref' \in [Refreshers -> RefreshState]
    BY RecordsTyped, ConstantsTyped, <1>8 DEF Restart
  <2> QED
    BY <2>1, <1>8, Retyped DEF Restart, IInv, TypeOK
<1>9. CASE UNCHANGED vars
  BY <1>9 DEF vars, IInv, TypeOK
<1> QED
  BY <1>1, <1>2, <1>3, <1>4, <1>5, <1>6, <1>7, <1>8, <1>9 DEF Next

\* The scheduler's state, the row and what every goroutine has read keep their
\* types, for every set of rules and every number of runs and refreshers.
THEOREM SchedulerTypeCorrect == Spec => []TypeOK
<1>1. Init => IInv
  BY InitInv
<1>2. IInv /\ [Next]_vars => IInv'
  BY StepInv
<1>3. IInv => TypeOK
  BY DEF IInv
<1> QED
  BY <1>1, <1>2, <1>3, PTL DEF Spec

-----------------------------------------------------------------------------
(* Reservations hold the slot *)

\* What a step may do to a slot with a pending reservation.
SlotStays ==
  st.reserved > 0 /\ st'.known /\ st'.rules = st.rules
    => st'.idx = st.idx /\ st'.ends = st.ends

\* No step of a run, of its poller, of a refresh or of anything else moves it.
LEMMA SlotStaysStep == IInv /\ [Next]_vars => SlotStays
<1> SUFFICES ASSUME IInv, [Next]_vars
             PROVE  SlotStays
  OBVIOUS
<1> USE DEF SlotStays
<1>0. st \in ScheduleState /\ st.reserved \in Nat
  BY DEF IInv, TypeOK, ScheduleState
<1>1. CASE st' = st
  BY <1>1
<1>2. ASSUME NEW rules \in RulesOf, st' = Applied(rules)
      PROVE  SlotStays
  BY <1>2, AppliedTyped
<1>3. ASSUME NEW key \in Key, NEW count \in Nat, st' = Synced(key, count)
      PROVE  SlotStays
  BY <1>3, SyncedTyped
<1>4. CASE st' = NoState
  BY <1>4 DEF NoState
<1>5. CASE MaySwitch
  BY <1>0, <1>5 DEF MaySwitch
<1>6. ASSUME NEW r \in Runs, RunStep(r) \/ StartRun(r)
      PROVE  SlotStays
  <2>0. pull[r] \in PullState
    BY DEF IInv, TypeOK
  <2>1. CASE SetRules(r)
    BY <2>0, <2>1, <1>2 DEF SetRules, PullState
  <2>2. CASE SyncRun(r)
    BY <2>0, <2>2, <1>3 DEF SyncRun, PullState
  <2>3. CASE ReservePull(r)
    <3> DEFINE i == PickActiveSlot(now, st.rules)
    <3>1. CASE Elsewhere(i, now)
      BY <3>1, <2>3, <1>5 DEF ReservePull, MayEnter
    <3>2. CASE ~Elsewhere(i, now)
      BY <3>2, <2>3, <1>0 DEF ReservePull, Entered, ScheduleState
    <3> QED
      BY <3>1, <3>2
  <2>4. CASE CommitPull(r)
    BY <2>4, <1>0 DEF CommitPull, ScheduleState
  <2>5. CASE ReleasePull(r)
    BY <2>5, <1>0 DEF ReleasePull, ScheduleState
  <2>6. CASE LoadRules(r) \/ LoadRulesFails(r) \/ LoadLatest(r) \/ ReserveUnlimited(r) \/ ResetRow(r)
             \/ PersistCount(r) \/ RunReturns(r) \/ StartRun(r)
    BY <2>6, <1>1 DEF LoadRules, LoadRulesFails, LoadLatest, ReserveUnlimited, ResetRow,
                      PersistCount,
                      RunReturns, StartRun
  <2> QED
    BY <1>6, <2>1, <2>2, <2>3, <2>4, <2>5, <2>6 DEF RunStep
<1>7. ASSUME NEW f \in Refreshers, Refresh(f)
      PROVE  SlotStays
  <2>0. ref[f] \in RefreshState
    BY DEF IInv, TypeOK
  <2>1. CASE ApplyRules(f)
    BY <2>0, <2>1, <1>2 DEF ApplyRules, RefreshState
  <2>2. CASE SyncPersistedState(f)
    BY <2>0, <2>2, <1>3 DEF SyncPersistedState, RefreshState, Row
  <2>3. CASE ComputeNextRun(f)
    BY <2>3, <1>1, <1>5 DEF ComputeNextRun
  <2>4. CASE ReadRow(f) \/ Forget(f) \/ WriteReset(f)
    BY <2>4, <1>1, <1>4 DEF ReadRow, Forget, WriteReset
  <2> QED
    BY <1>7, <2>1, <2>2, <2>3, <2>4 DEF Refresh
<1>8. CASE PeekPull
  BY <1>8, <1>5 DEF PeekPull, MayEnter
<1>9. CASE StopTask \/ PeekResets \/ Tick \/ EditRules \/ Restart \/ UNCHANGED vars
  BY <1>9, <1>1, <1>4 DEF StopTask, PeekResets, Tick, EditRules, Restart, vars
<1> QED
  BY <1>6, <1>7, <1>8, <1>9 DEF Next

\* ReservePull, PeekPull, computeNextRun: the slot is not switched under a pending
\* reservation, whatever runs and refreshes do in between.
THEOREM SlotSwitchWaitsHolds == Spec => SlotSwitchWaits
<1>1. Init => IInv
  BY InitInv
<1>2. IInv /\ [Next]_vars => IInv'
  BY StepInv
<1>3. IInv /\ [Next]_vars => SlotStays
  BY SlotStaysStep
<1> QED
  BY <1>1, <1>2, <1>3, PTL DEF Spec, SlotSwitchWaits, SlotStays

-----------------------------------------------------------------------------
(* The quota of a slot *)

\* The refreshes that still work with the time at which they began, and the times
\* at which a step may still switch the slot: now and theirs.
Reading(f) == ref[f].at \in {"apply", "sync", "compute"}

\* The slot a key names has begun, or is over, by a time.
Begun(key, t) == key = Blank \/ ~Before(t, SlotBegin(key, key.day))
Over(key, t)  == ~Before(t, SlotEnd(key, key.day))

Seen(key) == Begun(key, now) /\ \A f \in Refreshers : Reading(f) => Begun(key, ref[f].now)
Past(key) == Over(key, now) /\ \A f \in Refreshers : Reading(f) => Over(key, ref[f].now)

\* Statements under way, and what the row holds once they have been executed.
Storing(r) == pull[r].at \in {"reset", "persist"}
NothingPending ==
  /\ \A r \in Runs : ~Storing(r)
  /\ peek = Blank
  /\ \A f \in Refreshers : ref[f].at # "write"
RowIs(key, count) ==
  /\ \A r \in Runs : Storing(r) => pull[r].key = key /\ pull[r].count = count
  /\ \A r \in Runs : pull[r].at = "reset" => count = 0
  /\ peek # Blank => peek = key /\ count = 0
  /\ \A f \in Refreshers : ref[f].at = "write" => ref[f].key = key /\ count = 0
  /\ NothingPending => row.key = key /\ row.count = count

\* A job holds a unit that has been granted and is neither counted nor given back.
Owed ==
  /\ Limited /\ st.limit > 0 /\ st.key # Blank
  /\ \E r \in Runs : Sending(r) \/ (pull[r].at = "reset" /\ pull[r].held = 1)

\* Somebody has applied rules and not yet taken the slot of the row over.
Syncing ==
  \/ \E r \in Runs : pull[r].at \in {"latest", "sync"}
  \/ \E f \in Refreshers : ref[f].at = "sync" \/ (ref[f].at = "compute" /\ ref[f].wiped)

\* A refresh works with a time that has been.
ClockInv ==
  /\ now.day >= 1
  /\ \A f \in Refreshers : Reading(f) => ref[f].now.day >= 1 /\ ~Before(now, ref[f].now)

\* A live run is that of a task that runs; it and nobody else has a poller.
LiveInv ==
  /\ live # NoRun => row.wanted /\ pull[live].at # "off"
  /\ peek # Blank => live # NoRun

\* What holds while nobody has got in another's way.  Only the live run works.
ActiveIsLive == \A r \in Runs : Busy(r) \/ Sending(r) => r = live

\* An entry is not forgotten under a run that has registered.
ForgetsIdle ==
  \A f \in Refreshers : ref[f].at = "apply" /\ ~ref[f].row.wanted
    => live = NoRun \/ pull[live].at \in {"off", "clone"}

\* Copies of the row are up to date.
Copies ==
  /\ \A f \in Refreshers : ref[f].at \in {"apply", "sync"}
       => ref[f].row.key = row.key /\ ref[f].row.count = row.count
  /\ \A r \in Runs : pull[r].at = "sync" /\ pull[r].key = Blank => row.key = Blank

WipedBlank ==
  \A f \in Refreshers : ref[f].at = "compute" /\ ref[f].wiped => st.key = Blank

\* No key names a slot that is still to come.
KeysSeen ==
  /\ Seen(st.key) /\ Seen(row.key) /\ Seen(peek)
  /\ \A r \in Runs : Seen(pull[r].key)
  /\ \A f \in Refreshers : Seen(ref[f].key) /\ Seen(ref[f].row.key)

\* The key is that of the slot the state is in.
SlotFits ==
  st.ends # Never =>
    /\ st.idx \in DOMAIN st.rules
    /\ \E t \in Time : /\ t.day >= 1 /\ Contains(st.rules[st.idx], t)
                       /\ EndTime(st.rules[st.idx], t) = st.ends
                       /\ SlotKey(st.rules[st.idx], t) = st.key

\* The row follows the state in memory.
RowFollows ==
  /\ st.key # Blank => RowIs(st.key, st.used)
  /\ st.known /\ st.key = Blank /\ ~Syncing => \E c \in Nat : RowIs(Blank, c)

\* The slot that is followed is over, or the row counts its units but for the
\* one a job still holds.
UnitsCounted ==
  \/ Past(tally.key)
  \/ \E c \in Nat : RowIs(tally.key, c) /\ tally.n <= (IF Owed THEN c + 1 ELSE c)
TallyInv ==
  /\ tally.earlier <= tally.allowed
  /\ tally.n > 0 =>
       /\ tally.key # Blank
       /\ tally.n <= tally.limit
       /\ Apart(st.rules, tally.key)
       /\ Seen(tally.key)
       /\ UnitsCounted
       /\ \A f \in Refreshers : ref[f].at = "compute" => ~ref[f].wiped

CalmInv ==
  /\ TakingTurns /\ ActiveIsLive /\ ForgetsIdle /\ Copies /\ WipedBlank
  /\ KeysSeen /\ SlotFits /\ RowFollows /\ TallyInv

QuotaInv ==
  /\ IInv /\ ClockInv /\ LiveInv
  /\ calm => CalmInv
  /\ ~calm => tally = NoTally


-----------------------------------------------------------------------------
(* Times and slots *)

\* A slot that has begun, or is over, stays so.
LEMMA LaterStill ==
  ASSUME NEW key \in Key, NEW t \in Time, NEW u \in Time, ~Before(u, t)
  PROVE  /\ Begun(key, t) => Begun(key, u)
         /\ Over(key, t) => Over(key, u)
<1> USE DayLenAssumption DEF Key, Time, Minute, At, Midnight, Before
<1>1. Begun(key, t) => Begun(key, u)
  BY DEF Begun, SlotBegin
<1>2. Over(key, t) => Over(key, u)
  BY DEF Over, SlotEnd
<1> QED
  BY <1>1, <1>2

\* The key of an open slot names a slot that has begun and is not over.
LEMMA OpenSlotsKey ==
  ASSUME NEW rules \in Seq(Rule), NEW t \in Time, NEW i \in ActiveSlots(t, rules)
  PROVE  LET key == SlotKey(rules[i], t)
         IN /\ key \in Key
            /\ Begun(key, t) /\ ~Over(key, t) /\ InSlotOf(key, t)
            /\ t.day >= 1 => key # Blank
<1> DEFINE r == rules[i]
           key == SlotKey(r, t)
<1>1. r \in Rule /\ Contains(r, t)
  BY DEF ActiveSlots
<1>2. InSlot(r, key.day, t) /\ key \in Key
  BY <1>1, KeyNamesTheSlot, SlotKeyTyped
<1>3. /\ SlotBegin(key, key.day) = SlotBegin(r, key.day)
      /\ SlotEnd(key, key.day) = SlotEnd(r, key.day)
  BY <1>1 DEF SlotBegin, SlotEnd, SlotKey, AllDay, CrossMidnight
<1>4. t.day >= 1 => key # Blank
  BY <1>1, DayLenAssumption DEF Blank, SlotKey, Time
<1> HIDE DEF key, r
<1>5. Begun(key, t) /\ ~Over(key, t) /\ InSlotOf(key, t)
  BY <1>2, <1>3 DEF Begun, Over, InSlotOf, InSlot
<1> QED
  BY <1>2, <1>4, <1>5 DEF key, r

\* Where another slot is open, one that no other overlaps is over.
LEMMA LeftIsOver ==
  ASSUME NEW rules \in Seq(Rule), NEW t \in Time, NEW i \in ActiveSlots(t, rules),
         NEW key \in Key, key # Blank, Begun(key, t), Apart(rules, key),
         SlotKey(rules[i], t) # key
  PROVE  Over(key, t)
<1> SUFFICES ASSUME ~Over(key, t)
             PROVE  FALSE
  OBVIOUS
<1>1. InSlotOf(key, t)
  BY DEF Begun, Over, InSlotOf, InSlot
<1>2. t.day \in {key.day, key.day + 1}
  BY <1>1, DayLenAssumption
     DEF InSlotOf, InSlot, SlotBegin, SlotEnd, Before, Key, Time, Minute, At, Midnight
<1>3. t = At(t.day, t.min) /\ t.min \in Minute
  BY DEF Time, At
<1>4. i \in DOMAIN rules /\ rules[i].limit > 0 /\ Contains(rules[i], t)
  BY DEF ActiveSlots
<1> QED
  BY <1>1, <1>2, <1>3, <1>4, Zenon DEF Apart

\* Two times a rule contains with the same end have the same key.
LEMMA SameEndSameKey ==
  ASSUME NEW r \in Rule, NEW t \in Time, NEW u \in Time, Contains(r, t), Contains(r, u),
         EndTime(r, t) = EndTime(r, u)
  PROVE  SlotKey(r, t) = SlotKey(r, u)
BY KeyAndEndAgree

-----------------------------------------------------------------------------
(* The row and what is pending *)

\* There is one answer to what the row will hold.
LEMMA RowIsOne ==
  ASSUME NEW k1, NEW c1, NEW k2, NEW c2, RowIs(k1, c1), RowIs(k2, c2)
  PROVE  k1 = k2 /\ c1 = c2
<1>1. CASE NothingPending
  BY <1>1 DEF RowIs
<1>2. CASE \E r \in Runs : Storing(r)
  BY <1>2 DEF RowIs
<1>3. CASE peek # Blank
  BY <1>3 DEF RowIs
<1>4. CASE \E f \in Refreshers : ref[f].at = "write"
  BY <1>4 DEF RowIs
<1> QED
  BY <1>1, <1>2, <1>3, <1>4 DEF NothingPending

\* What a step does not touch.
LEMMA RowStays ==
  ASSUME \A r \in Runs : (Storing(r) <=> Storing(r)')
                         /\ (Storing(r) => pull'[r] = pull[r]),
         peek' = peek,
         \A f \in Refreshers : (ref[f].at = "write" <=> ref'[f].at = "write")
                               /\ (ref[f].at = "write" => ref'[f].key = ref[f].key),
         row'.key = row.key, row'.count = row.count,
         NEW k, NEW c
  PROVE  RowIs(k, c)' <=> RowIs(k, c)
<1>1. \A r \in Runs : pull'[r].at = "reset" <=> pull[r].at = "reset"
  BY DEF Storing
<1>2. \A r \in Runs : (Storing(r)' => pull'[r].key = k /\ pull'[r].count = c)
                    <=> (Storing(r) => pull[r].key = k /\ pull[r].count = c)
  OBVIOUS
<1>3. \A f \in Refreshers : (ref'[f].at = "write" => ref'[f].key = k /\ c = 0)
                          <=> (ref[f].at = "write" => ref[f].key = k /\ c = 0)
  OBVIOUS
<1>4. NothingPending' <=> NothingPending
  BY DEF NothingPending
<1> QED
  BY <1>1, <1>2, <1>3, <1>4 DEF RowIs

\* While runs, poller and refreshes take turns, one statement is under way.
LEMMA OnePending ==
  ASSUME TakingTurns
  PROVE  /\ \A r \in Runs : Busy(r) =>
              /\ \A q \in Runs : Storing(q) => q = r
              /\ peek = Blank
              /\ \A f \in Refreshers : ~Refreshing(f) /\ ~Reading(f) /\ ref[f].at # "write"
         /\ peek # Blank =>
              /\ \A q \in Runs : ~Busy(q) /\ ~Storing(q)
              /\ \A f \in Refreshers : ~Refreshing(f) /\ ~Reading(f) /\ ref[f].at # "write"
         /\ \A f \in Refreshers : Refreshing(f) =>
              /\ \A q \in Runs : ~Busy(q) /\ ~Storing(q)
              /\ peek = Blank
              /\ \A g \in Refreshers : g # f => ~Refreshing(g) /\ ~Reading(g) /\ ref[g].at # "write"
BY DEF TakingTurns, Busy, Storing, Refreshing, Reading

-----------------------------------------------------------------------------
(* What the steps of runs and refreshes leave alone *)

\* A step of a run touches what that run is doing and no other, no refresh, no clock.
LEMMA RunFrame ==
  ASSUME IInv, NEW r \in Runs, RunStep(r) \/ StartRun(r)
  PROVE  /\ Tracked /\ now' = now /\ strat' = strat /\ ref' = ref
         /\ \A q \in Runs : q # r => pull'[q] = pull[q]
         /\ pull[r] \in PullState /\ pull'[r] \in PullState
<1>1. pull[r] \in PullState /\ pull'[r] \in PullState /\ row \in Row
  BY RunStepInv DEF IInv, TypeOK
<1>2. \A q \in Runs : q # r => pull'[q] = pull[q]
  BY DEF IInv, TypeOK, RunStep, StartRun, LoadRules, LoadRulesFails, SetRules, LoadLatest,
         SyncRun, ReserveUnlimited,
         ReservePull, ResetRow, CommitPull, PersistCount, ReleasePull, RunReturns, Steps
<1>3. Tracked /\ now' = now /\ strat' = strat /\ ref' = ref
  BY DEF Tracked, RunWrites, Writes, RunStep, StartRun, LoadRules, LoadRulesFails, SetRules,
         LoadLatest, SyncRun, ReserveUnlimited,
         ReservePull, ResetRow, CommitPull, PersistCount, ReleasePull, RunReturns
<1> QED
  BY <1>1, <1>2, <1>3

\* A run that is not being started leaves its context and its poller alone, and
\* of the row it writes the slot.
LEMMA RunStepFrame ==
  ASSUME IInv, NEW r \in Runs, RunStep(r)
  PROVE  live' = live /\ peek' = peek /\ row'.wanted = row.wanted
<1>1. live' = live /\ peek' = peek
  BY DEF RunStep, LoadRules, LoadRulesFails, SetRules, LoadLatest, SyncRun, ReserveUnlimited,
         ReservePull, ResetRow, CommitPull, PersistCount, ReleasePull, RunReturns
<1>2. CASE ResetRow(r) \/ PersistCount(r)
  <2>1. row \in Row
    BY DEF IInv, TypeOK
  <2>2. \A k, c : [row EXCEPT !.key = k, !.count = c].wanted = row.wanted
    BY <2>1 DEF Row
  <2>3. PICK k, c : RunWrites(r, k, c)
    BY <1>2 DEF ResetRow, PersistCount
  <2> QED
    BY <1>1, <2>2, <2>3 DEF RunWrites, Writes
<1>3. CASE row' = row
  BY <1>1, <1>3
<1>4. ResetRow(r) \/ PersistCount(r) \/ row' = row
  BY DEF RunStep, LoadRules, LoadRulesFails, SetRules, LoadLatest, SyncRun, ReserveUnlimited,
         ReservePull, CommitPull, ReleasePull, RunReturns
<1> QED
  BY <1>2, <1>3, <1>4

\* Where the steps of a run lead from and to.
LEMMA RunAtSteps ==
  ASSUME IInv, NEW r \in Runs
  PROVE  /\ StartRun(r) => pull[r].at = "off" /\ pull'[r].at = "clone"
         /\ LoadRules(r) => live = r /\ pull[r].at = "clone" /\ pull'[r].at = "apply"
         /\ LoadRulesFails(r) => pull[r].at = "clone" /\ pull'[r].at = "idle"
         /\ SetRules(r) => pull[r].at = "apply" /\ pull'[r].at \in {"latest", "sync"}
         /\ LoadLatest(r) => pull[r].at = "latest" /\ pull'[r].at = "sync"
         /\ SyncRun(r) => pull[r].at = "sync" /\ pull'[r].at = "idle"
         /\ ReserveUnlimited(r) => live = r /\ pull[r].at = "idle" /\ pull'[r].at = "send"
         /\ ReservePull(r) => live = r /\ pull[r].at = "idle" /\ pull'[r].at \in {"reset", "send", "idle"}
         /\ ResetRow(r) => pull[r].at = "reset" /\ pull'[r].at \in {"send", "idle"}
         /\ CommitPull(r) => pull[r].at = "send" /\ pull'[r].at \in {"persist", "idle"}
         /\ PersistCount(r) => pull[r].at = "persist" /\ pull'[r].at = "idle"
         /\ ReleasePull(r) => pull[r].at = "send" /\ pull'[r].at = "idle"
         /\ RunReturns(r) => live # r /\ pull[r].at \in {"clone", "idle"} /\ pull'[r].at = "off"
<1> USE DEF Off, Cancelled, IInv, TypeOK, PullState
<1>1. StartRun(r) => pull[r].at = "off" /\ pull'[r].at = "clone"
  BY DEF StartRun
<1>2. LoadRules(r) => live = r /\ pull[r].at = "clone" /\ pull'[r].at = "apply"
  BY DEF LoadRules
<1>13. LoadRulesFails(r) => pull[r].at = "clone" /\ pull'[r].at = "idle"
  BY DEF LoadRulesFails
<1>3. SetRules(r) => pull[r].at = "apply" /\ pull'[r].at \in {"latest", "sync"}
  BY DEF SetRules
<1>4. LoadLatest(r) => pull[r].at = "latest" /\ pull'[r].at = "sync"
  BY DEF LoadLatest, Steps
<1>5. SyncRun(r) => pull[r].at = "sync" /\ pull'[r].at = "idle"
  BY DEF SyncRun
<1>6. ReserveUnlimited(r) => live = r /\ pull[r].at = "idle" /\ pull'[r].at = "send"
  BY DEF ReserveUnlimited
<1>7. ReservePull(r) => live = r /\ pull[r].at = "idle" /\ pull'[r].at \in {"reset", "send", "idle"}
  BY DEF ReservePull
<1>8. ResetRow(r) => pull[r].at = "reset" /\ pull'[r].at \in {"send", "idle"}
  BY DEF ResetRow
<1>9. CommitPull(r) => pull[r].at = "send" /\ pull'[r].at \in {"persist", "idle"}
  <2>1. CommitPull(r) => /\ pull[r].at = "send"
                         /\ \/ pull' = [pull EXCEPT ![r] = [Off EXCEPT !.at = "persist", !.key = st.key,
                                                                       !.count = st.used + 1]]
                            \/ pull' = [pull EXCEPT ![r] = [Off EXCEPT !.at = "idle"]]
    BY DEF CommitPull
  <2> HIDE DEF IInv, PullState, Off
  <2>2. r \in DOMAIN pull
    BY DEF IInv, TypeOK
  <2>3. CommitPull(r) => \/ pull'[r] = [Off EXCEPT !.at = "persist", !.key = st.key, !.count = st.used + 1]
                         \/ pull'[r] = [Off EXCEPT !.at = "idle"]
    BY <2>1, <2>2
  <2> QED
    BY <2>1, <2>3 DEF Off
<1>10. PersistCount(r) => pull[r].at = "persist" /\ pull'[r].at = "idle"
  BY DEF PersistCount
<1>11. ReleasePull(r) => pull[r].at = "send" /\ pull'[r].at = "idle"
  BY DEF ReleasePull
<1>12. RunReturns(r) => live # r /\ pull[r].at \in {"clone", "idle"} /\ pull'[r].at = "off"
  BY DEF RunReturns
<1> QED
  BY <1>1, <1>2, <1>3, <1>4, <1>5, <1>6, <1>7, <1>8, <1>9, <1>10, <1>11, <1>12, <1>13

\* A step of a refresh touches what that refresh is doing and no run.
LEMMA RefreshFrame ==
  ASSUME IInv, NEW f \in Refreshers, Refresh(f)
  PROVE  /\ Tracked /\ now' = now /\ strat' = strat /\ live' = live /\ pull' = pull /\ peek' = peek
         /\ \A g \in Refreshers : g # f => ref'[g] = ref[g]
         /\ ref[f] \in RefreshState /\ ref'[f] \in RefreshState
         /\ row'.wanted = row.wanted
<1>1. ref[f] \in RefreshState /\ ref'[f] \in RefreshState /\ row \in Row
  BY RefreshInv DEF IInv, TypeOK
<1>2. \A g \in Refreshers : g # f => ref'[g] = ref[g]
  BY DEF IInv, TypeOK, Refresh, ReadRow, Forget, ApplyRules, SyncPersistedState, ComputeNextRun,
         WriteReset
<1>3. row'.wanted = row.wanted
  BY <1>1 DEF Refresh, ReadRow, Forget, ApplyRules, SyncPersistedState, ComputeNextRun, WriteReset,
              Writes, Row
<1>4. Tracked /\ now' = now /\ strat' = strat /\ live' = live /\ pull' = pull /\ peek' = peek
  BY DEF Tracked, Writes, Refresh, ReadRow, Forget, ApplyRules, SyncPersistedState,
         ComputeNextRun, WriteReset
<1> QED
  BY <1>1, <1>2, <1>3, <1>4

\* After a calm step everybody has taken turns, before it and after it.
LEMMA CalmStep ==
  ASSUME QuotaInv, Tracked, calm'
  PROVE  Track /\ calm /\ CalmInv /\ TakingTurns' /\ ~CutOff
BY DEF Tracked, Track, TrackFailure, QuotaInv

\* In a calm step nothing fails.
LEMMA NothingFails ==
  ASSUME calm'
  PROVE  /\ \A key, count : Writes(key, count) => row' = [row EXCEPT !.key = key, !.count = count]
         /\ \A key, count : Writes(key, count) /\ row \in Row => row'.key = key /\ row'.count = count
         /\ \A r \in Runs : ~LoadRulesFails(r)
         /\ \A r \in Runs : LoadLatest(r) => live = r /\ pull' = [pull EXCEPT ![r].at = "sync",
                                                 ![r].key = row.key, ![r].count = row.count]
BY DEF TrackFailure, Writes, LoadRulesFails, LoadLatest, Cancelled, Row

\* A step of a refresh changes its place, and no other refresh is about.
LEMMA RefAtSteps ==
  ASSUME IInv, NEW f \in Refreshers, Refresh(f)
  PROVE  /\ Reading(f)' => ref'[f].now = IF Reading(f) THEN ref[f].now ELSE now
         /\ Reading(f)' /\ ~Reading(f) => ReadRow(f)
         /\ (ref'[f].at = "apply" => ReadRow(f))
<1>0. f \in DOMAIN ref
  BY DEF IInv, TypeOK
<1>1. CASE ReadRow(f)
  BY <1>0, <1>1 DEF ReadRow, Reading, Resting
<1>2. CASE Forget(f)
  BY <1>0, <1>2 DEF Forget, Reading, Resting
<1>3. CASE ApplyRules(f)
  BY <1>0, <1>3 DEF ApplyRules, Reading, Resting
<1>4. CASE SyncPersistedState(f)
  BY <1>0, <1>4 DEF SyncPersistedState, Reading, Resting
<1>5. CASE ComputeNextRun(f)
  <2>1. ref'[f].at \in {"write", "idle"}
    BY <1>0, <1>5 DEF ComputeNextRun, Resting
  <2> QED
    BY <2>1 DEF Reading
<1>6. CASE WriteReset(f)
  BY <1>0, <1>6 DEF WriteReset, Reading, Resting
<1> QED
  BY <1>1, <1>2, <1>3, <1>4, <1>5, <1>6 DEF Refresh

\* Time only moves on.
LEMMA NowMovesOn ==
  ASSUME IInv, ClockInv, [Next]_vars
  PROVE  now' \in Time /\ now'.day >= 1 /\ ~Before(now', now)
<1>0. now \in Time /\ now.day >= 1
  BY DEF IInv, TypeOK, ClockInv
<1>1. CASE now' = now
  BY <1>0, <1>1, DayLenAssumption DEF Before, Time, Minute
<1>2. CASE Tick
  BY <1>0, <1>2, DayLenAssumption DEF Tick, Before, Time, Minute, Midnight, At
<1>3. now' = now \/ Tick
  <2>1. ASSUME NEW r \in Runs, RunStep(r) \/ StartRun(r)
        PROVE  now' = now
    BY <2>1, RunFrame
  <2>2. ASSUME NEW f \in Refreshers, Refresh(f)
        PROVE  now' = now
    BY <2>2, RefreshFrame
  <2>3. StopTask \/ PeekPull \/ PeekResets \/ EditRules \/ Restart \/ UNCHANGED vars => now' = now
    BY DEF StopTask, PeekPull, PeekResets, EditRules, Restart, vars
  <2> QED
    BY <2>1, <2>2, <2>3 DEF Next
<1> QED
  BY <1>1, <1>2, <1>3

\* The clock does not run back, and a refresh reads it once.
LEMMA ClockStep ==
  ASSUME IInv, ClockInv, [Next]_vars
  PROVE  ClockInv'
<1>1. now' \in Time /\ now'.day >= 1 /\ ~Before(now', now) /\ now \in Time
  BY NowMovesOn DEF IInv, TypeOK
<1>2. ASSUME NEW f \in Refreshers, ref'[f] = ref[f], Reading(f)'
      PROVE  ref'[f].now.day >= 1 /\ ~Before(now', ref'[f].now)
  <2>1. ref[f].now \in Time /\ ref[f].now.day >= 1 /\ ~Before(now, ref[f].now)
    BY <1>2 DEF IInv, TypeOK, RefreshState, ClockInv, Reading
  <2> QED
    BY <1>1, <1>2, <2>1, DayLenAssumption DEF Before, Time, Minute
<1>3. ASSUME NEW f \in Refreshers, Refresh(f), Reading(f)'
      PROVE  ref'[f].now.day >= 1 /\ ~Before(now', ref'[f].now)
  <2>1. now' = now /\ ref'[f].now = IF Reading(f) THEN ref[f].now ELSE now
    BY <1>3, RefAtSteps, RefreshFrame
  <2>2. ~Before(now, now) /\ now.day >= 1
    BY <1>1, DayLenAssumption DEF Before, Time, Minute, ClockInv
  <2> QED
    BY <2>1, <2>2 DEF ClockInv
<1>4. ASSUME NEW f \in Refreshers, Reading(f)'
      PROVE  ref'[f] = ref[f] \/ Refresh(f)
  <2>1. ASSUME NEW r \in Runs, RunStep(r) \/ StartRun(r)
        PROVE  ref' = ref
    BY <2>1, RunFrame
  <2>2. ASSUME NEW g \in Refreshers, Refresh(g)
        PROVE  ref'[f] = ref[f] \/ Refresh(f)
    BY <2>2, RefreshFrame
  <2>3. StopTask \/ PeekPull \/ PeekResets \/ EditRules \/ Tick \/ UNCHANGED vars => ref' = ref
    BY DEF StopTask, PeekPull, PeekResets, EditRules, Tick, vars
  <2>4. ~Restart
    BY <1>4 DEF Restart, Resting, Reading
  <2> QED
    BY <2>1, <2>2, <2>3, <2>4 DEF Next
<1> QED
  BY <1>1, <1>2, <1>3, <1>4 DEF ClockInv

\* Only StartTask makes a run live, and only a live run polls.
LEMMA LiveStep ==
  ASSUME IInv, LiveInv, [Next]_vars
  PROVE  LiveInv'
<1> USE DEF LiveInv
<1>0. /\ row \in Row /\ NoRun \notin Runs
      /\ pull \in [Runs -> PullState] /\ live \in Runs \cup {NoRun}
  BY SchedulerAssumption DEF IInv, TypeOK
<1>1. ASSUME NEW r \in Runs, StartRun(r)
      PROVE  LiveInv'
  BY <1>0, <1>1 DEF StartRun, Row
<1>2. ASSUME NEW r \in Runs, RunStep(r)
      PROVE  LiveInv'
  <2>1. live' = live /\ peek' = peek /\ row'.wanted = row.wanted
    BY <1>2, RunStepFrame
  <2>3. pull'[r].at # "off" \/ live # r
    BY <1>2, RunAtSteps DEF RunStep
  <2>4. \A q \in Runs : q # r => pull'[q] = pull[q]
    BY <1>2, RunFrame
  <2> QED
    BY <1>0, <2>1, <2>3, <2>4
<1>3. ASSUME NEW f \in Refreshers, Refresh(f)
      PROVE  LiveInv'
  BY <1>3, RefreshFrame
<1>4. CASE StopTask
  BY <1>4 DEF StopTask
<1>5. CASE PeekPull
  BY <1>5 DEF PeekPull
<1>6. CASE PeekResets
  <2>1. row'.wanted = row.wanted
    BY <1>0, <1>6, WrittenTyped DEF PeekResets, IInv, TypeOK
  <2> QED
    BY <1>6, <2>1 DEF PeekResets
<1>7. CASE Restart
  BY <1>7 DEF Restart
<1>8. CASE Tick \/ EditRules \/ UNCHANGED vars
  BY <1>8 DEF Tick, EditRules, vars
<1> QED
  BY <1>1, <1>2, <1>3, <1>4, <1>5, <1>6, <1>7, <1>8 DEF Next

-----------------------------------------------------------------------------
(* What the sections under s.mu do to the slot *)

\* The slot is switched to an open one.
LEMMA SwitchFacts ==
  ASSUME IInv, NEW t \in Time, ActiveSlots(t, st.rules) # {}
  PROVE  LET i == PickActiveSlot(t, st.rules)
             s == SwitchedTo(i, t)
         IN /\ i \in ActiveSlots(t, st.rules) /\ i \in DOMAIN st.rules
            /\ st.rules[i] \in Rule /\ Contains(st.rules[i], t)
            /\ s \in ScheduleState /\ s.known = st.known /\ s.rules = st.rules
            /\ s.idx = i /\ s.ends = EndTime(st.rules[i], t) /\ s.key = SlotKey(st.rules[i], t)
            /\ s.limit > 0
            /\ s.key = st.key => s.used = st.used
            /\ s.key # st.key => s.used = 0
<1> DEFINE i == PickActiveSlot(t, st.rules)
           s == SwitchedTo(i, t)
<1>1. st.rules \in Seq(Rule) /\ st \in ScheduleState
  BY RulesAreSeq DEF IInv, TypeOK, ScheduleState
<1>2. i \in ActiveSlots(t, st.rules)
  BY <1>1, PickedSlotEndsFirst
<1>3. i \in DOMAIN st.rules /\ st.rules[i] \in Rule /\ Contains(st.rules[i], t) /\ st.rules[i].limit > 0
  BY <1>1, <1>2 DEF ActiveSlots
<1>4. s \in ScheduleState /\ s.known = st.known
  BY SwitchedTyped
<1> DEFINE slot == [st EXCEPT !.idx = i, !.ends = EndTime(st.rules[i], t),
                              !.limit = st.rules[i].limit]
           key == SlotKey(st.rules[i], t)
<1>5. s = IF key = st.key THEN slot
          ELSE [slot EXCEPT !.key = key, !.used = 0, !.reserved = 0]
  BY Zenon DEF SwitchedTo
<1> HIDE DEF i, s, key
<1>6. /\ slot.rules = st.rules /\ slot.idx = i /\ slot.ends = EndTime(st.rules[i], t)
      /\ slot.limit = st.rules[i].limit /\ slot.used = st.used /\ slot.key = st.key
      /\ DOMAIN slot = DOMAIN st
  BY <1>1 DEF ScheduleState
<1>7. DOMAIN slot = {"known", "rules", "idx", "ends", "limit", "used", "reserved", "key"}
  BY <1>1, <1>6 DEF ScheduleState
<1> HIDE DEF slot
<1>8. /\ s.rules = st.rules /\ s.idx = i /\ s.ends = EndTime(st.rules[i], t)
      /\ s.limit = st.rules[i].limit /\ s.key = key
      /\ s.key = st.key => s.used = st.used
      /\ s.key # st.key => s.used = 0
  BY <1>5, <1>6, <1>7
<1> QED
  BY <1>2, <1>3, <1>4, <1>8 DEF i, key, s

\* ReservePull in a slot.
LEMMA ReserveFacts ==
  ASSUME IInv, NEW r \in Runs, ReservePull(r)
  PROVE  LET i == PickActiveSlot(now, st.rules)
         IN /\ Limited /\ i \in ActiveSlots(now, st.rules) /\ i \in DOMAIN st.rules
            /\ st.rules[i] \in Rule /\ Contains(st.rules[i], now)
            /\ OpenSlot = SlotKey(st.rules[i], now)
            /\ st'.known /\ st'.rules = st.rules
            /\ IF Elsewhere(i, now)
               THEN /\ st'.idx = i /\ st'.ends = EndTime(st.rules[i], now)
                    /\ st'.key = OpenSlot /\ st'.limit > 0
               ELSE st'.idx = st.idx /\ st'.ends = st.ends /\ st'.key = st.key /\ st'.limit = st.limit
            /\ pull'[r].held \in {0, 1}
            /\ pull'[r].held = 1 => st'.used + 1 <= st'.limit
            /\ st'.key = st.key =>
                 /\ st'.used = st.used /\ pull'[r].key = Blank
                 /\ pull'[r].at = IF pull'[r].held = 1 THEN "send" ELSE "idle"
            /\ st'.key # st.key =>
                 /\ st'.used = 0 /\ pull'[r].at = "reset"
                 /\ pull'[r].key = st'.key /\ pull'[r].count = 0
<1> DEFINE i == PickActiveSlot(now, st.rules)
           s == Entered(i)
           grant == IF Remaining(s) > 0 THEN 1 ELSE 0
<1>0. now \in Time /\ st \in ScheduleState /\ r \in DOMAIN pull
  BY DEF IInv, TypeOK
<1>1. Limited /\ ActiveSlots(now, st.rules) # {}
  BY DEF ReservePull
<1>2. /\ i \in ActiveSlots(now, st.rules) /\ i \in DOMAIN st.rules
      /\ st.rules[i] \in Rule /\ Contains(st.rules[i], now)
  BY <1>0, <1>1, SwitchFacts
<1>3. OpenSlot = SlotKey(st.rules[i], now)
  BY <1>1 DEF OpenSlot
<1>4. /\ s \in ScheduleState /\ s.known /\ s.rules = st.rules
      /\ IF Elsewhere(i, now)
         THEN s.idx = i /\ s.ends = EndTime(st.rules[i], now) /\ s.key = OpenSlot /\ s.limit > 0
         ELSE s.idx = st.idx /\ s.ends = st.ends /\ s.key = st.key /\ s.limit = st.limit
      /\ s.key = st.key => s.used = st.used
      /\ s.key # st.key => s.used = 0
  <2>1. CASE Elsewhere(i, now)
    <3>1. s = SwitchedTo(i, now) /\ st.known
      BY <1>1, <2>1 DEF Entered, Limited
    <3> DEFINE w == SwitchedTo(i, now)
    <3>2. /\ w \in ScheduleState /\ w.known = st.known /\ w.rules = st.rules
          /\ w.idx = i /\ w.ends = EndTime(st.rules[i], now)
          /\ w.key = SlotKey(st.rules[i], now) /\ w.limit > 0
          /\ w.key = st.key => w.used = st.used
          /\ w.key # st.key => w.used = 0
      BY <1>0, <1>1, SwitchFacts
    <3> HIDE DEF i, s, w
    <3> QED
      BY <1>3, <2>1, <3>1, <3>2 DEF w
  <2>2. CASE ~Elsewhere(i, now)
    BY <1>0, <1>1, <2>2 DEF Entered, Limited
  <2> QED
    BY <2>1, <2>2
<1>5. /\ st' = [s EXCEPT !.reserved = @ + grant]
      /\ pull' = [pull EXCEPT ![r] =
           [Off EXCEPT !.held = grant,
                       !.at  = IF s.key # st.key THEN "reset"
                               ELSE IF grant = 1 THEN "send" ELSE "idle",
                       !.key = IF s.key # st.key THEN s.key ELSE Blank]]
  BY Zenon DEF ReservePull
<1>6. grant \in {0, 1} /\ (grant = 1 => s.used + 1 <= s.limit)
  BY <1>4 DEF Remaining, ScheduleState
<1> HIDE DEF i, s, grant
<1>7. /\ st'.known = s.known /\ st'.rules = s.rules /\ st'.idx = s.idx /\ st'.ends = s.ends
      /\ st'.key = s.key /\ st'.limit = s.limit /\ st'.used = s.used
  BY <1>4, <1>5 DEF ScheduleState
<1>8. /\ pull'[r].held = grant /\ pull'[r].count = 0
      /\ pull'[r].key = IF s.key # st.key THEN s.key ELSE Blank
      /\ pull'[r].at = IF s.key # st.key THEN "reset" ELSE IF grant = 1 THEN "send" ELSE "idle"
  BY <1>0, <1>5 DEF Off
<1> QED
  BY <1>1, <1>2, <1>3, <1>4, <1>6, <1>7, <1>8 DEF i

\* PeekPull when it switches the slot.
LEMMA PeekFacts ==
  ASSUME IInv, PeekPull
  PROVE  LET i == PickActiveSlot(now, st.rules)
         IN /\ Limited /\ i \in ActiveSlots(now, st.rules) /\ i \in DOMAIN st.rules
            /\ st.rules[i] \in Rule /\ Contains(st.rules[i], now)
            /\ st'.known /\ st'.rules = st.rules
            /\ st'.idx = i /\ st'.ends = EndTime(st.rules[i], now)
            /\ st'.key = SlotKey(st.rules[i], now) /\ st'.limit > 0
            /\ peek = Blank
            /\ st'.key = st.key => st'.used = st.used /\ peek' = Blank
            /\ st'.key # st.key => st'.used = 0 /\ peek' = st'.key
<1> DEFINE i == PickActiveSlot(now, st.rules)
<1>1. now \in Time /\ ActiveSlots(now, st.rules) # {} /\ Limited
  BY DEF IInv, TypeOK, PeekPull
<1>2. /\ peek = Blank /\ st' = SwitchedTo(i, now)
      /\ peek' = IF st'.key # st.key THEN st'.key ELSE Blank
  BY DEF PeekPull, Entered
<1> HIDE DEF i
<1>3. st.known
  BY <1>1 DEF Limited
<1> QED
  BY <1>1, <1>2, <1>3, SwitchFacts DEF i

\* computeNextRun, which switches the slot or leaves the state as it is.
LEMMA ComputeFacts ==
  ASSUME IInv, NEW f \in Refreshers, ComputeNextRun(f)
  PROVE  LET t == ref[f].now
             i == PickActiveSlot(t, st.rules)
         IN /\ ref[f].at = "compute" /\ t \in Time
            /\ \/ st' = st
               \/ /\ Limited /\ i \in ActiveSlots(t, st.rules) /\ i \in DOMAIN st.rules
                  /\ st.rules[i] \in Rule /\ Contains(st.rules[i], t)
                  /\ st'.known /\ st'.rules = st.rules
                  /\ st'.idx = i /\ st'.ends = EndTime(st.rules[i], t)
                  /\ st'.key = SlotKey(st.rules[i], t) /\ st'.limit > 0
            /\ st'.key = st.key => /\ st'.used = st.used
                                   /\ ref'[f].at = (IF ref[f].wiped THEN "write" ELSE "idle")
                                   /\ ref'[f].key = Blank
            /\ st'.key # st.key => st'.used = 0 /\ (st'.key # Blank => ref'[f].at = "write") /\ ref'[f].key = st'.key
            /\ ref'[f].row.key = Blank /\ ref'[f].at \in {"write", "idle"}
<1> DEFINE t == ref[f].now
           i == PickActiveSlot(t, st.rules)
           switch == /\ Limited /\ ActiveSlots(t, st.rules) # {}
                     /\ Elsewhere(i, t) /\ MaySwitch
           s == IF switch THEN SwitchedTo(i, t) ELSE st
           key == IF s.key # st.key THEN s.key ELSE Blank
<1>1. ref[f].at = "compute" /\ t \in Time /\ f \in DOMAIN ref
  BY DEF ComputeNextRun, IInv, TypeOK, RefreshState
<1>2. /\ st' = s
      /\ ref' = [ref EXCEPT ![f] = IF ref[f].wiped \/ key # Blank
                                   THEN [Resting EXCEPT !.at = "write", !.key = key]
                                   ELSE Resting]
  BY Zenon DEF ComputeNextRun
<1>3. /\ \/ s = st
         \/ /\ Limited /\ i \in ActiveSlots(t, st.rules) /\ i \in DOMAIN st.rules
            /\ st.rules[i] \in Rule /\ Contains(st.rules[i], t)
            /\ s.known /\ s.rules = st.rules
            /\ s.idx = i /\ s.ends = EndTime(st.rules[i], t)
            /\ s.key = SlotKey(st.rules[i], t) /\ s.limit > 0
      /\ s.key = st.key => s.used = st.used
      /\ s.key # st.key => s.used = 0
  <2>1. CASE switch
    BY <1>1, <2>1, SwitchFacts DEF Limited
  <2>2. CASE ~switch
    BY <2>2
  <2> QED
    BY <2>1, <2>2
<1> HIDE DEF t, i, s, key
<1>4. /\ ref'[f].at = IF ref[f].wiped \/ key # Blank THEN "write" ELSE "idle"
      /\ ref'[f].key = key /\ ref'[f].row.key = Blank
  BY <1>1, <1>2 DEF Resting
<1>5. key = IF st'.key # st.key THEN st'.key ELSE Blank
  BY <1>2 DEF key
<1> QED
  BY <1>1, <1>2, <1>3, <1>4, <1>5 DEF i, t

\* What else a run does to the state in memory.
LEMMA JobEndFacts ==
  ASSUME IInv, NEW r \in Runs
  PROVE  /\ CommitPull(r) =>
              \/ /\ st.known /\ st.limit > 0 /\ st.key # Blank
                 /\ st'.known /\ st'.rules = st.rules /\ st'.idx = st.idx /\ st'.ends = st.ends
                 /\ st'.key = st.key /\ st'.limit = st.limit /\ st'.used = st.used + 1
                 /\ pull'[r].at = "persist" /\ pull'[r].key = st.key /\ pull'[r].count = st.used + 1
              \/ /\ ~(st.known /\ st.rules # <<>> /\ st.limit > 0 /\ st.key # Blank)
                 /\ st' = st /\ pull'[r] = [Off EXCEPT !.at = "idle"]
         /\ ReleasePull(r) =>
              /\ st'.known = st.known /\ st'.rules = st.rules /\ st'.idx = st.idx /\ st'.ends = st.ends
              /\ st'.key = st.key /\ st'.limit = st.limit /\ st'.used = st.used
<1>0. st \in ScheduleState /\ r \in DOMAIN pull
  BY DEF IInv, TypeOK
<1>1. ASSUME CommitPull(r), st.known /\ st.rules # <<>> /\ st.limit > 0 /\ st.key # Blank
      PROVE  /\ st' = [st EXCEPT !.reserved = Unreserved(@), !.used = @ + 1]
             /\ pull' = [pull EXCEPT ![r] = [Off EXCEPT !.at = "persist", !.key = st.key,
                                                        !.count = st.used + 1]]
  BY <1>1 DEF CommitPull
<1>2. ASSUME CommitPull(r), ~(st.known /\ st.rules # <<>> /\ st.limit > 0 /\ st.key # Blank)
      PROVE  st' = st /\ pull' = [pull EXCEPT ![r] = [Off EXCEPT !.at = "idle"]]
  BY <1>2 DEF CommitPull
<1>3. ASSUME ReleasePull(r)
      PROVE  st' = st \/ st' = [st EXCEPT !.reserved = Unreserved(@)]
  BY <1>3 DEF ReleasePull
<1>4. ASSUME CommitPull(r)
      PROVE  \/ /\ st.known /\ st.limit > 0 /\ st.key # Blank
                /\ st'.known /\ st'.rules = st.rules /\ st'.idx = st.idx /\ st'.ends = st.ends
                /\ st'.key = st.key /\ st'.limit = st.limit /\ st'.used = st.used + 1
                /\ pull'[r].at = "persist" /\ pull'[r].key = st.key /\ pull'[r].count = st.used + 1
             \/ /\ ~(st.known /\ st.rules # <<>> /\ st.limit > 0 /\ st.key # Blank)
                /\ st' = st /\ pull'[r] = [Off EXCEPT !.at = "idle"]
  <2>1. CASE st.known /\ st.rules # <<>> /\ st.limit > 0 /\ st.key # Blank
    <3>1. pull'[r].at = "persist" /\ pull'[r].key = st.key /\ pull'[r].count = st.used + 1
      <4>1. pull' = [pull EXCEPT ![r] = [Off EXCEPT !.at = "persist", !.key = st.key,
                                                   !.count = st.used + 1]]
        BY <1>1, <1>4, <2>1
      <4> QED
        BY <1>0, <4>1 DEF Off
    <3>2. /\ st'.known = st.known /\ st'.rules = st.rules /\ st'.idx = st.idx /\ st'.ends = st.ends
          /\ st'.key = st.key /\ st'.limit = st.limit /\ st'.used = st.used + 1
      BY <1>0, <1>1, <1>4, <2>1 DEF ScheduleState
    <3> QED
      BY <2>1, <3>1, <3>2
  <2>2. CASE ~(st.known /\ st.rules # <<>> /\ st.limit > 0 /\ st.key # Blank)
    BY <1>0, <1>2, <1>4, <2>2
  <2> QED
    BY <2>1, <2>2
<1>5. ReleasePull(r) =>
        /\ st'.known = st.known /\ st'.rules = st.rules /\ st'.idx = st.idx /\ st'.ends = st.ends
        /\ st'.key = st.key /\ st'.limit = st.limit /\ st'.used = st.used
  BY <1>0, <1>3 DEF ScheduleState
<1> QED
  BY <1>4, <1>5

\* applyRules: changed rules leave nothing of the slot.
LEMMA AppliedFacts ==
  ASSUME NEW rules
  PROVE  \/ Applied(rules) = st /\ st.known /\ rules = st.rules
         \/ /\ ~(st.known /\ rules = st.rules)
            /\ Applied(rules).known /\ Applied(rules).rules = rules
            /\ Applied(rules).key = Blank /\ Applied(rules).ends = Never /\ Applied(rules).limit = 0
BY DEF Applied, NoState

-----------------------------------------------------------------------------
(* One part of the invariant after the other, for a step that leaves it calm *)

\* Every step of the system keeps the history.
LEMMA NextTracks == IInv /\ Next => Tracked
<1>1. ASSUME IInv, NEW r \in Runs, StartRun(r) \/ RunStep(r)
      PROVE  Tracked
  BY <1>1, RunFrame
<1>2. ASSUME IInv, NEW f \in Refreshers, Refresh(f)
      PROVE  Tracked
  BY <1>2, RefreshFrame
<1>3. StopTask \/ PeekPull \/ PeekResets \/ Tick \/ EditRules \/ Restart => Tracked
  BY DEF Tracked, Writes, StopTask, PeekPull, PeekResets, Tick, EditRules, Restart
<1> QED
  BY <1>1, <1>2, <1>3 DEF Next

\* A new context means that nobody is at work.
LEMMA NewContextFinds ==
  ASSUME QuotaInv, calm, ~CutOff
  PROVE  /\ \A r \in Runs : StartRun(r) => live' # live
         /\ live' # live => peek = Blank /\ \A r \in Runs : ~Busy(r) /\ ~Sending(r) /\ ~Storing(r)
         /\ live = NoRun => peek = Blank /\ \A r \in Runs : ~Busy(r) /\ ~Sending(r) /\ ~Storing(r)
<1>1. \A r \in Runs : Storing(r) => Busy(r)
  BY DEF Storing, Busy
<1>2. ASSUME NEW r \in Runs, StartRun(r)
      PROVE  live' # live
  BY <1>2, SchedulerAssumption DEF StartRun, QuotaInv, LiveInv
<1>3. live' # live => peek = Blank /\ \A r \in Runs : ~Busy(r) /\ ~Sending(r)
  BY DEF CutOff
<1>4. live = NoRun => peek = Blank /\ \A r \in Runs : ~Busy(r) /\ ~Sending(r)
  BY SchedulerAssumption DEF QuotaInv, LiveInv, CalmInv, ActiveIsLive
<1> QED
  BY <1>1, <1>2, <1>3, <1>4

\* A run that has been replaced does no work: the new context would have cut it off.
LEMMA ActiveStep ==
  ASSUME QuotaInv, Next, calm'
  PROVE  ActiveIsLive'
<1>0. IInv /\ Track /\ calm /\ CalmInv /\ TakingTurns' /\ ~CutOff /\ ActiveIsLive
  BY NextTracks, CalmStep DEF QuotaInv, CalmInv
<1>1. ASSUME NEW r \in Runs, StartRun(r)
      PROVE  ActiveIsLive'
  <2>1. \A q \in Runs : ~Busy(q) /\ ~Sending(q)
    BY <1>0, <1>1, NewContextFinds
  <2>2. pull'[r].at = "clone"
    BY <1>0, <1>1, RunAtSteps
  <2> QED
    BY <1>0, <1>1, <2>1, <2>2, RunFrame DEF ActiveIsLive, Busy, Sending
<1>2. ASSUME NEW r \in Runs, RunStep(r)
      PROVE  ActiveIsLive'
  <2>1. live' = live
    BY <1>0, <1>2, RunStepFrame
  <2>2. (Busy(r) \/ Sending(r))' => Busy(r) \/ Sending(r) \/ r = live
    BY <1>0, <1>2, RunAtSteps DEF Busy, Sending, RunStep
  <2> QED
    BY <1>0, <1>2, <2>1, <2>2, RunFrame DEF ActiveIsLive, Busy, Sending
<1>3. ASSUME NEW f \in Refreshers, Refresh(f)
      PROVE  ActiveIsLive'
  BY <1>0, <1>3, RefreshFrame DEF ActiveIsLive, Busy, Sending
<1>4. CASE StopTask
  <2>1. \A q \in Runs : ~Busy(q) /\ ~Sending(q)
    BY <1>0, <1>4, NewContextFinds DEF StopTask
  <2> QED
    BY <1>4, <2>1 DEF StopTask, ActiveIsLive, Busy, Sending
<1>5. CASE Restart
  BY <1>5 DEF Restart, ActiveIsLive, Busy, Sending, Off
<1>6. CASE PeekPull \/ PeekResets \/ Tick \/ EditRules
  BY <1>0, <1>6 DEF PeekPull, PeekResets, Tick, EditRules, ActiveIsLive, Busy, Sending
<1> QED
  BY <1>1, <1>2, <1>3, <1>4, <1>5, <1>6 DEF Next

\* A refresh that found the task stopped read its row before a run registered.
LEMMA ForgetsStep ==
  ASSUME QuotaInv, Next, calm'
  PROVE  ForgetsIdle'
<1>0. /\ IInv /\ Track /\ calm /\ CalmInv /\ TakingTurns' /\ ~CutOff /\ ForgetsIdle
      /\ LiveInv /\ live \in Runs \cup {NoRun} /\ NoRun \notin Runs
  BY NextTracks, CalmStep, SchedulerAssumption DEF QuotaInv, CalmInv, IInv, TypeOK
<1>1. ASSUME NEW r \in Runs, StartRun(r)
      PROVE  ForgetsIdle'
  <2>1. pull'[r].at = "clone" /\ live' = r
    BY <1>0, <1>1, RunAtSteps DEF StartRun
  <2> QED
    BY <2>1 DEF ForgetsIdle
<1>2. ASSUME NEW r \in Runs, RunStep(r)
      PROVE  ForgetsIdle'
  <2>1. live' = live /\ ref' = ref /\ \A q \in Runs : q # r => pull'[q] = pull[q]
    BY <1>0, <1>2, RunStepFrame, RunFrame
  <2> SUFFICES ASSUME NEW f \in Refreshers, ref[f].at = "apply", ~ref[f].row.wanted, live # NoRun
               PROVE  pull'[live].at \in {"off", "clone"}
    BY <2>1 DEF ForgetsIdle
  <2>2. pull[live].at \in {"off", "clone"}
    BY <1>0 DEF ForgetsIdle
  <2>3. ~Busy(r)'
    BY <1>0, <2>1 DEF TakingTurns, Refreshing, Busy
  <2>4. CASE live = r
    BY <1>0, <1>2, <2>2, <2>3, <2>4, RunAtSteps, NothingFails DEF RunStep, Busy
  <2>5. CASE live # r
    BY <1>0, <2>1, <2>2, <2>5
  <2> QED
    BY <2>4, <2>5
<1>3. ASSUME NEW f \in Refreshers, Refresh(f)
      PROVE  ForgetsIdle'
  <2>1. live' = live /\ pull' = pull /\ \A g \in Refreshers : g # f => ref'[g] = ref[g]
    BY <1>0, <1>3, RefreshFrame
  <2>2. ref'[f].at = "apply" => ref'[f].row = row
    <3>1. ref'[f].at = "apply" => ReadRow(f)
      BY <1>0, <1>3, RefAtSteps
    <3>2. ReadRow(f) => ref'[f].row = row
      BY <1>0 DEF ReadRow, Resting, IInv, TypeOK
    <3> QED
      BY <3>1, <3>2
  <2>3. ~row.wanted => live = NoRun
    BY <1>0 DEF LiveInv
  <2> QED
    BY <1>0, <2>1, <2>2, <2>3 DEF ForgetsIdle
<1>4. CASE StopTask \/ Restart
  BY <1>4 DEF StopTask, Restart, ForgetsIdle
<1>5. CASE PeekPull \/ PeekResets \/ Tick \/ EditRules
  BY <1>0, <1>5 DEF PeekPull, PeekResets, Tick, EditRules, ForgetsIdle
<1> QED
  BY <1>1, <1>2, <1>3, <1>4, <1>5 DEF Next

\* Who writes the slot of the row.
LEMMA RowWriters ==
  ASSUME IInv, Next
  PROVE  \/ row'.key = row.key /\ row'.count = row.count
         \/ \E r \in Runs : ResetRow(r) \/ PersistCount(r)
         \/ PeekResets
         \/ \E f \in Refreshers : WriteReset(f)
<1>0. row \in Row
  BY DEF IInv, TypeOK
<1>1. StopTask \/ (\E r \in Runs : StartRun(r)) => row'.key = row.key /\ row'.count = row.count
  BY <1>0 DEF StopTask, StartRun, Row
<1>2. ASSUME NEW r \in Runs, RunStep(r)
      PROVE  row' = row \/ ResetRow(r) \/ PersistCount(r)
  BY <1>2 DEF RunStep, LoadRules, LoadRulesFails, SetRules, LoadLatest, SyncRun, ReserveUnlimited,
         ReservePull, CommitPull, ReleasePull, RunReturns
<1>3. ASSUME NEW f \in Refreshers, Refresh(f)
      PROVE  row' = row \/ WriteReset(f)
  BY <1>3 DEF Refresh, ReadRow, Forget, ApplyRules, SyncPersistedState, ComputeNextRun
<1>4. PeekPull \/ Tick \/ EditRules \/ Restart => row' = row
  BY DEF PeekPull, Tick, EditRules, Restart
<1> QED
  BY <1>1, <1>2, <1>3, <1>4 DEF Next

\* The row is written by one of them at a time, and so no copy goes stale.
LEMMA CopiesStep ==
  ASSUME QuotaInv, Next, calm'
  PROVE  Copies'
<1>0. /\ IInv /\ Track /\ calm /\ CalmInv /\ TakingTurns /\ TakingTurns' /\ ~CutOff /\ Copies /\ ActiveIsLive
  BY NextTracks, CalmStep DEF QuotaInv, CalmInv
<1>1. ASSUME NEW f \in Refreshers, Refreshing(f), ~WriteReset(f)
      PROVE  row'.key = row.key /\ row'.count = row.count
  <2>1. \A r \in Runs : ~ResetRow(r) /\ ~PersistCount(r)
    BY <1>0, <1>1, OnePending, RunAtSteps DEF Busy
  <2>2. ~PeekResets
    BY <1>0, <1>1, OnePending DEF PeekResets
  <2>3. \A g \in Refreshers : ~WriteReset(g)
    BY <1>0, <1>1, OnePending DEF WriteReset
  <2> QED
    BY <1>0, <2>1, <2>2, <2>3, RowWriters
<1>2. ASSUME NEW f \in Refreshers, ref'[f].at \in {"apply", "sync"}
      PROVE  ref'[f].row.key = row'.key /\ ref'[f].row.count = row'.count
  <2>1. CASE ref'[f] = ref[f]
    <3>1. Refreshing(f)
      BY <1>2, <2>1 DEF Refreshing
    <3>2. ~WriteReset(f)
      BY <1>2, <2>1 DEF WriteReset
    <3> QED
      BY <1>0, <1>1, <1>2, <2>1, <3>1, <3>2 DEF Copies
  <2>2. CASE Refresh(f)
    <3>0. f \in DOMAIN ref /\ ref[f] \in RefreshState
      BY <1>0 DEF IInv, TypeOK
    <3>1. CASE ReadRow(f)
      BY <3>0, <3>1 DEF ReadRow, Resting
    <3>2. CASE ApplyRules(f)
      <4>1. ref'[f].row = ref[f].row /\ ref[f].at = "apply" /\ row' = row
        BY <1>2, <3>0, <3>2 DEF ApplyRules, Resting, RefreshState
      <4> QED
        BY <1>0, <4>1 DEF Copies
    <3>3. CASE Forget(f) \/ WriteReset(f)
      <4>1. ref'[f] = Resting
        BY <3>0, <3>3 DEF Forget, WriteReset
      <4> QED
        BY <1>2, <4>1 DEF Resting
    <3>4. CASE SyncPersistedState(f)
      <4>1. ref'[f].at = "compute"
        BY <3>0, <3>4 DEF SyncPersistedState, Resting
      <4> QED
        BY <1>2, <4>1
    <3>5. CASE ComputeNextRun(f)
      <4>1. ref'[f].at \in {"write", "idle"}
        BY <1>0, <3>5, ComputeFacts
      <4> QED
        BY <1>2, <4>1
    <3> QED
      BY <2>2, <3>1, <3>2, <3>3, <3>4, <3>5 DEF Refresh
  <2>3. ref'[f] = ref[f] \/ Refresh(f)
    <3>1. ASSUME NEW r \in Runs, RunStep(r) \/ StartRun(r)
          PROVE  ref' = ref
      BY <1>0, <3>1, RunFrame
    <3>2. ASSUME NEW g \in Refreshers, Refresh(g)
          PROVE  ref'[f] = ref[f] \/ Refresh(f)
      BY <1>0, <3>2, RefreshFrame
    <3>3. StopTask \/ PeekPull \/ PeekResets \/ EditRules \/ Tick => ref' = ref
      BY DEF StopTask, PeekPull, PeekResets, EditRules, Tick
    <3>4. ~Restart
      BY <1>2 DEF Restart, Resting
    <3> QED
      BY <3>1, <3>2, <3>3, <3>4 DEF Next
  <2> QED
    BY <2>1, <2>2, <2>3
<1>3. ASSUME NEW r \in Runs, pull[r].at = "sync"
      PROVE  row'.key = row.key
  <2>0. Busy(r)
    BY <1>3 DEF Busy
  <2>1. \A q \in Runs : ~ResetRow(q) /\ ~PersistCount(q)
    BY <1>0, <1>3, <2>0, OnePending, RunAtSteps DEF Storing
  <2>2. ~PeekResets
    BY <1>0, <2>0, OnePending DEF PeekResets
  <2>3. \A g \in Refreshers : ~WriteReset(g)
    BY <1>0, <2>0, OnePending DEF WriteReset
  <2> QED
    BY <1>0, <2>1, <2>2, <2>3, RowWriters
<1>4. ASSUME NEW r \in Runs, pull'[r].at = "sync", pull'[r].key = Blank
      PROVE  row'.key = Blank
  <2>0. r \in DOMAIN pull /\ pull[r] \in PullState
    BY <1>0 DEF IInv, TypeOK
  <2>1. CASE pull'[r] = pull[r]
    BY <1>0, <1>3, <1>4, <2>1 DEF Copies
  <2>2. CASE SetRules(r)
    BY <1>4, <2>0, <2>2 DEF SetRules, PullState
  <2>3. CASE LoadLatest(r)
    <3>1. pull' = [pull EXCEPT ![r].at = "sync", ![r].key = row.key, ![r].count = row.count]
      BY <2>3, NothingFails
    <3>2. row' = row
      BY <2>3 DEF LoadLatest
    <3> QED
      BY <1>4, <2>0, <3>1, <3>2 DEF PullState
  <2>4. pull'[r] = pull[r] \/ SetRules(r) \/ LoadLatest(r)
    <3>1. ASSUME NEW q \in Runs, StartRun(q) \/ RunStep(q)
          PROVE  pull'[r] = pull[r] \/ SetRules(r) \/ LoadLatest(r)
      <4>1. CASE q # r
        BY <1>0, <3>1, <4>1, RunFrame
      <4>2. CASE q = r
        BY <1>0, <1>4, <3>1, <4>2, RunAtSteps DEF RunStep
      <4> QED
        BY <4>1, <4>2
    <3>2. ASSUME NEW f \in Refreshers, Refresh(f)
          PROVE  pull' = pull
      BY <1>0, <3>2, RefreshFrame
    <3>3. StopTask \/ PeekPull \/ PeekResets \/ EditRules \/ Tick => pull' = pull
      BY DEF StopTask, PeekPull, PeekResets, EditRules, Tick
    <3>4. ~Restart
      BY <1>4 DEF Restart, Off
    <3> QED
      BY <3>1, <3>2, <3>3, <3>4 DEF Next
  <2> QED
    BY <2>1, <2>2, <2>3, <2>4
<1> QED
  BY <1>2, <1>4 DEF Copies

-----------------------------------------------------------------------------
(* Where states and keys come from *)

\* Which step changes the state in memory, and what a run or a refresh is doing.
LEMMA StChanges ==
  ASSUME IInv, Next
  PROVE  \/ st' = st
         \/ \E r \in Runs : SetRules(r) \/ SyncRun(r) \/ ReservePull(r) \/ CommitPull(r) \/ ReleasePull(r)
         \/ PeekPull \/ Restart
         \/ \E f \in Refreshers : Forget(f) \/ ApplyRules(f) \/ SyncPersistedState(f) \/ ComputeNextRun(f)
<1>1. ASSUME NEW r \in Runs, StartRun(r) \/ RunStep(r)
      PROVE  st' = st \/ SetRules(r) \/ SyncRun(r) \/ ReservePull(r) \/ CommitPull(r) \/ ReleasePull(r)
  BY <1>1 DEF RunStep, StartRun, LoadRules, LoadRulesFails, LoadLatest, ReserveUnlimited,
              ResetRow, PersistCount, RunReturns
<1>2. ASSUME NEW f \in Refreshers, Refresh(f)
      PROVE  st' = st \/ Forget(f) \/ ApplyRules(f) \/ SyncPersistedState(f) \/ ComputeNextRun(f)
  BY <1>2 DEF Refresh, ReadRow, WriteReset
<1>3. StopTask \/ PeekResets \/ Tick \/ EditRules => st' = st
  BY DEF StopTask, PeekResets, Tick, EditRules
<1> QED
  BY <1>1, <1>2, <1>3 DEF Next

\* A refresh changes by its own steps and by a restart.
LEMMA RefChanges ==
  ASSUME IInv, Next, NEW f \in Refreshers
  PROVE  ref'[f] = ref[f] \/ Refresh(f) \/ (Restart /\ ref'[f] = Resting)
<1>1. ASSUME NEW r \in Runs, RunStep(r) \/ StartRun(r)
      PROVE  ref' = ref
  BY <1>1, RunFrame
<1>2. ASSUME NEW g \in Refreshers, Refresh(g)
      PROVE  ref'[f] = ref[f] \/ Refresh(f)
  BY <1>2, RefreshFrame
<1>3. StopTask \/ PeekPull \/ PeekResets \/ EditRules \/ Tick => ref' = ref
  BY DEF StopTask, PeekPull, PeekResets, EditRules, Tick
<1>4. Restart => ref'[f] = Resting
  BY DEF Restart
<1> QED
  BY <1>1, <1>2, <1>3, <1>4 DEF Next

\* A run changes by its own steps and by a restart.
LEMMA PullChanges ==
  ASSUME IInv, Next, NEW r \in Runs
  PROVE  pull'[r] = pull[r] \/ StartRun(r) \/ RunStep(r) \/ (Restart /\ pull'[r] = Off)
<1>1. ASSUME NEW q \in Runs, RunStep(q) \/ StartRun(q)
      PROVE  pull'[r] = pull[r] \/ StartRun(r) \/ RunStep(r)
  BY <1>1, RunFrame
<1>2. ASSUME NEW g \in Refreshers, Refresh(g)
      PROVE  pull' = pull
  BY <1>2, RefreshFrame
<1>3. StopTask \/ PeekPull \/ PeekResets \/ EditRules \/ Tick => pull' = pull
  BY DEF StopTask, PeekPull, PeekResets, EditRules, Tick
<1>4. Restart => pull'[r] = Off
  BY DEF Restart
<1> QED
  BY <1>1, <1>2, <1>3, <1>4 DEF Next

\* syncPersistedState, while it is calm, takes over what the row holds, and that
\* is what the state had unless it had nothing.
LEMMA SyncFacts ==
  ASSUME QuotaInv, calm,
         \/ \E r \in Runs : SyncRun(r)
         \/ \E f \in Refreshers : SyncPersistedState(f)
  PROVE  /\ NothingPending
         /\ st'.known = st.known /\ st'.rules = st.rules /\ st'.idx = st.idx
         /\ st'.ends = st.ends /\ st'.limit = st.limit
         /\ st.known => st'.key = row.key
         /\ st.known /\ row.key # Blank => st'.used = row.count
         /\ ~st.known => st' = st
         /\ st.key # Blank => st'.key = st.key
<1>0. /\ IInv /\ TakingTurns /\ Copies /\ RowFollows /\ st \in ScheduleState
      /\ row \in Row /\ (~st.known => st = NoState)
  BY DEF QuotaInv, CalmInv, IInv, TypeOK
<1>1. PICK key \in Key, count \in Nat :
        /\ st' = Synced(key, count) /\ NothingPending
        /\ key = row.key /\ (key # Blank => count = row.count)
  <2>1. ASSUME NEW r \in Runs, SyncRun(r)
        PROVE  \E key \in Key, count \in Nat :
                 /\ st' = Synced(key, count) /\ NothingPending
                 /\ key = row.key /\ (key # Blank => count = row.count)
    <3>1. pull[r].key \in Key /\ pull[r].count \in Nat /\ pull[r].at = "sync"
      BY <1>0, <2>1 DEF IInv, TypeOK, PullState, SyncRun
    <3>2. NothingPending
      BY <1>0, <3>1, OnePending DEF NothingPending, Busy, Storing
    <3>3. pull[r].key = row.key /\ (pull[r].key # Blank => pull[r].count = row.count)
      BY <1>0, <3>1 DEF TakingTurns, Copies
    <3> QED
      BY <2>1, <3>1, <3>2, <3>3 DEF SyncRun
  <2>2. ASSUME NEW f \in Refreshers, SyncPersistedState(f)
        PROVE  \E key \in Key, count \in Nat :
                 /\ st' = Synced(key, count) /\ NothingPending
                 /\ key = row.key /\ (key # Blank => count = row.count)
    <3>1. ref[f].row.key \in Key /\ ref[f].row.count \in Nat /\ ref[f].at = "sync"
      BY <1>0, <2>2 DEF IInv, TypeOK, RefreshState, Row, SyncPersistedState
    <3>2. NothingPending
      BY <1>0, <3>1, OnePending DEF NothingPending, Refreshing
    <3>3. ref[f].row.key = row.key /\ ref[f].row.count = row.count
      BY <1>0, <3>1 DEF Copies
    <3> QED
      BY <2>2, <3>1, <3>2, <3>3 DEF SyncPersistedState
  <2> QED
    BY <2>1, <2>2
<1>2. st.key # Blank => row.key = st.key
  BY <1>0, <1>1 DEF RowFollows, RowIs
<1>3. CASE ~st.known
  BY <1>0, <1>1, <1>3 DEF Synced, NoState
<1>4. CASE st.known
  <2>1. st' = [st EXCEPT !.key = key, !.used = count]
    BY <1>1, <1>2, <1>4 DEF Synced
  <2> QED
    BY <1>0, <1>1, <1>2, <1>4, <2>1 DEF ScheduleState
<1> QED
  BY <1>3, <1>4

\* The refresh that has wiped the slot finds it as it left it.
LEMMA WipedStep ==
  ASSUME QuotaInv, Next, calm'
  PROVE  WipedBlank'
<1>0. /\ IInv /\ calm /\ CalmInv /\ TakingTurns /\ TakingTurns' /\ WipedBlank
      /\ ref \in [Refreshers -> RefreshState]
  BY NextTracks, CalmStep DEF QuotaInv, CalmInv, IInv, TypeOK
<1> SUFFICES ASSUME NEW f \in Refreshers, ref'[f].at = "compute", ref'[f].wiped
             PROVE  st'.key = Blank
  BY DEF WipedBlank
<1>1. CASE Refresh(f)
  <2>1. CASE ApplyRules(f)
    <3>1. Changes(ref[f].rules)
      <4>1. ~Changes(ref[f].rules) => ref'[f].at = "sync"
        BY <1>0, <2>1 DEF ApplyRules, RefreshState
      <4> QED
        BY <4>1
    <3> QED
      BY <2>1, <3>1, AppliedFacts DEF ApplyRules, Changes
  <2>2. CASE SyncPersistedState(f)
    BY <1>0, <2>2 DEF SyncPersistedState, Resting
  <2>3. CASE ComputeNextRun(f)
    BY <1>0, <2>3, ComputeFacts
  <2>4. CASE ReadRow(f)
    BY <1>0, <2>4 DEF ReadRow, Resting
  <2>5. CASE Forget(f) \/ WriteReset(f)
    <3>1. ref'[f] = Resting
      BY <1>0, <2>5 DEF Forget, WriteReset
    <3> QED
      BY <3>1 DEF Resting
  <2> QED
    BY <1>1, <2>1, <2>2, <2>3, <2>4, <2>5 DEF Refresh
<1>2. CASE ~Refresh(f) /\ ref'[f] = ref[f]
  <2>0. Refreshing(f) /\ Refreshing(f)' /\ st.key = Blank
    BY <1>0, <1>2 DEF Refreshing, WipedBlank
  <2>1. ASSUME NEW r \in Runs
        PROVE  ~SetRules(r) /\ ~SyncRun(r) /\ pull'[r].at # "reset"
    BY <1>0, <2>0, OnePending DEF SetRules, SyncRun, Busy, TakingTurns
  <2>2. peek' = Blank
    BY <1>0, <2>0 DEF TakingTurns
  <2>3. ASSUME NEW r \in Runs, ReservePull(r) \/ CommitPull(r) \/ ReleasePull(r)
        PROVE  st'.key = st.key
    BY <1>0, <2>1, <2>3, ReserveFacts, JobEndFacts
  <2>4. PeekPull => st'.key = st.key
    BY <1>0, <2>0, <2>2, PeekFacts
  <2>5. ~Restart
    BY <2>0 DEF Restart, Refreshing, Resting
  <2>6. ASSUME NEW g \in Refreshers
        PROVE  ~Forget(g) /\ ~ApplyRules(g) /\ ~SyncPersistedState(g) /\ ~ComputeNextRun(g)
    <3>1. g # f => ~Refreshing(g)
      BY <1>0, <2>0 DEF TakingTurns
    <3> QED
      BY <1>2, <3>1 DEF Refresh, Refreshing, Forget, ApplyRules, SyncPersistedState, ComputeNextRun
  <2> QED
    BY <1>0, <2>0, <2>1, <2>3, <2>4, <2>5, <2>6, StChanges
<1> QED
  BY <1>0, <1>1, <1>2, RefChanges DEF Resting

\* A slot that has begun, or is over, for all that may switch after the step.
SeenNext(key) == Begun(key, now') /\ \A f \in Refreshers : Reading(f)' => Begun(key, ref'[f].now)
PastNext(key) == Over(key, now') /\ \A f \in Refreshers : Reading(f)' => Over(key, ref'[f].now)

\* What has been seen stays seen, and a slot that is over stays over.
LEMMA SeenStays ==
  ASSUME IInv, ClockInv, Next, NEW key \in Key
  PROVE  /\ Seen(key) => SeenNext(key)
         /\ Past(key) => PastNext(key)
<1>1. now \in Time /\ now' \in Time /\ ~Before(now', now)
  BY NowMovesOn DEF IInv, TypeOK
<1>2. (Begun(key, now) => Begun(key, now')) /\ (Over(key, now) => Over(key, now'))
  BY <1>1, LaterStill
<1>3. ASSUME NEW f \in Refreshers, Reading(f)'
      PROVE  (Reading(f) /\ ref'[f].now = ref[f].now) \/ ref'[f].now = now
  <2>1. CASE ref'[f] = ref[f]
    BY <1>3, <2>1 DEF Reading
  <2>2. CASE Refresh(f)
    BY <1>3, <2>2, RefAtSteps
  <2> QED
    BY <1>3, <2>1, <2>2, RefChanges DEF Reading, Resting
<1> QED
  BY <1>2, <1>3 DEF Seen, Past, SeenNext, PastNext

\* The slot that is open has been seen, unless some refresh still has an old time.
LEMMA OpenIsSeen ==
  ASSUME NEW rules \in Seq(Rule), NEW t \in Time, NEW i \in ActiveSlots(t, rules),
         now' \in Time, ~Before(now', t), \A f \in Refreshers : ~Reading(f)'
  PROVE  SlotKey(rules[i], t) \in Key /\ SeenNext(SlotKey(rules[i], t))
<1> DEFINE key == SlotKey(rules[i], t)
<1>1. key \in Key /\ Begun(key, t)
  BY OpenSlotsKey
<1> HIDE DEF key
<1>2. Begun(key, now')
  BY <1>1, LaterStill
<1> QED
  BY <1>1, <1>2 DEF key, SeenNext

\* A switch of the slot under a refresh that has not yet computed would be in its way.
LEMMA SwitchIsNew ==
  ASSUME QuotaInv, Next, calm', st'.key # st.key,
         \/ PeekPull
         \/ \E r \in Runs : ReservePull(r)
         \/ \E f \in Refreshers : ComputeNextRun(f)
  PROVE  st'.key \in Key /\ SeenNext(st'.key) /\ \A f \in Refreshers : ~Reading(f)'
<1>0. /\ IInv /\ ClockInv /\ calm /\ TakingTurns /\ TakingTurns' /\ st.rules \in Seq(Rule)
      /\ now \in Time /\ now' \in Time /\ ~Before(now', now)
  BY NextTracks, CalmStep, RulesAreSeq, NowMovesOn DEF QuotaInv, CalmInv, IInv, TypeOK,
                                                       ScheduleState
<1>1. ASSUME NEW f \in Refreshers, Reading(f)'
      PROVE  Refreshing(f)'
  BY <1>1 DEF Reading, Refreshing
<1>2. CASE PeekPull
  <2>1. peek' # Blank
    <3>1. st'.key # Blank /\ peek' = st'.key
      BY <1>0, <1>2, PeekFacts, OpenSlotsKey DEF ClockInv
    <3> QED
      BY <3>1
  <2>2. \A f \in Refreshers : ~Reading(f)'
    BY <1>0, <1>1, <2>1 DEF TakingTurns
  <2> QED
    BY <1>0, <1>2, <2>2, PeekFacts, OpenIsSeen
<1>3. ASSUME NEW r \in Runs, ReservePull(r)
      PROVE  st'.key \in Key /\ SeenNext(st'.key) /\ \A f \in Refreshers : ~Reading(f)'
  <2>1. Busy(r)'
    BY <1>0, <1>3, ReserveFacts DEF Busy
  <2>2. \A f \in Refreshers : ~Reading(f)'
    BY <1>0, <1>1, <2>1 DEF TakingTurns
  <2> QED
    BY <1>0, <1>3, <2>2, ReserveFacts, OpenIsSeen
<1>4. ASSUME NEW f \in Refreshers, ComputeNextRun(f)
      PROVE  st'.key \in Key /\ SeenNext(st'.key) /\ \A g \in Refreshers : ~Reading(g)'
  <2>1. ref[f].at = "compute" /\ ref'[f].at \in {"write", "idle"} /\ ref[f].now \in Time
    BY <1>0, <1>4, ComputeFacts
  <2>2. \A g \in Refreshers : g # f => ref'[g] = ref[g] /\ ~Refreshing(g)
    BY <1>0, <1>4, <2>1, RefreshFrame DEF Refresh, TakingTurns, Refreshing
  <2>3. \A g \in Refreshers : ~Reading(g)'
    BY <2>1, <2>2 DEF Reading, Refreshing
  <2>4. now' = now /\ ~Before(now, ref[f].now)
    BY <1>0, <1>4, <2>1 DEF ComputeNextRun, ClockInv, Reading
  <2> QED
    BY <1>0, <1>4, <2>1, <2>3, <2>4, ComputeFacts, OpenIsSeen
<1> QED
  BY <1>2, <1>3, <1>4

\* Where the keys of a run and of a refresh come from.
LEMMA PullKeyFrom ==
  ASSUME IInv, NEW r \in Runs, StartRun(r) \/ RunStep(r)
  PROVE  pull'[r].key \in {Blank, pull[r].key, row.key, st.key} \/ (ReservePull(r) /\ pull'[r].key = st'.key)
<1>0. r \in DOMAIN pull /\ pull[r] \in PullState
  BY DEF IInv, TypeOK
<1>1. Off.key = Blank /\ [Off EXCEPT !.at = "idle"].key = Blank
  BY DEF Off
<1>2. CASE StartRun(r)
  BY <1>0, <1>2 DEF StartRun, Off
<1>3. CASE LoadRules(r) \/ SetRules(r) \/ ReserveUnlimited(r)
  BY <1>0, <1>3 DEF LoadRules, SetRules, ReserveUnlimited, PullState
<1>4. CASE LoadLatest(r)
  BY <1>0, <1>4 DEF LoadLatest, Steps, PullState
<1>5. CASE SyncRun(r) \/ PersistCount(r) \/ ReleasePull(r)
  BY <1>0, <1>1, <1>5 DEF SyncRun, PersistCount, ReleasePull
<1>6. CASE ReservePull(r)
  BY <1>6, ReserveFacts
<1>7. CASE ResetRow(r)
  BY <1>0, <1>7 DEF ResetRow, PullState
<1>8. CASE CommitPull(r)
  BY <1>1, <1>8, JobEndFacts
<1>9. CASE RunReturns(r) \/ LoadRulesFails(r)
  BY <1>0, <1>1, <1>9 DEF RunReturns, LoadRulesFails
<1> QED
  BY <1>2, <1>3, <1>4, <1>5, <1>6, <1>7, <1>8, <1>9 DEF RunStep

\* The key a refresh writes is that of the switch, the copy it has is of the row.
LEMMA RefKeyFrom ==
  ASSUME IInv, NEW f \in Refreshers, Refresh(f)
  PROVE  /\ ref'[f].key \in {Blank, ref[f].key} \/ (ComputeNextRun(f) /\ ref'[f].key = st'.key)
         /\ ref'[f].row.key \in {Blank, ref[f].row.key, row.key}
<1>0. f \in DOMAIN ref /\ ref[f] \in RefreshState
  BY DEF IInv, TypeOK
<1>1. Resting.key = Blank /\ Resting.row.key = Blank
  BY DEF Resting
<1>2. CASE ReadRow(f)
  BY <1>0, <1>2 DEF ReadRow, Resting
<1>3. CASE Forget(f) \/ WriteReset(f)
  BY <1>0, <1>1, <1>3 DEF Forget, WriteReset
<1>4. CASE ApplyRules(f)
  BY <1>0, <1>4 DEF ApplyRules, Resting, RefreshState
<1>5. CASE SyncPersistedState(f)
  BY <1>0, <1>5 DEF SyncPersistedState, Resting
<1>6. CASE ComputeNextRun(f)
  BY <1>6, ComputeFacts
<1> QED
  BY <1>2, <1>3, <1>4, <1>5, <1>6 DEF Refresh

\* A key comes from another place or from a switch at a time that has been.
LEMMA KeysStep ==
  ASSUME QuotaInv, Next, calm'
  PROVE  KeysSeen'
<1>0. /\ IInv /\ ClockInv /\ calm /\ CalmInv /\ KeysSeen
      /\ st.key \in Key /\ row.key \in Key /\ peek \in Key /\ Blank \in Key
  BY NextTracks, CalmStep, ConstantsTyped DEF QuotaInv, CalmInv, IInv, TypeOK, ScheduleState, Row
<1>1. \A r \in Runs : pull[r].key \in Key
  BY <1>0 DEF IInv, TypeOK, PullState
<1>2. \A f \in Refreshers : ref[f].key \in Key /\ ref[f].row.key \in Key
  BY <1>0 DEF IInv, TypeOK, RefreshState, Row
<1>3. /\ SeenNext(st.key) /\ SeenNext(row.key) /\ SeenNext(peek) /\ SeenNext(Blank)
      /\ \A r \in Runs : SeenNext(pull[r].key)
      /\ \A f \in Refreshers : SeenNext(ref[f].key) /\ SeenNext(ref[f].row.key)
  <2>1. SeenNext(Blank)
    BY DEF SeenNext, Begun
  <2> QED
    BY <1>0, <1>1, <1>2, <2>1, SeenStays DEF KeysSeen
<1>4. SeenNext(st'.key)
  <2>1. CASE \E r \in Runs : SetRules(r)
    BY <1>3, <2>1, AppliedFacts DEF SetRules
  <2>2. CASE \E r \in Runs : SyncRun(r)
    BY <1>0, <1>3, <2>2, SyncFacts
  <2>3. CASE \E r \in Runs : ReservePull(r)
    BY <1>3, <2>3, SwitchIsNew
  <2>4. CASE \E r \in Runs : CommitPull(r) \/ ReleasePull(r)
    BY <1>0, <1>3, <2>4, JobEndFacts
  <2>5. CASE PeekPull
    BY <1>3, <2>5, SwitchIsNew
  <2>6. CASE Restart \/ \E f \in Refreshers : Forget(f)
    BY <1>3, <2>6 DEF Restart, Forget, NoState
  <2>7. CASE \E f \in Refreshers : ApplyRules(f)
    BY <1>3, <2>7, AppliedFacts DEF ApplyRules
  <2>8. CASE \E f \in Refreshers : SyncPersistedState(f)
    BY <1>0, <1>3, <2>8, SyncFacts
  <2>9. CASE \E f \in Refreshers : ComputeNextRun(f)
    BY <1>3, <2>9, SwitchIsNew
  <2> QED
    BY <1>0, <1>3, <2>1, <2>2, <2>3, <2>4, <2>5, <2>6, <2>7, <2>8, <2>9, StChanges
<1>5. SeenNext(row'.key)
  <2>0. row \in Row
    BY <1>0 DEF IInv, TypeOK
  <2>1. ASSUME NEW r \in Runs, ResetRow(r) \/ PersistCount(r)
        PROVE  row'.key = pull[r].key
    BY <2>0, <2>1, NothingFails DEF ResetRow, PersistCount, RunWrites
  <2>2. CASE PeekResets
    BY <1>3, <2>0, <2>2, NothingFails DEF PeekResets
  <2>3. ASSUME NEW f \in Refreshers, WriteReset(f)
        PROVE  row'.key = ref[f].key
    BY <2>0, <2>3, NothingFails DEF WriteReset
  <2> QED
    BY <1>0, <1>3, <2>1, <2>2, <2>3, RowWriters
<1>6. SeenNext(peek')
  <2>1. CASE PeekPull
    BY <1>0, <1>3, <1>4, <2>1, PeekFacts
  <2>2. peek' = peek \/ peek' = Blank \/ PeekPull
    <3>1. ASSUME NEW r \in Runs, StartRun(r) \/ RunStep(r)
          PROVE  peek' = peek \/ peek' = Blank
      BY <1>0, <3>1, RunStepFrame DEF StartRun
    <3>2. ASSUME NEW f \in Refreshers, Refresh(f)
          PROVE  peek' = peek
      BY <1>0, <3>2, RefreshFrame
    <3>3. StopTask \/ PeekResets \/ Tick \/ EditRules \/ Restart => peek' = peek \/ peek' = Blank
      BY DEF StopTask, PeekResets, Tick, EditRules, Restart
    <3> QED
      BY <3>1, <3>2, <3>3 DEF Next
  <2> QED
    BY <1>3, <2>1, <2>2
<1>7. ASSUME NEW r \in Runs
      PROVE  SeenNext(pull'[r].key)
  <2>1. CASE StartRun(r) \/ RunStep(r)
    BY <1>0, <1>3, <1>4, <2>1, PullKeyFrom
  <2> QED
    BY <1>0, <1>3, <2>1, PullChanges DEF Off
<1>8. ASSUME NEW f \in Refreshers
      PROVE  SeenNext(ref'[f].key) /\ SeenNext(ref'[f].row.key)
  <2>1. CASE Refresh(f)
    BY <1>0, <1>3, <1>4, <2>1, RefKeyFrom
  <2> QED
    BY <1>0, <1>3, <2>1, RefChanges DEF Resting
<1> QED
  BY <1>4, <1>5, <1>6, <1>7, <1>8 DEF KeysSeen, Seen, SeenNext

\* The key, the end and the index of a slot are set together.
LEMMA FitsStep ==
  ASSUME QuotaInv, Next, calm'
  PROVE  SlotFits'
<1>0. /\ IInv /\ ClockInv /\ calm /\ CalmInv /\ SlotFits
      /\ now \in Time /\ now.day >= 1 /\ st.rules \in Seq(Rule)
  BY NextTracks, CalmStep, RulesAreSeq DEF QuotaInv, CalmInv, IInv, TypeOK, ScheduleState, ClockInv
<1>1. CASE st'.ends = Never
  BY <1>1 DEF SlotFits
<1>2. CASE st'.rules = st.rules /\ st'.idx = st.idx /\ st'.ends = st.ends /\ st'.key = st.key
  BY <1>0, <1>2 DEF SlotFits
<1>3. ASSUME NEW t \in Time, t.day >= 1, NEW i \in DOMAIN st.rules, Contains(st.rules[i], t),
             st'.rules = st.rules, st'.idx = i, st'.ends = EndTime(st.rules[i], t),
             st'.key = SlotKey(st.rules[i], t)
      PROVE  SlotFits'
  BY <1>3 DEF SlotFits
<1>4. CASE \E r \in Runs : SetRules(r)
  BY <1>1, <1>2, <1>4, AppliedFacts DEF SetRules
<1>5. CASE \E f \in Refreshers : ApplyRules(f)
  BY <1>1, <1>2, <1>5, AppliedFacts DEF ApplyRules
<1>6. CASE (\E r \in Runs : SyncRun(r)) \/ \E f \in Refreshers : SyncPersistedState(f)
  <2>1. st'.rules = st.rules /\ st'.idx = st.idx /\ st'.ends = st.ends /\ (st.key # Blank => st'.key = st.key)
    BY <1>0, <1>6, SyncFacts
  <2>2. st.ends # Never => st.key # Blank
    <3> SUFFICES ASSUME st.ends # Never
                 PROVE  st.key # Blank
      OBVIOUS
    <3>1. PICK t \in Time : /\ t.day >= 1 /\ st.idx \in DOMAIN st.rules /\ Contains(st.rules[st.idx], t)
                            /\ EndTime(st.rules[st.idx], t) = st.ends
                            /\ SlotKey(st.rules[st.idx], t) = st.key
      BY <1>0 DEF SlotFits
    <3>2. st.rules[st.idx] \in Rule
      BY <1>0, <3>1
    <3> QED
      BY <3>1, <3>2, DayLenAssumption DEF SlotKey, Blank, Time
  <2> QED
    BY <1>1, <1>2, <2>1, <2>2
<1>7. CASE \E r \in Runs : ReservePull(r)
  BY <1>0, <1>2, <1>3, <1>7, ReserveFacts
<1>8. CASE \E r \in Runs : CommitPull(r) \/ ReleasePull(r)
  BY <1>0, <1>2, <1>8, JobEndFacts
<1>9. CASE PeekPull
  BY <1>0, <1>3, <1>9, PeekFacts
<1>10. CASE \E f \in Refreshers : ComputeNextRun(f)
  <2>1. PICK f \in Refreshers : ComputeNextRun(f)
    BY <1>10
  <2>2. ref[f].now.day >= 1
    BY <1>0, <2>1, ComputeFacts DEF ClockInv, Reading
  <2>3. \/ st' = st
        \/ \E i \in DOMAIN st.rules :
             /\ Contains(st.rules[i], ref[f].now) /\ ref[f].now \in Time
             /\ st'.rules = st.rules /\ st'.idx = i /\ st'.ends = EndTime(st.rules[i], ref[f].now)
             /\ st'.key = SlotKey(st.rules[i], ref[f].now)
    BY <1>0, <2>1, ComputeFacts
  <2> QED
    BY <1>2, <1>3, <2>2, <2>3
<1>11. CASE Restart \/ \E f \in Refreshers : Forget(f)
  BY <1>1, <1>11 DEF Restart, Forget, NoState
<1> QED
  BY <1>0, <1>2, <1>4, <1>5, <1>6, <1>7, <1>8, <1>9, <1>10, <1>11, StChanges

-----------------------------------------------------------------------------
(* What the row will hold *)

\* Once one statement is all that is under way, the row will hold what it says.
LEMMA RowIsWritten ==
  ASSUME QuotaInv, calm, calm', row \in Row
  PROVE  /\ \A r \in Runs : ResetRow(r) \/ PersistCount(r) =>
              \A k, c : RowIs(k, c) => RowIs(k, c)'
         /\ PeekResets => \A k, c : RowIs(k, c) => RowIs(k, c)'
         /\ \A f \in Refreshers : WriteReset(f) => \A k, c : RowIs(k, c) => RowIs(k, c)'
<1>0. IInv /\ TakingTurns /\ ActiveIsLive
  BY DEF QuotaInv, CalmInv
<1>1. ASSUME NEW k, NEW c, RowIs(k, c), NothingPending', row'.key = k, row'.count = c
      PROVE  RowIs(k, c)'
  BY <1>1 DEF RowIs, NothingPending, Storing
<1>2. ASSUME NEW r \in Runs, ResetRow(r) \/ PersistCount(r), NEW k, NEW c, RowIs(k, c)
      PROVE  RowIs(k, c)'
  <2>1. Busy(r) /\ Storing(r) /\ live = r
    BY <1>0, <1>2 DEF ActiveIsLive, Busy, Storing, ResetRow, PersistCount
  <2>2. pull[r].key = k /\ row'.key = k /\ row'.count = c
    <3>1. \/ RunWrites(r, pull[r].key, 0) /\ pull[r].at = "reset"
          \/ RunWrites(r, pull[r].key, pull[r].count)
      BY <1>2 DEF ResetRow, PersistCount
    <3>2. pull[r].key = k /\ pull[r].count = c /\ (pull[r].at = "reset" => c = 0)
      BY <1>2, <2>1 DEF RowIs
    <3> QED
      BY <3>1, <3>2, NothingFails DEF RunWrites
  <2>3. NothingPending'
    <3>1. ~Storing(r)'
      BY <1>0, <1>2, RunAtSteps DEF Storing
    <3>2. \A q \in Runs : q # r => ~Storing(q) /\ pull'[q] = pull[q]
      BY <1>0, <1>2, <2>1, OnePending, RunFrame DEF RunStep
    <3>3. peek' = Blank /\ \A f \in Refreshers : ref'[f].at # "write"
      BY <1>0, <1>2, <2>1, OnePending, RunFrame, RunStepFrame DEF RunStep
    <3> QED
      BY <3>1, <3>2, <3>3 DEF NothingPending, Storing
  <2> QED
    BY <1>1, <1>2, <2>2, <2>3
<1>3. ASSUME PeekResets, NEW k, NEW c, RowIs(k, c)
      PROVE  RowIs(k, c)'
  <2>1. row'.key = k /\ row'.count = c
    BY <1>3, NothingFails DEF PeekResets, RowIs
  <2>2. NothingPending'
    BY <1>0, <1>3, OnePending DEF PeekResets, NothingPending, Storing
  <2> QED
    BY <1>1, <1>3, <2>1, <2>2
<1>4. ASSUME NEW f \in Refreshers, WriteReset(f), NEW k, NEW c, RowIs(k, c)
      PROVE  RowIs(k, c)'
  <2>1. row'.key = k /\ row'.count = c
    BY <1>4, NothingFails DEF WriteReset, RowIs
  <2>2. Refreshing(f) /\ ref'[f] = Resting
    BY <1>0, <1>4 DEF WriteReset, Refreshing, IInv, TypeOK
  <2>3. NothingPending'
    <3>1. /\ \A q \in Runs : ~Storing(q)
          /\ peek = Blank
          /\ \A g \in Refreshers : g # f => ref[g].at # "write"
      BY <1>0, <2>2, OnePending
    <3>2. pull' = pull /\ peek' = peek /\ \A g \in Refreshers : g # f => ref'[g] = ref[g]
      BY <1>0, <1>4, RefreshFrame DEF Refresh
    <3> QED
      BY <2>2, <3>1, <3>2 DEF NothingPending, Storing, Resting
  <2> QED
    BY <1>1, <1>4, <2>1, <2>3
<1> QED
  BY <1>2, <1>3, <1>4

\* What the row will hold changes with a switch, a commit and a restart only.
LEMMA RowKept ==
  ASSUME QuotaInv, calm',
         \/ \E r \in Runs : (StartRun(r) \/ RunStep(r)) /\ (Storing(r)' => Storing(r))
         \/ StopTask \/ PeekResets \/ Tick \/ EditRules
         \/ PeekPull /\ peek' = Blank
         \/ \E f \in Refreshers : Refresh(f) /\ (ref'[f].at = "write" => ref[f].at = "write")
  PROVE  \A k, c : RowIs(k, c) => RowIs(k, c)'
<1>0. IInv /\ Track /\ calm /\ CalmInv /\ ~CutOff /\ row \in Row /\ pull \in [Runs -> PullState]
  <2>1. Next
    BY DEF Next
  <2> QED
    BY <2>1, NextTracks, CalmStep DEF QuotaInv, IInv, TypeOK
<1>1. ASSUME NEW r \in Runs, StartRun(r) \/ RunStep(r), ~(ResetRow(r) \/ PersistCount(r)),
             Storing(r)' => Storing(r)
      PROVE  \A k, c : RowIs(k, c) => RowIs(k, c)'
  <2>1. ~Storing(r) /\ ~Storing(r)'
    BY <1>0, <1>1, RunAtSteps DEF RunStep, Storing
  <2>2. peek' = peek
    BY <1>0, <1>1, RunStepFrame, NewContextFinds DEF StartRun
  <2>3. row'.key = row.key /\ row'.count = row.count
    BY <1>0, <1>1 DEF StartRun, RunStep, LoadRules, LoadRulesFails, SetRules, LoadLatest,
                      SyncRun, ReserveUnlimited,
                      ReservePull, CommitPull, ReleasePull, RunReturns, Row
  <2>4. ref' = ref /\ \A q \in Runs : q # r => pull'[q] = pull[q]
    BY <1>0, <1>1, RunFrame
  <2>5. \A q \in Runs : (Storing(q) <=> Storing(q)') /\ (Storing(q) => pull'[q] = pull[q])
    BY <2>1, <2>4 DEF Storing
  <2> QED
    BY <2>2, <2>3, <2>4, <2>5, RowStays
<1>2. ASSUME NEW f \in Refreshers, Refresh(f), ~WriteReset(f),
             ref'[f].at = "write" => ref[f].at = "write"
      PROVE  \A k, c : RowIs(k, c) => RowIs(k, c)'
  <2>1. ref[f].at # "write" /\ ref'[f].at # "write"
    BY <1>2 DEF Refresh, ReadRow, Forget, ApplyRules, SyncPersistedState, ComputeNextRun
  <2>2. pull' = pull /\ peek' = peek /\ \A g \in Refreshers : g # f => ref'[g] = ref[g]
    BY <1>0, <1>2, RefreshFrame
  <2>3. row' = row
    BY <1>2 DEF Refresh, ReadRow, Forget, ApplyRules, SyncPersistedState, ComputeNextRun
  <2>4. \A g \in Refreshers : (ref[g].at = "write" <=> ref'[g].at = "write")
                              /\ (ref[g].at = "write" => ref'[g].key = ref[g].key)
    BY <2>1, <2>2
  <2>5. \A q \in Runs : (Storing(q) <=> Storing(q)') /\ (Storing(q) => pull'[q] = pull[q])
    BY <2>2 DEF Storing
  <2> QED
    BY <2>2, <2>3, <2>4, <2>5, RowStays
<1>3. ASSUME StopTask \/ (PeekPull /\ peek' = Blank) \/ Tick \/ EditRules
      PROVE  \A k, c : RowIs(k, c) => RowIs(k, c)'
  <2>1. pull' = pull /\ ref' = ref /\ row'.key = row.key /\ row'.count = row.count
    BY <1>0, <1>3 DEF StopTask, PeekPull, Tick, EditRules, Row
  <2>2. peek' = peek
    <3>1. CASE StopTask
      <4>1. live' # live \/ live = NoRun
        BY <3>1 DEF StopTask
      <4> QED
        BY <1>0, <3>1, <4>1, NewContextFinds DEF StopTask
    <3>2. CASE PeekPull /\ peek' = Blank
      BY <1>0, <3>2, PeekFacts
    <3> QED
      BY <1>3, <3>1, <3>2 DEF Tick, EditRules
  <2>3. \A q \in Runs : (Storing(q) <=> Storing(q)') /\ (Storing(q) => pull'[q] = pull[q])
    BY <2>1 DEF Storing
  <2> QED
    BY <2>1, <2>2, <2>3, RowStays
<1> QED
  BY <1>0, <1>1, <1>2, <1>3, RowIsWritten DEF Next, RunStep, Refresh

\* Other steps than syncPersistedState and the switch after a wipe leave it to them
\* to take the slot of the row over.
LEMMA SyncGoesOn ==
  ASSUME IInv,
         \/ \E r \in Runs : (StartRun(r) \/ RunStep(r)) /\ pull[r].at # "sync"
         \/ StopTask \/ PeekPull \/ PeekResets \/ Tick \/ EditRules
         \/ \E f \in Refreshers : /\ Refresh(f) /\ ref[f].at # "sync"
                                  /\ ref[f].at = "compute" => ~ref[f].wiped
  PROVE  Syncing => Syncing'
<1>1. ASSUME NEW r \in Runs, StartRun(r) \/ RunStep(r), pull[r].at # "sync", Syncing
      PROVE  Syncing'
  <2>1. pull[r].at = "latest" => pull'[r].at = "sync"
    BY <1>1, RunAtSteps DEF RunStep
  <2>2. ref' = ref /\ \A q \in Runs : q # r => pull'[q] = pull[q]
    BY <1>1, RunFrame
  <2> QED
    BY <1>1, <2>1, <2>2 DEF Syncing
<1>2. ASSUME StopTask \/ PeekPull \/ PeekResets \/ Tick \/ EditRules
      PROVE  Syncing => Syncing'
  BY <1>2 DEF StopTask, PeekPull, PeekResets, Tick, EditRules, Syncing
<1>3. ASSUME NEW f \in Refreshers, Refresh(f), ref[f].at # "sync",
             ref[f].at = "compute" => ~ref[f].wiped
      PROVE  Syncing => Syncing'
  <2>1. pull' = pull /\ \A g \in Refreshers : g # f => ref'[g] = ref[g]
    BY <1>3, RefreshFrame
  <2> QED
    BY <1>3, <2>1 DEF Syncing
<1> QED
  BY <1>1, <1>2, <1>3

\* A statement that has just been prepared is the only one under way.
LEMMA RowIsToBe ==
  ASSUME TakingTurns'
  PROVE  /\ \A r \in Runs : Storing(r)' /\ (pull'[r].at = "reset" => pull'[r].count = 0)
              => RowIs(pull[r].key, pull[r].count)'
         /\ peek' # Blank => RowIs(peek, 0)'
         /\ \A f \in Refreshers : ref'[f].at = "write" => RowIs(ref[f].key, 0)'
<1>1. ASSUME NEW r \in Runs, Storing(r)', pull'[r].at = "reset" => pull'[r].count = 0
      PROVE  RowIs(pull[r].key, pull[r].count)'
  <2>1. Busy(r)'
    BY <1>1 DEF Busy, Storing
  <2>2. /\ \A q \in Runs : Storing(q)' => q = r
        /\ peek' = Blank
        /\ \A f \in Refreshers : ref'[f].at # "write"
    BY <2>1 DEF TakingTurns, Busy, Storing, Refreshing
  <2> QED
    BY <1>1, <2>2 DEF RowIs, NothingPending, Storing
<1>2. ASSUME peek' # Blank
      PROVE  RowIs(peek, 0)'
  <2>1. /\ \A q \in Runs : ~Storing(q)'
        /\ \A f \in Refreshers : ref'[f].at # "write"
    BY <1>2 DEF TakingTurns, Busy, Storing, Refreshing
  <2> QED
    BY <1>2, <2>1 DEF RowIs, NothingPending, Storing
<1>3. ASSUME NEW f \in Refreshers, ref'[f].at = "write"
      PROVE  RowIs(ref[f].key, 0)'
  <2>1. /\ \A q \in Runs : ~Storing(q)'
        /\ peek' = Blank
        /\ \A g \in Refreshers : ref'[g].at = "write" => g = f
    BY <1>3 DEF TakingTurns, Busy, Storing, Refreshing
  <2> QED
    BY <1>3, <2>1 DEF RowIs, NothingPending, Storing
<1> QED
  BY <1>1, <1>2, <1>3

\* The state and the row after a switch to another key and after a commit.
LEMMA RowIsNew ==
  ASSUME QuotaInv, Next, calm'
  PROVE  /\ \A r \in Runs : ReservePull(r) /\ st'.key # st.key => st'.key # Blank /\ RowIs(st.key, st.used)'
         /\ \A r \in Runs : CommitPull(r) /\ st' # st => RowIs(st.key, st.used)'
         /\ PeekPull /\ st'.key # st.key => st'.key # Blank /\ RowIs(st.key, st.used)'
         /\ \A f \in Refreshers : ComputeNextRun(f) /\ ref'[f].at = "write" =>
              RowIs(st.key, 0)' /\ (st'.key # st.key => st'.used = 0)
         /\ \A f \in Refreshers : ComputeNextRun(f) /\ st'.key # st.key =>
              st'.key # Blank /\ ref'[f].at = "write"
<1>0. /\ IInv /\ ClockInv /\ calm /\ CalmInv /\ TakingTurns' /\ WipedBlank
      /\ now \in Time /\ now.day >= 1 /\ st.rules \in Seq(Rule) /\ pull' = pull'
  BY NextTracks, CalmStep, RulesAreSeq DEF QuotaInv, CalmInv, IInv, TypeOK, ScheduleState, ClockInv
<1>1. ASSUME NEW r \in Runs, ReservePull(r), st'.key # st.key
      PROVE  st'.key # Blank /\ RowIs(st.key, st.used)'
  <2>1. pull'[r].at = "reset" /\ pull'[r].key = st'.key /\ pull'[r].count = 0 /\ st'.used = 0
    BY <1>0, <1>1, ReserveFacts
  <2>2. st'.key # Blank
    BY <1>0, <1>1, ReserveFacts, OpenSlotsKey
  <2> QED
    BY <1>0, <2>1, <2>2, RowIsToBe DEF Storing
<1>2. ASSUME NEW r \in Runs, CommitPull(r), st' # st
      PROVE  RowIs(st.key, st.used)'
  <2>1. /\ pull'[r].at = "persist" /\ pull'[r].key = st'.key
        /\ pull'[r].count = st'.used
    BY <1>0, <1>2, JobEndFacts
  <2> QED
    BY <1>0, <2>1, RowIsToBe DEF Storing
<1>3. ASSUME PeekPull, st'.key # st.key
      PROVE  st'.key # Blank /\ RowIs(st.key, st.used)'
  <2>1. peek' = st'.key /\ st'.used = 0
    BY <1>0, <1>3, PeekFacts
  <2>2. st'.key # Blank
    BY <1>0, <1>3, PeekFacts, OpenSlotsKey
  <2> QED
    BY <1>0, <2>1, <2>2, RowIsToBe
<1>4. ASSUME NEW f \in Refreshers, ComputeNextRun(f), ref'[f].at = "write"
      PROVE  RowIs(st.key, 0)' /\ (st'.key # st.key => st'.used = 0)
  <2>1. CASE st'.key # st.key
    <3>1. ref'[f].key = st'.key /\ st'.used = 0
      BY <1>0, <1>4, <2>1, ComputeFacts
    <3> QED
      BY <1>0, <1>4, <3>1, RowIsToBe
  <2>2. CASE st'.key = st.key
    <3>1. ref[f].wiped /\ ref[f].at = "compute" /\ ref'[f].key = Blank
      BY <1>0, <1>4, <2>2, ComputeFacts
    <3>2. st'.key = Blank
      BY <1>0, <2>2, <3>1 DEF WipedBlank
    <3> QED
      BY <1>0, <1>4, <2>2, <3>1, <3>2, RowIsToBe
  <2> QED
    BY <2>1, <2>2
<1>5. ASSUME NEW f \in Refreshers, ComputeNextRun(f), st'.key # st.key
      PROVE  st'.key # Blank /\ ref'[f].at = "write"
  <2>1. ref[f].at = "compute" /\ ref[f].now \in Time
    BY <1>0, <1>5, ComputeFacts
  <2>2. ref[f].now.day >= 1
    BY <1>0, <2>1 DEF ClockInv, Reading
  <2>3. \E i \in ActiveSlots(ref[f].now, st.rules) : st'.key = SlotKey(st.rules[i], ref[f].now)
    BY <1>0, <1>5, ComputeFacts
  <2>4. st'.key # Blank
    BY <1>0, <2>1, <2>2, <2>3, OpenSlotsKey
  <2> QED
    BY <1>0, <1>5, <2>4, ComputeFacts
<1> QED
  BY <1>1, <1>2, <1>3, <1>4, <1>5

\* The row follows the state: what changes one prepares the write to the other.
LEMMA RowsStep ==
  ASSUME QuotaInv, Next, calm'
  PROVE  RowFollows'
<1>0. /\ IInv /\ IInv' /\ ClockInv /\ calm /\ CalmInv /\ TakingTurns /\ RowFollows /\ WipedBlank
      /\ st \in ScheduleState /\ row \in Row /\ st' \in ScheduleState
      /\ (~st'.known => st'.key = Blank)
  <2>1. IInv'
    BY StepInv DEF QuotaInv
  <2> QED
    BY <2>1, NextTracks, CalmStep DEF QuotaInv, CalmInv, IInv, TypeOK, NoState
<1>1. CASE ~st'.known
  BY <1>0, <1>1 DEF RowFollows
<1>2. CASE (\E r \in Runs : SyncRun(r)) \/ \E f \in Refreshers : SyncPersistedState(f)
  <2>1. NothingPending
    BY <1>0, <1>2, SyncFacts
  <2>2. RowIs(row.key, row.count) /\ row.count \in Nat
    BY <1>0, <2>1 DEF RowIs, NothingPending, Storing, Row
  <2>3. RowIs(row.key, row.count)'
    <3>1. row' = row
      BY <1>2 DEF SyncRun, SyncPersistedState
    <3>2. NothingPending'
      <4>1. ASSUME NEW r \in Runs, SyncRun(r)
            PROVE  NothingPending'
        <5>1. ~Storing(r)' /\ \A q \in Runs : q # r => pull'[q] = pull[q]
          BY <1>0, <4>1, RunAtSteps, RunFrame DEF Storing, RunStep
        <5> QED
          BY <2>1, <4>1, <5>1 DEF NothingPending, Storing, SyncRun
      <4>2. ASSUME NEW f \in Refreshers, SyncPersistedState(f)
            PROVE  NothingPending'
        <5>1. ref'[f].at = "compute" /\ \A g \in Refreshers : g # f => ref'[g] = ref[g]
          BY <1>0, <4>2 DEF SyncPersistedState, Resting, IInv, TypeOK
        <5> QED
          BY <2>1, <4>2, <5>1 DEF NothingPending, Storing, SyncPersistedState
      <4> QED
        BY <1>2, <4>1, <4>2
    <3> QED
      BY <3>1, <3>2 DEF RowIs, NothingPending, Storing
  <2>4. st'.known => st'.key = row.key /\ (row.key # Blank => st'.used = row.count)
    BY <1>0, <1>2, SyncFacts
  <2>6. \A k, c : k = row.key /\ c = row.count => RowIs(k, c)'
    BY <1>2, <2>3 DEF SyncRun, SyncPersistedState
  <2> QED
    BY <1>0, <2>2, <2>4, <2>6 DEF RowFollows
<1>3. CASE (\E r \in Runs : SetRules(r)) \/ \E f \in Refreshers : ApplyRules(f)
  <2>1. PICK rules : st' = Applied(rules)
    BY <1>3 DEF SetRules, ApplyRules
  <2>2. Syncing'
    <3>1. ASSUME NEW r \in Runs, SetRules(r)
          PROVE  Syncing'
      BY <1>0, <3>1, RunAtSteps DEF Syncing
    <3>2. ASSUME NEW f \in Refreshers, ApplyRules(f)
          PROVE  ref'[f].at = "sync" \/ (ref'[f].at = "compute" /\ ref'[f].wiped)
      BY <1>0, <3>2 DEF ApplyRules, Resting, IInv, TypeOK, RefreshState
    <3> QED
      BY <1>3, <3>1, <3>2 DEF Syncing
  <2>3. CASE st' = st
    <3>1. ASSUME NEW r \in Runs, SetRules(r)
          PROVE  RunStep(r) /\ ~Storing(r)'
      BY <1>0, <3>1, RunAtSteps DEF RunStep, Storing
    <3>2. ASSUME NEW f \in Refreshers, ApplyRules(f)
          PROVE  Refresh(f) /\ ref'[f].at # "write"
      BY <1>0, <3>2 DEF Refresh, ApplyRules, Resting, IInv, TypeOK, RefreshState
    <3>3. \A k, c : RowIs(k, c) => RowIs(k, c)'
      BY <1>3, <3>1, <3>2, RowKept
    <3> QED
      BY <1>0, <2>2, <2>3, <3>3 DEF RowFollows
  <2>4. CASE st'.key = Blank
    BY <2>2, <2>4 DEF RowFollows
  <2> QED
    BY <2>1, <2>3, <2>4, AppliedFacts
<1>4. ASSUME st'.known, st.known, st'.key = st.key, st'.used = st.used, Syncing => Syncing',
             \A k, c : RowIs(k, c) => RowIs(k, c)'
      PROVE  RowFollows'
  <2>1. st'.key # Blank => RowIs(st.key, st.used)'
    BY <1>0, <1>4 DEF RowFollows
  <2>2. st'.key = Blank /\ ~Syncing' => \E c \in Nat : RowIs(Blank, c)'
    BY <1>0, <1>4 DEF RowFollows
  <2> QED
    BY <2>1, <2>2 DEF RowFollows
<1>5. ASSUME st'.key # Blank, RowIs(st.key, st.used)'
      PROVE  RowFollows'
  BY <1>5 DEF RowFollows
<1>6. ASSUME NEW r \in Runs, ReservePull(r) \/ CommitPull(r) \/ ReleasePull(r), st'.known
      PROVE  RowFollows'
  <2>1. CASE st'.key # st.key \/ (CommitPull(r) /\ st' # st)
    <3>1. RowIs(st.key, st.used)'
      BY <1>0, <1>6, <2>1, RowIsNew, JobEndFacts DEF Next, RunStep
    <3>2. st'.key # Blank
      <4>1. ReservePull(r) /\ st'.key # st.key => st'.key # Blank
        BY <1>0, RowIsNew DEF Next, RunStep
      <4>2. CommitPull(r) /\ st' # st => st'.key # Blank
        BY <1>0, JobEndFacts
      <4> QED
        BY <1>0, <1>6, <2>1, <4>1, <4>2, JobEndFacts
    <3> QED
      BY <1>5, <3>1, <3>2
  <2>2. CASE st'.key = st.key /\ (CommitPull(r) => st' = st)
    <3>1. st.known /\ st'.used = st.used
      BY <1>0, <1>6, <2>2, ReserveFacts, JobEndFacts DEF Limited
    <3>2. pull'[r].at \in {"send", "idle"} /\ pull[r].at # "sync"
      <4>1. CommitPull(r) => pull'[r].at = "idle"
        BY <1>0, <2>2, JobEndFacts DEF ScheduleState, Off
      <4> QED
        BY <1>0, <1>6, <2>2, <4>1, RunAtSteps, ReserveFacts
    <3>3. \A k, c : RowIs(k, c) => RowIs(k, c)'
      BY <1>6, <3>2, RowKept DEF RunStep, Storing
    <3>4. Syncing => Syncing'
      BY <1>0, <1>6, <3>2, SyncGoesOn DEF RunStep
    <3> QED
      BY <1>4, <1>6, <2>2, <3>1, <3>3, <3>4
  <2> QED
    BY <2>1, <2>2
<1>7. ASSUME PeekPull
      PROVE  RowFollows'
  <2>1. CASE st'.key # st.key
    BY <1>5, <1>7, <2>1, RowIsNew DEF Next
  <2>2. CASE st'.key = st.key
    <3>1. st.known /\ st'.known /\ st'.used = st.used /\ peek' = Blank
      BY <1>0, <1>7, <2>2, PeekFacts DEF Limited
    <3>2. (\A k, c : RowIs(k, c) => RowIs(k, c)') /\ (Syncing => Syncing')
      BY <1>0, <1>7, <3>1, RowKept, SyncGoesOn
    <3> QED
      BY <1>4, <2>2, <3>1, <3>2
  <2> QED
    BY <2>1, <2>2
<1>8. ASSUME NEW f \in Refreshers, ComputeNextRun(f), st'.known
      PROVE  RowFollows'
  <2>1. CASE st'.key # st.key
    BY <1>0, <1>5, <1>8, <2>1, RowIsNew DEF Next, Refresh
  <2>2. CASE st'.key = st.key /\ ref'[f].at = "write"
    <3>1. st'.key = Blank /\ RowIs(st.key, 0)'
      BY <1>0, <1>8, <2>2, RowIsNew, ComputeFacts DEF Next, Refresh, WipedBlank
    <3> QED
      BY <3>1 DEF RowFollows
  <2>3. CASE st'.key = st.key /\ ref'[f].at # "write"
    <3>1. st.known /\ st'.used = st.used /\ ~ref[f].wiped /\ ref[f].at = "compute"
      BY <1>0, <1>8, <2>3, ComputeFacts DEF Limited
    <3>2. (\A k, c : RowIs(k, c) => RowIs(k, c)') /\ (Syncing => Syncing')
      BY <1>0, <1>8, <2>3, <3>1, RowKept, SyncGoesOn DEF Refresh
    <3> QED
      BY <1>4, <1>8, <2>3, <3>1, <3>2
  <2> QED
    BY <2>1, <2>2, <2>3
<1>9. ASSUME st' = st, st'.known, (\A k, c : RowIs(k, c) => RowIs(k, c)') /\ (Syncing => Syncing')
      PROVE  RowFollows'
  BY <1>4, <1>9
<1>10. ASSUME NEW r \in Runs, st'.known,
              \/ StartRun(r) \/ LoadRules(r) \/ LoadLatest(r) \/ ReserveUnlimited(r)
              \/ ResetRow(r) \/ PersistCount(r) \/ RunReturns(r)
       PROVE  RowFollows'
  <2>1. st' = st /\ (StartRun(r) \/ RunStep(r))
    BY <1>10 DEF RunStep, StartRun, LoadRules, LoadRulesFails, LoadLatest, ReserveUnlimited,
                 ResetRow, PersistCount, RunReturns
  <2>2. (Storing(r)' => Storing(r)) /\ pull[r].at # "sync"
    BY <1>0, <1>10, RunAtSteps DEF Storing
  <2>3. \A k, c : RowIs(k, c) => RowIs(k, c)'
    BY <2>1, <2>2, RowKept
  <2>4. Syncing => Syncing'
    BY <1>0, <2>1, <2>2, SyncGoesOn
  <2> QED
    BY <1>9, <1>10, <2>1, <2>3, <2>4
<1>11. ASSUME NEW f \in Refreshers, st'.known, ReadRow(f) \/ WriteReset(f)
       PROVE  RowFollows'
  <2>1. st' = st /\ Refresh(f) /\ ref[f].at \in {"idle", "write"}
    BY <1>11 DEF Refresh, ReadRow, WriteReset
  <2>2. ref'[f].at = "write" => ref[f].at = "write"
    <3>1. f \in DOMAIN ref
      BY <1>0 DEF IInv, TypeOK
    <3>2. CASE ReadRow(f)
      BY <3>1, <3>2 DEF ReadRow, Resting
    <3>3. CASE WriteReset(f)
      BY <3>3 DEF WriteReset
    <3> QED
      BY <1>11, <3>2, <3>3
  <2>3. \A k, c : RowIs(k, c) => RowIs(k, c)'
    BY <2>1, <2>2, RowKept
  <2>4. Syncing => Syncing'
    BY <1>0, <2>1, SyncGoesOn
  <2> QED
    BY <1>9, <1>11, <2>1, <2>3, <2>4
<1>12. ASSUME st'.known, StopTask \/ PeekResets \/ Tick \/ EditRules
       PROVE  RowFollows'
  <2>1. st' = st
    BY <1>12 DEF StopTask, PeekResets, Tick, EditRules
  <2>2. \A k, c : RowIs(k, c) => RowIs(k, c)'
    BY <1>12, RowKept
  <2>3. Syncing => Syncing'
    BY <1>0, <1>12, SyncGoesOn
  <2> QED
    BY <1>9, <1>12, <2>1, <2>2, <2>3
<1>13. CASE Restart \/ \E f \in Refreshers : Forget(f)
  BY <1>1, <1>13 DEF Restart, Forget, NoState
<1> QED
  BY <1>1, <1>2, <1>3, <1>6, <1>7, <1>8, <1>10, <1>11, <1>12, <1>13, NothingFails
     DEF Next, RunStep, Refresh

-----------------------------------------------------------------------------
(* What has been counted *)

\* Who grants a unit and who gives one back.
LEMMA GrantedByReserve ==
  ASSUME IInv, Next, NEW r \in Runs
  PROVE  /\ Granted(r) => ReservePull(r)
         /\ Released(r) => ReleasePull(r)
<1>0. r \in DOMAIN pull /\ pull[r] \in PullState
  BY DEF IInv, TypeOK
<1>1. CASE StartRun(r) \/ RunStep(r)
  <2>1. Off.held = 0 /\ [Off EXCEPT !.at = "idle"].held = 0
        /\ \A k, c : [Off EXCEPT !.at = "clone", !.key = k, !.count = c].held = 0
    BY DEF Off
  <2>2. pull'[r].held \in {0, pull[r].held} \/ ReserveUnlimited(r) \/ ReservePull(r)
    <3>1. CASE StartRun(r)
      BY <1>0, <2>1, <3>1 DEF StartRun
    <3>2. CASE LoadRules(r) \/ SetRules(r) \/ ResetRow(r)
      BY <1>0, <3>2 DEF LoadRules, SetRules, ResetRow, PullState
    <3>3. CASE LoadLatest(r)
      BY <1>0, <3>3 DEF LoadLatest, Steps, PullState
    <3>4. CASE SyncRun(r) \/ PersistCount(r) \/ ReleasePull(r) \/ RunReturns(r) \/ LoadRulesFails(r)
      BY <1>0, <2>1, <3>4 DEF SyncRun, PersistCount, ReleasePull, RunReturns, LoadRulesFails
    <3>5. CASE CommitPull(r)
      <4>1. \/ pull' = [pull EXCEPT ![r] = [Off EXCEPT !.at = "persist", !.key = st.key,
                                                       !.count = st.used + 1]]
            \/ pull' = [pull EXCEPT ![r] = [Off EXCEPT !.at = "idle"]]
        BY <3>5 DEF CommitPull
      <4> QED
        BY <1>0, <4>1 DEF Off
    <3> QED
      BY <1>1, <3>1, <3>2, <3>3, <3>4, <3>5 DEF RunStep
  <2>3. Granted(r) => ReservePull(r)
    BY <2>2 DEF Granted, ReserveUnlimited
  <2>4. Released(r) => ReleasePull(r) \/ (CommitPull(r) /\ pull'[r].at = "idle")
    BY <1>0, <1>1, RunAtSteps DEF Released, Sending, RunStep
  <2>5. CommitPull(r) /\ pull'[r].at = "idle" => ~Released(r)
    <3>1. CommitPull(r) /\ pull'[r].at = "idle"
            => ~(st.known /\ st.rules # <<>> /\ st.limit > 0 /\ st.key # Blank)
      BY JobEndFacts
    <3> QED
      BY <3>1 DEF Released, Limited, HasSlots
  <2> QED
    BY <2>3, <2>4, <2>5
<1>2. CASE pull'[r] = pull[r]
  BY <1>2 DEF Granted, Released, Sending
<1>3. CASE Restart /\ pull'[r] = Off
  BY <1>3 DEF Granted, Released, Off
<1> QED
  BY <1>1, <1>2, <1>3, PullChanges

\* What becomes of the tally: a grant, a unit given back, rewritten rules, or nothing.
LEMMA TallyMoves ==
  ASSUME QuotaInv, Next, calm', tally' # NoTally
  PROVE  /\ Apart(st'.rules, tally'.key)
         /\ tally'.earlier <= tally'.allowed
         /\ Rewritten => tally'.n = 0
         /\ \/ /\ \E r \in Runs : ReservePull(r) /\ pull'[r].held = 1
               /\ tally'.key = OpenSlot /\ tally'.limit = st'.limit
               /\ tally'.n = IF tally.key = OpenSlot THEN tally.n + 1 ELSE 1
            \/ /\ \E r \in Runs : ReleasePull(r)
               /\ tally' = [tally EXCEPT !.n = IF @ > 0 THEN @ - 1 ELSE 0]
            \/ tally'.n = 0
            \/ /\ tally' = tally
               /\ \A r \in Runs : ~Released(r)
<1>0. IInv /\ Track /\ TallyInv /\ tally \in Tally
  BY NextTracks, CalmStep DEF QuotaInv, CalmInv, IInv, TypeOK
<1>1. tally' = Counted /\ Apart(st'.rules, tally'.key)
  BY <1>0 DEF Track
<1>2. CASE \E r \in Runs : Granted(r)
  <2> DEFINE t == IF tally.key = OpenSlot THEN tally ELSE NoTally
  <2>1. PICK r \in Runs : ReservePull(r) /\ pull'[r].held = 1
    BY <1>0, <1>2, GrantedByReserve DEF Granted
  <2>2. Counted = [t EXCEPT !.key = OpenSlot, !.n = @ + 1, !.limit = st'.limit]
    BY <1>2 DEF Counted
  <2>3. t \in Tally /\ t.earlier <= t.allowed
    BY <1>0, TrackTyped, ConstantsTyped DEF TallyInv, Tally, NoTally
  <2>4. t.n + 1 = IF tally.key = OpenSlot THEN tally.n + 1 ELSE 1
    BY DEF NoTally
  <2> HIDE DEF t
  <2>5. /\ tally'.key = OpenSlot /\ tally'.limit = st'.limit /\ tally'.n = t.n + 1
        /\ tally'.earlier = t.earlier /\ tally'.allowed = t.allowed
    BY <1>1, <2>2, <2>3 DEF Tally
  <2>6. ~Rewritten
    BY <1>0, <2>1, ReserveFacts DEF Rewritten
  <2> QED
    BY <1>1, <2>1, <2>3, <2>4, <2>5, <2>6
<1>3. CASE (\A r \in Runs : ~Granted(r)) /\ \E r \in Runs : Released(r)
  <2>1. PICK r \in Runs : ReleasePull(r)
    BY <1>0, <1>3, GrantedByReserve
  <2>2. tally' = [tally EXCEPT !.n = IF @ > 0 THEN @ - 1 ELSE 0]
    BY <1>1, <1>3 DEF Counted
  <2>3. tally'.earlier <= tally'.allowed
    BY <1>0, <2>2 DEF TallyInv, Tally
  <2>4. ~Rewritten
    BY <1>0, <2>1, JobEndFacts DEF Rewritten
  <2> QED
    BY <1>1, <2>1, <2>2, <2>3, <2>4
<1>4. CASE (\A r \in Runs : ~Granted(r)) /\ (\A r \in Runs : ~Released(r)) /\ Rewritten
  <2>1. tally' = [tally EXCEPT !.n = 0, !.limit = 0, !.earlier = @ + tally.n,
                               !.allowed = @ + tally.limit]
    BY <1>1, <1>4 DEF Counted
  <2>2. /\ tally'.n = 0
        /\ tally'.earlier = tally.earlier + tally.n
        /\ tally'.allowed = tally.allowed + tally.limit
    BY <1>0, <2>1 DEF Tally
  <2>3. tally.n <= tally.limit /\ tally.earlier <= tally.allowed
    BY <1>0 DEF TallyInv, Tally
  <2>4. tally.n \in Nat /\ tally.limit \in Nat /\ tally.earlier \in Nat /\ tally.allowed \in Nat
    BY <1>0 DEF Tally
  <2> QED
    BY <1>1, <2>2, <2>3, <2>4
<1>5. CASE (\A r \in Runs : ~Granted(r)) /\ (\A r \in Runs : ~Released(r)) /\ ~Rewritten
  <2>1. Counted = tally
    BY <1>5 DEF Counted
  <2> QED
    BY <1>0, <1>1, <1>5, <2>1 DEF TallyInv
<1> QED
  BY <1>2, <1>3, <1>4, <1>5

\* Where the row holds a slot, the state is in that slot, or is still to be synced.
LEMMA RowHasTheKey ==
  ASSUME QuotaInv, calm, NEW k, NEW c, k # Blank, RowIs(k, c), st.known, ~Syncing
  PROVE  k = st.key /\ c = st.used
<1>1. RowFollows
  BY DEF QuotaInv, CalmInv
<1>2. CASE st.key = Blank
  BY <1>1, <1>2, RowIsOne DEF RowFollows
<1>3. CASE st.key # Blank
  <2>1. RowIs(st.key, st.used)
    BY <1>1, <1>3 DEF RowFollows
  <2> QED
    BY <2>1, RowIsOne
<1> QED
  BY <1>2, <1>3

\* A switch to another key finds nobody between applying rules and taking the slot
\* of the row over, but for a refresh that has wiped the slot itself.
LEMMA SwitchIsSynced ==
  ASSUME QuotaInv, Next, calm', st'.key # st.key,
         \/ PeekPull
         \/ \E r \in Runs : ReservePull(r)
         \/ \E f \in Refreshers : ComputeNextRun(f) /\ ~ref[f].wiped
  PROVE  st.known /\ ~Syncing
<1>0. IInv /\ calm /\ CalmInv /\ TakingTurns /\ TakingTurns'
  BY NextTracks, CalmStep DEF QuotaInv, CalmInv
<1>1. CASE PeekPull
  <2>1. peek' # Blank
    BY <1>0, <1>1, RowIsNew, PeekFacts
  <2>2. (\A r \in Runs : ~Busy(r)') /\ \A f \in Refreshers : ~Refreshing(f)'
    BY <1>0, <2>1 DEF TakingTurns
  <2> QED
    BY <1>0, <1>1, <2>2, PeekFacts DEF PeekPull, Syncing, Busy, Refreshing, Limited
<1>2. ASSUME NEW r \in Runs, ReservePull(r)
      PROVE  st.known /\ ~Syncing
  <2>1. Busy(r)' /\ pull[r].at = "idle"
    BY <1>0, <1>2, ReserveFacts, RunAtSteps DEF Busy
  <2>2. (\A q \in Runs : q # r => ~Busy(q)') /\ \A f \in Refreshers : ~Refreshing(f)'
    BY <1>0, <2>1 DEF TakingTurns
  <2>3. ref' = ref /\ \A q \in Runs : q # r => pull'[q] = pull[q]
    BY <1>0, <1>2, RunFrame DEF RunStep
  <2> QED
    BY <1>0, <1>2, <2>1, <2>2, <2>3, ReserveFacts DEF Syncing, Busy, Refreshing, Limited
<1>3. ASSUME NEW f \in Refreshers, ComputeNextRun(f), ~ref[f].wiped
      PROVE  st.known /\ ~Syncing
  <2>1. ref[f].at = "compute" /\ st.known
    BY <1>0, <1>3, ComputeFacts DEF Limited
  <2>2. (\A q \in Runs : ~Busy(q)) /\ \A g \in Refreshers : g # f => ~Refreshing(g)
    BY <1>0, <2>1 DEF TakingTurns, Refreshing
  <2> QED
    BY <1>3, <2>1, <2>2 DEF Syncing, Busy, Refreshing
<1> QED
  BY <1>1, <1>2, <1>3

\* The slot that is left is over.
LEMMA SwitchLeaves ==
  ASSUME QuotaInv, Next, calm', st'.key # st.key, tally.n > 0,
         ~Past(tally.key), Apart(st'.rules, tally.key),
         \/ PeekPull
         \/ \E r \in Runs : ReservePull(r)
         \/ \E f \in Refreshers : ComputeNextRun(f)
  PROVE  tally.key = st.key /\ PastNext(tally.key)
<1>0. /\ IInv /\ ClockInv /\ calm /\ CalmInv /\ TallyInv /\ tally.key \in Key /\ tally.key # Blank
      /\ now \in Time /\ st.rules \in Seq(Rule) /\ Seen(tally.key)
  BY NextTracks, CalmStep, RulesAreSeq DEF QuotaInv, CalmInv, TallyInv, IInv, TypeOK,
                                           ScheduleState, Tally
<1>1. \/ PeekPull
      \/ \E r \in Runs : ReservePull(r)
      \/ \E f \in Refreshers : ComputeNextRun(f) /\ ~ref[f].wiped
  BY <1>0 DEF TallyInv, ComputeNextRun
<1>2. st.known /\ ~Syncing
  BY <1>1, SwitchIsSynced
<1>3. tally.key = st.key
  <2>1. PICK c \in Nat : RowIs(tally.key, c)
    BY <1>0 DEF TallyInv, UnitsCounted
  <2> QED
    BY <1>0, <1>2, <2>1, RowHasTheKey
<1>4. ASSUME NEW t \in Time, NEW i \in ActiveSlots(t, st.rules), Begun(tally.key, t),
             st'.rules = st.rules, st'.key = SlotKey(st.rules[i], t), ~Before(now, t)
      PROVE  Over(tally.key, now)
  <2>1. Over(tally.key, t)
    BY <1>0, <1>3, <1>4, LeftIsOver
  <2> QED
    BY <1>0, <1>4, <2>1, LaterStill
<1>5. Over(tally.key, now)
  <2>0. ~Before(now, now)
    BY <1>0 DEF Before, Time, Minute
  <2>1. CASE PeekPull
    BY <1>0, <1>4, <2>0, <2>1, PeekFacts DEF Seen
  <2>2. CASE \E r \in Runs : ReservePull(r)
    <3>1. \E i \in ActiveSlots(now, st.rules) : st'.rules = st.rules /\ st'.key = SlotKey(st.rules[i], now)
      BY <1>0, <2>2, ReserveFacts
    <3> QED
      BY <1>0, <1>4, <2>0, <3>1 DEF Seen
  <2>3. ASSUME NEW f \in Refreshers, ComputeNextRun(f)
        PROVE  Over(tally.key, now)
    <3>1. /\ ref[f].now \in Time /\ Reading(f)
          /\ \E i \in ActiveSlots(ref[f].now, st.rules) :
               st'.rules = st.rules /\ st'.key = SlotKey(st.rules[i], ref[f].now)
      BY <1>0, <2>3, ComputeFacts DEF Reading
    <3>2. Begun(tally.key, ref[f].now) /\ ~Before(now, ref[f].now)
      BY <1>0, <3>1 DEF Seen, ClockInv
    <3> QED
      BY <1>4, <3>1, <3>2
  <2> QED
    BY <2>1, <2>2, <2>3
<1>6. Over(tally.key, now')
  BY <1>0, <1>5, NowMovesOn, LaterStill
<1> QED
  BY <1>3, <1>6, SwitchIsNew DEF PastNext

\* A unit that is granted.
LEMMA GrantStep ==
  ASSUME QuotaInv, Next, calm', NEW r \in Runs, ReservePull(r), pull'[r].held = 1,
         tally'.key = OpenSlot, tally'.limit = st'.limit,
         tally'.n = IF tally.key = OpenSlot THEN tally.n + 1 ELSE 1,
         tally'.earlier <= tally'.allowed,
         Apart(st'.rules, tally'.key)
  PROVE  TallyInv'
<1>0. /\ IInv /\ ClockInv /\ calm /\ CalmInv /\ TallyInv /\ SlotFits /\ TakingTurns' /\ ActiveIsLive
      /\ now \in Time /\ now.day >= 1 /\ st.rules \in Seq(Rule) /\ st \in ScheduleState
      /\ st' \in ScheduleState /\ KeysSeen' /\ RowFollows' /\ tally.n \in Nat /\ WipedBlank
      /\ (st.key # Blank => RowIs(st.key, st.used))
  <2>1. IInv'
    BY StepInv DEF QuotaInv
  <2> QED
    BY <2>1, NextTracks, CalmStep, KeysStep, RowsStep, RulesAreSeq
       DEF QuotaInv, CalmInv, IInv, TypeOK, ScheduleState, ClockInv, RowFollows, Tally
<1> DEFINE i == PickActiveSlot(now, st.rules)
<1>1. /\ Limited /\ i \in ActiveSlots(now, st.rules) /\ i \in DOMAIN st.rules
      /\ st.rules[i] \in Rule /\ Contains(st.rules[i], now)
      /\ OpenSlot = SlotKey(st.rules[i], now)
      /\ st'.known /\ st'.rules = st.rules
      /\ Elsewhere(i, now) => st'.key = OpenSlot
      /\ ~Elsewhere(i, now) => st'.key = st.key
      /\ st'.used + 1 <= st'.limit
      /\ st'.key = st.key => st'.used = st.used /\ pull'[r].at = "send"
      /\ st'.key # st.key => st'.used = 0 /\ pull'[r].at = "reset"
  BY <1>0, ReserveFacts
<1> HIDE DEF i
<1>2. OpenSlot # Blank /\ ~Over(OpenSlot, now)
  BY <1>0, <1>1, OpenSlotsKey
<1>3. st'.key = OpenSlot
  <2>1. CASE ~Elsewhere(i, now)
    <3>1. st.idx = i /\ st.ends = EndTime(st.rules[i], now)
      BY <2>1 DEF Elsewhere
    <3>2. st.ends # Never
      BY <1>0, <1>1, <3>1, EndIsAhead DEF Never, At, Time
    <3>3. PICK t \in Time : /\ Contains(st.rules[i], t) /\ EndTime(st.rules[i], t) = st.ends
                            /\ SlotKey(st.rules[i], t) = st.key
      BY <1>0, <3>1, <3>2 DEF SlotFits
    <3>4. SlotKey(st.rules[i], t) = SlotKey(st.rules[i], now)
      BY <1>0, <1>1, <3>1, <3>3, SameEndSameKey
    <3> QED
      BY <1>1, <2>1, <3>3, <3>4
  <2> QED
    BY <1>1, <2>1
<1>4. tally'.key = st'.key /\ tally'.limit = st'.limit /\ st'.key # Blank
  BY <1>2, <1>3
<1>5. tally'.n <= st'.used + 1
  <2>1. CASE tally.n = 0 \/ tally.key # OpenSlot
    BY <1>0, <2>1 DEF ScheduleState
  <2>2. CASE tally.n > 0 /\ tally.key = OpenSlot
    <3>1. ~Past(OpenSlot)
      BY <1>2 DEF Past
    <3>2. ~Owed
      <4>1. pull[r].at = "idle" /\ live = r
        BY <1>0, RunAtSteps
      <4> QED
        BY <1>0, <4>1 DEF Owed, ActiveIsLive, Busy, Sending
    <3>3. PICK c \in Nat : RowIs(OpenSlot, c) /\ tally.n <= c
      BY <1>0, <2>2, <3>1, <3>2 DEF TallyInv, UnitsCounted
    <3>4. st'.key = st.key
      <4>1. st'.key # st.key => st.known /\ ~Syncing
        BY SwitchIsSynced
      <4> QED
        BY <1>0, <1>2, <1>3, <3>3, <4>1, RowHasTheKey
    <3>5. c = st'.used
      BY <1>0, <1>1, <1>2, <1>3, <3>3, <3>4, RowIsOne
    <3> QED
      BY <1>0, <2>2, <3>3, <3>5
  <2> QED
    BY <1>0, <2>1, <2>2
<1>6. Owed'
  BY <1>0, <1>1, <1>4 DEF Owed, Limited, Sending, ScheduleState
<1>7. RowIs(st.key, st.used)'
  BY <1>0, <1>4 DEF RowFollows
<1>8. UnitsCounted'
  <2>1. st'.used \in Nat
    BY <1>0 DEF ScheduleState
  <2> QED
    BY <1>4, <1>5, <1>6, <1>7, <2>1 DEF UnitsCounted
<1>9. ASSUME NEW f \in Refreshers, ref'[f].at = "compute", ref'[f].wiped
      PROVE  FALSE
  <2>1. ref' = ref
    BY <1>0, RunFrame DEF RunStep
  <2>2. st.key = Blank
    BY <1>0, <1>9, <2>1 DEF WipedBlank
  <2>3. pull'[r].at = "reset"
    BY <1>1, <1>4, <2>2
  <2> QED
    BY <1>0, <1>9, <2>3 DEF TakingTurns, Busy, Refreshing
<1>10. Seen(tally.key)'
  BY <1>0, <1>4 DEF KeysSeen, Seen
<1>11. tally'.n <= tally'.limit
  BY <1>0, <1>1, <1>4, <1>5 DEF ScheduleState
<1> QED
  BY <1>4, <1>8, <1>9, <1>10, <1>11 DEF TallyInv

\* A step that leaves the tally, or takes one unit off it, and what the row will hold.
LEMMA CountGoesOn ==
  ASSUME QuotaInv, Next, calm', tally' # NoTally, tally'.key = tally.key, tally'.limit = tally.limit,
         tally'.earlier = tally.earlier, tally'.allowed = tally.allowed,
         tally'.n \in Nat, tally'.n <= tally.n, tally'.n > 0,
         \A f \in Refreshers : ref'[f].at = "compute" => ~ref'[f].wiped,
         \/ Past(tally.key)
         \/ PastNext(tally.key)
         \/ \E c \in Nat : /\ RowIs(tally.key, c)'
                           /\ tally'.n <= IF Owed' THEN c + 1 ELSE c
  PROVE  TallyInv'
<1>0. /\ IInv /\ ClockInv /\ calm /\ CalmInv /\ TallyInv /\ tally.key \in Key /\ tally.n \in Nat
      /\ tally.limit \in Nat
  BY NextTracks, CalmStep DEF QuotaInv, CalmInv, IInv, TypeOK, Tally
<1>1. tally.key # Blank /\ Seen(tally.key) /\ tally.n <= tally.limit
  BY <1>0 DEF TallyInv
<1>2. Seen(tally.key)'
  <2>1. SeenNext(tally.key)
    BY <1>0, <1>1, SeenStays
  <2> QED
    BY <2>1 DEF Seen, SeenNext
<1>3. UnitsCounted'
  <2>1. CASE PastNext(tally.key) \/ Past(tally.key)
    <3>1. PastNext(tally.key)
      BY <1>0, <2>1, SeenStays
    <3> QED
      BY <3>1 DEF UnitsCounted, Past, PastNext
  <2>2. CASE \E c \in Nat : RowIs(tally.key, c)' /\ tally'.n <= IF Owed' THEN c + 1 ELSE c
    BY <2>2 DEF UnitsCounted
  <2> QED
    BY <2>1, <2>2
<1>4. Apart(st'.rules, tally'.key)
  BY TallyMoves
<1> QED
  BY <1>0, <1>1, <1>2, <1>3, <1>4 DEF TallyInv

\* Rules that a refresh has found changed end the count of the slot.
LEMMA NoneWiped ==
  ASSUME QuotaInv, Next, calm', tally' # NoTally, tally.n > 0, tally'.n > 0, NEW f \in Refreshers,
         ref'[f].at = "compute"
  PROVE  ~ref'[f].wiped
<1>0. /\ IInv /\ calm /\ TallyInv /\ f \in DOMAIN ref /\ ref[f] \in RefreshState
      /\ ~Rewritten
  BY NextTracks, CalmStep, TallyMoves DEF QuotaInv, CalmInv, IInv, TypeOK
<1>1. CASE Refresh(f)
  <2>1. CASE ApplyRules(f)
    <3>1. ~Changes(ref[f].rules)
      <4>1. st' = Applied(ref[f].rules)
        BY <2>1 DEF ApplyRules
      <4> QED
        BY <1>0, <4>1, AppliedFacts DEF Rewritten, Changes
    <3> QED
      BY <1>0, <2>1, <3>1 DEF ApplyRules, RefreshState
  <2>2. CASE SyncPersistedState(f)
    BY <1>0, <2>2 DEF SyncPersistedState, Resting
  <2>3. CASE ComputeNextRun(f)
    BY <1>0, <2>3, ComputeFacts
  <2>4. CASE ReadRow(f)
    BY <1>0, <2>4 DEF ReadRow, Resting
  <2>5. CASE Forget(f) \/ WriteReset(f)
    <3>1. ref'[f] = Resting
      BY <1>0, <2>5 DEF Forget, WriteReset
    <3> QED
      BY <3>1 DEF Resting
  <2> QED
    BY <1>1, <2>1, <2>2, <2>3, <2>4, <2>5 DEF Refresh
<1>2. CASE ref'[f] = ref[f]
  BY <1>0, <1>2 DEF TallyInv
<1>3. CASE ref'[f] = Resting
  BY <1>3 DEF Resting
<1> QED
  BY <1>0, <1>1, <1>2, <1>3, RefChanges

\* A unit that a job holds stays owed until the job ends.
LEMMA OwedStays ==
  ASSUME IInv, Owed,
         st'.known = st.known, st'.rules = st.rules, st'.key = st.key, st'.limit > 0,
         \/ pull' = pull
         \/ \E r \in Runs : /\ StartRun(r) \/ RunStep(r)
                            /\ ~CommitPull(r) /\ ~ReleasePull(r)
  PROVE  Owed'
<1>1. \A r \in Runs : Sending(r) \/ (pull[r].at = "reset" /\ pull[r].held = 1)
        => (Sending(r) \/ (pull[r].at = "reset" /\ pull[r].held = 1))'
  <2>1. CASE pull' = pull
    BY <2>1 DEF Sending
  <2>2. ASSUME NEW r \in Runs, StartRun(r) \/ RunStep(r), ~CommitPull(r), ~ReleasePull(r), NEW q \in Runs,
               Sending(q) \/ (pull[q].at = "reset" /\ pull[q].held = 1)
        PROVE  (Sending(q) \/ (pull[q].at = "reset" /\ pull[q].held = 1))'
    <3>1. CASE q # r
      BY <2>2, <3>1, RunFrame DEF Sending
    <3>2. CASE q = r
      <4>1. ResetRow(r)
        BY <2>2, <3>2, RunAtSteps DEF Sending, RunStep
      <4> QED
        BY <2>2, <3>2, <4>1 DEF ResetRow, Sending, IInv, TypeOK, PullState
    <3> QED
      BY <3>1, <3>2
  <2> QED
    BY <2>1, <2>2
<1> QED
  BY <1>1 DEF Owed, Limited

\* While a job holds a unit, nobody else is at work.
LEMMA OwedIsLive ==
  ASSUME QuotaInv, calm, Owed
  PROVE  live \in Runs /\ pull[live].at \in {"send", "reset"}
BY DEF QuotaInv, CalmInv, ActiveIsLive, Owed, Sending, Busy

\* The units counted for a slot stay within its limit, one step for each action.
LEMMA TallyStep ==
  ASSUME QuotaInv, Next, calm'
  PROVE  TallyInv'
<1>0. /\ IInv /\ IInv' /\ ClockInv /\ calm /\ CalmInv /\ TallyInv /\ TakingTurns /\ TakingTurns' /\ ~CutOff
      /\ st \in ScheduleState /\ st' \in ScheduleState /\ tally \in Tally
      /\ row \in Row /\ ActiveIsLive /\ ForgetsIdle
  <2>1. IInv'
    BY StepInv DEF QuotaInv
  <2> QED
    BY <2>1, NextTracks, CalmStep DEF QuotaInv, CalmInv, IInv, TypeOK
<1>1. CASE tally' # NoTally /\ tally'.n = 0
  BY <1>1, TallyMoves DEF TallyInv
<1>2. CASE tally' = NoTally
  BY <1>2 DEF TallyInv, NoTally
<1>3. CASE /\ tally' # NoTally
           /\ \E r \in Runs : ReservePull(r) /\ pull'[r].held = 1
           /\ tally'.key = OpenSlot /\ tally'.limit = st'.limit
           /\ tally'.n = IF tally.key = OpenSlot THEN tally.n + 1 ELSE 1
  BY <1>3, GrantStep, TallyMoves
<1>4. ASSUME NEW r \in Runs, ReleasePull(r), tally'.n # 0, tally' # NoTally,
             tally' = [tally EXCEPT !.n = IF @ > 0 THEN @ - 1 ELSE 0]
      PROVE  TallyInv'
  <2>1. /\ tally.n > 0 /\ tally'.n = tally.n - 1 /\ tally'.n \in Nat /\ tally'.n > 0
        /\ tally'.key = tally.key /\ tally'.limit = tally.limit /\ tally'.n <= tally.n
        /\ tally'.earlier = tally.earlier /\ tally'.allowed = tally.allowed
    BY <1>0, <1>4 DEF Tally
  <2>2. \A f \in Refreshers : ref'[f].at = "compute" => ~ref'[f].wiped
    BY <1>4, <2>1, NoneWiped
  <2>3. \A k, c : RowIs(k, c) => RowIs(k, c)'
    BY <1>0, <1>4, RowKept, RunAtSteps DEF RunStep, Storing
  <2>4. CASE Past(tally.key)
    BY <1>4, <2>1, <2>2, <2>4, CountGoesOn
  <2>5. CASE ~Past(tally.key)
    <3>1. PICK c \in Nat : RowIs(tally.key, c) /\ tally.n <= (IF Owed THEN c + 1 ELSE c)
      BY <1>0, <2>1, <2>5 DEF TallyInv, UnitsCounted
    <3>2. tally'.n <= (IF Owed' THEN c + 1 ELSE c)
      BY <1>0, <2>1, <3>1 DEF Tally
    <3>3. RowIs(tally.key, c)'
      BY <2>1, <2>3, <3>1
    <3> QED
      BY <1>4, <2>1, <2>2, <3>2, <3>3, CountGoesOn
  <2> QED
    BY <2>4, <2>5
<1> SUFFICES ASSUME tally' = tally, tally.n > 0, tally' # NoTally, \A r \in Runs : ~Released(r),
                    ~Rewritten, Apart(st'.rules, tally.key), ~Past(tally.key), ~PastNext(tally.key)
             PROVE  TallyInv'
  <2>0. tally.n \in Nat
    BY <1>0 DEF Tally
  <2>1. ASSUME tally' = tally, tally.n > 0, tally' # NoTally, Past(tally.key) \/ PastNext(tally.key)
        PROVE  TallyInv'
    BY <1>0, <2>0, <2>1, NoneWiped, CountGoesOn
  <2>2. CASE /\ tally' = tally /\ tally'.n # 0 /\ tally' # NoTally
             /\ \A r \in Runs : ~Released(r)
    <3>1. ~Rewritten /\ Apart(st'.rules, tally.key) /\ tally.n > 0
      BY <2>0, <2>2, TallyMoves
    <3> QED
      BY <2>1, <2>2, <3>1
  <2> QED
    BY <1>1, <1>2, <1>3, <1>4, <2>2, TallyMoves
<1>5. PICK c \in Nat : RowIs(tally.key, c) /\ tally.n <= (IF Owed THEN c + 1 ELSE c)
  BY <1>0 DEF TallyInv, UnitsCounted
<1>6. tally.n <= c + 1 /\ (~Owed => tally.n <= c) /\ tally.key # Blank /\ tally.n \in Nat
  BY <1>0, <1>5 DEF TallyInv, Tally
<1>7. ASSUME NEW d \in Nat, RowIs(tally.key, d)', tally.n <= (IF Owed' THEN d + 1 ELSE d)
      PROVE  TallyInv'
  BY <1>0, <1>6, <1>7, NoneWiped, CountGoesOn
<1>8. ASSUME \A k, d : RowIs(k, d) => RowIs(k, d)', Owed => Owed'
      PROVE  TallyInv'
  <2>1. RowIs(tally.key, c)'
    BY <1>5, <1>8
  <2> QED
    BY <1>5, <1>6, <1>7, <1>8, <2>1
<1>9. ASSUME NEW r \in Runs, ReservePull(r)
      PROVE  TallyInv'
  <2>1. st'.key = st.key
    BY <1>9, SwitchLeaves
  <2>2. ~Storing(r)' /\ RunStep(r) /\ Limited /\ st'.rules = st.rules /\ st'.known
    BY <1>0, <1>9, <2>1, ReserveFacts DEF Storing, RunStep
  <2>3. ~Owed
    BY <1>0, <1>9, OwedIsLive, RunAtSteps
  <2> QED
    BY <1>8, <2>2, <2>3, RowKept
<1>10. ASSUME NEW r \in Runs, CommitPull(r)
       PROVE  TallyInv'
  <2>1. CASE st' = st
    <3>1. ~Owed
      BY <1>0, <1>10, <2>1, JobEndFacts DEF Owed, Limited, HasSlots, ScheduleState
    <3>2. ~Storing(r)' /\ RunStep(r)
      BY <1>0, <1>10, <2>1, JobEndFacts DEF RunStep, Storing, ScheduleState, Off
    <3> QED
      BY <1>8, <3>1, <3>2, RowKept
  <2>2. CASE st' # st
    <3>1. st.known /\ st.key # Blank /\ st'.key = st.key /\ st'.used = st.used + 1
      BY <1>0, <1>10, <2>2, JobEndFacts
    <3>2. RowIs(st.key, st.used)
      BY <1>0, <3>1 DEF CalmInv, RowFollows
    <3>3. tally.key = st.key /\ c = st.used
      BY <1>5, <3>2, RowIsOne
    <3>4. RowIs(st.key, st.used)'
      BY <1>0, <1>10, <2>2, RowIsNew
    <3>5. PICK d \in Nat : d = st'.used
      BY <1>0 DEF ScheduleState
    <3>6. RowIs(tally.key, d)'
      BY <3>1, <3>3, <3>4, <3>5
    <3>7. tally.n <= d
      BY <1>6, <3>1, <3>3, <3>5
    <3>8. tally.n <= (IF Owed' THEN d + 1 ELSE d)
      BY <1>6, <3>7
    <3> QED
      BY <1>7, <3>6, <3>8
  <2> QED
    BY <2>1, <2>2
<1>11. ASSUME NEW r \in Runs, ReleasePull(r)
       PROVE  TallyInv'
  <2>1. ~Owed
    <3>1. Sending(r) /\ pull'[r].at = "idle"
      BY <1>0, <1>11, RunAtSteps DEF Sending
    <3> QED
      BY <3>1 DEF Released, Owed
  <2>2. ~Storing(r)' /\ RunStep(r)
    BY <1>0, <1>11, RunAtSteps DEF RunStep, Storing
  <2> QED
    BY <1>8, <2>1, <2>2, RowKept
<1>12. ASSUME NEW r \in Runs, SetRules(r)
       PROVE  TallyInv'
  <2>1. ~Storing(r)' /\ RunStep(r) /\ pull[r].at = "apply"
    BY <1>0, <1>12, RunAtSteps DEF RunStep, Storing
  <2>2. ~Owed
    BY <1>0, <2>1, OwedIsLive DEF TakingTurns, Busy, Owed, CalmInv, ActiveIsLive
  <2> QED
    BY <1>8, <2>1, <2>2, RowKept
<1>13. CASE PeekPull
  <2>1. st'.key = st.key
    BY <1>13, SwitchLeaves
  <2>2. peek' = Blank /\ st'.known = st.known /\ st'.rules = st.rules /\ st'.limit > 0
    BY <1>0, <1>13, <2>1, PeekFacts DEF Limited
  <2>3. Owed => Owed'
    BY <1>0, <1>13, <2>1, <2>2, OwedStays DEF PeekPull
  <2> QED
    BY <1>8, <1>13, <2>2, <2>3, RowKept
<1>14. ASSUME NEW f \in Refreshers, ComputeNextRun(f)
       PROVE  TallyInv'
  <2>1. st'.key = st.key
    BY <1>14, SwitchLeaves
  <2>2. ref[f].at = "compute" /\ ~ref[f].wiped
    BY <1>0, <1>14 DEF ComputeNextRun, TallyInv
  <2>3. /\ ref'[f].at # "write" /\ st'.known = st.known /\ st'.rules = st.rules
        /\ st' = st \/ st'.limit > 0
        /\ pull' = pull
    <3>1. pull' = pull
      BY <1>14 DEF ComputeNextRun
    <3>2. ref'[f].at # "write"
      BY <1>0, <1>14, <2>1, <2>2, ComputeFacts
    <3>3. st' = st \/ (st.known /\ st'.known /\ st'.rules = st.rules /\ st'.limit > 0)
      BY <1>0, <1>14, ComputeFacts DEF Limited
    <3> QED
      BY <1>0, <3>1, <3>2, <3>3 DEF ScheduleState
  <2>4. Owed => Owed'
    BY <1>0, <1>14, <2>1, <2>3, OwedStays DEF Owed
  <2> QED
    BY <1>8, <1>14, <2>3, <2>4, RowKept DEF Refresh
<1>15. ASSUME NEW f \in Refreshers, Forget(f) \/ ApplyRules(f) \/ SyncPersistedState(f)
       PROVE  TallyInv'
  <2>1. Refresh(f) /\ ref[f].at \in {"apply", "sync"} /\ pull' = pull
    BY <1>15 DEF Refresh, Forget, ApplyRules, SyncPersistedState
  <2>2. ref'[f].at # "write"
    <3>1. CASE Forget(f)
      BY <1>0, <3>1 DEF Forget, Resting, IInv, TypeOK
    <3>2. CASE ApplyRules(f)
      BY <1>0, <3>2 DEF ApplyRules, Resting, IInv, TypeOK, RefreshState
    <3>3. CASE SyncPersistedState(f)
      BY <1>0, <3>3 DEF SyncPersistedState, Resting, IInv, TypeOK
    <3> QED
      BY <1>15, <3>1, <3>2, <3>3
  <2>3. Owed => Owed'
    <3> SUFFICES ASSUME Owed
                 PROVE  Owed'
      OBVIOUS
    <3>1. ~Forget(f)
      BY <1>0, OwedIsLive, SchedulerAssumption DEF Forget, ForgetsIdle
    <3>2. CASE ApplyRules(f)
      <4>1. st' = st
        <5>1. st' = Applied(ref[f].rules) /\ st.known
          BY <3>2 DEF ApplyRules, Owed, Limited
        <5> QED
          BY <5>1, AppliedFacts DEF Rewritten
      <4> QED
        BY <1>0, <2>1, <4>1, OwedStays DEF Owed
    <3>3. CASE SyncPersistedState(f)
      BY <1>0, <2>1, <3>3, SyncFacts, OwedStays DEF Owed
    <3> QED
      BY <1>15, <3>1, <3>2, <3>3
  <2> QED
    BY <1>8, <2>1, <2>2, <2>3, RowKept
<1>16. ASSUME NEW r \in Runs, SyncRun(r)
       PROVE  TallyInv'
  <2>1. ~Storing(r)' /\ RunStep(r) /\ pull[r].at = "sync"
    BY <1>0, <1>16, RunAtSteps DEF RunStep, Storing
  <2>2. ~Owed
    BY <1>0, <2>1, OwedIsLive DEF Busy, ActiveIsLive
  <2> QED
    BY <1>8, <2>1, <2>2, RowKept
<1>17. ASSUME NEW r \in Runs,
              \/ StartRun(r) \/ LoadRules(r) \/ LoadLatest(r) \/ ReserveUnlimited(r)
              \/ ResetRow(r) \/ PersistCount(r) \/ RunReturns(r)
       PROVE  TallyInv'
  <2>1. st' = st /\ (StartRun(r) \/ RunStep(r)) 
    BY <1>17 DEF RunStep, StartRun, LoadRules, LoadRulesFails, LoadLatest, ReserveUnlimited,
                 ResetRow, PersistCount, RunReturns
  <2>2. (Storing(r)' => Storing(r)) /\ ~CommitPull(r) /\ ~ReleasePull(r)
    BY <1>0, <1>17, RunAtSteps DEF Storing
  <2>3. Owed => Owed'
    BY <1>0, <2>1, <2>2, OwedStays DEF Owed
  <2> QED
    BY <1>8, <2>1, <2>2, <2>3, RowKept
<1>18. ASSUME NEW f \in Refreshers, ReadRow(f) \/ WriteReset(f)
       PROVE  TallyInv'
  <2>1. st' = st /\ pull' = pull /\ Refresh(f)
    BY <1>18 DEF Refresh, ReadRow, WriteReset
  <2>2. ref'[f].at = "write" => ref[f].at = "write"
    BY <1>0, <1>18 DEF ReadRow, WriteReset, Resting, IInv, TypeOK
  <2>3. Owed => Owed'
    BY <2>1 DEF Owed, Limited, Sending
  <2> QED
    BY <1>8, <2>1, <2>2, <2>3, RowKept
<1>19. CASE StopTask \/ PeekResets \/ Tick \/ EditRules
  <2>1. st' = st /\ pull' = pull
    BY <1>19 DEF StopTask, PeekResets, Tick, EditRules
  <2>2. Owed => Owed'
    BY <2>1 DEF Owed, Limited, Sending
  <2> QED
    BY <1>8, <1>19, <2>2, RowKept
<1>20. CASE Restart
  <2>1. peek = Blank /\ \A r \in Runs : ~Busy(r) /\ ~Sending(r) /\ ~Storing(r)
    BY <1>0, <1>20, NewContextFinds DEF Restart
  <2>2. ~Owed
    BY <2>1 DEF Owed, Busy
  <2>3. \A f \in Refreshers : ref[f].at # "write"
    BY <1>0, <1>5, <1>6, <2>2 DEF RowIs
  <2>4. row.key = tally.key /\ row.count = c
    BY <1>5, <2>1, <2>3 DEF RowIs, NothingPending
  <2>5. NothingPending'
    BY <1>20 DEF Restart, NothingPending, Storing, Off, Resting
  <2>6. RowIs(tally.key, c)'
    BY <1>20, <2>4, <2>5 DEF Restart, RowIs, NothingPending, Storing
  <2> QED
    BY <1>6, <1>7, <2>2, <2>6
<1> QED
  BY <1>9, <1>10, <1>11, <1>12, <1>13, <1>14, <1>15, <1>16, <1>17, <1>18, <1>19, <1>20, NothingFails
     DEF Next, RunStep, Refresh

-----------------------------------------------------------------------------
(* The quota is kept *)

\* At the start nobody is at work and nothing has been counted.
LEMMA QuotaInit == Init => QuotaInv
<1> SUFFICES ASSUME Init
             PROVE  QuotaInv
  OBVIOUS
<1>1. /\ now = Midnight(1) /\ row.key = Blank /\ row.count = 0 /\ ~row.wanted /\ st = NoState
      /\ live = NoRun /\ peek = Blank /\ calm /\ tally = NoTally
      /\ \A r \in Runs : pull[r] = Off
      /\ \A f \in Refreshers : ref[f] = Resting
  BY DEF Init
<1>2. IInv
  BY InitInv
<1>3. ClockInv
  BY <1>1 DEF ClockInv, Reading, Resting, Midnight, At
<1>4. LiveInv
  BY <1>1 DEF LiveInv
<1>5. TakingTurns
  BY <1>1 DEF TakingTurns, Busy, Refreshing, Off, Resting
<1>6. ActiveIsLive /\ ForgetsIdle /\ Copies /\ WipedBlank
  BY <1>1 DEF ActiveIsLive, ForgetsIdle, Copies, WipedBlank, Busy, Sending, Off, Resting
<1>7. KeysSeen
  <2>1. Seen(Blank)
    BY DEF Seen, Begun
  <2> QED
    BY <1>1, <2>1 DEF KeysSeen, NoState, Off, Resting
<1>8. SlotFits /\ RowFollows
  BY <1>1 DEF SlotFits, RowFollows, NoState
<1>9. TallyInv
  BY <1>1 DEF TallyInv, NoTally
<1> QED
  BY <1>1, <1>2, <1>3, <1>4, <1>5, <1>6, <1>7, <1>8, <1>9 DEF QuotaInv, CalmInv

\* Every step and every stutter keeps the invariant.
LEMMA QuotaStep == QuotaInv /\ [Next]_vars => QuotaInv'
<1>1. ASSUME QuotaInv, Next
      PROVE  QuotaInv'
  <2>1. IInv' /\ ClockInv' /\ LiveInv'
    BY <1>1, StepInv, ClockStep, LiveStep DEF QuotaInv
  <2>2. Tracked
    BY <1>1, NextTracks DEF QuotaInv
  <2>3. ~calm' => tally' = NoTally
    BY <2>2 DEF Tracked, Track, TrackFailure
  <2>4. ASSUME calm'
        PROVE  CalmInv'
    <3>1. TakingTurns'
      BY <1>1, <2>2, <2>4, CalmStep
    <3>2. ActiveIsLive' /\ ForgetsIdle' /\ Copies' /\ WipedBlank'
      BY <1>1, <2>4, ActiveStep, ForgetsStep, CopiesStep, WipedStep
    <3>3. KeysSeen' /\ SlotFits' /\ RowFollows' /\ TallyInv'
      BY <1>1, <2>4, KeysStep, FitsStep, RowsStep, TallyStep
    <3> QED
      BY <3>1, <3>2, <3>3 DEF CalmInv
  <2> QED
    BY <2>1, <2>3, <2>4 DEF QuotaInv
<1>2. ASSUME QuotaInv, UNCHANGED vars
      PROVE  QuotaInv'
  <2>1. IInv'
    BY <1>2, StepInv DEF QuotaInv
  <2>2. ClockInv' /\ LiveInv'
    BY <1>2, ClockStep, LiveStep DEF QuotaInv
  <2>3. CalmInv => CalmInv'
    <3>1. /\ now' = now /\ row' = row /\ st' = st /\ live' = live /\ pull' = pull
          /\ peek' = peek /\ ref' = ref /\ tally' = tally
      BY <1>2 DEF vars
    <3>2. TakingTurns => TakingTurns'
      BY <3>1 DEF TakingTurns, Busy, Refreshing
    <3>3. ActiveIsLive /\ ForgetsIdle /\ Copies /\ WipedBlank
            => (ActiveIsLive /\ ForgetsIdle /\ Copies /\ WipedBlank)'
      BY <3>1 DEF ActiveIsLive, ForgetsIdle, Copies, WipedBlank, Busy, Sending
    <3>4. \A k : Seen(k) <=> Seen(k)'
      BY <3>1 DEF Seen, Reading
    <3>5. KeysSeen => KeysSeen'
      BY <3>1 DEF KeysSeen, Seen, Reading
    <3>6. SlotFits => SlotFits'
      BY <3>1 DEF SlotFits
    <3>7. \A k, c : RowIs(k, c) <=> RowIs(k, c)'
      BY <3>1 DEF RowIs, NothingPending, Storing
    <3>8. (Syncing <=> Syncing') /\ (Owed <=> Owed')
      BY <3>1 DEF Syncing, Owed, Limited, Sending
    <3>9. RowFollows => RowFollows'
      BY <3>1, <3>7, <3>8 DEF RowFollows
    <3>10. TallyInv => TallyInv'
      <4>1. Past(tally.key) => Past(tally.key)'
        BY <3>1 DEF Past, Reading
      <4>2. UnitsCounted => UnitsCounted'
        BY <3>1, <3>7, <3>8, <4>1 DEF UnitsCounted
      <4> QED
        BY <3>1, <3>4, <4>2 DEF TallyInv
    <3> QED
      BY <3>2, <3>3, <3>5, <3>6, <3>9, <3>10 DEF CalmInv
  <2> QED
    BY <1>2, <2>1, <2>2, <2>3 DEF QuotaInv, vars
<1> QED
  BY <1>1, <1>2

\* The quota of a slot that no other overlaps is kept (QuotaKept), one limit for each
\* time the rules were rewritten, however many runs, refreshes, slots, edits, stops and
\* restarts there are, until the first time that two of them work with the row at once
\* or a statement on it fails.
THEOREM SlotQuotaIsKept == Spec => []QuotaKept
<1>1. QuotaInv => QuotaKept
  <2> SUFFICES ASSUME QuotaInv
               PROVE  QuotaKept
    OBVIOUS
  <2>1. tally.n \in Nat /\ tally.limit \in Nat /\ tally.earlier \in Nat /\ tally.allowed \in Nat
    BY DEF QuotaInv, IInv, TypeOK, Tally
  <2>2. tally.earlier <= tally.allowed /\ tally.n <= tally.limit
    <3>1. CASE calm
      BY <2>1, <3>1 DEF QuotaInv, CalmInv, TallyInv
    <3>2. CASE ~calm
      BY <3>2 DEF QuotaInv, NoTally
    <3> QED
      BY <3>1, <3>2
  <2> QED
    BY <2>1, <2>2 DEF QuotaKept
<1> QED
  BY <1>1, QuotaInit, QuotaStep, PTL DEF Spec
=============================================================================
