----------------------------- MODULE SlotRules -----------------------------
(***************************************************************************)
(* The daily time slots of a strategy's schedule_rules and the arithmetic  *)
(* on them (engine/scheduler.go): which slot a time lies in, when the slot *)
(* ends, when the next one starts, and the key its quota is stored under.  *)
(* A time is a day and a minute of it; zone and DST changes are left out.  *)
(***************************************************************************)
EXTENDS Integers, Sequences

CONSTANT DayLen   \* minutes of a day (1440)

ASSUME DayLenAssumption == DayLen \in Nat \ {0}

Minute == 0 .. DayLen - 1
Time   == [day : Int, min : Minute]
Rule   == [start : Minute, end : Minute, limit : Nat]
Key    == [day : Int, start : Minute, end : Minute]

At(d, m) == [day |-> d, min |-> m]
Midnight(d) == At(d, 0)

Before(a, b) == a.day < b.day \/ (a.day = b.day /\ a.min < b.min)

AllDay(r) == r.start = r.end
CrossMidnight(r) == r.start > r.end

Contains(r, t) ==
  \/ AllDay(r)
  \/ ~CrossMidnight(r) /\ t.min >= r.start /\ t.min < r.end
  \/ CrossMidnight(r) /\ (t.min >= r.start \/ t.min < r.end)

EndTime(r, t) ==
  IF AllDay(r) THEN Midnight(t.day + 1)
  ELSE At(IF CrossMidnight(r) /\ t.min >= r.start THEN t.day + 1 ELSE t.day, r.end)

\* nextStart, for a time outside the slot.
NextStart(r, t) ==
  IF AllDay(r) THEN t
  ELSE At(IF t.min < r.start THEN t.day ELSE t.day + 1, r.start)

\* buildSlotKey: the day on which the slot began, and its hours; every all-day
\* rule has the same hours.
SlotKey(r, t) ==
  [day   |-> IF CrossMidnight(r) /\ t.min < r.end THEN t.day - 1 ELSE t.day,
   start |-> IF AllDay(r) THEN 0 ELSE r.start,
   end   |-> IF AllDay(r) THEN 0 ELSE r.end]

\* The rules that allow anything now, and the one whose slot ends first.
ActiveSlots(t, rules) ==
  {i \in DOMAIN rules : rules[i].limit > 0 /\ Contains(rules[i], t)}

PickActiveSlot(t, rules) ==
  CHOOSE i \in ActiveSlots(t, rules) : \A j \in ActiveSlots(t, rules) :
    \/ Before(EndTime(rules[i], t), EndTime(rules[j], t))
    \/ EndTime(rules[i], t) = EndTime(rules[j], t) /\ i <= j

\* nextSlotStart finds a slot: otherwise the rules mean no limit at all.
HasSlots(rules) == \E i \in DOMAIN rules : rules[i].limit > 0

-----------------------------------------------------------------------------
(* Reference: the slot of a rule that begins on day d, as an interval *)

SlotBegin(r, d) == IF AllDay(r) THEN Midnight(d) ELSE At(d, r.start)
SlotEnd(r, d) ==
  IF AllDay(r) THEN Midnight(d + 1)
  ELSE At(IF CrossMidnight(r) THEN d + 1 ELSE d, r.end)
InSlot(r, d, t) == ~Before(t, SlotBegin(r, d)) /\ Before(t, SlotEnd(r, d))

\* The slot a key names, and whether no other slot of the rules overlaps it.
InSlotOf(key, t) == InSlot(key, key.day, t)
Apart(rules, key) ==
  \A i \in DOMAIN rules, d \in {key.day, key.day + 1}, m \in Minute :
    /\ rules[i].limit > 0
    /\ Contains(rules[i], At(d, m)) /\ InSlotOf(key, At(d, m))
    => SlotKey(rules[i], At(d, m)) = key
=============================================================================
