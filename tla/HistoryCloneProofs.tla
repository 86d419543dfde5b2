------------------------- MODULE HistoryCloneProofs -------------------------
(***************************************************************************)
(* Proofs about the history clone: its types, that it is a ResumableCopy,  *)
(* what it sends twice, and that a clone that says it is through has dealt *)
(* with all of its scope; for any history, albums, pages and orders.       *)
(***************************************************************************)
EXTENDS HistoryClone, FiniteSetTheorems, WellFoundedInduction, TLAPS

----------------------------------------------------------------------------
(* The inductive invariants *)

Running == run.at \notin Idle
Phase(p) == Running /\ run.phase = p

\* Where the run is: the page in hand, the part of it that is being sent, and
\* the cursor of the run next to that of the row.
PageInv ==
  /\ run.at \in Idle \cup {"page"} => run.page = {}
  /\ run.at \in {"maxid", "unit", "send", "persist"} => run.page # {} /\ ~run.first
  /\ run.at = "maxid" => run.phase = "new"
  /\ run.at \in {"send", "persist"} =>
       /\ run.unit # {} /\ run.unit \subseteq run.page
       /\ \A u \in run.unit : \A k \in run.page : Precedes(k, u) => k \in run.unit
  /\ run.at = "persist" => run.unit \subseteq handled
  /\ run.arrived => run.at = "persist"

OldInv ==
  Phase("old") =>
    /\ order = "old"
    /\ run.first => run.cursor = 1 /\ row.cursor = 0
    /\ row.cursor <= From /\ (scope.min > 0 => scope.min - 1 <= From)
    /\ \A m \in run.page : row.cursor < m /\ scope.min <= m /\ m <= posted

NewInv ==
  Phase("new") =>
    /\ order = "new" /\ ~run.first
    /\ run.at # "maxid" => run.maxSeen <= row.max
    /\ run.maxSeen <= posted
    /\ row.cursor > 0 => run.cursor > 0 /\ run.cursor <= row.cursor
    /\ run.cursor = 0 => scope.max = 0
    /\ \A m \in run.page : /\ run.cursor > 0 => m < run.cursor
                           /\ m <= Larger(row.max, run.maxSeen)

CatchUpInv ==
  Phase("catchup") =>
    /\ order = "new" /\ ~run.first
    /\ 0 < run.since /\ run.since <= row.max /\ run.since <= run.cursor
    /\ run.maxSeen <= row.max
    /\ run.cursor <= run.latest /\ run.latest <= posted /\ due <= run.latest
    /\ run.processed <= run.cursor
    /\ \A m \in run.page : run.cursor < m /\ m <= run.latest

RowInv ==
  /\ row.max <= posted /\ due <= posted
  /\ order = "new" /\ row.cursor > 0 => row.cursor <= row.max

PlaceInv == PageInv /\ OldInv /\ NewInv /\ CatchUpInv /\ RowInv

\* What the run has behind it, in the order of its phase.
Passed(m) ==
  IF run.phase = "new" THEN run.cursor > 0 /\ run.cursor <= m ELSE m <= From
Reached(m) ==
  /\ m \notin run.page
  /\ Passed(m) \/ \E x \in run.page : Precedes(m, x)

\* What lies behind the run, and counts as done once the row says so, is handled.
WindowCopied == Window \subseteq handled
OldCopied ==
  Phase("old") => \A m \in InScope : Reached(m) => m \in handled
NewCopied ==
  Phase("new") => \A m \in InScope :
    Reached(m) /\ m <= Larger(row.max, run.maxSeen) => m \in handled
CatchUpCopied ==
  Phase("catchup") => \A m \in InScope :
    Reached(m) /\ run.since < m => m \in handled

CopyInv == WindowCopied /\ OldCopied /\ NewCopied /\ CatchUpCopied

\* What the persisted cursors hold back from being sent again, in scope or not.
Kept(m) ==
  IF order = "old" THEN m <= row.cursor
  ELSE row.cursor > 0 /\ row.cursor <= m /\ m <= row.max
InHand(m) == run.at = "persist" /\ run.arrived /\ m \in run.unit

ResentInv ==
  ~headless =>
    /\ \A m \in Messages :
         /\ sent[m] <= 1 + torn[m]
         /\ sent[m] <= torn[m] \/ Kept(m) \/ InHand(m)
    /\ Phase("catchup") => row.cursor > 0 /\ row.max <= run.cursor

\* A clone of a whole channel or a range of it, whose catch-up is not cut off.
\* A range from 1 to 1 ends before message 1 is asked for (cursor >= bounds.MaxID):
\* in a channel that is the service message of its creation.
Complete ==
  /\ scope.count = 0 /\ NoServicePage /\ LastId <= CatchUpLimit
  /\ scope.max = 1 => 1 \in Services

Owed(m) == m <= due /\ (Blind => m <= row.max)
DoneInv ==
  Complete =>
    /\ Phase("new") /\ ~Blind =>
         \A m \in InScope : Reached(m) /\ m <= due => m \in handled
    /\ run.at = "done" => \A m \in InScope : Owed(m) => m \in handled

----------------------------------------------------------------------------
(* What the actions make of the run *)

LEMMA RunTypes ==
  ASSUME run \in Runs
  PROVE  /\ run.at \in Idle \cup {"page", "maxid", "unit", "send", "persist"}
         /\ run.phase \in {"catchup", "old", "new"} /\ run.cursor \in Nat
         /\ run.first \in BOOLEAN /\ run.page \subseteq Messages
         /\ run.unit \subseteq Messages /\ run.tries \in 0..Retries
         /\ run.arrived \in BOOLEAN /\ run.processed \in Nat
         /\ run.latest \in 0..LastId /\ run.since \in 0..LastId
         /\ run.maxSeen \in 0..LastId
  BY DEF Runs

\* A page of the catch-up or of an oldest-first clone.
LEMMA RunPaged ==
  ASSUME run \in Runs, NEW page \in SUBSET Messages,
         run' = [run EXCEPT !.at = "unit", !.first = FALSE, !.page = page]
  PROVE  /\ run' \in Runs
         /\ run'.at = "unit"
         /\ run'.phase = run.phase
         /\ run'.cursor = run.cursor
         /\ run'.first = FALSE
         /\ run'.page = page
         /\ run'.unit = run.unit
         /\ run'.tries = run.tries
         /\ run'.arrived = run.arrived
         /\ run'.processed = run.processed
         /\ run'.latest = run.latest
         /\ run'.since = run.since
         /\ run'.maxSeen = run.maxSeen
  BY HistoryAssumption DEF Runs, Messages

\* A page of a newest-first clone.
LEMMA RunPagedDown ==
  ASSUME run \in Runs, NEW at \in {"maxid", "unit"},
         NEW seen \in 0..LastId, NEW page \in SUBSET Messages,
         run' = [run EXCEPT !.at = at, !.maxSeen = seen, !.page = page]
  PROVE  /\ run' \in Runs
         /\ run'.at = at
         /\ run'.phase = run.phase
         /\ run'.cursor = run.cursor
         /\ run'.first = run.first
         /\ run'.page = page
         /\ run'.unit = run.unit
         /\ run'.tries = run.tries
         /\ run'.arrived = run.arrived
         /\ run'.processed = run.processed
         /\ run'.latest = run.latest
         /\ run'.since = run.since
         /\ run'.maxSeen = seen
  BY HistoryAssumption DEF Runs, Messages

\* The maximum is written, or a unit given up.
LEMMA RunMoved ==
  ASSUME run \in Runs, NEW at \in {"unit", "persist"},
         run' = [run EXCEPT !.at = at]
  PROVE  /\ run' \in Runs
         /\ run'.at = at
         /\ run'.phase = run.phase
         /\ run'.cursor = run.cursor
         /\ run'.first = run.first
         /\ run'.page = run.page
         /\ run'.unit = run.unit
         /\ run'.tries = run.tries
         /\ run'.arrived = run.arrived
         /\ run'.processed = run.processed
         /\ run'.latest = run.latest
         /\ run'.since = run.since
         /\ run'.maxSeen = run.maxSeen
  BY HistoryAssumption DEF Runs, Messages

\* A unit is taken.
LEMMA RunTook ==
  ASSUME run \in Runs, NEW at \in {"send", "persist"}, NEW unit \in SUBSET Messages,
         run' = [run EXCEPT !.at = at, !.unit = unit, !.tries = 0, !.arrived = FALSE]
  PROVE  /\ run' \in Runs
         /\ run'.at = at
         /\ run'.phase = run.phase
         /\ run'.cursor = run.cursor
         /\ run'.first = run.first
         /\ run'.page = run.page
         /\ run'.unit = unit
         /\ run'.tries = 0
         /\ run'.arrived = FALSE
         /\ run'.processed = run.processed
         /\ run'.latest = run.latest
         /\ run'.since = run.since
         /\ run'.maxSeen = run.maxSeen
<1>1. 0 \in 0..Retries
  BY HistoryAssumption
<1>2. run' \in Runs
  BY <1>1 DEF Runs
<1> QED
  BY <1>2 DEF Runs

\* A unit is sent.
LEMMA RunSent ==
  ASSUME run \in Runs, NEW arrives \in BOOLEAN,
         run' = [run EXCEPT !.at = "persist", !.arrived = arrives]
  PROVE  /\ run' \in Runs
         /\ run'.at = "persist"
         /\ run'.phase = run.phase
         /\ run'.cursor = run.cursor
         /\ run'.first = run.first
         /\ run'.page = run.page
         /\ run'.unit = run.unit
         /\ run'.tries = run.tries
         /\ run'.arrived = arrives
         /\ run'.processed = run.processed
         /\ run'.latest = run.latest
         /\ run'.since = run.since
         /\ run'.maxSeen = run.maxSeen
  BY HistoryAssumption DEF Runs, Messages

\* It is tried again.
LEMMA RunRetries ==
  ASSUME run \in Runs, run.tries < Retries,
         run' = [run EXCEPT !.tries = @ + 1]
  PROVE  /\ run' \in Runs
         /\ run'.at = run.at
         /\ run'.phase = run.phase
         /\ run'.cursor = run.cursor
         /\ run'.first = run.first
         /\ run'.page = run.page
         /\ run'.unit = run.unit
         /\ run'.tries = run.tries + 1
         /\ run'.arrived = run.arrived
         /\ run'.processed = run.processed
         /\ run'.latest = run.latest
         /\ run'.since = run.since
         /\ run'.maxSeen = run.maxSeen
  BY HistoryAssumption DEF Runs, Messages

\* A clone starts, with its catch-up or without.
LEMMA RunStarts ==
  ASSUME TypeOK
  PROVE  /\ CatchUpStart \in Runs /\ OldToNewStart \in Runs
         /\ \A max \in 0..LastId : NewToOldStart(max) \in Runs
<1> USE HistoryAssumption DEF TypeOK, Larger
<1>1. 0 \in 0..Retries /\ 0 \in 0..LastId
  OBVIOUS
<1>2. row.cursor \in Nat /\ row.max \in 0..LastId
  OBVIOUS
<1>3. scope.min \in Nat /\ scope.max \in Nat
  OBVIOUS
<1>4. CatchUpStart \in Runs
  <2> DEFINE since == Since
  <2>0. Latest \in 0..LastId
    BY DEF Latest
  <2>1. since \in 0..LastId /\ Larger(since, 1) \in Nat
    BY <1>2, <2>0 DEF Since
  <2>2. (since <= 0) \in BOOLEAN
    BY <2>1
  <2> HIDE DEF since
  <2>3. ASSUME NEW s \in 0..LastId, NEW c \in Nat, NEW f \in BOOLEAN
        PROVE  [NoRun EXCEPT !.at = "page", !.phase = "catchup",
                  !.latest = Latest, !.since = s, !.cursor = c, !.first = f,
                  !.maxSeen = row.max] \in Runs
    BY <1>1, <1>2, <2>0 DEF NoRun, Runs
  <2>4. [NoRun EXCEPT !.at = "page", !.phase = "catchup", !.latest = Latest,
                      !.since = since, !.cursor = Larger(since, 1),
                      !.first = since <= 0, !.maxSeen = row.max] \in Runs
    BY <2>1, <2>2, <2>3, Zenon
  <2> QED
    BY <2>4, Zenon DEF CatchUpStart, since
<1>5. OldToNewStart \in Runs
  <2> DEFINE low ==
        IF scope.min > 0 THEN Larger(row.cursor, scope.min - 1) ELSE row.cursor
  <2>1. low \in Nat /\ Larger(low, 1) \in Nat
    BY <1>2, <1>3
  <2>2. (low <= 0) \in BOOLEAN
    BY <2>1
  <2> HIDE DEF low
  <2>3. ASSUME NEW c \in Nat, NEW f \in BOOLEAN
        PROVE  [NoRun EXCEPT !.at = "page", !.phase = "old", !.cursor = c,
                             !.first = f] \in Runs
    BY <1>1 DEF NoRun, Runs
  <2>4. [NoRun EXCEPT !.at = "page", !.phase = "old", !.cursor = Larger(low, 1),
                      !.first = low <= 0] \in Runs
    BY <2>1, <2>2, <2>3, Zenon
  <2> QED
    BY <2>4, Zenon DEF OldToNewStart, low
<1>6. ASSUME NEW max \in 0..LastId PROVE NewToOldStart(max) \in Runs
  <2> DEFINE c ==
        IF row.cursor <= 0 /\ scope.max > 0 THEN scope.max + 1 ELSE row.cursor
  <2>1. c \in Nat
    BY <1>2, <1>3
  <2> HIDE DEF c
  <2>2. [NoRun EXCEPT !.at = "page", !.phase = "new", !.maxSeen = max,
                      !.cursor = c] \in Runs
    BY <1>1, <2>1 DEF NoRun, Runs
  <2> QED
    BY <2>2 DEF NewToOldStart, c
<1> QED
  BY <1>4, <1>5, <1>6

\* The run is over, or interrupted.
LEMMA RunEnds ==
  ASSUME NEW at \in Idle, run' = [NoRun EXCEPT !.at = at]
  PROVE  /\ run' \in Runs /\ run'.at = at /\ run'.page = {} /\ ~run'.arrived
<1>1. 0 \in 0..Retries /\ 0 \in 0..LastId
  BY HistoryAssumption
<1>2. run' \in Runs
  BY <1>1 DEF NoRun, Runs, Idle
<1> QED
  BY <1>2 DEF NoRun, Runs

----------------------------------------------------------------------------
(* Numbers, pages and units *)

LEMMA MessagesFinite ==
  ASSUME NEW S \in SUBSET Messages
  PROVE  IsFiniteSet(S) /\ Cardinality(S) \in Nat
<1>1. IsFiniteSet(Messages)
  BY HistoryAssumption, FS_Interval DEF Messages
<1>2. IsFiniteSet(S)
  BY <1>1, FS_Subset
<1> QED
  BY <1>2, FS_CardinalityType

\* Some messages have a first and a last one.
LEMMA LeastMessage ==
  ASSUME NEW S \in SUBSET Messages, S # {}
  PROVE  \E n \in S : \A x \in S : n <= x
<1> DEFINE R == {p \in Nat \X Nat : p[1] < p[2]}
<1>1. IsWellFoundedOn(R, Nat)
  BY NatLessThanWellFounded, Zenon DEF OpToRel
<1>2. S \subseteq Nat
  BY HistoryAssumption DEF Messages
<1>3. PICK n \in S : \A k \in S : <<k, n>> \notin R
  <2> HIDE DEF R
  <2> QED
    BY <1>1, <1>2, WFMin
<1>4. ASSUME NEW x \in S PROVE n <= x
  <2>1. x \in Nat /\ n \in Nat
    BY <1>2
  <2>2. ~(x < n)
    BY <1>3, <2>1
  <2> HIDE DEF R
  <2> QED
    BY <2>1, <2>2
<1> QED
  BY <1>4

LEMMA GreatestMessage ==
  ASSUME NEW S \in SUBSET Messages, S # {}
  PROVE  \E n \in S : \A x \in S : x <= n
<1> DEFINE T == {LastId + 1 - x : x \in S}
<1>1. T \in SUBSET Messages /\ T # {}
  <2>1. \A x \in S : LastId + 1 - x \in Messages
    BY HistoryAssumption DEF Messages
  <2> QED
    BY <2>1
<1>2. PICK k \in T : \A x \in T : k <= x
  <2> HIDE DEF T
  <2> QED
    BY <1>1, LeastMessage
<1>3. PICK n \in S : k = LastId + 1 - n
  BY <1>2
<1>4. ASSUME NEW x \in S PROVE x <= n
  <2>1. k <= LastId + 1 - x
    BY <1>2
  <2> HIDE DEF T
  <2> QED
    BY <1>3, <2>1, HistoryAssumption DEF Messages
<1> QED
  BY <1>4

LEMMA MaxMin ==
  ASSUME NEW S \in SUBSET Messages, S # {}
  PROVE  /\ Max(S) \in S /\ \A x \in S : x <= Max(S)
         /\ Min(S) \in S /\ \A x \in S : Min(S) <= x
<1> USE HistoryAssumption DEF Messages
<1>1. \E n \in S : \A x \in S : n >= x
  BY GreatestMessage
<1>2. \E n \in S : \A x \in S : n =< x
  BY LeastMessage
<1>3. Max(S) \in S /\ \A x \in S : Max(S) >= x
  BY <1>1 DEF Max
<1>4. Min(S) \in S /\ \A x \in S : Min(S) =< x
  BY <1>2 DEF Min
<1> QED
  BY <1>3, <1>4

\* The head of a page comes before all of it.
LEMMA HeadLeads ==
  ASSUME TypeOK, run.page # {}
  PROVE  Head \in run.page /\ \A m \in run.page : Precedes(Head, m)
<1>1. run.page \in SUBSET Messages
  BY RunTypes DEF TypeOK
<1>2. \E h \in run.page : \A m \in run.page : Precedes(h, m)
  BY <1>1, LeastMessage, GreatestMessage, HistoryAssumption
     DEF Precedes, Messages
<1> QED
  BY <1>2 DEF Head

\* A unit is a leading part of its page.
LEMMA UnitLeads ==
  ASSUME TypeOK, run.page # {},
         NEW unit, unit = {Head} \/ (Grouped /\ unit = Parts)
  PROVE  /\ unit \in SUBSET run.page /\ unit # {}
         /\ \A u \in unit : \A k \in run.page : Precedes(k, u) => k \in unit
<1>1. \A m \in run.page : m \in Int
  BY RunTypes, HistoryAssumption DEF TypeOK, Messages
<1>2. Head \in run.page /\ \A m \in run.page : Precedes(Head, m)
  BY HeadLeads
<1>3. \A k \in run.page : Precedes(k, Head) => k = Head
  BY <1>1, <1>2 DEF Precedes
<1>4. \A j, k, m \in run.page :
        Precedes(j, k) /\ Precedes(k, m) => Precedes(j, m)
  BY <1>1 DEF Precedes
<1>5. CASE unit = {Head}
  BY <1>2, <1>3, <1>5
<1>6. CASE Grouped /\ unit = Parts
  <2>1. SameAlbum(Head, Head)
    BY <1>6 DEF Grouped, SameAlbum
  <2>2. Head \in Parts
    BY <1>2, <1>3, <2>1 DEF Parts
  <2>3. ASSUME NEW u \in Parts, NEW k \in run.page, Precedes(k, u)
        PROVE  k \in Parts
    BY <1>4, <2>3 DEF Parts
  <2> QED
    BY <1>6, <2>2, <2>3 DEF Parts
<1> QED
  BY <1>5, <1>6

\* A page takes the messages next to the cursor, and leaves none of them out.
LEMMA AscendingLeads ==
  ASSUME NEW ids \in SUBSET Messages, NEW n \in Int,
         NEW m \in Ascending(ids, n), NEW k \in ids, k <= m
  PROVE  k \in Ascending(ids, n)
<1>0. m \in ids
  BY DEF Ascending
<1> USE HistoryAssumption DEF Messages
<1>1. {x \in ids : x < k} \in SUBSET {x \in ids : x < m}
  <2>1. m \in Int /\ k \in Int /\ \A x \in ids : x \in Int
    BY <1>0
  <2>2. \A x \in ids : x < k => x < m
    BY <2>1
  <2> QED
    BY <2>2, Zenon
<1>2. IsFiniteSet({x \in ids : x < m})
      /\ Cardinality({x \in ids : x < m}) \in Nat
      /\ Cardinality({x \in ids : x < k}) \in Nat
  BY MessagesFinite
<1>3. Cardinality({x \in ids : x < k}) <= Cardinality({x \in ids : x < m})
  BY <1>1, <1>2, FS_Subset
<1> QED
  BY <1>2, <1>3 DEF Ascending

LEMMA DescendingLeads ==
  ASSUME NEW ids \in SUBSET Messages, NEW n \in Int,
         NEW m \in Descending(ids, n), NEW k \in ids, k >= m
  PROVE  k \in Descending(ids, n)
<1>0. m \in ids
  BY DEF Descending
<1> USE HistoryAssumption DEF Messages
<1>1. {x \in ids : x > k} \in SUBSET {x \in ids : x > m}
  <2>1. m \in Int /\ k \in Int /\ \A x \in ids : x \in Int
    BY <1>0
  <2>2. \A x \in ids : x > k => x > m
    BY <2>1
  <2> QED
    BY <2>2, Zenon
<1>2. IsFiniteSet({x \in ids : x > m})
      /\ Cardinality({x \in ids : x > m}) \in Nat
      /\ Cardinality({x \in ids : x > k}) \in Nat
  BY MessagesFinite
<1>3. Cardinality({x \in ids : x > k}) <= Cardinality({x \in ids : x > m})
  BY <1>1, <1>2, FS_Subset
<1> QED
  BY <1>2, <1>3 DEF Descending

\* When a page of an unbroken stretch leaves something out, it is full: n
\* messages in a row.
LEMMA AscendingFull ==
  ASSUME NEW lo \in Nat, NEW hi \in 0..LastId, NEW n \in Nat,
         NEW m \in (lo + 1)..hi, m \notin Ascending((lo + 1)..hi, n)
  PROVE  (lo + 1)..(lo + n) \subseteq Ascending((lo + 1)..hi, n)
<1> USE HistoryAssumption
<1>1. ASSUME NEW x \in (lo + 1)..hi
      PROVE  Cardinality({k \in (lo + 1)..hi : k < x}) = x - lo - 1
  <2>1. {k \in (lo + 1)..hi : k < x} = (lo + 1)..(x - 1)
    OBVIOUS
  <2>2. Cardinality((lo + 1)..(x - 1))
          = IF lo + 1 > x - 1 THEN 0 ELSE (x - 1) - (lo + 1) + 1
    BY FS_Interval
  <2>3. x \in Int /\ lo + 1 <= x
    OBVIOUS
  <2>4. (IF lo + 1 > x - 1 THEN 0 ELSE (x - 1) - (lo + 1) + 1) = x - lo - 1
    BY <2>3
  <2> QED
    BY <2>1, <2>2, <2>4, Zenon
<1>2. m - lo - 1 >= n
  BY <1>1 DEF Ascending
<1>3. ASSUME NEW x \in (lo + 1)..(lo + n)
      PROVE  x \in Ascending((lo + 1)..hi, n)
  <2>1. x \in (lo + 1)..hi /\ x - lo - 1 < n
    BY <1>2
  <2> QED
    BY <1>1, <2>1 DEF Ascending
<1> QED
  BY <1>3

LEMMA DescendingFull ==
  ASSUME NEW lo \in Nat, NEW hi \in 0..LastId, NEW n \in Nat,
         NEW m \in (lo + 1)..hi, m \notin Descending((lo + 1)..hi, n)
  PROVE  (hi - n + 1)..hi \subseteq Descending((lo + 1)..hi, n)
<1> USE HistoryAssumption
<1>1. ASSUME NEW x \in (lo + 1)..hi
      PROVE  Cardinality({k \in (lo + 1)..hi : k > x}) = hi - x
  <2>1. {k \in (lo + 1)..hi : k > x} = (x + 1)..hi
    OBVIOUS
  <2>2. Cardinality((x + 1)..hi)
          = IF x + 1 > hi THEN 0 ELSE hi - (x + 1) + 1
    BY FS_Interval
  <2>3. x \in Int /\ x <= hi /\ hi \in Int
    OBVIOUS
  <2>4. (IF x + 1 > hi THEN 0 ELSE hi - (x + 1) + 1) = hi - x
    BY <2>3
  <2> QED
    BY <2>1, <2>2, <2>4, Zenon
<1>2. hi - m >= n
  BY <1>1 DEF Descending
<1>3. ASSUME NEW x \in (hi - n + 1)..hi
      PROVE  x \in Descending((lo + 1)..hi, n)
  <2>1. x \in (lo + 1)..hi /\ hi - x < n
    BY <1>2
  <2> QED
    BY <1>1, <2>1 DEF Descending
<1> QED
  BY <1>3

----------------------------------------------------------------------------
(* Types and pages *)

\* A unit in hand is not empty, and has a first and a last message.
LEMMA UnitEnds ==
  ASSUME TypeOK, PageInv, run.at = "persist"
  PROVE  /\ run.unit \in SUBSET run.page /\ run.unit \in SUBSET Messages
         /\ Max(run.unit) \in run.unit /\ Min(run.unit) \in run.unit
         /\ \A u \in run.unit : Min(run.unit) <= u /\ u <= Max(run.unit)
         /\ Max(run.unit) \in Messages /\ Min(run.unit) \in Messages
<1>1. run.unit \in SUBSET Messages
  BY RunTypes DEF TypeOK
<1>2. run.unit # {} /\ run.unit \in SUBSET run.page
  BY DEF PageInv
<1> QED
  BY <1>1, <1>2, MaxMin

\* The row and the run after a unit, for either kind of cursor.
LEMMA PersistDoes ==
  ASSUME TypeOK, PageInv, run.at = "persist",
         NEW reached \in Nat, NEW newRow, Persisted(reached, newRow)
  PROVE  /\ run' \in Runs /\ row' = newRow
         /\ run'.at = (IF run.page \ run.unit = {} THEN "page" ELSE "unit")
         /\ run'.phase = run.phase /\ run'.cursor = reached
         /\ run'.first = run.first /\ run'.page = run.page \ run.unit
         /\ run'.processed = run.processed + Cardinality(run.unit)
         /\ run'.latest = run.latest /\ run'.since = run.since
         /\ run'.maxSeen = run.maxSeen /\ ~run'.arrived
         /\ UNCHANGED <<task, posted, starts, history>>
<1>1. run \in Runs
  BY DEF TypeOK
<1>2. PICK rest \in SUBSET Messages : rest = run.page \ run.unit
  BY <1>1, RunTypes
<1>3. PICK n \in Nat : n = run.processed + Cardinality(run.unit)
  BY <1>1, RunTypes, MessagesFinite
<1>4. PICK at \in {"page", "unit"} :
        at = IF run.page \ run.unit = {} THEN "page" ELSE "unit"
  OBVIOUS
<1>5. run' = [run EXCEPT !.at = at, !.page = rest, !.cursor = reached,
                         !.processed = n, !.unit = {}, !.arrived = FALSE]
  BY <1>2, <1>3, <1>4 DEF Persisted
<1>6. row' = newRow /\ UNCHANGED <<task, posted, starts, history>>
  BY DEF Persisted
<1>7. run' \in Runs
  BY <1>1, <1>5 DEF Runs
<1>8. /\ run'.at = at /\ run'.phase = run.phase
      /\ run'.cursor = reached /\ run'.first = run.first /\ run'.page = rest
      /\ run'.processed = n /\ run'.latest = run.latest
      /\ run'.since = run.since /\ run'.maxSeen = run.maxSeen
      /\ run'.arrived = FALSE
  BY <1>1, <1>5 DEF Runs
<1> QED
  BY <1>2, <1>3, <1>4, <1>6, <1>7, <1>8

\* What each of the pages makes of the run, when it has something to deal with.
CatchUpIds == {m \in Messages : m > From /\ m <= run.latest}
CatchUpTodo ==
  {m \in Ascending(CatchUpIds, PageSize) \ Services : m > run.since}
CatchUpEnds ==
  \/ run.cursor >= run.latest \/ run.processed > CatchUpLimit
  \/ CatchUpTodo = {}

OldIds ==
  {m \in Messages : m > From /\ m <= posted /\ (scope.max > 0 => m <= scope.max)}
OldTodo ==
  {m \in Ascending(OldIds, Left) \ Services : scope.min > 0 => m >= scope.min}
OldEnds ==
  Enough \/ (scope.max > 0 /\ run.cursor >= scope.max) \/ OldTodo = {}

NewIds ==
  {m \in Messages : /\ m <= posted /\ (run.cursor > 0 => m < run.cursor)
                    /\ (scope.min > 0 => m >= scope.min)
                    /\ (scope.max > 0 => m <= scope.max)}
NewTodo == Descending(NewIds, Left) \ Services
NewEnds ==
  Enough \/ (scope.min > 0 /\ run.cursor <= scope.min) \/ NewTodo = {}

LEMMA CatchUpPageDoes ==
  ASSUME TypeOK, CatchUpPage
  PROVE  /\ Asking("catchup") /\ run' \in Runs
         /\ CatchUpEnds => run' = CloneStart(run.maxSeen)
         /\ ~CatchUpEnds =>
              /\ run'.at = "unit" /\ run'.phase = run.phase
              /\ run'.cursor = run.cursor /\ ~run'.first
              /\ run'.page = CatchUpTodo /\ run'.page # {}
              /\ run'.processed = run.processed /\ run'.latest = run.latest
              /\ run'.since = run.since /\ run'.maxSeen = run.maxSeen
              /\ run'.arrived = run.arrived
         /\ UNCHANGED <<task, posted, row, starts, history>>
<1>1. Asking("catchup") /\ UNCHANGED <<task, posted, row, starts, history>>
  BY DEF CatchUpPage
<1>2. run' = IF CatchUpEnds THEN CloneStart(run.maxSeen)
             ELSE [run EXCEPT !.at = "unit", !.first = FALSE,
                              !.page = CatchUpTodo]
  BY Zenon DEF CatchUpPage, CatchUpEnds, CatchUpTodo, CatchUpIds
<1>3. run \in Runs /\ run.maxSeen \in 0..LastId
  BY RunTypes DEF TypeOK
<1>4. CloneStart(run.maxSeen) \in Runs
  BY <1>3, RunStarts DEF CloneStart
<1>5. CatchUpTodo \in SUBSET Messages
  BY DEF CatchUpTodo, CatchUpIds, Ascending
<1>6. CASE CatchUpEnds
  BY <1>1, <1>2, <1>4, <1>6
<1>7. CASE ~CatchUpEnds
  <2>1. run' = [run EXCEPT !.at = "unit", !.first = FALSE, !.page = CatchUpTodo]
    BY <1>2, <1>7
  <2>2. CatchUpTodo # {}
    BY <1>7 DEF CatchUpEnds
  <2> QED
    BY <1>1, <1>3, <1>5, <1>7, <2>1, <2>2, RunPaged
<1> QED
  BY <1>6, <1>7

LEMMA OldPageDoes ==
  ASSUME TypeOK, OldToNewPage
  PROVE  /\ Asking("old") /\ run' \in Runs
         /\ OldEnds => run'.at = "done" /\ run'.page = {} /\ ~run'.arrived
         /\ ~OldEnds =>
              /\ run'.at = "unit" /\ run'.phase = run.phase
              /\ run'.cursor = run.cursor /\ ~run'.first
              /\ run'.page = OldTodo /\ run'.page # {}
              /\ run'.arrived = run.arrived
         /\ UNCHANGED <<task, posted, row, starts, history>>
<1>1. Asking("old") /\ UNCHANGED <<task, posted, row, starts, history>>
  BY DEF OldToNewPage
<1>2. run' = IF OldEnds THEN [NoRun EXCEPT !.at = "done"]
             ELSE [run EXCEPT !.at = "unit", !.first = FALSE, !.page = OldTodo]
  BY Zenon DEF OldToNewPage, OldEnds, OldTodo, OldIds
<1>3. run \in Runs
  BY DEF TypeOK
<1>4. OldTodo \in SUBSET Messages
  BY DEF OldTodo, OldIds, Ascending
<1>5. CASE OldEnds
  BY <1>1, <1>2, <1>5, RunEnds DEF Idle
<1>6. CASE ~OldEnds
  <2>1. run' = [run EXCEPT !.at = "unit", !.first = FALSE, !.page = OldTodo]
    BY <1>2, <1>6
  <2>2. OldTodo # {}
    BY <1>6 DEF OldEnds
  <2> QED
    BY <1>1, <1>3, <1>4, <1>6, <2>1, <2>2, RunPaged
<1> QED
  BY <1>5, <1>6

LEMMA NewPageDoes ==
  ASSUME TypeOK, NewToOldPage
  PROVE  /\ Asking("new") /\ run' \in Runs
         /\ NewEnds => run'.at = "done" /\ run'.page = {} /\ ~run'.arrived
         /\ ~NewEnds =>
              /\ run'.at = (IF Max(NewTodo) > run.maxSeen THEN "maxid" ELSE "unit")
              /\ run'.maxSeen = Larger(run.maxSeen, Max(NewTodo))
              /\ run'.phase = run.phase /\ run'.cursor = run.cursor
              /\ run'.first = run.first
              /\ run'.page = NewTodo /\ run'.page # {}
              /\ run'.arrived = run.arrived
         /\ UNCHANGED <<task, posted, row, starts, history>>
<1>1. Asking("new") /\ UNCHANGED <<task, posted, row, starts, history>>
  BY DEF NewToOldPage
<1>2. run' = IF NewEnds THEN [NoRun EXCEPT !.at = "done"]
             ELSE [run EXCEPT
                     !.at = IF Max(NewTodo) > run.maxSeen THEN "maxid" ELSE "unit",
                     !.maxSeen = Larger(@, Max(NewTodo)), !.page = NewTodo]
  BY Zenon DEF NewToOldPage, NewEnds, NewTodo, NewIds
<1>3. run \in Runs
  BY DEF TypeOK
<1>4. NewTodo \in SUBSET Messages
  BY DEF NewTodo, NewIds, Descending
<1>5. CASE NewEnds
  BY <1>1, <1>2, <1>5, RunEnds DEF Idle
<1>6. CASE ~NewEnds
  <2>1. NewTodo # {}
    BY <1>6 DEF NewEnds
  <2>2. Max(NewTodo) \in Messages
    BY <1>4, <2>1, MaxMin
  <2>3. PICK seen \in 0..LastId : seen = Larger(run.maxSeen, Max(NewTodo))
    BY <1>3, <2>2, RunTypes, HistoryAssumption DEF Larger, Messages
  <2>4. PICK at \in {"maxid", "unit"} :
          at = IF Max(NewTodo) > run.maxSeen THEN "maxid" ELSE "unit"
    OBVIOUS
  <2>5. run' = [run EXCEPT !.at = at, !.maxSeen = seen, !.page = NewTodo]
    BY <1>2, <1>6, <2>3, <2>4
  <2>6. /\ run' \in Runs /\ run'.at = at /\ run'.maxSeen = seen
        /\ run'.phase = run.phase /\ run'.cursor = run.cursor
        /\ run'.first = run.first /\ run'.page = NewTodo
        /\ run'.arrived = run.arrived
    BY <1>3, <1>4, <2>5, RunPagedDown
  <2> QED
    BY <1>1, <1>6, <2>1, <2>3, <2>4, <2>6
<1> QED
  BY <1>5, <1>6

\* How the three phases start.
LEMMA PhasesStart ==
  ASSUME NEW max
  PROVE  /\ CatchUpStart.at = "page" /\ CatchUpStart.phase = "catchup"
         /\ CatchUpStart.page = {} /\ ~CatchUpStart.arrived
         /\ CatchUpStart.latest = Latest /\ CatchUpStart.maxSeen = row.max
         /\ CatchUpStart.processed = 0
         /\ row.max \in Nat /\ row.max > 0 =>
              /\ CatchUpStart.since = row.max /\ CatchUpStart.cursor = row.max
              /\ ~CatchUpStart.first
         /\ OldToNewStart.at = "page" /\ OldToNewStart.phase = "old"
         /\ OldToNewStart.page = {} /\ ~OldToNewStart.arrived
         /\ NewToOldStart(max).at = "page" /\ NewToOldStart(max).phase = "new"
         /\ NewToOldStart(max).page = {} /\ ~NewToOldStart(max).arrived
         /\ NewToOldStart(max).maxSeen = max /\ ~NewToOldStart(max).first
         /\ NewToOldStart(max).cursor =
              IF row.cursor <= 0 /\ scope.max > 0 THEN scope.max + 1
              ELSE row.cursor
<1>1. /\ CatchUpStart.at = "page" /\ CatchUpStart.phase = "catchup"
      /\ CatchUpStart.page = {} /\ ~CatchUpStart.arrived
      /\ CatchUpStart.latest = Latest /\ CatchUpStart.maxSeen = row.max
      /\ CatchUpStart.processed = 0
  BY DEF CatchUpStart, NoRun
<1>2. ASSUME row.max \in Nat, row.max > 0
      PROVE  /\ CatchUpStart.since = row.max /\ CatchUpStart.cursor = row.max
             /\ ~CatchUpStart.first
  <2> DEFINE since == Since
  <2>1. since = row.max /\ Larger(since, 1) = row.max
    BY <1>2 DEF Larger, Since
  <2> HIDE DEF since
  <2>2. CatchUpStart =
          [NoRun EXCEPT !.at = "page", !.phase = "catchup", !.latest = Latest,
                        !.since = since, !.cursor = Larger(since, 1),
                        !.first = since <= 0, !.maxSeen = row.max]
    BY Zenon DEF CatchUpStart, since
  <2>3. /\ CatchUpStart.since = since /\ CatchUpStart.cursor = Larger(since, 1)
        /\ (CatchUpStart.first <=> since <= 0)
    BY <2>2 DEF NoRun
  <2> QED
    BY <1>2, <2>1, <2>3
<1>3. /\ OldToNewStart.at = "page" /\ OldToNewStart.phase = "old"
      /\ OldToNewStart.page = {} /\ ~OldToNewStart.arrived
  BY DEF OldToNewStart, NoRun
<1>4. /\ NewToOldStart(max).at = "page" /\ NewToOldStart(max).phase = "new"
      /\ NewToOldStart(max).page = {} /\ ~NewToOldStart(max).arrived
      /\ NewToOldStart(max).maxSeen = max /\ ~NewToOldStart(max).first
      /\ NewToOldStart(max).cursor =
           IF row.cursor <= 0 /\ scope.max > 0 THEN scope.max + 1
           ELSE row.cursor
  BY DEF NewToOldStart, NoRun
<1> QED
  BY <1>1, <1>2, <1>3, <1>4

\* An oldest-first clone starts behind the cursor and the lower bound.
LEMMA OldStarts ==
  ASSUME row.cursor \in Nat, scope.min \in Nat,
         NEW from,
         from = IF OldToNewStart.first THEN OldToNewStart.cursor - 1
                ELSE OldToNewStart.cursor
  PROVE  /\ OldToNewStart.first => OldToNewStart.cursor = 1 /\ row.cursor = 0
         /\ row.cursor <= from /\ (scope.min > 0 => scope.min - 1 <= from)
         /\ from = row.cursor \/ from = scope.min - 1
<1> DEFINE low ==
      IF scope.min > 0 THEN Larger(row.cursor, scope.min - 1) ELSE row.cursor
<1>1. low \in Nat /\ row.cursor <= low /\ (scope.min > 0 => scope.min - 1 <= low)
      /\ (low = row.cursor \/ low = scope.min - 1)
  BY DEF Larger
<1>2. (OldToNewStart.first <=> low <= 0)
      /\ OldToNewStart.cursor = IF low > 1 THEN low ELSE 1
  <2> HIDE DEF low
  <2>1. OldToNewStart = [NoRun EXCEPT !.at = "page", !.phase = "old",
                            !.cursor = Larger(low, 1), !.first = low <= 0]
    BY DEF OldToNewStart, low
  <2> QED
    BY <1>1, <2>1 DEF NoRun, Larger
<1> HIDE DEF low
<1>3. from = low
  BY <1>1, <1>2
<1> QED
  BY <1>1, <1>2, <1>3

\* A unit is taken from the front of the page.
LEMMA TakeDoes ==
  ASSUME TypeOK, PageInv, TakeUnit
  PROVE  /\ run.at = "unit" /\ run' \in Runs
         /\ run'.at \in {"send", "persist"}
         /\ run'.at = "persist" => handled' = handled \cup run'.unit
         /\ run'.at = "send" => handled' = handled
         /\ run'.unit # {} /\ run'.unit \in SUBSET run.page
         /\ \A u \in run'.unit : \A k \in run.page :
              Precedes(k, u) => k \in run'.unit
         /\ run'.phase = run.phase /\ run'.cursor = run.cursor
         /\ run'.first = run.first /\ run'.page = run.page
         /\ run'.processed = run.processed /\ run'.latest = run.latest
         /\ run'.since = run.since /\ run'.maxSeen = run.maxSeen
         /\ ~run'.arrived
         /\ UNCHANGED <<task, posted, row, starts, sent, torn, due, headless>>
<1>1. PICK unit : /\ Take(unit) /\ run.at = "unit"
                  /\ unit = {Head} \/ (Grouped /\ unit = Parts)
  BY DEF TakeUnit, CatchUpAlbum, CatchUpSingle, OldToNewAlbum, OldToNewSingle,
         NewToOldAlbum, NewToOldSingle, Working
<1>2. run \in Runs /\ run.page # {} /\ run.page \in SUBSET Messages
  BY <1>1, RunTypes DEF TypeOK, PageInv
<1>3. /\ unit \in SUBSET run.page /\ unit # {}
      /\ \A u \in unit : \A k \in run.page : Precedes(k, u) => k \in unit
  BY <1>1, <1>2, UnitLeads
<1>4. unit \in SUBSET Messages
  BY <1>2, <1>3
<1>5. PICK next \in {"send", "persist"} :
        /\ run' = [run EXCEPT !.at = next, !.unit = unit, !.tries = 0,
                              !.arrived = FALSE]
        /\ handled' = IF next = "persist" THEN handled \cup unit ELSE handled
  BY <1>1 DEF Take
<1>6. UNCHANGED <<task, posted, row, starts, sent, torn, due, headless>>
  BY <1>1 DEF Take
<1>7. /\ run' \in Runs /\ run'.at = next /\ run'.unit = unit
      /\ run'.phase = run.phase /\ run'.cursor = run.cursor
      /\ run'.first = run.first /\ run'.page = run.page
      /\ run'.processed = run.processed /\ run'.latest = run.latest
      /\ run'.since = run.since /\ run'.maxSeen = run.maxSeen
      /\ run'.arrived = FALSE
  BY <1>2, <1>4, <1>5, RunTook
<1> QED
  BY <1>1, <1>3, <1>5, <1>6, <1>7

\* The outcomes of an attempt that leave the unit in hand.
Attempt == SendOk \/ SendSkipped \/ SendAgain

LEMMA AttemptDoes ==
  ASSUME TypeOK, Attempt
  PROVE  /\ run.at = "send" /\ run' \in Runs
         /\ run'.at \in {"send", "persist"}
         /\ run'.at = "persist" => handled' = handled \cup run.unit
         /\ run'.arrived => run.arrived \/ run'.at = "persist"
         /\ handled \in SUBSET handled' /\ handled' \in SUBSET (handled \cup run.unit)
         /\ run'.phase = run.phase /\ run'.cursor = run.cursor
         /\ run'.first = run.first /\ run'.page = run.page
         /\ run'.unit = run.unit
         /\ run'.processed = run.processed /\ run'.latest = run.latest
         /\ run'.since = run.since /\ run'.maxSeen = run.maxSeen
         /\ UNCHANGED <<task, posted, row, starts, due, headless>>
<1>1. run \in Runs
  BY DEF TypeOK
<1>2. CASE SendOk
  <2>1. PICK arrives \in BOOLEAN :
          run' = [run EXCEPT !.at = "persist", !.arrived = arrives]
    BY <1>2 DEF SendOk
  <2> QED
    BY <1>1, <1>2, <2>1, RunSent DEF SendOk
<1>3. CASE SendSkipped
  BY <1>1, <1>3, RunMoved DEF SendSkipped
<1>4. CASE SendAgain
  BY <1>1, <1>4, RunRetries DEF SendAgain
<1> QED
  BY <1>2, <1>3, <1>4 DEF Attempt

\* The clone fails or is interrupted.
Stop == SendFails \/ PersistFails \/ Interrupt

LEMMA StopDoes ==
  ASSUME Stop
  PROVE  /\ Running /\ run' \in Runs /\ run'.at \in {"off", "failed"}
         /\ run'.page = {} /\ ~run'.arrived
         /\ torn' = torn \/ torn' = Torn
         /\ torn' = Torn \/ run.at = "send"
         /\ UNCHANGED <<task, posted, row, starts, handled, sent, due, headless>>
<1>1. \E at \in {"off", "failed"} : run' = [NoRun EXCEPT !.at = at]
  <2>1. NoRun = [NoRun EXCEPT !.at = "off"]
    BY DEF NoRun
  <2> QED
    BY <2>1 DEF Stop, SendFails, PersistFails, Interrupt
<1>2. PICK at \in {"off", "failed"} : run' = [NoRun EXCEPT !.at = at]
  BY <1>1
<1>3. run' \in Runs /\ run'.at = at /\ run'.page = {} /\ ~run'.arrived
  BY <1>2, RunEnds DEF Idle
<1>4. Running /\ (torn' = torn \/ torn' = Torn) /\ (torn' = Torn \/ run.at = "send")
  BY DEF Stop, SendFails, PersistFails, Interrupt, Running, Idle, history
<1>5. UNCHANGED <<task, posted, row, starts, handled, sent, due, headless>>
  BY DEF Stop, SendFails, PersistFails, Interrupt, history
<1> QED
  BY <1>3, <1>4, <1>5

LEMMA NextActions ==
  Next <=> \/ Post \/ Start \/ CatchUpPage \/ OldToNewPage \/ NewToOldPage
           \/ PersistMaxID \/ TakeUnit \/ Attempt \/ Stop
           \/ CatchUpPersist \/ OldToNewPersist \/ NewToOldPersist
  BY DEF Next, Clone, FetchPage, Attempt, Stop, Persist

LEMMA BumpedType ==
  ASSUME NEW f \in [Messages -> Nat], NEW ms
  PROVE  Bumped(f, ms) \in [Messages -> Nat]
  BY DEF Bumped

LEMMA MaxIDDoes ==
  ASSUME TypeOK, PersistMaxID
  PROVE  /\ run.at = "maxid" /\ run' \in Runs /\ run'.at = "unit"
         /\ row' = [row EXCEPT !.max = Larger(row.max, run.maxSeen)]
         /\ run'.phase = run.phase /\ run'.cursor = run.cursor
         /\ run'.first = run.first /\ run'.page = run.page
         /\ run'.maxSeen = run.maxSeen /\ run'.arrived = run.arrived
         /\ UNCHANGED <<task, posted, starts, history>>
<1>1. run \in Runs
  BY DEF TypeOK
<1>2. run' = [run EXCEPT !.at = "unit"]
  BY DEF PersistMaxID
<1>3. /\ run' \in Runs /\ run'.at = "unit"
      /\ run'.phase = run.phase /\ run'.cursor = run.cursor
      /\ run'.first = run.first /\ run'.page = run.page
      /\ run'.maxSeen = run.maxSeen /\ run'.arrived = run.arrived
  BY <1>1, <1>2, RunMoved
<1> QED
  BY <1>3 DEF PersistMaxID

LEMMA TypeInit == Init => TypeOK
<1> SUFFICES ASSUME Init PROVE TypeOK
  OBVIOUS
<1>1. NoRun \in Runs
  BY HistoryAssumption DEF NoRun, Runs, Idle
<1>2. row \in [cursor : Nat, max : 0..LastId] /\ posted \in 0..LastId
  BY HistoryAssumption DEF Init
<1>3. sent \in [Messages -> Nat] /\ torn \in [Messages -> Nat]
  BY DEF Init
<1>4. order \in {"old", "new"} /\ due \in 0..LastId
  BY HistoryAssumption DEF Init
<1> QED
  BY <1>1, <1>2, <1>3, <1>4 DEF Init, TypeOK

LEMMA TypeStep == TypeOK /\ PageInv /\ [Next]_vars => TypeOK'
<1> SUFFICES ASSUME TypeOK, PageInv, [Next]_vars PROVE TypeOK'
  OBVIOUS
<1> USE HistoryAssumption
<1>0. /\ order \in {"old", "new"} /\ scope \in Scopes
      /\ posted \in 0..LastId /\ due \in 0..LastId /\ starts \in Nat
      /\ row \in [cursor : Nat, max : 0..LastId] /\ run \in Runs
      /\ handled \in SUBSET Messages /\ headless \in BOOLEAN
      /\ sent \in [Messages -> Nat] /\ torn \in [Messages -> Nat]
  BY DEF TypeOK
<1>r. run.unit \in SUBSET Messages /\ run.page \in SUBSET Messages
      /\ run.maxSeen \in 0..LastId
  BY <1>0, RunTypes
<1>1. CASE Post
  BY <1>0, <1>1 DEF Post, TypeOK, task, history
<1>2. CASE Start
  <2>1. run' \in Runs
    BY <1>0, <1>2, RunStarts DEF Start, CloneStart
  <2>2. headless' \in BOOLEAN
    BY <1>2, Zenon DEF Start
  <2> QED
    BY <1>0, <1>2, <2>1, <2>2 DEF Start, TypeOK, task
<1>3. CASE CatchUpPage
  BY <1>0, <1>3, CatchUpPageDoes DEF TypeOK, task, history
<1>4. CASE OldToNewPage
  BY <1>0, <1>4, OldPageDoes DEF TypeOK, task, history
<1>5. CASE NewToOldPage
  BY <1>0, <1>5, NewPageDoes DEF TypeOK, task, history
<1>6. CASE PersistMaxID
  <2>1. Larger(row.max, run.maxSeen) \in 0..LastId
    BY <1>0, <1>r DEF Larger
  <2> QED
    BY <1>0, <1>6, <2>1, MaxIDDoes DEF TypeOK, task, history
<1>7. CASE TakeUnit
  <2>1. handled' \in SUBSET Messages
    BY <1>0, <1>r, <1>7, TakeDoes
  <2> QED
    BY <1>0, <1>7, <2>1, TakeDoes DEF TypeOK, task
<1>8. CASE Attempt
  <2>1. handled' \in SUBSET Messages
    BY <1>0, <1>r, <1>8, AttemptDoes
  <2>2. sent' \in [Messages -> Nat] /\ torn' \in [Messages -> Nat]
    <3>1. CASE SendOk
      BY <1>0, <3>1, BumpedType DEF SendOk
    <3>2. CASE SendSkipped
      BY <1>0, <3>2 DEF SendSkipped
    <3>3. CASE SendAgain
      BY <1>0, <3>3, BumpedType DEF SendAgain
    <3> QED
      BY <1>8, <3>1, <3>2, <3>3 DEF Attempt
  <2> QED
    BY <1>0, <1>8, <2>1, <2>2, AttemptDoes DEF TypeOK, task
<1>9. CASE Stop
  <2>1. torn' \in [Messages -> Nat]
    BY <1>0, <1>9, StopDoes, BumpedType DEF Torn
  <2> QED
    BY <1>0, <1>9, <2>1, StopDoes DEF TypeOK, task
<1>10. ASSUME NEW reached \in Messages, NEW newRow \in [cursor : Nat, max : 0..LastId],
              run.at = "persist", Persisted(reached, newRow)
       PROVE  TypeOK'
  <2>1. reached \in Nat
    BY DEF Messages
  <2> QED
    BY <1>0, <1>10, <2>1, PersistDoes, ZenonT(60) DEF TypeOK, task, history
<1>e. ASSUME run.at = "persist"
      PROVE  /\ Max(run.unit) \in Messages /\ Min(run.unit) \in Messages
             /\ [row EXCEPT !.max = Larger(@, Max(run.unit))]
                  \in [cursor : Nat, max : 0..LastId]
             /\ [row EXCEPT !.cursor = Min(run.unit)]
                  \in [cursor : Nat, max : 0..LastId]
             /\ [cursor |-> Max(run.unit), max |-> Larger(row.max, Max(run.unit))]
                  \in [cursor : Nat, max : 0..LastId]
  <2>1. Max(run.unit) \in 0..LastId /\ Min(run.unit) \in Nat
        /\ Max(run.unit) \in Messages /\ Min(run.unit) \in Messages
    BY <1>e, UnitEnds DEF Messages
  <2>2. Larger(row.max, Max(run.unit)) \in 0..LastId
    BY <1>0, <2>1 DEF Larger
  <2> QED
    BY <1>0, <2>1, <2>2
<1>11. CASE CatchUpPersist
  BY <1>10, <1>e, <1>11 DEF CatchUpPersist, Settling
<1>12. CASE OldToNewPersist
  BY <1>10, <1>e, <1>12 DEF OldToNewPersist, Settling
<1>13. CASE NewToOldPersist
  BY <1>10, <1>e, <1>13 DEF NewToOldPersist, Settling
<1>14. CASE UNCHANGED vars
  BY <1>0, <1>14 DEF TypeOK, vars, task, history
<1> QED
  BY <1>1, <1>2, <1>3, <1>4, <1>5, <1>6, <1>7, <1>8, <1>9, <1>11, <1>12,
     <1>13, <1>14, NextActions

LEMMA Types ==
  ASSUME TypeOK
  PROVE  /\ row.cursor \in Nat /\ row.max \in Nat /\ posted \in Nat /\ due \in Nat
         /\ row.max <= LastId /\ posted <= LastId /\ LastId \in Nat
         /\ scope.min \in Nat /\ scope.max \in Nat /\ scope.count \in Nat
         /\ scope.min <= scope.max /\ (scope.min = 0 => scope.max = 0)
         /\ run.cursor \in Nat /\ run.maxSeen \in Nat /\ run.latest \in Nat
         /\ run.since \in Nat /\ run.processed \in Nat /\ run.first \in BOOLEAN
         /\ run.page \in SUBSET Messages /\ run.unit \in SUBSET Messages
         /\ \A m \in Messages : m \in Nat /\ 0 < m /\ m <= LastId
<1>1. scope \in Scopes /\ scope \in [min : Nat, max : Nat, count : Nat]
  BY HistoryAssumption DEF TypeOK
<1>2. scope.min <= scope.max /\ (scope.min = 0 => scope.max = 0)
  BY <1>1, HistoryAssumption
<1>3. row \in [cursor : Nat, max : 0..LastId] /\ run \in Runs
      /\ posted \in 0..LastId /\ due \in 0..LastId
  BY DEF TypeOK
<1>4. LastId \in Nat
  BY HistoryAssumption
<1>5. \A m \in Messages : m \in Nat /\ 0 < m /\ m <= LastId
  BY <1>4 DEF Messages
<1>6. row.cursor \in Nat /\ row.max \in 0..LastId
  BY <1>3
<1> QED
  BY <1>1, <1>2, <1>3, <1>4, <1>5, <1>6, RunTypes

\* A clone that starts: with its catch-up or without.
LEMMA StartDoes ==
  ASSUME TypeOK, Start
  PROVE  /\ run.at \in Idle
         /\ \/ /\ run' = CatchUpStart /\ order = "new"
               /\ row.max > 0 \/ row.cursor > 0
               /\ Latest = posted
               /\ row.max > 0 => posted > row.max
            \/ /\ run' = CloneStart(row.max)
               /\ order = "new" /\ row.max > 0 /\ posted \notin Services =>
                    posted <= row.max
         /\ due' = posted
         /\ headless' = (headless \/ (order = "new" /\ row.max > 0 /\ row.cursor = 0))
         /\ UNCHANGED <<task, posted, row, handled, sent, torn>>
<1>1. run.at \in Idle /\ UNCHANGED <<task, posted, row, handled, sent, torn>>
      /\ due' = posted
      /\ headless' = (headless \/ (order = "new" /\ row.max > 0 /\ row.cursor = 0))
  BY Zenon DEF Start
<1>2. run' = IF CatchesUp THEN CatchUpStart ELSE CloneStart(row.max)
  BY Zenon DEF Start
<1>3. Latest = 0 \/ Latest = posted
  BY DEF Latest
<1>4. posted \notin Services => Latest = posted
  BY DEF Latest
<1>5. Latest \in Int /\ Since \in Int /\ Since >= 0
  BY <1>3, Types, HistoryAssumption DEF Since, Larger
<1>6. row.max > 0 => Since = row.max
  BY DEF Since
<1>7. CASE CatchesUp
  <2>1. order = "new" /\ (row.max > 0 \/ row.cursor > 0) /\ Latest > Since
    BY <1>7 DEF CatchesUp
  <2>2. Latest = posted
    BY <1>3, <1>5, <2>1
  <2> QED
    BY <1>1, <1>2, <1>6, <1>7, <2>1, <2>2, Types
<1>8. CASE ~CatchesUp
  <2>1. order = "new" /\ row.max > 0 /\ posted \notin Services => posted <= row.max
    BY <1>4, <1>6, <1>8, Types DEF CatchesUp
  <2> QED
    BY <1>1, <1>2, <1>8, <2>1
<1> QED
  BY <1>7, <1>8

LEMMA CloneStarts ==
  ASSUME NEW max
  PROVE  /\ CloneStart(max).at = "page" /\ CloneStart(max).page = {}
         /\ ~CloneStart(max).arrived
         /\ order = "old" => CloneStart(max) = OldToNewStart
         /\ order # "old" => CloneStart(max) = NewToOldStart(max)
         /\ CloneStart(max).phase = IF order = "old" THEN "old" ELSE "new"
  BY PhasesStart, Zenon DEF CloneStart

LEMMA PageStep == TypeOK /\ PlaceInv /\ [Next]_vars => PageInv'
<1> SUFFICES ASSUME TypeOK, PlaceInv, [Next]_vars PROVE PageInv'
  OBVIOUS
<1>0. PageInv
  BY DEF PlaceInv
<1>1. CASE Post
  BY <1>0, <1>1 DEF Post, PageInv, Precedes, history
<1>2. CASE Start
  <2>1. run'.at = "page" /\ run'.page = {} /\ ~run'.arrived
    BY <1>2, StartDoes, CloneStarts, PhasesStart
  <2> QED
    BY <2>1 DEF PageInv, Idle
<1>3. CASE CatchUpPage
  <2>1. ~run.arrived
    BY <1>0, <1>3 DEF CatchUpPage, Asking, PageInv
  <2> QED
    BY <2>1, <1>3, CatchUpPageDoes, CloneStarts DEF PageInv, Idle
<1>4. CASE OldToNewPage
  <2>1. ~run.arrived
    BY <1>0, <1>4 DEF OldToNewPage, Asking, PageInv
  <2> QED
    BY <2>1, <1>4, OldPageDoes DEF PageInv, Idle
<1>5. CASE NewToOldPage
  <2>1. ~run.arrived /\ ~run.first /\ run.phase = "new"
    BY <1>0, <1>5 DEF NewToOldPage, Asking, PageInv, PlaceInv, NewInv, Phase,
                      Running, Idle
  <2> QED
    BY <2>1, <1>5, NewPageDoes DEF PageInv, Idle
<1>6. CASE PersistMaxID
  BY <1>0, <1>6, MaxIDDoes DEF PageInv, Idle
<1>7. CASE TakeUnit
  <2>1. run.page # {} /\ ~run.first
    BY <1>0, <1>7, TakeDoes DEF PageInv
  <2> QED
    BY <1>0, <2>1, <1>7, TakeDoes DEF PageInv, Precedes, Idle
<1>8. CASE Attempt
  <2>1. run.page # {} /\ ~run.first /\ run.unit # {} /\ ~run.arrived
    BY <1>0, <1>8, AttemptDoes DEF PageInv
  <2> QED
    BY <1>0, <2>1, <1>8, AttemptDoes DEF PageInv, Precedes, Idle
<1>9. CASE Stop
  BY <1>9, StopDoes DEF PageInv, Idle
<1>10. ASSUME NEW reached \in Nat, NEW newRow,
              run.at = "persist", Persisted(reached, newRow)
       PROVE  PageInv'
  <2>1. ~run.first
    BY <1>0, <1>10 DEF PageInv
  <2> QED
    BY <1>0, <1>10, <2>1, PersistDoes DEF PageInv, Idle
<1>e. ASSUME run.at = "persist"
      PROVE  Max(run.unit) \in Nat /\ Min(run.unit) \in Nat
  BY <1>0, <1>e, UnitEnds, Types
<1>11. CASE CatchUpPersist
  BY <1>10, <1>e, <1>11 DEF CatchUpPersist, Settling
<1>12. CASE OldToNewPersist
  BY <1>10, <1>e, <1>12 DEF OldToNewPersist, Settling
<1>13. CASE NewToOldPersist
  BY <1>10, <1>e, <1>13 DEF NewToOldPersist, Settling
<1>14. CASE UNCHANGED vars
  BY <1>0, <1>14 DEF PageInv, vars, history, Precedes
<1> QED
  BY <1>1, <1>2, <1>3, <1>4, <1>5, <1>6, <1>7, <1>8, <1>9, <1>11, <1>12,
     <1>13, <1>14, NextActions

\* What a unit leaves of its page comes after it.
LEMMA RestFollows ==
  ASSUME TypeOK, PageInv, run.at = "persist", NEW k \in run.page \ run.unit
  PROVE  /\ run.phase = "new" => k < Min(run.unit)
         /\ run.phase # "new" => k > Max(run.unit)
<1>1. Max(run.unit) \in run.unit /\ Min(run.unit) \in run.unit
  BY UnitEnds
<1>2. ~Precedes(k, Max(run.unit)) /\ ~Precedes(k, Min(run.unit))
  BY <1>1 DEF PageInv
<1>3. k \in Int /\ Max(run.unit) \in Int /\ Min(run.unit) \in Int
  BY <1>1, Types
<1> QED
  BY <1>2, <1>3 DEF Precedes

LEMMA RowStep == TypeOK /\ PlaceInv /\ [Next]_vars => RowInv'
<1> SUFFICES ASSUME TypeOK, PlaceInv, [Next]_vars PROVE RowInv'
  OBVIOUS
<1>0. PageInv /\ RowInv
  BY DEF PlaceInv
<1>1. ASSUME UNCHANGED <<order, row, due>>, posted' \in Nat, posted' >= posted
      PROVE  RowInv'
  BY <1>0, <1>1, Types DEF RowInv
<1>2. CASE Post
  BY <1>1, <1>2, Types DEF Post, task, history
<1>3. CASE Start
  BY <1>0, <1>3, StartDoes, Types DEF RowInv, task
<1>4. CASE CatchUpPage \/ OldToNewPage \/ NewToOldPage
  BY <1>1, <1>4, CatchUpPageDoes, OldPageDoes, NewPageDoes, Types
     DEF task, history
<1>5. CASE PersistMaxID
  <2>1. run.maxSeen <= posted
    BY <1>0, <1>5 DEF PlaceInv, PageInv, NewInv, PersistMaxID, Phase, Running, Idle
  <2>2. row'.max = Larger(row.max, run.maxSeen) /\ row'.cursor = row.cursor
        /\ UNCHANGED <<order, posted, due>>
    BY <1>5 DEF PersistMaxID, TypeOK, task, history
  <2> QED
    BY <1>0, <2>1, <2>2, Types DEF RowInv, Larger
<1>6. CASE TakeUnit \/ Attempt \/ Stop
  BY <1>0, <1>1, <1>6, TakeDoes, AttemptDoes, StopDoes, Types DEF task
<1>7. CASE CatchUpPersist
  <2> USE <1>7 DEF CatchUpPersist, Settling
  <2>1. Max(run.unit) \in run.page /\ Max(run.unit) \in Nat
    BY <1>0, UnitEnds, Types
  <2>2. Max(run.unit) <= posted
    BY <2>1, Types DEF PlaceInv, CatchUpInv, Phase, Running, Idle
  <2>3. row' = [row EXCEPT !.max = Larger(row.max, Max(run.unit))]
        /\ UNCHANGED <<order, posted, due>>
    BY <1>0, <2>1, PersistDoes DEF task, history
  <2>4. row'.max = Larger(row.max, Max(run.unit)) /\ row'.cursor = row.cursor
    BY <2>3 DEF TypeOK
  <2> QED
    BY <1>0, <2>1, <2>2, <2>3, <2>4, Types DEF RowInv, Larger
<1>8. CASE OldToNewPersist
  <2> USE <1>8 DEF OldToNewPersist, Settling
  <2>1. Max(run.unit) \in run.page /\ Max(run.unit) \in Nat
    BY <1>0, UnitEnds, Types
  <2>2. Max(run.unit) <= posted /\ order = "old"
    BY <2>1, Types DEF PlaceInv, OldInv, Phase, Running, Idle
  <2>3. row'.max = Larger(row.max, Max(run.unit)) /\ UNCHANGED <<order, posted, due>>
    BY <1>0, <2>1, PersistDoes DEF task, history
  <2> QED
    BY <1>0, <2>1, <2>2, <2>3, Types DEF RowInv, Larger
<1>9. CASE NewToOldPersist
  <2> USE <1>9 DEF NewToOldPersist, Settling
  <2>1. Min(run.unit) \in run.page /\ Min(run.unit) \in Nat
    BY <1>0, UnitEnds, Types
  <2>2. Min(run.unit) <= row.max
    BY <2>1, Types DEF PlaceInv, NewInv, Phase, Running, Idle, Larger
  <2>3. row' = [row EXCEPT !.cursor = Min(run.unit)]
        /\ UNCHANGED <<order, posted, due>>
    BY <1>0, <2>1, PersistDoes DEF task, history
  <2>4. row'.max = row.max /\ row'.cursor = Min(run.unit)
    BY <2>3 DEF TypeOK
  <2> QED
    BY <1>0, <2>1, <2>2, <2>3, <2>4, Types DEF RowInv
<1>10. CASE UNCHANGED vars
  BY <1>1, <1>10, Types DEF vars, history, task
<1> QED
  BY <1>2, <1>3, <1>4, <1>5, <1>6, <1>7, <1>8, <1>9, <1>10, NextActions

LEMMA OldStep == TypeOK /\ PlaceInv /\ [Next]_vars => OldInv'
<1> SUFFICES ASSUME TypeOK, PlaceInv, [Next]_vars PROVE OldInv'
  OBVIOUS
<1>0. PageInv /\ OldInv /\ NewInv /\ CatchUpInv
  BY DEF PlaceInv
<1>1. ASSUME run'.phase = run.phase /\ run'.cursor = run.cursor,
             run'.first = run.first /\ run'.page = run.page,
             Running, UNCHANGED <<order, scope, row>>,
             posted' \in Nat, posted' >= posted
      PROVE  OldInv'
  BY <1>0, <1>1, Types DEF OldInv, Phase, From
<1>2. CASE Post
  <2>1. CASE Running
    BY <1>1, <1>2, <2>1, Types DEF Post, task, history
  <2>2. CASE ~Running
    BY <1>2, <2>2 DEF Post, OldInv, Phase, Running
  <2> QED
    BY <2>1, <2>2
<1>3. CASE Start
  <2>1. CASE order = "old"
    <3>1. run' = OldToNewStart /\ UNCHANGED <<order, scope, row, posted>>
      BY <1>3, <2>1, StartDoes, CloneStarts DEF task
    <3>2. run'.page = {}
      BY <3>1, PhasesStart
    <3>3. From' = IF OldToNewStart.first THEN OldToNewStart.cursor - 1
                  ELSE OldToNewStart.cursor
      BY <3>1 DEF From
    <3>4. /\ run'.first => run'.cursor = 1 /\ row'.cursor = 0
          /\ row'.cursor <= From' /\ (scope'.min > 0 => scope'.min - 1 <= From')
      BY <3>1, <3>3, OldStarts, Types
    <3> QED
      BY <2>1, <3>1, <3>2, <3>4 DEF OldInv
  <2>2. CASE order # "old"
    <3>1. run'.phase # "old"
      BY <1>3, <2>2, StartDoes, CloneStarts, PhasesStart
    <3> QED
      BY <3>1 DEF OldInv, Phase
  <2> QED
    BY <2>1, <2>2
<1>4. CASE CatchUpPage
  <2>1. order = "new" /\ run.phase = "catchup"
    BY <1>0, <1>4 DEF CatchUpPage, Asking, CatchUpInv, Phase, Running, Idle
  <2>2. run'.phase # "old"
    BY <1>4, <2>1, CatchUpPageDoes, CloneStarts
  <2> QED
    BY <2>2 DEF OldInv, Phase
<1>5. CASE OldToNewPage
  <2>1. CASE OldEnds
    BY <1>5, <2>1, OldPageDoes DEF OldInv, Phase, Running, Idle
  <2>2. CASE ~OldEnds
    <3>1. /\ order = "old" /\ row.cursor <= From
          /\ (scope.min > 0 => scope.min - 1 <= From)
      BY <1>0, <1>5 DEF OldToNewPage, Asking, OldInv, Phase, Running, Idle
    <3>2. run'.cursor = run.cursor /\ ~run'.first /\ run'.page = OldTodo
          /\ UNCHANGED <<order, scope, row, posted>>
      BY <1>5, <2>2, OldPageDoes DEF task
    <3>3. From' = run.cursor /\ From <= run.cursor /\ From \in Int
      BY <3>2, Types DEF From
    <3>4. \A m \in OldTodo : From < m /\ scope.min <= m /\ m <= posted /\ m \in Int
      BY Types DEF OldTodo, OldIds, Ascending
    <3> QED
      BY <3>1, <3>2, <3>3, <3>4, Types DEF OldInv
  <2> QED
    BY <2>1, <2>2
<1>6. CASE NewToOldPage
  <2>1. CASE NewEnds
    BY <1>6, <2>1, NewPageDoes DEF OldInv, Phase, Running, Idle
  <2>2. CASE ~NewEnds
    BY <1>6, <2>2, NewPageDoes DEF OldInv, Phase, NewToOldPage, Asking
  <2> QED
    BY <2>1, <2>2
<1>7. CASE PersistMaxID
  <2>1. run.phase = "new"
    BY <1>0, <1>7 DEF PageInv, PersistMaxID
  <2> QED
    BY <1>7, <2>1, MaxIDDoes DEF OldInv, Phase
<1>8. CASE TakeUnit
  BY <1>0, <1>1, <1>8, TakeDoes, Types DEF task, Running, Idle
<1>9. CASE Attempt
  BY <1>1, <1>9, AttemptDoes, Types DEF task, Running, Idle
<1>10. CASE Stop
  BY <1>10, StopDoes DEF OldInv, Phase, Running, Idle
<1>11. CASE CatchUpPersist
  <2>1. Max(run.unit) \in Nat
    BY <1>0, <1>11, UnitEnds, Types DEF CatchUpPersist, Settling
  <2>2. run'.phase = "catchup"
    BY <1>0, <1>11, <2>1, PersistDoes DEF CatchUpPersist, Settling
  <2> QED
    BY <2>2 DEF OldInv, Phase
<1>12. CASE OldToNewPersist
  <2> USE <1>12 DEF OldToNewPersist, Settling
  <2>1. Max(run.unit) \in run.page /\ Max(run.unit) \in Nat
    BY <1>0, UnitEnds, Types
  <2>2. order = "old" /\ \A m \in run.page : scope.min <= m /\ m <= posted
    BY <1>0 DEF OldInv, Phase, Running, Idle
  <2>3. /\ run'.cursor = Max(run.unit) /\ row'.cursor = Max(run.unit)
        /\ run'.first = run.first /\ run'.page = run.page \ run.unit
        /\ UNCHANGED <<order, scope, posted>>
    BY <1>0, <2>1, PersistDoes DEF task
  <2>4. ~run.first
    BY <1>0 DEF PageInv
  <2>5. From' = Max(run.unit)
    BY <2>3, <2>4 DEF From
  <2>6. \A k \in run.page \ run.unit : Max(run.unit) < k
    BY <1>0, RestFollows, Types
  <2> QED
    BY <2>1, <2>2, <2>3, <2>4, <2>5, <2>6, Types DEF OldInv
<1>13. CASE NewToOldPersist
  <2>1. Min(run.unit) \in Nat
    BY <1>0, <1>13, UnitEnds, Types DEF NewToOldPersist, Settling
  <2>2. run'.phase = "new"
    BY <1>0, <1>13, <2>1, PersistDoes DEF NewToOldPersist, Settling
  <2> QED
    BY <2>2 DEF OldInv, Phase
<1>14. CASE UNCHANGED vars
  BY <1>0, <1>14 DEF OldInv, vars, task, Phase, Running, From
<1> QED
  BY <1>2, <1>3, <1>4, <1>5, <1>6, <1>7, <1>8, <1>9, <1>10, <1>11, <1>12,
     <1>13, <1>14, NextActions

LEMMA NewStep == TypeOK /\ PlaceInv /\ [Next]_vars => NewInv'
<1> SUFFICES ASSUME TypeOK, PlaceInv, [Next]_vars PROVE NewInv'
  OBVIOUS
<1>0. PageInv /\ OldInv /\ NewInv /\ CatchUpInv /\ RowInv
  BY DEF PlaceInv
<1>1. ASSUME run'.phase = run.phase /\ run'.cursor = run.cursor,
             run'.first = run.first /\ run'.page = run.page,
             run'.maxSeen = run.maxSeen, run.at = "maxid" => run'.at = "maxid",
             Running, UNCHANGED <<order, scope, row>>,
             posted' \in Nat, posted' >= posted
      PROVE  NewInv'
  <2>1. Larger(row'.max, run'.maxSeen) = Larger(row.max, run.maxSeen)
    BY <1>1
  <2> QED
    BY <1>0, <1>1, <2>1, Types DEF NewInv, Phase
<1>2. CASE Post
  <2>1. CASE Running
    BY <1>1, <1>2, <2>1, Types DEF Post, task, history
  <2>2. CASE ~Running
    BY <1>2, <2>2 DEF Post, NewInv, Phase, Running
  <2> QED
    BY <2>1, <2>2
<1>s. ASSUME NEW max \in Nat, max <= row.max, order = "new",
             run' = NewToOldStart(max), UNCHANGED <<order, scope, row, posted>>
      PROVE  NewInv'
  <2>1. /\ run'.page = {} /\ ~run'.first /\ run'.maxSeen = max
        /\ run'.at = "page"
        /\ run'.cursor = IF row.cursor <= 0 /\ scope.max > 0 THEN scope.max + 1
                         ELSE row.cursor
    BY <1>s, PhasesStart
  <2>2. max <= posted
    BY <1>0, <1>s, Types DEF RowInv
  <2> QED
    BY <1>s, <2>1, <2>2, Types DEF NewInv
<1>3. CASE Start
  <2>1. CASE order = "new" /\ run' = CloneStart(row.max)
    <3>1. run' = NewToOldStart(row.max) /\ UNCHANGED <<order, scope, row, posted>>
      BY <1>3, <2>1, StartDoes, CloneStarts DEF task
    <3> QED
      BY <1>s, <2>1, <3>1, Types
  <2>2. CASE ~(order = "new" /\ run' = CloneStart(row.max))
    <3>1. order = "old" \/ order = "new"
      BY DEF TypeOK
    <3>2. run'.phase # "new"
      BY <1>3, <2>2, <3>1, StartDoes, CloneStarts, PhasesStart
    <3> QED
      BY <3>2 DEF NewInv, Phase
  <2> QED
    BY <2>1, <2>2
<1>4. CASE CatchUpPage
  <2>1. order = "new" /\ run.phase = "catchup" /\ run.maxSeen <= row.max
    BY <1>0, <1>4 DEF CatchUpPage, Asking, CatchUpInv, Phase, Running, Idle
  <2>2. CASE CatchUpEnds
    <3>1. run' = NewToOldStart(run.maxSeen)
          /\ UNCHANGED <<order, scope, row, posted>>
      BY <1>4, <2>1, <2>2, CatchUpPageDoes, CloneStarts DEF task
    <3> QED
      BY <1>s, <2>1, <3>1, Types
  <2>3. CASE ~CatchUpEnds
    BY <1>4, <2>1, <2>3, CatchUpPageDoes DEF NewInv, Phase
  <2> QED
    BY <2>2, <2>3
<1>5. CASE OldToNewPage
  <2>1. CASE OldEnds
    BY <1>5, <2>1, OldPageDoes DEF NewInv, Phase, Running, Idle
  <2>2. CASE ~OldEnds
    BY <1>5, <2>2, OldPageDoes DEF NewInv, Phase, OldToNewPage, Asking
  <2> QED
    BY <2>1, <2>2
<1>6. CASE NewToOldPage
  <2>1. CASE NewEnds
    BY <1>6, <2>1, NewPageDoes DEF NewInv, Phase, Running, Idle
  <2>2. CASE ~NewEnds
    <3>1. /\ order = "new" /\ ~run.first
          /\ run.maxSeen <= row.max /\ run.maxSeen <= posted
          /\ row.cursor > 0 => run.cursor > 0 /\ run.cursor <= row.cursor
          /\ run.cursor = 0 => scope.max = 0
      BY <1>0, <1>6 DEF NewToOldPage, Asking, NewInv, Phase, Running, Idle
    <3>2. /\ run'.at = (IF Max(NewTodo) > run.maxSeen THEN "maxid" ELSE "unit")
          /\ run'.maxSeen = Larger(run.maxSeen, Max(NewTodo))
          /\ run'.cursor = run.cursor /\ run'.first = run.first
          /\ run'.page = NewTodo /\ NewTodo # {}
          /\ UNCHANGED <<order, scope, row, posted>>
      BY <1>6, <2>2, NewPageDoes DEF task
    <3>3. NewTodo \in SUBSET Messages
          /\ \A m \in NewTodo : (run.cursor > 0 => m < run.cursor) /\ m <= posted
      BY DEF NewTodo, NewIds, Descending
    <3>4. Max(NewTodo) \in NewTodo /\ \A m \in NewTodo : m <= Max(NewTodo)
      BY <3>2, <3>3, MaxMin
    <3>5. Max(NewTodo) \in Nat /\ \A m \in NewTodo : m \in Nat
      BY <3>3, <3>4, Types
    <3>6. /\ run'.maxSeen \in Nat /\ run'.maxSeen <= posted
          /\ run'.at # "maxid" => run'.maxSeen = run.maxSeen
      BY <3>1, <3>2, <3>3, <3>4, <3>5, Types DEF Larger
    <3>7. \A m \in NewTodo : m <= Larger(row.max, run'.maxSeen)
      BY <3>2, <3>4, <3>5, <3>6, Types DEF Larger
    <3> QED
      BY <3>1, <3>2, <3>3, <3>6, <3>7 DEF NewInv
  <2> QED
    BY <2>1, <2>2
<1>7. CASE PersistMaxID
  <2>1. /\ order = "new" /\ ~run.first /\ run.maxSeen <= posted
        /\ row.cursor > 0 => run.cursor > 0 /\ run.cursor <= row.cursor
        /\ run.cursor = 0 => scope.max = 0
        /\ \A m \in run.page : /\ run.cursor > 0 => m < run.cursor
                               /\ m <= Larger(row.max, run.maxSeen)
    BY <1>0, <1>7 DEF PageInv, PersistMaxID, NewInv, Phase, Running, Idle
  <2>2. row'.max = Larger(row.max, run.maxSeen) /\ row'.cursor = row.cursor
    BY <1>7, MaxIDDoes DEF TypeOK
  <2>3. UNCHANGED <<order, scope, posted>>
    BY <1>7, MaxIDDoes DEF task
  <2>4. Larger(row'.max, run.maxSeen) = Larger(row.max, run.maxSeen)
        /\ run.maxSeen <= row'.max
    BY <2>2, Types DEF Larger
  <2> QED
    BY <1>7, <2>1, <2>2, <2>3, <2>4, MaxIDDoes DEF NewInv
<1>8. CASE TakeUnit
  BY <1>0, <1>1, <1>8, TakeDoes, Types DEF task, Running, Idle
<1>9. CASE Attempt
  BY <1>1, <1>9, AttemptDoes, Types DEF task, Running, Idle
<1>10. CASE Stop
  BY <1>10, StopDoes DEF NewInv, Phase, Running, Idle
<1>11. CASE CatchUpPersist
  <2>1. Max(run.unit) \in Nat
    BY <1>0, <1>11, UnitEnds, Types DEF CatchUpPersist, Settling
  <2>2. run'.phase = "catchup"
    BY <1>0, <1>11, <2>1, PersistDoes DEF CatchUpPersist, Settling
  <2> QED
    BY <2>2 DEF NewInv, Phase
<1>12. CASE OldToNewPersist
  <2>1. Max(run.unit) \in Nat
    BY <1>0, <1>12, UnitEnds, Types DEF OldToNewPersist, Settling
  <2>2. run'.phase = "old"
    BY <1>0, <1>12, <2>1, PersistDoes DEF OldToNewPersist, Settling
  <2> QED
    BY <2>2 DEF NewInv, Phase
<1>13. CASE NewToOldPersist
  <2> USE <1>13 DEF NewToOldPersist, Settling
  <2>1. Min(run.unit) \in run.page /\ Min(run.unit) \in Nat /\ Min(run.unit) > 0
    BY <1>0, UnitEnds, Types
  <2>2. /\ order = "new" /\ ~run.first /\ run.maxSeen <= posted
        /\ run.maxSeen <= row.max
        /\ \A m \in run.page : m <= Larger(row.max, run.maxSeen)
    BY <1>0 DEF NewInv, Phase, Running, Idle
  <2>3. /\ run'.cursor = Min(run.unit) /\ row' = [row EXCEPT !.cursor = Min(run.unit)]
        /\ run'.first = run.first /\ run'.page = run.page \ run.unit
        /\ run'.maxSeen = run.maxSeen
        /\ UNCHANGED <<order, scope, posted>>
    BY <1>0, <2>1, PersistDoes DEF task
  <2>4. row'.max = row.max /\ row'.cursor = Min(run.unit)
    BY <2>3 DEF TypeOK
  <2>5. \A k \in run.page \ run.unit : k < Min(run.unit)
    BY <1>0, RestFollows, Types
  <2> QED
    BY <2>1, <2>2, <2>3, <2>4, <2>5, Types DEF NewInv
<1>14. CASE UNCHANGED vars
  BY <1>0, <1>14 DEF NewInv, vars, task, Phase, Running
<1> QED
  BY <1>2, <1>3, <1>4, <1>5, <1>6, <1>7, <1>8, <1>9, <1>10, <1>11, <1>12,
     <1>13, <1>14, NextActions

LEMMA CatchUpStep == TypeOK /\ PlaceInv /\ [Next]_vars => CatchUpInv'
<1> SUFFICES ASSUME TypeOK, PlaceInv, [Next]_vars PROVE CatchUpInv'
  OBVIOUS
<1>0. PageInv /\ CatchUpInv /\ RowInv
  BY DEF PlaceInv
<1>1. ASSUME run'.phase = run.phase /\ run'.cursor = run.cursor,
             run'.first = run.first /\ run'.page = run.page,
             run'.maxSeen = run.maxSeen /\ run'.since = run.since,
             run'.latest = run.latest /\ run'.processed = run.processed,
             Running, UNCHANGED <<order, due, row>>,
             posted' \in Nat, posted' >= posted
      PROVE  CatchUpInv'
  BY <1>0, <1>1, Types DEF CatchUpInv, Phase
<1>2. CASE Post
  <2>1. CASE Running
    BY <1>1, <1>2, <2>1, Types DEF Post, task, history
  <2>2. CASE ~Running
    BY <1>2, <2>2 DEF Post, CatchUpInv, Phase, Running
  <2> QED
    BY <2>1, <2>2
<1>3. CASE Start
  <2>1. CASE run' = CatchUpStart /\ order = "new"
                /\ (row.max > 0 \/ row.cursor > 0) /\ (row.max > 0 => posted > row.max)
                /\ Latest = posted
    <3>1. row.max > 0
      BY <1>0, <2>1, Types DEF RowInv
    <3>2. /\ run'.since = row.max /\ run'.cursor = row.max /\ ~run'.first
          /\ run'.latest = posted /\ run'.maxSeen = row.max
          /\ run'.processed = 0 /\ run'.page = {}
      BY <2>1, <3>1, PhasesStart, Types
    <3>3. UNCHANGED <<order, row, posted>> /\ due' = posted
      BY <1>3, StartDoes DEF task
    <3> QED
      BY <2>1, <3>1, <3>2, <3>3, Types DEF CatchUpInv
  <2>2. CASE run' = CloneStart(row.max)
    BY <2>2, CloneStarts DEF CatchUpInv, Phase
  <2> QED
    BY <1>3, <2>1, <2>2, StartDoes
<1>4. CASE CatchUpPage
  <2>1. CASE CatchUpEnds
    BY <1>4, <2>1, CatchUpPageDoes, CloneStarts DEF CatchUpInv, Phase
  <2>2. CASE ~CatchUpEnds
    <3>1. /\ order = "new" /\ ~run.first
          /\ 0 < run.since /\ run.since <= row.max /\ run.since <= run.cursor
          /\ run.maxSeen <= row.max
          /\ run.cursor <= run.latest /\ run.latest <= posted /\ due <= run.latest
          /\ run.processed <= run.cursor
      BY <1>0, <1>4 DEF CatchUpPage, Asking, CatchUpInv, Phase, Running, Idle
    <3>2. \A m \in CatchUpTodo : run.cursor < m /\ m <= run.latest
      BY <3>1 DEF CatchUpTodo, CatchUpIds, Ascending, From
    <3>3. /\ run'.cursor = run.cursor /\ ~run'.first /\ run'.page = CatchUpTodo
          /\ run'.processed = run.processed /\ run'.latest = run.latest
          /\ run'.since = run.since /\ run'.maxSeen = run.maxSeen
          /\ UNCHANGED <<order, row, posted, due>>
      BY <1>4, <2>2, CatchUpPageDoes DEF task, history
    <3> QED
      BY <3>1, <3>2, <3>3 DEF CatchUpInv
  <2> QED
    BY <2>1, <2>2
<1>5. CASE OldToNewPage
  <2>1. CASE OldEnds
    BY <1>5, <2>1, OldPageDoes DEF CatchUpInv, Phase, Running, Idle
  <2>2. CASE ~OldEnds
    BY <1>5, <2>2, OldPageDoes DEF CatchUpInv, Phase, OldToNewPage, Asking
  <2> QED
    BY <2>1, <2>2
<1>6. CASE NewToOldPage
  <2>1. CASE NewEnds
    BY <1>6, <2>1, NewPageDoes DEF CatchUpInv, Phase, Running, Idle
  <2>2. CASE ~NewEnds
    BY <1>6, <2>2, NewPageDoes DEF CatchUpInv, Phase, NewToOldPage, Asking
  <2> QED
    BY <2>1, <2>2
<1>7. CASE PersistMaxID
  <2>1. run.phase = "new"
    BY <1>0, <1>7 DEF PageInv, PersistMaxID
  <2> QED
    BY <1>7, <2>1, MaxIDDoes DEF CatchUpInv, Phase
<1>8. CASE TakeUnit
  BY <1>0, <1>1, <1>8, TakeDoes, Types DEF task, Running, Idle
<1>9. CASE Attempt
  BY <1>1, <1>9, AttemptDoes, Types DEF task, Running, Idle
<1>10. CASE Stop
  BY <1>10, StopDoes DEF CatchUpInv, Phase, Running, Idle
<1>11. CASE CatchUpPersist
  <2> USE <1>11 DEF CatchUpPersist, Settling
  <2> DEFINE top == Max(run.unit)
  <2>1. top \in run.page /\ top \in Nat
        /\ run.unit \in SUBSET run.page /\ \A u \in run.unit : u <= top
    BY <1>0, UnitEnds, Types
  <2>2. /\ order = "new" /\ ~run.first
        /\ 0 < run.since /\ run.since <= row.max /\ run.since <= run.cursor
        /\ run.maxSeen <= row.max
        /\ run.cursor <= run.latest /\ run.latest <= posted /\ due <= run.latest
        /\ run.processed <= run.cursor
        /\ \A m \in run.page : run.cursor < m /\ m <= run.latest
    BY <1>0 DEF CatchUpInv, Phase, Running, Idle
  <2>3. /\ run'.cursor = top /\ row' = [row EXCEPT !.max = Larger(row.max, top)]
        /\ run'.first = run.first /\ run'.page = run.page \ run.unit
        /\ run'.processed = run.processed + Cardinality(run.unit)
        /\ run'.latest = run.latest /\ run'.since = run.since
        /\ run'.maxSeen = run.maxSeen
        /\ UNCHANGED <<order, posted, due>>
    BY <1>0, <2>1, PersistDoes DEF task, history
  <2>4. row'.max = Larger(row.max, top) /\ row'.cursor = row.cursor
    BY <2>3 DEF TypeOK
  <2>5. Cardinality(run.unit) \in Nat /\ Cardinality(run.unit) <= top - run.cursor
    <3>1. run.unit \in SUBSET ((run.cursor + 1)..top)
      BY <2>1, <2>2, Types
    <3>2. IsFiniteSet((run.cursor + 1)..top)
          /\ Cardinality((run.cursor + 1)..top) = top - run.cursor
      <4>1. run.cursor + 1 \in Int /\ top \in Int /\ run.cursor + 1 <= top
        BY <2>1, <2>2, Types
      <4> HIDE DEF top
      <4>2. IsFiniteSet((run.cursor + 1)..top)
            /\ Cardinality((run.cursor + 1)..top) = top - (run.cursor + 1) + 1
        BY <4>1, FS_Interval
      <4> QED
        BY <4>1, <4>2, Types
    <3>3. Cardinality(run.unit) \in Nat
      BY MessagesFinite, Types
    <3> HIDE DEF top
    <3> QED
      BY <3>1, <3>2, <3>3, FS_Subset
  <2>6. \A k \in run.page \ run.unit : top < k
    BY <1>0, RestFollows, Types
  <2> HIDE DEF top
  <2> QED
    BY <2>1, <2>2, <2>3, <2>4, <2>5, <2>6, Types DEF CatchUpInv, Larger
<1>12. CASE OldToNewPersist
  <2>1. Max(run.unit) \in Nat
    BY <1>0, <1>12, UnitEnds, Types DEF OldToNewPersist, Settling
  <2>2. run'.phase = "old"
    BY <1>0, <1>12, <2>1, PersistDoes DEF OldToNewPersist, Settling
  <2> QED
    BY <2>2 DEF CatchUpInv, Phase
<1>13. CASE NewToOldPersist
  <2>1. Min(run.unit) \in Nat
    BY <1>0, <1>13, UnitEnds, Types DEF NewToOldPersist, Settling
  <2>2. run'.phase = "new"
    BY <1>0, <1>13, <2>1, PersistDoes DEF NewToOldPersist, Settling
  <2> QED
    BY <2>2 DEF CatchUpInv, Phase
<1>14. CASE UNCHANGED vars
  BY <1>0, <1>14 DEF CatchUpInv, vars, task, history, Phase, Running
<1> QED
  BY <1>2, <1>3, <1>4, <1>5, <1>6, <1>7, <1>8, <1>9, <1>10, <1>11, <1>12,
     <1>13, <1>14, NextActions

LEMMA PlaceStep == TypeOK /\ PlaceInv /\ [Next]_vars => PlaceInv'
  BY PageStep, OldStep, NewStep, CatchUpStep, RowStep DEF PlaceInv

LEMMA PlaceInit == Init => PlaceInv
<1> SUFFICES ASSUME Init PROVE PlaceInv
  OBVIOUS
<1>1. run.at = "off" /\ run.page = {} /\ ~run.arrived
  BY DEF Init, NoRun
<1>2. row.max = 0 /\ row.cursor = 0 /\ posted = 0 /\ due = 0
  BY DEF Init
<1> QED
  BY <1>1, <1>2 DEF PlaceInv, PageInv, OldInv, NewInv, CatchUpInv, RowInv,
     Phase, Running, Idle

----------------------------------------------------------------------------
(* What lies behind the run is handled *)

\* A step only adds to what is handled.
LEMMA HandledGrows ==
  ASSUME TypeOK, PageInv, [Next]_vars
  PROVE  handled \in SUBSET handled' /\ UNCHANGED task
<1>1. CASE Post \/ Start
  BY <1>1, StartDoes DEF Post, history
<1>2. CASE CatchUpPage \/ OldToNewPage \/ NewToOldPage
  BY <1>2, CatchUpPageDoes, OldPageDoes, NewPageDoes DEF history
<1>3. CASE PersistMaxID \/ CatchUpPersist \/ OldToNewPersist \/ NewToOldPersist
  BY <1>3 DEF PersistMaxID, CatchUpPersist, OldToNewPersist, NewToOldPersist,
              Persisted, history
<1>4. CASE TakeUnit \/ Attempt \/ Stop
  BY <1>4, TakeDoes, AttemptDoes, StopDoes
<1>5. CASE UNCHANGED vars
  BY <1>5 DEF vars, history, task
<1> QED
  BY <1>1, <1>2, <1>3, <1>4, <1>5, NextActions

LEMMA ScopeIs ==
  ASSUME NEW m \in InScope
  PROVE  /\ m \in Messages /\ m \notin Services
         /\ scope.min > 0 => m >= scope.min
         /\ scope.max > 0 => m <= scope.max
  BY DEF InScope

\* What is no later than a unit in hand is in it or lies behind the run.
LEMMA UnitReached ==
  ASSUME TypeOK, PageInv, run.at = "persist",
         NEW m \in Messages, NEW u \in run.unit, Precedes(m, u)
  PROVE  m \in handled \/ Reached(m)
<1>1. u \in run.page /\ run.unit \in SUBSET handled
  BY DEF PageInv
<1>2. CASE m \in run.page
  BY <1>1, <1>2 DEF PageInv
<1>3. CASE m \notin run.page
  BY <1>1, <1>3 DEF Reached
<1> QED
  BY <1>2, <1>3

\* When its cursor is written, only the unit comes to lie behind the run.
LEMMA SettledReached ==
  ASSUME TypeOK, PageInv, run.at = "persist",
         run'.phase = run.phase, run'.first = run.first,
         run'.cursor = IF run.phase = "new" THEN Min(run.unit) ELSE Max(run.unit),
         run'.page = run.page \ run.unit,
         NEW m \in Messages, Reached(m)'
  PROVE  m \in handled \/ Reached(m)
<1>1. /\ run.unit \in SUBSET run.page /\ run.unit \in SUBSET handled
      /\ Max(run.unit) \in run.unit /\ Min(run.unit) \in run.unit
      /\ ~run.first
  BY UnitEnds DEF PageInv
<1>2. m \notin run.page \ run.unit
  BY DEF Reached
<1>3. CASE m \in run.unit
  BY <1>1, <1>3
<1>4. CASE m \notin run.page
  <2>1. \E x \in run.page : Precedes(m, x)
    <3>1. CASE Passed(m)'
      <4>1. Precedes(m, IF run.phase = "new" THEN Min(run.unit) ELSE Max(run.unit))
        BY <1>1, <3>1, Types DEF Passed, From, Precedes
      <4> QED
        BY <1>1, <4>1
    <3>2. CASE \E x \in run'.page : Precedes(m, x)'
      BY <3>2 DEF Precedes
    <3> QED
      BY <3>1, <3>2 DEF Reached
  <2> QED
    BY <1>4, <2>1 DEF Reached
<1> QED
  BY <1>2, <1>3, <1>4

LEMMA WindowStep ==
  TypeOK /\ PlaceInv /\ CopyInv /\ [Next]_vars => WindowCopied'
<1> SUFFICES ASSUME TypeOK, PlaceInv, CopyInv, [Next]_vars PROVE WindowCopied'
  OBVIOUS
<1>0. PageInv /\ OldInv /\ NewInv /\ CatchUpInv /\ RowInv
  BY DEF PlaceInv
<1>a. handled \in SUBSET handled' /\ UNCHANGED <<order, scope>>
  BY <1>0, HandledGrows DEF task
<1>b. InScope' = InScope
  BY <1>a DEF InScope
<1>1. ASSUME UNCHANGED row PROVE WindowCopied'
  <2>1. Window' = Window
    BY <1>1, <1>a, <1>b DEF Window
  <2> QED
    BY <1>a, <2>1 DEF CopyInv, WindowCopied
<1>2. CASE PersistMaxID
  <2>1. order = "new" /\ run.phase = "new" /\ Phase("new")
    BY <1>0, <1>2 DEF PersistMaxID, PageInv, NewInv, Phase, Running, Idle
  <2>2. row'.max = Larger(row.max, run.maxSeen) /\ row'.cursor = row.cursor
    BY <1>2, MaxIDDoes DEF TypeOK
  <2>3. ASSUME NEW m \in InScope, row.cursor > 0, row.cursor <= m,
               m <= Larger(row.max, run.maxSeen)
        PROVE  m \in handled
    <3>1. run.cursor > 0 /\ run.cursor <= m /\ m \notin run.page
      BY <1>0, <2>1, <2>3, ScopeIs, Types DEF NewInv
    <3>2. Reached(m)
      BY <2>1, <3>1 DEF Reached, Passed
    <3> QED
      BY <2>1, <2>3, <3>2 DEF CopyInv, NewCopied
  <2>4. \A m \in Window' : m \in handled
    BY <1>a, <1>b, <2>1, <2>2, <2>3 DEF Window
  <2> QED
    BY <1>a, <2>4 DEF WindowCopied
<1>3. CASE CatchUpPersist
  <2> USE <1>3 DEF CatchUpPersist, Settling
  <2>1. order = "new" /\ run.phase = "catchup" /\ Phase("catchup")
        /\ run.since <= row.max
    BY <1>0 DEF CatchUpInv, Phase, Running, Idle
  <2>2. Max(run.unit) \in run.unit /\ Max(run.unit) \in Nat
    BY <1>0, UnitEnds, Types
  <2>3. row' = [row EXCEPT !.max = Larger(row.max, Max(run.unit))]
    BY <1>0, <2>2, PersistDoes
  <2>4. row'.max = Larger(row.max, Max(run.unit)) /\ row'.cursor = row.cursor
    BY <2>3 DEF TypeOK
  <2>5. ASSUME NEW m \in InScope, row.cursor > 0, row.cursor <= m,
               m <= Larger(row.max, Max(run.unit))
        PROVE  m \in handled
    <3>1. CASE m <= row.max
      BY <2>1, <2>5, <3>1 DEF CopyInv, WindowCopied, Window
    <3>2. CASE ~(m <= row.max)
      <4>1. m <= Max(run.unit) /\ run.since < m
        BY <2>1, <2>2, <2>5, <3>2, ScopeIs, Types DEF Larger
      <4>2. m \in handled \/ Reached(m)
        BY <1>0, <2>1, <2>2, <4>1, ScopeIs, UnitReached DEF Precedes
      <4> QED
        BY <2>1, <4>1, <4>2 DEF CopyInv, CatchUpCopied
    <3> QED
      BY <3>1, <3>2
  <2>6. \A m \in Window' : m \in handled
    BY <1>a, <1>b, <2>1, <2>4, <2>5 DEF Window
  <2> QED
    BY <1>a, <2>6 DEF WindowCopied
<1>4. CASE OldToNewPersist
  <2> USE <1>4 DEF OldToNewPersist, Settling
  <2>1. order = "old" /\ run.phase = "old" /\ Phase("old")
    BY <1>0 DEF OldInv, Phase, Running, Idle
  <2>2. Max(run.unit) \in run.unit /\ Max(run.unit) \in Nat
    BY <1>0, UnitEnds, Types
  <2>3. row'.cursor = Max(run.unit)
    BY <1>0, <2>2, PersistDoes
  <2>4. ASSUME NEW m \in InScope, m <= Max(run.unit) PROVE m \in handled
    <3>1. m \in handled \/ Reached(m)
      BY <1>0, <2>1, <2>2, <2>4, ScopeIs, UnitReached DEF Precedes
    <3> QED
      BY <2>1, <3>1 DEF CopyInv, OldCopied
  <2>5. \A m \in Window' : m \in handled
    BY <1>a, <1>b, <2>1, <2>3, <2>4 DEF Window
  <2> QED
    BY <1>a, <2>5 DEF WindowCopied
<1>5. CASE NewToOldPersist
  <2> USE <1>5 DEF NewToOldPersist, Settling
  <2>1. order = "new" /\ run.phase = "new" /\ Phase("new")
    BY <1>0 DEF NewInv, Phase, Running, Idle
  <2>2. Min(run.unit) \in run.unit /\ Min(run.unit) \in Nat
    BY <1>0, UnitEnds, Types
  <2>3. row' = [row EXCEPT !.cursor = Min(run.unit)]
    BY <1>0, <2>2, PersistDoes
  <2>4. row'.max = row.max /\ row'.cursor = Min(run.unit)
    BY <2>3 DEF TypeOK
  <2>5. ASSUME NEW m \in InScope, Min(run.unit) <= m, m <= row.max
        PROVE  m \in handled
    <3>1. m \in handled \/ Reached(m)
      BY <1>0, <2>1, <2>2, <2>5, ScopeIs, UnitReached, Types DEF Precedes
    <3>2. m <= Larger(row.max, run.maxSeen)
      BY <2>5, ScopeIs, Types DEF Larger
    <3> QED
      BY <2>1, <3>1, <3>2 DEF CopyInv, NewCopied
  <2>6. \A m \in Window' : m \in handled
    BY <1>a, <1>b, <2>1, <2>4, <2>5 DEF Window
  <2> QED
    BY <1>a, <2>6 DEF WindowCopied
<1>6. CASE Post \/ Start \/ CatchUpPage \/ OldToNewPage \/ NewToOldPage
  BY <1>1, <1>6, StartDoes, CatchUpPageDoes, OldPageDoes, NewPageDoes DEF Post
<1>7. CASE TakeUnit \/ Attempt \/ Stop
  BY <1>0, <1>1, <1>7, TakeDoes, AttemptDoes, StopDoes
<1>8. CASE UNCHANGED vars
  BY <1>1, <1>8 DEF vars
<1> QED
  BY <1>2, <1>3, <1>4, <1>5, <1>6, <1>7, <1>8, NextActions

LEMMA OldCopiedStep ==
  TypeOK /\ PlaceInv /\ CopyInv /\ [Next]_vars => OldCopied'
<1> SUFFICES ASSUME TypeOK, PlaceInv, CopyInv, [Next]_vars, Phase("old")'
             PROVE  \A m \in InScope : Reached(m)' => m \in handled'
  BY HandledGrows DEF OldCopied, PlaceInv, InScope, task
<1>0. PageInv /\ OldInv /\ NewInv /\ CatchUpInv /\ OldCopied
  BY DEF PlaceInv, CopyInv
<1>a. handled \in SUBSET handled' /\ UNCHANGED <<order, scope>>
  BY <1>0, HandledGrows DEF task
<1>1. ASSUME run'.phase = run.phase /\ run'.cursor = run.cursor,
             run'.first = run.first /\ run'.page = run.page, Running
      PROVE  \A m \in InScope : Reached(m)' => m \in handled'
  BY <1>0, <1>1, <1>a DEF OldCopied, Phase, Reached, Passed, From, Precedes
<1>2. CASE Post
  BY <1>1, <1>2 DEF Post, Phase, Running
<1>3. CASE Start
  <2>1. run' = OldToNewStart
    BY <1>3, StartDoes, CloneStarts, PhasesStart DEF Phase, TypeOK
  <2>2. run'.page = {} /\ run'.phase = "old"
    BY <2>1, PhasesStart
  <2>3. From' = IF OldToNewStart.first THEN OldToNewStart.cursor - 1
                ELSE OldToNewStart.cursor
    BY <2>1 DEF From
  <2>4. From' = row.cursor \/ From' = scope.min - 1
    BY <2>3, OldStarts, Types
  <2>5. order = "old"
    BY <1>3, <2>2, StartDoes, CloneStarts, PhasesStart
  <2>6. ASSUME NEW m \in InScope, Reached(m)' PROVE m \in handled
    <3>1. m <= From'
      BY <2>2, <2>6 DEF Reached, Passed
    <3>2. m <= row.cursor
      BY <2>4, <3>1, ScopeIs, Types
    <3> QED
      BY <2>5, <3>2 DEF CopyInv, WindowCopied, Window
  <2> QED
    BY <1>a, <2>6
<1>4. CASE CatchUpPage
  <2>1. order = "new" /\ run.phase = "catchup"
    BY <1>0, <1>4 DEF CatchUpPage, Asking, CatchUpInv, Phase, Running, Idle
  <2>2. run'.phase # "old"
    BY <1>4, <2>1, CatchUpPageDoes, CloneStarts
  <2> QED
    BY <2>2 DEF Phase
<1>5. CASE OldToNewPage
  <2>1. /\ Phase("old") /\ run.page = {} /\ run.phase = "old"
        /\ run.first => run.cursor = 1
    BY <1>0, <1>5 DEF OldToNewPage, Asking, OldInv, PageInv, Phase, Running, Idle
  <2>2. /\ ~OldEnds /\ run'.phase = "old" /\ run'.cursor = run.cursor
        /\ ~run'.first /\ run'.page = OldTodo
    BY <1>5, <2>1, OldPageDoes DEF Phase, Running, Idle
  <2>3. ASSUME NEW m \in InScope, Reached(m)' PROVE m \in handled
    <3>1. CASE m <= From
      BY <2>1, <2>3, <3>1, <1>0 DEF OldCopied, Reached, Passed
    <3>2. CASE ~(m <= From)
      <4>1. m \notin OldTodo
        BY <2>2, <2>3 DEF Reached
      <4>2. OldTodo \in SUBSET Ascending(OldIds, Left)
            /\ OldTodo \in SUBSET OldIds /\ OldIds \in SUBSET Messages
        BY DEF OldTodo, OldIds, Ascending
      <4>3. PICK x \in OldTodo : m <= x
        <5>1. CASE \E x \in OldTodo : m <= x
          BY <5>1
        <5>2. CASE Passed(m)'
          <6>1. m <= run.cursor
            BY <2>2, <5>2 DEF Passed, From
          <6>2. m = 1
            BY <2>1, <3>2, <6>1, ScopeIs, Types DEF From
          <6>3. \A x \in OldTodo : m <= x
            BY <4>2, <6>2, Types
          <6> QED
            BY <2>2, <6>3 DEF OldEnds
        <5> QED
          BY <2>2, <2>3, <5>1, <5>2 DEF Reached, Precedes
      <4>4. m \in OldIds
        <5>1. x \in OldIds /\ x \in Nat
          BY <4>2, Types
        <5>2. x <= posted
          BY <5>1 DEF OldIds
        <5>3. m > From
          BY <3>2, ScopeIs, Types DEF From
        <5>4. m <= posted
          BY <4>3, <5>1, <5>2, ScopeIs, Types
        <5> QED
          BY <5>3, <5>4, ScopeIs DEF OldIds
      <4>5. Left \in Int
        BY Types, HistoryAssumption DEF Left, PageSize, Smaller
      <4>6. m \in Ascending(OldIds, Left)
        BY <4>2, <4>3, <4>4, <4>5, AscendingLeads
      <4> QED
        BY <4>1, <4>6, ScopeIs DEF OldTodo
    <3> QED
      BY <3>1, <3>2
  <2> QED
    BY <1>a, <2>3
<1>6. CASE NewToOldPage
  <2>1. run'.phase # "old"
    BY <1>6, NewPageDoes DEF NewToOldPage, Asking, Phase, Running, Idle
  <2> QED
    BY <2>1 DEF Phase
<1>7. CASE PersistMaxID
  BY <1>1, <1>7, MaxIDDoes DEF Running, Idle
<1>8. CASE TakeUnit
  BY <1>0, <1>1, <1>8, TakeDoes DEF Running, Idle
<1>9. CASE Attempt
  BY <1>1, <1>9, AttemptDoes DEF Running, Idle
<1>10. CASE Stop
  BY <1>10, StopDoes DEF Phase, Running, Idle
<1>11. CASE CatchUpPersist
  <2>1. Max(run.unit) \in Nat
    BY <1>0, <1>11, UnitEnds, Types DEF CatchUpPersist, Settling
  <2>2. run'.phase = "catchup"
    BY <1>0, <1>11, <2>1, PersistDoes DEF CatchUpPersist, Settling
  <2> QED
    BY <2>2 DEF Phase
<1>12. CASE OldToNewPersist
  <2> USE <1>12 DEF OldToNewPersist, Settling
  <2>1. Max(run.unit) \in Nat /\ Phase("old")
    BY <1>0, UnitEnds, Types DEF Phase, Running, Idle
  <2>2. /\ run'.phase = run.phase /\ run'.first = run.first
        /\ run'.cursor = Max(run.unit) /\ run'.page = run.page \ run.unit
    BY <1>0, <2>1, PersistDoes
  <2>3. ASSUME NEW m \in InScope, Reached(m)' PROVE m \in handled
    <3>1. m \in handled \/ Reached(m)
      BY <1>0, <2>2, <2>3, SettledReached, ScopeIs
    <3> QED
      BY <1>0, <2>1, <3>1 DEF OldCopied
  <2> QED
    BY <1>a, <2>3
<1>13. CASE NewToOldPersist
  <2>1. Min(run.unit) \in Nat
    BY <1>0, <1>13, UnitEnds, Types DEF NewToOldPersist, Settling
  <2>2. run'.phase = "new"
    BY <1>0, <1>13, <2>1, PersistDoes DEF NewToOldPersist, Settling
  <2> QED
    BY <2>2 DEF Phase
<1>14. CASE UNCHANGED vars
  BY <1>1, <1>14 DEF vars, Phase, Running
<1> QED
  BY <1>2, <1>3, <1>4, <1>5, <1>6, <1>7, <1>8, <1>9, <1>10, <1>11, <1>12,
     <1>13, <1>14, NextActions

LEMMA NewCopiedStep ==
  TypeOK /\ PlaceInv /\ CopyInv /\ [Next]_vars => NewCopied'
<1> SUFFICES ASSUME TypeOK, PlaceInv, CopyInv, [Next]_vars, Phase("new")'
             PROVE  \A m \in InScope :
                      /\ Reached(m)'
                      /\ m <= Larger(row'.max, run'.maxSeen)
                      => m \in handled'
  BY HandledGrows DEF NewCopied, PlaceInv, InScope, task
<1>0. PageInv /\ OldInv /\ NewInv /\ CatchUpInv /\ RowInv /\ NewCopied
  BY DEF PlaceInv, CopyInv
<1>a. handled \in SUBSET handled' /\ UNCHANGED <<order, scope>>
  BY <1>0, HandledGrows DEF task
<1>1. ASSUME run'.phase = run.phase /\ run'.cursor = run.cursor,
             run'.first = run.first /\ run'.page = run.page, Running,
             Larger(row'.max, run'.maxSeen) = Larger(row.max, run.maxSeen)
      PROVE  \A m \in InScope :
               Reached(m)' /\ m <= Larger(row'.max, run'.maxSeen) => m \in handled'
  BY <1>0, <1>1, <1>a DEF NewCopied, Phase, Reached, Passed, From, Precedes
<1>2. CASE Post
  BY <1>1, <1>2 DEF Post, Phase, Running
<1>s. ASSUME NEW max \in Nat, max <= row.max, order = "new",
             run' = NewToOldStart(max), row' = row
      PROVE  \A m \in InScope :
               Reached(m)' /\ m <= Larger(row'.max, run'.maxSeen) => m \in handled'
  <2>1. /\ run'.page = {} /\ run'.phase = "new" /\ run'.maxSeen = max
        /\ run'.cursor = IF row.cursor <= 0 /\ scope.max > 0 THEN scope.max + 1
                         ELSE row.cursor
    BY <1>s, PhasesStart
  <2>2. Larger(row'.max, run'.maxSeen) = row.max
    BY <1>s, <2>1, Types DEF Larger
  <2>3. ASSUME NEW m \in InScope, Reached(m)', m <= row.max PROVE m \in handled
    <3>1. run'.cursor > 0 /\ run'.cursor <= m
      BY <2>1, <2>3 DEF Reached, Passed
    <3>2. row.cursor > 0 /\ row.cursor <= m
      BY <2>1, <3>1, ScopeIs, Types
    <3> QED
      BY <1>s, <2>3, <3>2 DEF CopyInv, WindowCopied, Window
  <2> QED
    BY <1>a, <2>2, <2>3
<1>3. CASE Start
  <2>1. order # "old" /\ run' = CloneStart(row.max) /\ row' = row
    BY <1>3, StartDoes, CloneStarts, PhasesStart DEF Phase
  <2>2. order = "new" /\ run' = NewToOldStart(row.max)
    BY <2>1, CloneStarts DEF TypeOK
  <2> QED
    BY <1>s, <2>1, <2>2, Types
<1>4. CASE CatchUpPage
  <2>1. order = "new" /\ run.phase = "catchup" /\ run.maxSeen <= row.max
    BY <1>0, <1>4 DEF CatchUpPage, Asking, CatchUpInv, Phase, Running, Idle
  <2>2. CASE CatchUpEnds
    <3>1. run' = NewToOldStart(run.maxSeen) /\ row' = row
      BY <1>4, <2>1, <2>2, CatchUpPageDoes, CloneStarts
    <3> QED
      BY <1>s, <2>1, <3>1, Types
  <2>3. CASE ~CatchUpEnds
    BY <1>4, <2>1, <2>3, CatchUpPageDoes DEF Phase
  <2> QED
    BY <2>2, <2>3
<1>5. CASE OldToNewPage
  <2>1. run'.phase # "new" \/ run'.at \in Idle
    BY <1>5, OldPageDoes DEF OldToNewPage, Asking, Idle
  <2> QED
    BY <2>1 DEF Phase, Running
<1>6. CASE NewToOldPage
  <2>1. /\ Phase("new") /\ run.page = {} /\ run.phase = "new"
        /\ run.maxSeen <= row.max
    BY <1>0, <1>6 DEF NewToOldPage, Asking, NewInv, PageInv, Phase, Running, Idle
  <2>2. /\ ~NewEnds /\ run'.phase = "new" /\ run'.cursor = run.cursor
        /\ run'.page = NewTodo /\ NewTodo # {} /\ row' = row
        /\ run'.maxSeen = Larger(run.maxSeen, Max(NewTodo))
    BY <1>6, <2>1, NewPageDoes DEF Phase, Running, Idle
  <2>3. NewTodo \in SUBSET Descending(NewIds, Left)
        /\ NewTodo \in SUBSET NewIds /\ NewIds \in SUBSET Messages
    BY DEF NewTodo, NewIds, Descending
  <2>4. Max(NewTodo) \in NewTodo
    BY <2>2, <2>3, MaxMin
  <2>5. /\ Max(NewTodo) \in Nat /\ Max(NewTodo) <= posted
        /\ run.cursor > 0 => Max(NewTodo) < run.cursor
    BY <2>3, <2>4, Types DEF NewIds
  <2>6. ASSUME NEW m \in InScope, Reached(m)', m <= Larger(row.max, run'.maxSeen)
        PROVE  m \in handled
    <3>1. m \in Nat /\ m \in Messages
      BY ScopeIs, Types
    <3>2. CASE run.cursor > 0 /\ run.cursor <= m
      <4>1. Reached(m)
        BY <2>1, <3>2 DEF Reached, Passed
      <4>2. m <= row.max
        BY <2>1, <2>2, <2>5, <2>6, <3>1, <3>2, Types DEF Larger
      <4> QED
        BY <1>0, <2>1, <3>1, <4>1, <4>2, Types DEF NewCopied, Larger
    <3>3. CASE ~(run.cursor > 0 /\ run.cursor <= m)
      <4>1. m \notin NewTodo
        BY <2>2, <2>6 DEF Reached
      <4>2. PICK x \in NewTodo : m >= x
        BY <2>2, <2>6, <3>3 DEF Reached, Passed, Precedes
      <4>3. m <= posted
        BY <1>0, <2>1, <2>2, <2>5, <2>6, <3>1, Types DEF Larger, RowInv
      <4>4. m \in NewIds
        BY <3>1, <3>3, <4>3, ScopeIs, Types DEF NewIds
      <4>5. Left \in Int
        BY Types, HistoryAssumption DEF Left, PageSize, Smaller
      <4>6. m \in Descending(NewIds, Left)
        BY <2>3, <4>2, <4>4, <4>5, DescendingLeads
      <4> QED
        BY <4>1, <4>6, ScopeIs DEF NewTodo
    <3> QED
      BY <3>2, <3>3
  <2> QED
    BY <1>a, <2>2, <2>6
<1>7. CASE PersistMaxID
  <2>1. row'.max = Larger(row.max, run.maxSeen) /\ run'.maxSeen = run.maxSeen
    BY <1>7, MaxIDDoes DEF TypeOK
  <2>2. Larger(row'.max, run'.maxSeen) = Larger(row.max, run.maxSeen)
    BY <2>1, Types DEF Larger
  <2> QED
    BY <1>1, <1>7, <2>2, MaxIDDoes DEF Running, Idle
<1>8. CASE TakeUnit
  BY <1>0, <1>1, <1>8, TakeDoes DEF Running, Idle
<1>9. CASE Attempt
  BY <1>1, <1>9, AttemptDoes DEF Running, Idle
<1>10. CASE Stop
  BY <1>10, StopDoes DEF Phase, Running, Idle
<1>11. CASE CatchUpPersist
  <2>1. Max(run.unit) \in Nat
    BY <1>0, <1>11, UnitEnds, Types DEF CatchUpPersist, Settling
  <2>2. run'.phase = "catchup"
    BY <1>0, <1>11, <2>1, PersistDoes DEF CatchUpPersist, Settling
  <2> QED
    BY <2>2 DEF Phase
<1>12. CASE OldToNewPersist
  <2>1. Max(run.unit) \in Nat
    BY <1>0, <1>12, UnitEnds, Types DEF OldToNewPersist, Settling
  <2>2. run'.phase = "old"
    BY <1>0, <1>12, <2>1, PersistDoes DEF OldToNewPersist, Settling
  <2> QED
    BY <2>2 DEF Phase
<1>13. CASE NewToOldPersist
  <2> USE <1>13 DEF NewToOldPersist, Settling
  <2>1. Min(run.unit) \in Nat /\ Phase("new")
    BY <1>0, UnitEnds, Types DEF Phase, Running, Idle
  <2>2. /\ run'.phase = run.phase /\ run'.first = run.first
        /\ run'.cursor = Min(run.unit) /\ run'.page = run.page \ run.unit
        /\ run'.maxSeen = run.maxSeen /\ row' = [row EXCEPT !.cursor = Min(run.unit)]
    BY <1>0, <2>1, PersistDoes
  <2>3. row'.max = row.max
    BY <2>2 DEF TypeOK
  <2>4. ASSUME NEW m \in InScope, Reached(m)', m <= Larger(row.max, run.maxSeen)
        PROVE  m \in handled
    <3>1. m \in handled \/ Reached(m)
      BY <1>0, <2>2, <2>4, SettledReached, ScopeIs
    <3> QED
      BY <1>0, <2>1, <2>4, <3>1 DEF NewCopied
  <2> QED
    BY <1>a, <2>2, <2>3, <2>4
<1>14. CASE UNCHANGED vars
  BY <1>1, <1>14 DEF vars, Phase, Running
<1> QED
  BY <1>2, <1>3, <1>4, <1>5, <1>6, <1>7, <1>8, <1>9, <1>10, <1>11, <1>12,
     <1>13, <1>14, NextActions

LEMMA CatchUpCopiedStep ==
  TypeOK /\ PlaceInv /\ CopyInv /\ [Next]_vars => CatchUpCopied'
<1> SUFFICES ASSUME TypeOK, PlaceInv, CopyInv, [Next]_vars, Phase("catchup")'
             PROVE  \A m \in InScope :
                      Reached(m)' /\ run'.since < m => m \in handled'
  BY HandledGrows DEF CatchUpCopied, PlaceInv, InScope, task
<1>0. PageInv /\ OldInv /\ NewInv /\ CatchUpInv /\ RowInv /\ CatchUpCopied
  BY DEF PlaceInv, CopyInv
<1>a. handled \in SUBSET handled' /\ UNCHANGED <<order, scope>>
  BY <1>0, HandledGrows DEF task
<1>1. ASSUME run'.phase = run.phase /\ run'.cursor = run.cursor,
             run'.first = run.first /\ run'.page = run.page, Running,
             run'.since = run.since
      PROVE  \A m \in InScope : Reached(m)' /\ run'.since < m => m \in handled'
  BY <1>0, <1>1, <1>a DEF CatchUpCopied, Phase, Reached, Passed, From, Precedes
<1>2. CASE Post
  BY <1>1, <1>2 DEF Post, Phase, Running
<1>3. CASE Start
  <2>1. run' = CatchUpStart /\ order = "new" /\ (row.max > 0 \/ row.cursor > 0)
    BY <1>3, StartDoes, CloneStarts DEF Phase
  <2>2. row.max > 0
    BY <1>0, <2>1, Types DEF RowInv
  <2>3. /\ run'.page = {} /\ run'.phase = "catchup" /\ ~run'.first
        /\ run'.cursor = row.max /\ run'.since = row.max
    BY <2>1, <2>2, PhasesStart, Types
  <2>4. \A m \in InScope : ~(Reached(m)' /\ run'.since < m)
    BY <2>3, ScopeIs, Types DEF Reached, Passed, From
  <2> QED
    BY <2>4
<1>4. CASE CatchUpPage
  <2>1. /\ Phase("catchup") /\ run.page = {} /\ run.phase = "catchup"
        /\ ~run.first /\ run.latest <= posted
    BY <1>0, <1>4 DEF CatchUpPage, Asking, CatchUpInv, PageInv, Phase, Running,
                      Idle
  <2>2. /\ ~CatchUpEnds /\ run'.phase = "catchup" /\ run'.cursor = run.cursor
        /\ ~run'.first /\ run'.page = CatchUpTodo /\ run'.since = run.since
    BY <1>4, <2>1, CatchUpPageDoes, CloneStarts DEF Phase
  <2>3. ASSUME NEW m \in InScope, Reached(m)', run.since < m PROVE m \in handled
    <3>1. CASE m <= From
      BY <2>1, <2>3, <3>1, <1>0 DEF CatchUpCopied, Reached, Passed
    <3>2. CASE ~(m <= From)
      <4>1. m \notin CatchUpTodo
        BY <2>2, <2>3 DEF Reached
      <4>2. CatchUpTodo \in SUBSET Ascending(CatchUpIds, PageSize)
            /\ CatchUpTodo \in SUBSET CatchUpIds
            /\ CatchUpIds \in SUBSET Messages
        BY DEF CatchUpTodo, CatchUpIds, Ascending
      <4>3. PICK x \in CatchUpTodo : m <= x
        BY <2>1, <2>2, <2>3, <3>2 DEF Reached, Passed, Precedes, From
      <4>4. m \in CatchUpIds
        <5>1. x \in CatchUpIds /\ x \in Nat
          BY <4>2, Types
        <5>2. x <= run.latest
          BY <5>1 DEF CatchUpIds
        <5>3. m > From
          BY <3>2, ScopeIs, Types DEF From
        <5>4. m <= run.latest
          BY <4>3, <5>1, <5>2, ScopeIs, Types
        <5> QED
          BY <5>3, <5>4, ScopeIs DEF CatchUpIds
      <4>5. PageSize \in Int
        BY Types, HistoryAssumption DEF PageSize, Smaller
      <4>6. m \in Ascending(CatchUpIds, PageSize)
        BY <4>2, <4>3, <4>4, <4>5, AscendingLeads
      <4> QED
        BY <2>3, <4>1, <4>6, ScopeIs, Types DEF CatchUpTodo
    <3> QED
      BY <3>1, <3>2
  <2> QED
    BY <1>a, <2>2, <2>3
<1>5. CASE OldToNewPage
  <2>1. run'.phase # "catchup" \/ run'.at \in Idle
    BY <1>5, OldPageDoes DEF OldToNewPage, Asking, Idle
  <2> QED
    BY <2>1 DEF Phase, Running
<1>6. CASE NewToOldPage
  <2>1. run'.phase # "catchup" \/ run'.at \in Idle
    BY <1>6, NewPageDoes DEF NewToOldPage, Asking, Idle
  <2> QED
    BY <2>1 DEF Phase, Running
<1>7. CASE PersistMaxID
  <2>1. run.phase = "new"
    BY <1>0, <1>7 DEF PageInv, PersistMaxID
  <2> QED
    BY <1>7, <2>1, MaxIDDoes DEF Phase
<1>8. CASE TakeUnit
  BY <1>0, <1>1, <1>8, TakeDoes DEF Running, Idle
<1>9. CASE Attempt
  BY <1>1, <1>9, AttemptDoes DEF Running, Idle
<1>10. CASE Stop
  BY <1>10, StopDoes DEF Phase, Running, Idle
<1>11. CASE CatchUpPersist
  <2> USE <1>11 DEF CatchUpPersist, Settling
  <2>1. Max(run.unit) \in Nat /\ Phase("catchup")
    BY <1>0, UnitEnds, Types DEF Phase, Running, Idle
  <2>2. /\ run'.phase = run.phase /\ run'.first = run.first
        /\ run'.cursor = Max(run.unit) /\ run'.page = run.page \ run.unit
        /\ run'.since = run.since
    BY <1>0, <2>1, PersistDoes
  <2>3. ASSUME NEW m \in InScope, Reached(m)', run.since < m PROVE m \in handled
    <3>1. m \in handled \/ Reached(m)
      BY <1>0, <2>2, <2>3, SettledReached, ScopeIs
    <3> QED
      BY <1>0, <2>1, <2>3, <3>1 DEF CatchUpCopied
  <2> QED
    BY <1>a, <2>2, <2>3
<1>12. CASE OldToNewPersist
  <2>1. Max(run.unit) \in Nat
    BY <1>0, <1>12, UnitEnds, Types DEF OldToNewPersist, Settling
  <2>2. run'.phase = "old"
    BY <1>0, <1>12, <2>1, PersistDoes DEF OldToNewPersist, Settling
  <2> QED
    BY <2>2 DEF Phase
<1>13. CASE NewToOldPersist
  <2>1. Min(run.unit) \in Nat
    BY <1>0, <1>13, UnitEnds, Types DEF NewToOldPersist, Settling
  <2>2. run'.phase = "new"
    BY <1>0, <1>13, <2>1, PersistDoes DEF NewToOldPersist, Settling
  <2> QED
    BY <2>2 DEF Phase
<1>14. CASE UNCHANGED vars
  BY <1>1, <1>14 DEF vars, Phase, Running
<1> QED
  BY <1>2, <1>3, <1>4, <1>5, <1>6, <1>7, <1>8, <1>9, <1>10, <1>11, <1>12,
     <1>13, <1>14, NextActions

LEMMA CopyStep == TypeOK /\ PlaceInv /\ CopyInv /\ [Next]_vars => CopyInv'
  BY WindowStep, OldCopiedStep, NewCopiedStep, CatchUpCopiedStep DEF CopyInv

LEMMA CopyInit == Init => CopyInv
<1> SUFFICES ASSUME Init PROVE CopyInv
  OBVIOUS
<1>1. run.at = "off" /\ row.cursor = 0 /\ order \in {"old", "new"}
  BY HistoryAssumption DEF Init, NoRun
<1>2. Window = {}
  BY <1>1, HistoryAssumption DEF Window, InScope, Messages
<1> QED
  BY <1>1, <1>2 DEF CopyInv, WindowCopied, OldCopied, NewCopied, CatchUpCopied,
     Phase, Running, Idle

----------------------------------------------------------------------------
(* The clone is a ResumableCopy *)

LEMMA CopyHolds == Spec => [](TypeOK /\ PlaceInv /\ CopyInv)
<1>1. Init => TypeOK /\ PlaceInv /\ CopyInv
  BY TypeInit, PlaceInit, CopyInit
<1>2. TypeOK /\ PlaceInv /\ CopyInv /\ [Next]_vars
        => (TypeOK /\ PlaceInv /\ CopyInv)'
  BY TypeStep, PlaceStep, CopyStep DEF PlaceInv
<1> QED
  BY <1>1, <1>2, PTL DEF Spec

\* A step copies, marks or does neither: the row and what is handled never
\* change together.
LEMMA CopyRefines ==
  TypeOK /\ PlaceInv /\ (TypeOK /\ WindowCopied)' /\ [Next]_vars
    => [Copies!Next]_<<handled, Window>>
<1> SUFFICES ASSUME TypeOK, PlaceInv, TypeOK', WindowCopied', [Next]_vars
             PROVE  [Copies!Next]_<<handled, Window>>
  OBVIOUS
<1>0. PageInv
  BY DEF PlaceInv
<1>1. handled \in SUBSET handled' /\ UNCHANGED <<order, scope>>
  BY <1>0, HandledGrows DEF task
<1>2. ASSUME UNCHANGED row PROVE Copies!Copy
  <2>1. Window' = Window
    BY <1>1, <1>2 DEF Window, InScope
  <2>2. handled' = handled \cup handled' /\ handled' \in SUBSET Messages
    BY <1>1 DEF TypeOK
  <2> QED
    BY <2>1, <2>2 DEF Copies!Copy
<1>3. ASSUME UNCHANGED handled PROVE Copies!Mark
  BY <1>3 DEF Copies!Mark, WindowCopied
<1>4. UNCHANGED row \/ UNCHANGED handled
  <2>1. CASE Post \/ Start \/ CatchUpPage \/ OldToNewPage \/ NewToOldPage
    BY <2>1, StartDoes, CatchUpPageDoes, OldPageDoes, NewPageDoes DEF Post
  <2>2. CASE TakeUnit \/ Attempt \/ Stop
    BY <1>0, <2>2, TakeDoes, AttemptDoes, StopDoes
  <2>3. CASE PersistMaxID \/ CatchUpPersist \/ OldToNewPersist \/ NewToOldPersist
    BY <2>3 DEF PersistMaxID, CatchUpPersist, OldToNewPersist, NewToOldPersist,
                Persisted, history
  <2>4. CASE UNCHANGED vars
    BY <2>4 DEF vars
  <2> QED
    BY <2>1, <2>2, <2>3, <2>4, NextActions
<1> QED
  BY <1>2, <1>3, <1>4 DEF Copies!Next

\* history.go: however the clone is interrupted and resumed, in either order and
\* with any pages, albums and bounds, the persisted cursor and maximum never
\* enclose a message that no run has dealt with.
THEOREM CloneIsResumable == Spec => CloneCopies
<1>1. Init => Copies!Init
  <2> SUFFICES ASSUME Init PROVE Copies!Init
    OBVIOUS
  <2>1. Window = {}
    BY CopyInit DEF Init, CopyInv, WindowCopied
  <2> QED
    BY <2>1 DEF Init, Copies!Init
<1> QED
  BY <1>1, CopyHolds, CopyRefines, PTL DEF Spec, CloneCopies, Copies!Spec, CopyInv

\* history.go: the types of the clone's row, its local variables and history.
THEOREM HistoryTypeCorrect == Spec => []TypeOK
  BY CopyHolds, PTL

----------------------------------------------------------------------------
(* What is sent twice *)

\* How much a message arrived, next to what the row or the run knows of it.
SentOnce(m) ==
  /\ sent[m] <= 1 + torn[m]
  /\ sent[m] <= torn[m] \/ Kept(m) \/ InHand(m)

CatchUpAhead == Phase("catchup") => row.cursor > 0 /\ row.max <= run.cursor

LEMMA ResentParts ==
  ResentInv <=> (~headless => (\A m \in Messages : SentOnce(m)) /\ CatchUpAhead)
  BY DEF ResentInv, SentOnce, CatchUpAhead

\* The page in hand holds nothing that the row keeps back.
LEMMA PageNotKept ==
  ASSUME TypeOK, PlaceInv, CatchUpAhead, run.at # "maxid", NEW m \in run.page
  PROVE  ~Kept(m)
<1>0. PageInv /\ OldInv /\ NewInv /\ CatchUpInv
  BY DEF PlaceInv
<1>1. Running /\ m \in Nat
  BY <1>0, Types DEF PageInv, Running
<1>2. CASE run.phase = "old"
  BY <1>0, <1>1, <1>2, Types DEF OldInv, Phase, Kept
<1>3. CASE run.phase = "new"
  BY <1>0, <1>1, <1>3, Types DEF NewInv, Phase, Kept
<1>4. CASE run.phase = "catchup"
  BY <1>0, <1>1, <1>4, Types DEF CatchUpInv, CatchUpAhead, Phase, Kept
<1> QED
  BY <1>2, <1>3, <1>4, RunTypes DEF TypeOK

\* Writing a cursor keeps back the unit in hand and all that was kept before.
LEMMA PersistKeeps ==
  ASSUME TypeOK, PlaceInv, CatchUpAhead, Persist,
         NEW m \in Messages, Kept(m) \/ InHand(m)
  PROVE  Kept(m)'
<1>0. PageInv /\ OldInv /\ NewInv /\ CatchUpInv /\ RowInv
  BY DEF PlaceInv
<1>1. run.at = "persist" /\ Running
  BY DEF Persist, CatchUpPersist, OldToNewPersist, NewToOldPersist, Settling,
         Running, Idle
<1>2. /\ Max(run.unit) \in run.page /\ Min(run.unit) \in run.page
      /\ Max(run.unit) \in Nat /\ Min(run.unit) \in Nat /\ Min(run.unit) > 0
      /\ \A u \in run.unit : Min(run.unit) <= u /\ u <= Max(run.unit)
  BY <1>0, <1>1, UnitEnds, Types
<1>3. m \in Nat
  BY Types
<1>4. CASE CatchUpPersist
  <2> USE <1>4 DEF CatchUpPersist, Settling
  <2>1. row' = [row EXCEPT !.max = Larger(row.max, Max(run.unit))]
        /\ UNCHANGED order
    BY <1>0, <1>2, PersistDoes DEF task
  <2>2. row'.max = Larger(row.max, Max(run.unit)) /\ row'.cursor = row.cursor
    BY <2>1 DEF TypeOK
  <2>3. /\ order = "new" /\ row.cursor > 0 /\ row.max <= run.cursor
        /\ \A k \in run.page : run.cursor < k
    BY <1>0, <1>1 DEF CatchUpInv, CatchUpAhead, Phase
  <2>4. row.cursor <= row.max
    BY <1>0, <2>3 DEF RowInv
  <2>5. CASE InHand(m)
    <3>1. m \in run.unit /\ m \in run.page
      BY <1>0, <2>5 DEF InHand, PageInv
    <3> QED
      BY <1>2, <1>3, <2>1, <2>2, <2>3, <2>4, <3>1, Types DEF Kept, Larger
  <2>6. CASE Kept(m)
    BY <1>2, <1>3, <2>1, <2>2, <2>3, <2>6, Types DEF Kept, Larger
  <2> QED
    BY <2>5, <2>6
<1>5. CASE OldToNewPersist
  <2> USE <1>5 DEF OldToNewPersist, Settling
  <2>1. row'.cursor = Max(run.unit) /\ UNCHANGED order
    BY <1>0, <1>2, PersistDoes DEF task
  <2>2. order = "old" /\ row.cursor < Max(run.unit)
    BY <1>0, <1>1, <1>2 DEF OldInv, Phase
  <2> QED
    BY <1>2, <1>3, <2>1, <2>2, Types DEF Kept, InHand
<1>6. CASE NewToOldPersist
  <2> USE <1>6 DEF NewToOldPersist, Settling
  <2>1. row' = [row EXCEPT !.cursor = Min(run.unit)] /\ UNCHANGED order
    BY <1>0, <1>2, PersistDoes DEF task
  <2>2. row'.max = row.max /\ row'.cursor = Min(run.unit)
    BY <2>1 DEF TypeOK
  <2>3. /\ order = "new" /\ run.maxSeen <= row.max
        /\ row.cursor > 0 => run.cursor > 0 /\ run.cursor <= row.cursor
        /\ \A k \in run.page : /\ run.cursor > 0 => k < run.cursor
                               /\ k <= Larger(row.max, run.maxSeen)
    BY <1>0, <1>1 DEF NewInv, Phase
  <2>4. CASE InHand(m)
    <3>1. m \in run.unit /\ m \in run.page
      BY <1>0, <2>4 DEF InHand, PageInv
    <3> QED
      BY <1>2, <1>3, <2>1, <2>2, <2>3, <3>1, Types DEF Kept, Larger
  <2>5. CASE Kept(m)
    BY <1>2, <1>3, <2>1, <2>2, <2>3, <2>5, Types DEF Kept
  <2> QED
    BY <2>4, <2>5
<1> QED
  BY <1>4, <1>5, <1>6 DEF Persist

LEMMA AheadStep ==
  TypeOK /\ PlaceInv /\ CatchUpAhead /\ ~headless' /\ [Next]_vars => CatchUpAhead'
<1> SUFFICES ASSUME TypeOK, PlaceInv, CatchUpAhead, ~headless', [Next]_vars,
                    Phase("catchup")'
             PROVE  row'.cursor > 0 /\ row'.max <= run'.cursor
  BY DEF CatchUpAhead
<1>0. PageInv /\ OldInv /\ NewInv /\ CatchUpInv /\ RowInv
  BY DEF PlaceInv
<1>1. ASSUME UNCHANGED row, run'.phase = run.phase, run'.cursor = run.cursor, Running
      PROVE  row'.cursor > 0 /\ row'.max <= run'.cursor
  BY <1>1 DEF CatchUpAhead, Phase
<1>2. CASE Post
  BY <1>1, <1>2 DEF Post, Phase, Running
<1>3. CASE Start
  <2>1. run' = CatchUpStart /\ order = "new" /\ (row.max > 0 \/ row.cursor > 0)
        /\ UNCHANGED row
    BY <1>3, StartDoes, CloneStarts DEF Phase
  <2>2. row.max > 0
    BY <1>0, <2>1, Types DEF RowInv
  <2>3. ~(order = "new" /\ row.max > 0 /\ row.cursor = 0)
    <3>1. headless' = (headless \/ (order = "new" /\ row.max > 0 /\ row.cursor = 0))
      BY <1>3, StartDoes
    <3> QED
      BY <3>1, Zenon
  <2>4. row.cursor > 0
    BY <2>1, <2>2, <2>3, Types
  <2> QED
    BY <2>1, <2>2, <2>4, PhasesStart, Types
<1>4. CASE CatchUpPage
  <2>1. Phase("catchup") /\ ~CatchUpEnds
    BY <1>0, <1>4, CatchUpPageDoes, CloneStarts
       DEF CatchUpPage, Asking, Phase, Running, Idle, CatchUpInv
  <2> QED
    BY <1>1, <1>4, <2>1, CatchUpPageDoes DEF Phase
<1>5. CASE OldToNewPage \/ NewToOldPage
  BY <1>5, OldPageDoes, NewPageDoes
     DEF OldToNewPage, NewToOldPage, Asking, Phase, Running, Idle
<1>6. CASE PersistMaxID
  <2>1. run.phase = "new"
    BY <1>0, <1>6 DEF PageInv, PersistMaxID
  <2> QED
    BY <1>6, <2>1, MaxIDDoes DEF Phase
<1>7. CASE TakeUnit
  BY <1>0, <1>1, <1>7, TakeDoes DEF Running, Idle
<1>8. CASE Attempt
  BY <1>1, <1>8, AttemptDoes DEF Running, Idle
<1>9. CASE Stop
  BY <1>9, StopDoes DEF Phase, Running, Idle
<1>10. CASE CatchUpPersist
  <2> USE <1>10 DEF CatchUpPersist, Settling
  <2>1. Max(run.unit) \in run.page /\ Max(run.unit) \in Nat
    BY <1>0, UnitEnds, Types
  <2>2. run'.cursor = Max(run.unit)
        /\ row' = [row EXCEPT !.max = Larger(row.max, Max(run.unit))]
    BY <1>0, <2>1, PersistDoes
  <2>3. row'.max = Larger(row.max, Max(run.unit)) /\ row'.cursor = row.cursor
    BY <2>2 DEF TypeOK
  <2>4. row.cursor > 0 /\ row.max <= run.cursor /\ run.cursor < Max(run.unit)
    BY <1>0, <2>1 DEF CatchUpInv, CatchUpAhead, Phase, Running, Idle
  <2> QED
    BY <2>1, <2>2, <2>3, <2>4, Types DEF Larger
<1>11. CASE OldToNewPersist
  <2>1. Max(run.unit) \in Nat
    BY <1>0, <1>11, UnitEnds, Types DEF OldToNewPersist, Settling
  <2>2. run'.phase = "old"
    BY <1>0, <1>11, <2>1, PersistDoes DEF OldToNewPersist, Settling
  <2> QED
    BY <2>2 DEF Phase
<1>12. CASE NewToOldPersist
  <2>1. Min(run.unit) \in Nat
    BY <1>0, <1>12, UnitEnds, Types DEF NewToOldPersist, Settling
  <2>2. run'.phase = "new"
    BY <1>0, <1>12, <2>1, PersistDoes DEF NewToOldPersist, Settling
  <2> QED
    BY <2>2 DEF Phase
<1>13. CASE UNCHANGED vars
  BY <1>1, <1>13 DEF vars, Phase, Running
<1> QED
  BY <1>2, <1>3, <1>4, <1>5, <1>6, <1>7, <1>8, <1>9, <1>10, <1>11, <1>12,
     <1>13, NextActions

\* The unit is in hand from the answer to the write.
LEMMA SentStep ==
  ASSUME TypeOK, PlaceInv, CatchUpAhead, [Next]_vars,
         NEW m \in Messages, SentOnce(m)
  PROVE  SentOnce(m)'
<1>0. PageInv
  BY DEF PlaceInv
<1>s. sent \in [Messages -> Nat] /\ torn \in [Messages -> Nat]
      /\ sent[m] \in Nat /\ torn[m] \in Nat
  BY DEF TypeOK
<1>a. UNCHANGED order
  BY <1>0, HandledGrows DEF task
<1>1. ASSUME UNCHANGED <<row, sent, torn>>, ~InHand(m) \/ InHand(m)'
      PROVE  SentOnce(m)'
  BY <1>1, <1>a DEF SentOnce, Kept
<1>2. CASE Post
  BY <1>1, <1>2 DEF Post, history, InHand
<1>3. CASE Start
  <2>1. ~InHand(m)
    BY <1>3, StartDoes DEF InHand, Idle
  <2> QED
    BY <1>1, <1>3, <2>1, StartDoes
<1>4. CASE CatchUpPage \/ OldToNewPage \/ NewToOldPage
  <2>1. ~InHand(m)
    BY <1>4 DEF CatchUpPage, OldToNewPage, NewToOldPage, Asking, InHand
  <2> QED
    BY <1>1, <1>4, <2>1, CatchUpPageDoes, OldPageDoes, NewPageDoes DEF history
<1>5. CASE PersistMaxID
  <2>1. ~InHand(m) /\ UNCHANGED <<sent, torn>>
    BY <1>5, MaxIDDoes DEF InHand, history
  <2>2. row'.max = Larger(row.max, run.maxSeen) /\ row'.cursor = row.cursor
    BY <1>5, MaxIDDoes DEF TypeOK
  <2>3. Kept(m) => Kept(m)'
    BY <1>a, <2>2, Types DEF Kept, Larger
  <2> QED
    BY <2>1, <2>3 DEF SentOnce
<1>6. CASE TakeUnit
  <2>1. ~InHand(m)
    BY <1>0, <1>6, TakeDoes DEF InHand
  <2> QED
    BY <1>0, <1>1, <1>6, <2>1, TakeDoes
<1>7. CASE SendOk \/ SendSkipped \/ SendAgain
  <2>0. Attempt /\ run.at = "send" /\ ~InHand(m)
    BY <1>7, AttemptDoes DEF Attempt, InHand
  <2>1. m \in run.unit => sent[m] <= torn[m]
    <3>1. m \in run.unit => m \in run.page
      BY <1>0, <2>0 DEF PageInv
    <3> QED
      BY <2>0, <3>1, PageNotKept DEF SentOnce
  <2>2. UNCHANGED row /\ (Kept(m) <=> Kept(m)') /\ run'.unit = run.unit
    BY <1>a, <2>0, AttemptDoes DEF Kept
  <2>3. CASE SendOk
    <3>1. PICK arrives \in BOOLEAN :
            /\ run' = [run EXCEPT !.at = "persist", !.arrived = arrives]
            /\ sent' = IF arrives THEN Bumped(sent, run.unit) ELSE sent
      BY <2>3 DEF SendOk
    <3>2. torn' = torn
      BY <2>3 DEF SendOk
    <3>3. CASE arrives /\ m \in run.unit
      <4>1. sent'[m] = sent[m] + 1
        BY <3>1, <3>3 DEF Bumped
      <4>2. InHand(m)'
        BY <2>2, <3>1, <3>3, RunSent DEF InHand, TypeOK
      <4> QED
        BY <1>s, <2>1, <3>2, <3>3, <4>1, <4>2 DEF SentOnce
    <3>4. CASE ~(arrives /\ m \in run.unit)
      <4>1. sent'[m] = sent[m]
        BY <1>s, <3>1, <3>4 DEF Bumped
      <4> QED
        BY <2>0, <2>2, <3>2, <4>1 DEF SentOnce
    <3> QED
      BY <3>3, <3>4
  <2>4. CASE SendSkipped
    BY <1>1, <2>0, <2>2, <2>4 DEF SendSkipped
  <2>5. CASE SendAgain
    <3>1. PICK arrives \in BOOLEAN :
            /\ sent' = IF arrives THEN Bumped(sent, run.unit) ELSE sent
            /\ torn' = IF arrives THEN Bumped(torn, run.unit) ELSE torn
      BY <2>5 DEF SendAgain
    <3>2. \/ sent'[m] = sent[m] + 1 /\ torn'[m] = torn[m] + 1
          \/ sent'[m] = sent[m] /\ torn'[m] = torn[m]
      BY <1>s, <3>1 DEF Bumped
    <3> QED
      BY <1>s, <2>0, <2>2, <3>2 DEF SentOnce
  <2> QED
    BY <1>7, <2>3, <2>4, <2>5
<1>8. CASE Stop
  <2>0. UNCHANGED <<row, sent>> /\ (Kept(m) <=> Kept(m)')
    BY <1>8, <1>a, StopDoes DEF Kept
  <2>1. CASE InHand(m)
    <3>1. torn' = Bumped(torn, run.unit)
      BY <1>8, <2>1, StopDoes DEF InHand, Torn
    <3>2. torn'[m] = torn[m] + 1
      BY <2>1, <3>1 DEF Bumped, InHand
    <3> QED
      BY <1>s, <2>0, <3>2 DEF SentOnce
  <2>2. CASE ~InHand(m)
    <3>1. torn'[m] = torn[m] \/ torn'[m] = torn[m] + 1
      BY <1>8, <1>s, StopDoes DEF Torn, Bumped
    <3> QED
      BY <1>s, <2>0, <2>2, <3>1 DEF SentOnce
  <2> QED
    BY <2>1, <2>2
<1>9. CASE Persist
  <2>1. UNCHANGED <<sent, torn>>
    BY <1>9 DEF Persist, CatchUpPersist, OldToNewPersist, NewToOldPersist,
                Persisted, history
  <2> QED
    BY <1>9, <2>1, PersistKeeps DEF SentOnce
<1>10. CASE UNCHANGED vars
  BY <1>1, <1>10 DEF vars, history, InHand
<1> QED
  BY <1>2, <1>3, <1>4, <1>5, <1>6, <1>7, <1>8, <1>9, <1>10, NextActions
     DEF Attempt, Persist

LEMMA ResentStep == TypeOK /\ PlaceInv /\ ResentInv /\ [Next]_vars => ResentInv'
<1> SUFFICES ASSUME TypeOK, PlaceInv, ResentInv, [Next]_vars, ~headless'
             PROVE  (\A m \in Messages : SentOnce(m)') /\ CatchUpAhead'
  BY DEF ResentInv, SentOnce, CatchUpAhead
<1>1. ~headless
  <2>1. CASE Start
    BY <2>1, StartDoes
  <2>2. CASE ~Start
    <3>1. UNCHANGED headless
      <4>1. CASE Post \/ CatchUpPage \/ OldToNewPage \/ NewToOldPage \/ PersistMaxID
        BY <4>1, CatchUpPageDoes, OldPageDoes, NewPageDoes, MaxIDDoes
           DEF Post, history
      <4>2. CASE TakeUnit \/ Attempt \/ Stop
        BY <4>2, TakeDoes, AttemptDoes, StopDoes DEF PlaceInv
      <4>3. CASE CatchUpPersist \/ OldToNewPersist \/ NewToOldPersist
        BY <4>3 DEF CatchUpPersist, OldToNewPersist, NewToOldPersist, Persisted,
                    history
      <4>4. CASE UNCHANGED vars
        BY <4>4 DEF vars, history
      <4> QED
        BY <2>2, <4>1, <4>2, <4>3, <4>4, NextActions
    <3> QED
      BY <3>1
  <2> QED
    BY <2>1, <2>2
<1>2. (\A m \in Messages : SentOnce(m)) /\ CatchUpAhead
  BY <1>1, ResentParts
<1>3. \A m \in Messages : SentOnce(m)'
  BY <1>2, SentStep
<1> QED
  BY <1>2, <1>3, AheadStep

\* history.go: a message arrives twice only after its arrival went without the
\* cursor's, unless a newest-first clone was interrupted before it had a cursor.
THEOREM ResentIfTorn == Spec => []ResentOnlyIfTorn
<1>1. Init => ResentInv
  <2> SUFFICES ASSUME Init PROVE ResentInv
    OBVIOUS
  <2>1. \A m \in Messages : sent[m] = 0 /\ torn[m] = 0
    BY DEF Init
  <2>2. run.at = "off"
    BY DEF Init, NoRun
  <2> QED
    BY <2>1, <2>2 DEF ResentInv, Phase, Running, Idle
<1>2. ResentInv => ResentOnlyIfTorn
  BY DEF ResentInv, ResentOnlyIfTorn
<1> QED
  BY <1>1, <1>2, CopyHolds, ResentStep, PTL DEF Spec

----------------------------------------------------------------------------
(* A clone that says it is through *)

LEMMA CompleteIs ==
  ASSUME TypeOK, Complete
  PROVE  PageSize = PageLimit /\ Left = PageLimit /\ ~Enough
         /\ PageLimit \in Nat /\ PageLimit > 0 /\ LastId <= CatchUpLimit
  BY Types, HistoryAssumption DEF Complete, PageSize, Left, Enough

\* Among the ids of a full page there is one that is not a service message.
LEMMA PageHasMessage ==
  ASSUME NoServicePage, PageLimit \in Nat, NEW m \in Messages
  PROVE  \E k \in m..(m + PageLimit - 1) : k \notin Services
  BY DEF NoServicePage

\* A stretch whose next page holds nothing to deal with has nothing at all.
LEMMA AscendingThrough ==
  ASSUME TypeOK, Complete, NEW lo \in Nat, NEW hi \in 0..LastId,
         NEW m \in (lo + 1)..hi,
         NEW page, page = Ascending((lo + 1)..hi, PageLimit),
         m \notin page \/ m \in Services
  PROVE  m \in Services \/ \E k \in page : k \notin Services
<1>0. PageLimit \in Nat /\ PageLimit > 0 /\ LastId \in Nat /\ NoServicePage
  BY CompleteIs, Types DEF Complete
<1>1. CASE m \notin page
  <2>1. (lo + 1)..(lo + PageLimit) \subseteq page
    BY <1>0, <1>1, AscendingFull
  <2>2. lo + 1 \in Messages
    BY <1>0 DEF Messages
  <2>3. \E k \in (lo + 1)..(lo + 1 + PageLimit - 1) : k \notin Services
    BY <1>0, <2>2, PageHasMessage
  <2>4. lo + 1 + PageLimit - 1 = lo + PageLimit
    BY <1>0
  <2> QED
    BY <2>1, <2>3, <2>4
<1> QED
  BY <1>1

LEMMA DescendingThrough ==
  ASSUME TypeOK, Complete, NEW lo \in Nat, NEW hi \in 0..LastId,
         NEW m \in (lo + 1)..hi,
         NEW page, page = Descending((lo + 1)..hi, PageLimit),
         m \notin page \/ m \in Services
  PROVE  m \in Services \/ \E k \in page : k \notin Services
<1>0. PageLimit \in Nat /\ PageLimit > 0 /\ LastId \in Nat /\ NoServicePage
  BY CompleteIs, Types DEF Complete
<1>1. CASE m \notin page
  <2>1. (hi - PageLimit + 1)..hi \subseteq page
    BY <1>0, <1>1, DescendingFull
  <2>2. hi - PageLimit + 1 \in (hi - PageLimit + 1)..hi
    BY <1>0
  <2>3. page \subseteq (lo + 1)..hi
    BY DEF Descending
  <2>4. hi - PageLimit + 1 \in Messages
    BY <1>0, <2>1, <2>2, <2>3 DEF Messages
  <2>5. \E k \in (hi - PageLimit + 1)..(hi - PageLimit + 1 + PageLimit - 1) :
          k \notin Services
    BY <1>0, <2>4, PageHasMessage
  <2>6. hi - PageLimit + 1 + PageLimit - 1 = hi
    BY <1>0
  <2> QED
    BY <2>1, <2>5, <2>6
<1> QED
  BY <1>1

\* cloneHistoryOldToNew ends.
LEMMA OldThrough ==
  ASSUME TypeOK, PlaceInv, CopyInv, Complete, Asking("old"), OldEnds,
         NEW m \in InScope, m <= due
  PROVE  m \in handled
<1>0. PageInv /\ OldInv /\ RowInv /\ OldCopied /\ Phase("old")
  BY DEF PlaceInv, CopyInv, Asking, Phase, Running, Idle
<1>1. /\ run.page = {} /\ run.phase = "old"
      /\ run.first => run.cursor = 1
      /\ scope.min > 0 => scope.min - 1 <= From
  BY <1>0 DEF PageInv, OldInv, Asking
<1>2. m \in Messages /\ m \in Nat /\ m > 0 /\ m \notin Services /\ m <= posted
  BY <1>0, ScopeIs, Types DEF RowInv
<1>3. ASSUME m <= From PROVE m \in handled
  BY <1>0, <1>1, <1>3 DEF OldCopied, Reached, Passed
<1>4. CASE scope.max > 0 /\ run.cursor >= scope.max
  <2>1. m <= scope.max /\ (scope.max = 1 => 1 \in Services)
    BY <1>4, ScopeIs DEF Complete
  <2>2. CASE run.first
    BY <1>1, <1>2, <1>4, <2>1, <2>2, Types
  <2>3. CASE ~run.first
    BY <1>2, <1>3, <1>4, <2>1, <2>3, Types DEF From
  <2> QED
    BY <2>2, <2>3
<1>5. CASE OldTodo = {} /\ ~(m <= From)
  <2>1. PICK hi \in 0..LastId :
          hi = IF scope.max > 0 THEN Smaller(posted, scope.max) ELSE posted
    BY Types DEF Smaller
  <2>2. From \in Nat
    BY <1>1, Types DEF From
  <2>3. OldIds = (From + 1)..hi
    BY <2>1, <2>2, Types DEF OldIds, Messages, Smaller
  <2>4. m \in (From + 1)..hi
    BY <1>2, <1>5, <2>1, <2>2, ScopeIs, Types DEF Smaller
  <2>5. PICK page : page = Ascending((From + 1)..hi, PageLimit)
    OBVIOUS
  <2>6. OldTodo = {k \in page \ Services : scope.min > 0 => k >= scope.min}
    BY <2>3, <2>5, CompleteIs DEF OldTodo
  <2>7. m \notin page
    BY <1>2, <1>5, <2>6, ScopeIs
  <2>8. PICK k \in page : k \notin Services
    BY <1>2, <2>2, <2>4, <2>5, <2>7, AscendingThrough
  <2>9. k \in (From + 1)..hi
    BY <2>5, <2>8 DEF Ascending
  <2>10. scope.min > 0 => k >= scope.min
    BY <1>1, <2>2, <2>9, Types
  <2> QED
    BY <1>5, <2>6, <2>8, <2>10
<1> QED
  BY <1>3, <1>4, <1>5, CompleteIs DEF OldEnds

\* cloneHistoryNewToOld ends.
LEMMA NewThrough ==
  ASSUME TypeOK, PlaceInv, CopyInv, Complete, DoneInv, Asking("new"), NewEnds,
         NEW m \in InScope, Owed(m)
  PROVE  m \in handled
<1>0. PageInv /\ NewInv /\ RowInv /\ Phase("new") /\ NewCopied
  BY DEF PlaceInv, CopyInv, Asking, Phase, Running, Idle
<1>1. /\ run.page = {} /\ run.phase = "new"
      /\ run.cursor = 0 => scope.max = 0
  BY <1>0 DEF PageInv, NewInv, Asking
<1>2. m \in Messages /\ m \in Nat /\ m > 0 /\ m \notin Services /\ m <= posted
  BY <1>0, ScopeIs, Types DEF RowInv, Owed
<1>3. ASSUME run.cursor > 0, run.cursor <= m PROVE m \in handled
  <2>1. CASE ~Blind
    BY <1>0, <1>1, <1>3, <2>1 DEF DoneInv, Reached, Passed, Owed
  <2>2. CASE Blind
    <3>1. m <= Larger(row.max, run.maxSeen)
      BY <1>2, <2>2, Types DEF Owed, Larger
    <3> QED
      BY <1>0, <1>1, <1>3, <3>1 DEF NewCopied, Reached, Passed
  <2> QED
    BY <2>1, <2>2
<1>4. CASE scope.min > 0 /\ run.cursor <= scope.min
  BY <1>1, <1>2, <1>3, <1>4, ScopeIs, Types
<1>5. CASE NewTodo = {} /\ ~(run.cursor > 0 /\ run.cursor <= m)
  <2>1. PICK lo \in Nat : lo = IF scope.min > 0 THEN scope.min - 1 ELSE 0
    BY Types
  <2>2. PICK top \in 0..LastId :
          top = IF scope.max > 0 THEN Smaller(posted, scope.max) ELSE posted
    BY Types DEF Smaller
  <2>3. PICK hi \in 0..LastId :
          hi = IF run.cursor > 0 THEN Smaller(top, run.cursor - 1) ELSE top
    BY <2>2, Types DEF Smaller
  <2>4. NewIds = (lo + 1)..hi
    <3>1. \A k \in Messages :
            k <= hi <=> /\ k <= posted /\ (run.cursor > 0 => k < run.cursor)
                        /\ (scope.max > 0 => k <= scope.max)
      BY <2>2, <2>3, Types DEF Smaller
    <3>2. \A k \in Messages : k >= lo + 1 <=> (scope.min > 0 => k >= scope.min)
      BY <2>1, Types
    <3>3. NewIds = {k \in Messages : lo + 1 <= k /\ k <= hi}
      BY <3>1, <3>2 DEF NewIds
    <3> QED
      BY <2>1, <2>3, <3>3, Types DEF Messages
  <2>5. m \in (lo + 1)..hi
    <3>1. m \in NewIds
      BY <1>2, <1>5, ScopeIs, Types DEF NewIds
    <3> QED
      BY <2>4, <3>1
  <2>6. PICK page : page = Descending((lo + 1)..hi, PageLimit)
    OBVIOUS
  <2>7. NewTodo = page \ Services
    BY <2>4, <2>6, CompleteIs DEF NewTodo
  <2> QED
    BY <1>2, <1>5, <2>5, <2>6, <2>7, DescendingThrough
<1> QED
  BY <1>3, <1>4, <1>5, CompleteIs DEF NewEnds

\* catchUpNewMessagesNewToOld ends.
LEMMA CatchUpThrough ==
  ASSUME TypeOK, PlaceInv, CopyInv, Complete, Asking("catchup"), CatchUpEnds,
         NEW m \in InScope, m <= due, run.since < m
  PROVE  m \in handled
<1>0. PageInv /\ CatchUpInv /\ CatchUpCopied /\ Phase("catchup")
  BY DEF PlaceInv, CopyInv, Asking, Phase, Running, Idle
<1>1. /\ run.page = {} /\ run.phase = "catchup" /\ ~run.first
      /\ run.since <= run.cursor /\ run.cursor <= run.latest
      /\ due <= run.latest /\ run.processed <= run.cursor
      /\ run.latest \in 0..LastId
  BY <1>0, RunTypes DEF PageInv, CatchUpInv, Asking, TypeOK
<1>2. m \in Messages /\ m \in Nat /\ m \notin Services /\ m <= run.latest
  BY <1>1, ScopeIs, Types
<1>3. From = run.cursor
  BY <1>1 DEF From
<1>4. CASE m <= run.cursor
  BY <1>0, <1>1, <1>3, <1>4 DEF CatchUpCopied, Reached, Passed
<1>5. CASE ~(m <= run.cursor)
  <2>0. ~(run.cursor >= run.latest) /\ ~(run.processed > CatchUpLimit)
    BY <1>1, <1>2, <1>5, CompleteIs, Types, HistoryAssumption
  <2>1. CatchUpTodo = {}
    BY <2>0 DEF CatchUpEnds
  <2>2. CatchUpIds = (run.cursor + 1)..run.latest
    BY <1>1, <1>3, Types DEF CatchUpIds, Messages
  <2>3. m \in (run.cursor + 1)..run.latest
    BY <1>2, <1>5, Types
  <2>4. PICK page : page = Ascending((run.cursor + 1)..run.latest, PageLimit)
    OBVIOUS
  <2>5. CatchUpTodo = {k \in page \ Services : k > run.since}
    BY <2>2, <2>4, CompleteIs DEF CatchUpTodo
  <2>6. m \notin page
    BY <1>2, <2>1, <2>5, Types
  <2>7. PICK k \in page : k \notin Services
    BY <1>1, <1>2, <2>3, <2>4, <2>6, AscendingThrough, Types, SMTT(30)
  <2>8. k \in (run.cursor + 1)..run.latest
    BY <2>4, <2>7 DEF Ascending
  <2>9. k > run.since
    BY <1>1, <2>8, Types
  <2> QED
    BY <2>1, <2>5, <2>7, <2>9
<1> QED
  BY <1>4, <1>5

\* A newest-first clone starts with nothing behind it that it need not have.
LEMMA NewStarts ==
  ASSUME TypeOK, PlaceInv, CopyInv, order = "new", NEW max, run' = NewToOldStart(max),
         NEW m \in InScope, Reached(m)'
  PROVE  row.cursor > 0 /\ row.cursor <= row.max /\ (m <= row.max => m \in handled)
<1>1. /\ run'.page = {} /\ run'.phase = "new"
      /\ run'.cursor = IF row.cursor <= 0 /\ scope.max > 0 THEN scope.max + 1
                       ELSE row.cursor
  BY PhasesStart
<1>2. run'.cursor > 0 /\ run'.cursor <= m
  BY <1>1 DEF Reached, Passed
<1>3. row.cursor > 0 /\ row.cursor <= m
  BY <1>1, <1>2, ScopeIs, Types
<1> QED
  BY <1>3 DEF PlaceInv, RowInv, CopyInv, WindowCopied, Window

\* A step that goes on with the page, or waits for the next start.
LEMMA DoneKeeps ==
  ASSUME TypeOK, PageInv, DoneInv, [Next]_vars, UNCHANGED due,
         Complete => \A m \in InScope :
           Phase("new")' /\ ~Blind /\ Reached(m)' /\ m <= due
             => m \in handled \/ (Phase("new") /\ Reached(m)),
         run'.at = "done" => run.at = "done" /\ UNCHANGED row
  PROVE  DoneInv'
<1>1. handled \in SUBSET handled' /\ UNCHANGED <<order, scope>>
  BY HandledGrows DEF task
<1>2. InScope' = InScope /\ Complete' = Complete /\ Blind' = Blind
  BY <1>1 DEF InScope, Complete, NoServicePage, Blind
<1> QED
  BY <1>1, <1>2 DEF DoneInv, Owed

LEMMA DoneStep ==
  TypeOK /\ PlaceInv /\ CopyInv /\ DoneInv /\ [Next]_vars => DoneInv'
<1> SUFFICES ASSUME TypeOK, PlaceInv, CopyInv, DoneInv, [Next]_vars PROVE DoneInv'
  OBVIOUS
<1>0. PageInv /\ OldInv /\ NewInv /\ CatchUpInv /\ RowInv
  BY DEF PlaceInv
<1>a. handled \in SUBSET handled' /\ UNCHANGED <<order, scope>>
  BY <1>0, HandledGrows DEF task
<1>b. InScope' = InScope /\ Complete' = Complete
  BY <1>a DEF InScope, Complete, NoServicePage
<1>1. ASSUME run'.phase = run.phase /\ run'.cursor = run.cursor,
             run'.first = run.first /\ run'.page = run.page,
             run'.at \in Idle => run.at \in Idle,
             run.at \in Idle => run'.at = run.at,
             run'.at = "done" => run.at = "done" /\ UNCHANGED row, UNCHANGED due
      PROVE  DoneInv'
  BY <1>0, <1>1, DoneKeeps DEF Phase, Running, Reached, Passed, From, Precedes
<1>2. CASE Post
  BY <1>1, <1>2 DEF Post, history
<1>3. CASE Start
  <2>1. run'.at = "page" /\ UNCHANGED <<row, posted>> /\ due' = posted
    BY <1>3, StartDoes, CloneStarts, PhasesStart
  <2>2. ASSUME NEW m \in InScope, Phase("new")', ~Blind', Reached(m)', m <= posted
        PROVE  m \in handled
    <3>1. order # "old" /\ run' = CloneStart(row.max)
      BY <1>3, <2>2, StartDoes, CloneStarts, PhasesStart DEF Phase
    <3>2. order = "new" /\ run' = NewToOldStart(row.max)
      BY <3>1, CloneStarts DEF TypeOK
    <3>3. row.cursor > 0 /\ row.cursor <= row.max /\ (m <= row.max => m \in handled)
      BY <2>2, <3>2, NewStarts
    <3>4. posted \notin Services
      BY <1>a, <2>1, <2>2, <3>2 DEF Blind
    <3>5. run' # CatchUpStart
      BY <2>2, PhasesStart DEF Phase
    <3>6. posted <= row.max
      BY <1>3, <3>2, <3>3, <3>4, <3>5, StartDoes, Types
    <3> QED
      BY <2>2, <3>3, <3>6, ScopeIs, Types
  <2> QED
    BY <1>a, <1>b, <2>1, <2>2 DEF DoneInv
<1>4. CASE CatchUpPage
  <2>0. UNCHANGED due /\ run'.at # "done" /\ Asking("catchup")
    BY <1>4, CatchUpPageDoes, CloneStarts DEF history
  <2>1. order = "new" /\ Phase("catchup")
    BY <1>0, <2>0 DEF Asking, CatchUpInv, Phase, Running, Idle
  <2>2. CASE CatchUpEnds
    <3>1. run' = NewToOldStart(run.maxSeen)
      BY <1>4, <2>1, <2>2, CatchUpPageDoes, CloneStarts
    <3>2. ASSUME NEW m \in InScope, Reached(m)', m <= due, Complete
          PROVE  m \in handled
      <4>1. m <= row.max => m \in handled
        BY <2>1, <3>1, <3>2, NewStarts
      <4>2. ~(m <= row.max) => run.since < m
        BY <1>0, <2>1, ScopeIs, Types DEF CatchUpInv
      <4> QED
        BY <2>0, <2>2, <3>2, <4>1, <4>2, CatchUpThrough
    <3> QED
      BY <1>0, <2>0, <3>2, DoneKeeps
  <2>3. CASE ~CatchUpEnds
    BY <1>0, <1>4, <2>0, <2>1, <2>3, CatchUpPageDoes, DoneKeeps DEF Phase
  <2> QED
    BY <2>2, <2>3
<1>5. CASE OldToNewPage
  <2>0. UNCHANGED due /\ Asking("old") /\ run.phase = "old"
    BY <1>5, OldPageDoes DEF history, Asking
  <2>1. CASE OldEnds
    <3>1. run'.at = "done"
      BY <1>5, <2>1, OldPageDoes
    <3> QED
      BY <1>a, <1>b, <1>5, <2>0, <2>1, <3>1, OldThrough, OldPageDoes
         DEF DoneInv, Phase, Running, Idle, Owed, history
  <2>2. CASE ~OldEnds
    BY <1>0, <1>5, <2>0, <2>2, OldPageDoes, DoneKeeps DEF Phase
  <2> QED
    BY <2>1, <2>2
<1>6. CASE NewToOldPage
  <2>0. /\ UNCHANGED due /\ Asking("new") /\ run.phase = "new" /\ Phase("new")
        /\ run.page = {}
    BY <1>0, <1>6, NewPageDoes DEF history, Asking, Phase, Running, Idle, PageInv
  <2>1. CASE NewEnds
    <3>1. run'.at = "done"
      BY <1>6, <2>1, NewPageDoes
    <3> QED
      <4>1. UNCHANGED row
        BY <1>6 DEF NewToOldPage
      <4>2. \A m \in InScope : Owed(m)' => Owed(m)
        BY <1>a, <2>0, <4>1 DEF Owed, Blind
      <4> QED
        BY <1>a, <1>b, <2>0, <2>1, <3>1, <4>2, NewThrough
           DEF DoneInv, Phase, Running, Idle
  <2>2. CASE ~NewEnds
    <3>1. /\ run'.at # "done" /\ run'.phase = "new" /\ run'.cursor = run.cursor
          /\ run'.page = NewTodo
      BY <1>6, <2>0, <2>2, NewPageDoes
    <3>2. ASSUME NEW m \in InScope, Reached(m)', m <= due
          PROVE  Reached(m)
      <4>1. CASE run.cursor > 0 /\ run.cursor <= m
        BY <2>0, <4>1 DEF Reached, Passed
      <4>2. CASE ~(run.cursor > 0 /\ run.cursor <= m)
        <5>1. m \notin NewTodo
          BY <3>1, <3>2 DEF Reached
        <5>2. PICK x \in NewTodo : m >= x
          BY <3>1, <3>2, <4>2 DEF Reached, Passed, Precedes
        <5>3. m \in NewIds
          BY <1>0, <3>2, <4>2, ScopeIs, Types DEF NewIds, RowInv
        <5>4. Left \in Int
          BY Types, HistoryAssumption DEF Left, PageSize, Smaller
        <5>5. NewIds \in SUBSET Messages /\ x \in Descending(NewIds, Left)
          BY DEF NewTodo, NewIds
        <5>6. m \in Descending(NewIds, Left)
          BY <5>2, <5>3, <5>4, <5>5, DescendingLeads
        <5> QED
          BY <5>1, <5>6, ScopeIs DEF NewTodo
      <4> QED
        BY <4>1, <4>2
    <3> QED
      BY <1>0, <2>0, <3>1, <3>2, DoneKeeps
  <2> QED
    BY <2>1, <2>2
<1>7. CASE PersistMaxID
  <2>1. /\ run'.at = "unit" /\ run.at = "maxid" /\ UNCHANGED due
        /\ run'.phase = run.phase /\ run'.cursor = run.cursor
        /\ run'.first = run.first /\ run'.page = run.page
    BY <1>7, MaxIDDoes DEF history
  <2> QED
    BY <1>1, <2>1 DEF Idle
<1>8. CASE TakeUnit
  BY <1>0, <1>1, <1>8, TakeDoes DEF Idle
<1>9. CASE Attempt
  BY <1>1, <1>9, AttemptDoes DEF Idle
<1>10. CASE Stop
  BY <1>0, <1>10, StopDoes, DoneKeeps DEF Phase, Running, Idle
<1>11. CASE Persist
  <2>0. run.at = "persist" /\ Running
    BY <1>11 DEF Persist, CatchUpPersist, OldToNewPersist, NewToOldPersist,
                 Settling, Running, Idle
  <2>1. Max(run.unit) \in Nat /\ Min(run.unit) \in Nat
    BY <1>0, <2>0, UnitEnds, Types
  <2>2. /\ run'.phase = run.phase /\ run'.first = run.first
        /\ run.phase = "new" => run'.cursor = Min(run.unit)
        /\ run.phase # "new" => run'.cursor = Max(run.unit)
        /\ run'.page = run.page \ run.unit
        /\ run'.at # "done" /\ UNCHANGED due
    <3>1. CASE CatchUpPersist
      BY <1>0, <2>0, <2>1, <3>1, PersistDoes DEF CatchUpPersist, Settling, history
    <3>2. CASE OldToNewPersist
      BY <1>0, <2>0, <2>1, <3>2, PersistDoes DEF OldToNewPersist, Settling, history
    <3>3. CASE NewToOldPersist
      BY <1>0, <2>0, <2>1, <3>3, PersistDoes DEF NewToOldPersist, Settling, history
    <3> QED
      BY <1>11, <3>1, <3>2, <3>3 DEF Persist
  <2>3. \A m \in InScope : Reached(m)' => m \in handled \/ Reached(m)
    BY <1>0, <2>0, <2>2, SettledReached, ScopeIs
  <2> QED
    BY <1>0, <2>0, <2>2, <2>3, DoneKeeps DEF Phase
<1>12. CASE UNCHANGED vars
  BY <1>1, <1>12 DEF vars, history
<1> QED
  BY <1>2, <1>3, <1>4, <1>5, <1>6, <1>7, <1>8, <1>9, <1>10, <1>11, <1>12,
     NextActions DEF Persist

\* history.go: a clone without a count bound that says it is through has dealt
\* with every message in scope that was there when it started; one that resumed
\* newest first while a service message was the newest, with those that
\* history_max_id covers.  The catch-up must not be cut off, and a range of
\* message 1 alone must have nothing in it.
THEOREM DoneComplete ==
  ASSUME LastId <= CatchUpLimit, \A s \in Scopes : s.max = 1 => 1 \in Services
  PROVE  Spec => []DoneMeansComplete
<1>1. Init => DoneInv
  <2> SUFFICES ASSUME Init PROVE DoneInv
    OBVIOUS
  <2>1. run.at = "off"
    BY DEF Init, NoRun
  <2> QED
    BY <2>1 DEF DoneInv, Phase, Running, Idle
<1>2. TypeOK /\ DoneInv => DoneMeansComplete
  BY DEF TypeOK, DoneInv, DoneMeansComplete, Complete, Owed
<1> QED
  BY <1>1, <1>2, CopyHolds, DoneStep, PTL DEF Spec

============================================================================
