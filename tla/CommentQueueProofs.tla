------------------------- MODULE CommentQueueProofs -------------------------
(***************************************************************************)
(* Proofs about the mirroring of comments: its types, that a comment is    *)
(* mirrored once, that none is forgotten and that edits come through; for  *)
(* any comments, album, batches, queues, edits and restarts.               *)
(***************************************************************************)
EXTENDS CommentQueue, FiniteSetTheorems, WellFoundedInduction, TLAPS

----------------------------------------------------------------------------
(* Numbers, batches and units *)

LEMMA CommentsFinite ==
  ASSUME NEW S \in SUBSET Comments
  PROVE  IsFiniteSet(S) /\ Cardinality(S) \in Nat
<1>1. IsFiniteSet(Comments)
  BY CommentAssumption, FS_Interval DEF Comments
<1>2. IsFiniteSet(S)
  BY <1>1, FS_Subset
<1> QED
  BY <1>2, FS_CardinalityType

\* Some comments have a first and a last one.
LEMMA LeastComment ==
  ASSUME NEW S \in SUBSET Comments, S # {}
  PROVE  \E n \in S : \A x \in S : n <= x
<1> DEFINE R == {p \in Nat \X Nat : p[1] < p[2]}
<1>1. IsWellFoundedOn(R, Nat)
  BY NatLessThanWellFounded, Zenon DEF OpToRel
<1>2. S \subseteq Nat
  BY CommentAssumption DEF Comments
<1>3. PICK n \in S : \A k \in S : <<k, n>> \notin R
  <2> HIDE DEF R
  <2> QED
    BY <1>1, <1>2, WFMin
<1>4. ASSUME NEW x \in S PROVE n <= x
  <2>1. x \in Nat /\ n \in Nat
    BY <1>2
  <2>2. ~(x < n)
    BY <1>3, <2>1
  <2> HIDE DEF R
  <2> QED
    BY <2>1, <2>2
<1> QED
  BY <1>4

LEMMA GreatestComment ==
  ASSUME NEW S \in SUBSET Comments, S # {}
  PROVE  \E n \in S : \A x \in S : x <= n
<1> DEFINE T == {LastId + 1 - x : x \in S}
<1>1. T \in SUBSET Comments /\ T # {}
  <2>1. \A x \in S : LastId + 1 - x \in Comments
    BY CommentAssumption DEF Comments
  <2> QED
    BY <2>1
<1>2. PICK k \in T : \A x \in T : k <= x
  <2> HIDE DEF T
  <2> QED
    BY <1>1, LeastComment
<1>3. PICK n \in S : k = LastId + 1 - n
  BY <1>2
<1>4. ASSUME NEW x \in S PROVE x <= n
  <2>1. k <= LastId + 1 - x
    BY <1>2
  <2> HIDE DEF T
  <2> QED
    BY <1>3, <2>1, CommentAssumption DEF Comments
<1> QED
  BY <1>4

LEMMA MaxMin ==
  ASSUME NEW S \in SUBSET Comments, S # {}
  PROVE  /\ Max(S) \in S /\ \A x \in S : x <= Max(S)
         /\ Min(S) \in S /\ \A x \in S : Min(S) <= x
<1> USE CommentAssumption DEF Comments
<1>1. \E n \in S : \A x \in S : n >= x
  BY GreatestComment
<1>2. \E n \in S : \A x \in S : n =< x
  BY LeastComment
<1>3. Max(S) \in S /\ \A x \in S : Max(S) >= x
  BY <1>1 DEF Max
<1>4. Min(S) \in S /\ \A x \in S : Min(S) =< x
  BY <1>2 DEF Min
<1> QED
  BY <1>3, <1>4

\* What is left to scan, and the batch that a scan takes of it.
Left(p) == {c \in Filed("root") : c > proc[p].cursor}
First(p) == {c \in Left(p) : Cardinality({d \in Left(p) : d < c}) < BatchSize}
Whole(p) ==
  IF First(p) # {} /\ Max(First(p)) \in grouped
  THEN First(p) \cup (Left(p) \cap grouped) ELSE First(p)
Batches(p) == {First(p), Whole(p)}

LEMMA BatchTaken ==
  ASSUME NEW p \in Procs, Left(p) # {}, NEW batch \in Batches(p)
  PROVE  /\ batch \subseteq Left(p) /\ batch # {}
         /\ Max(batch) \in batch /\ \A c \in batch : c <= Max(batch)
<1>1. Left(p) \in SUBSET Comments /\ batch \subseteq Left(p) /\ First(p) \subseteq batch
  BY DEF Batches, Whole, First, Left, Filed
<1>2. PICK n \in Left(p) : \A x \in Left(p) : n <= x
  BY <1>1, LeastComment
<1>3. {d \in Left(p) : d < n} = {}
  BY <1>1, <1>2, CommentAssumption DEF Comments
<1>4. n \in First(p)
  BY <1>2, <1>3, FS_EmptySet, CommentAssumption DEF First
<1>5. batch # {}
  BY <1>1, <1>4
<1> QED
  BY <1>1, <1>5, MaxMin

----------------------------------------------------------------------------
(* The inductive invariant *)

Holds(at) == at \in {"scan", "item", "send", "mark", "markblind"}

\* Where a goroutine is, and what it has in its hands there.
Hand(p, at, key, keys, todo, batch, unit) ==
  /\ unit \subseteq batch
  /\ unit # {} <=> at \in {"send", "mark", "markblind"}
  /\ batch # {} <=> at \in {"item", "send", "mark", "markblind"}
  /\ todo # {} <=> at = "store"
  /\ at \in {"roots", "next"} => p = "boot"
  /\ at \in {"edit", "editwrite"} => p = "producer"
  /\ at \in {"repair", "fetch", "store"} => p = "trunk"
  /\ at \in {"load", "ask"} => key # ""
  /\ at = "found" => key = "root"
  /\ at = "store" => key = "root"
  /\ p = "boot" /\ at = "idle" => keys = {}

HandOf(p) == Hand(p, proc[p].at, proc[p].key, proc[p].keys, proc[p].todo, proc[p].batch,
                  proc[p].unit)
HandsInv == \A p \in Procs : HandOf(p)

\* The lock of the flushes is in the hands of the one that scans and sends.
LockInv == \A p \in Procs : Holds(proc[p].at) <=> lock = p

\* Every row is filed, those of a batch under the root, unless they were taken for
\* comments of another post in the meantime.
RowInv ==
  /\ \A c \in Comments : rows[c].status # "none" <=> rows[c].key # ""
  /\ \A p \in Procs : \A c \in proc[p].batch : rows[c].key \in {"root", "other"}

\* The edit that the producer writes is the head of its queue, and what it has
\* read of the row still holds, unless the comment was pending.
EditInv ==
  LET edits == proc["producer"].at  was == proc["producer"].was IN
  /\ edits \in {"edit", "editwrite"} => queue # <<>>
  /\ edits = "editwrite" =>
       /\ was \in {"pending", "success", "blind", "failed"}
       /\ was \in {"success", "failed"} => rows[queue[1].id].status = was
       /\ was = "blind" =>
            rows[queue[1].id].status = "success" /\ ~rows[queue[1].id].known

\* A comment in the batch has no copy, but for the unit that has arrived and is
\* about to be marked; no other pending comment has one.
CopyInv ==
  /\ \A c \in Comments :
       /\ copies[c] <= 1
       /\ copies[c] = 1 => rows[c].status # "none"
       /\ copies[c] = 1 /\ Pending(c) =>
            \E p \in Procs : Marking(p) /\ c \in proc[p].unit
  /\ \A p \in Procs : \A c \in proc[p].batch :
       copies[c] = IF Marking(p) /\ c \in proc[p].unit THEN 1 ELSE 0

\* Somebody will still look at what is pending: a goroutine that is about to
\* look up what is pending, to flush the key of the row, or to scan it; boot,
\* when it comes to the key; or the producer, once the album is complete.
Cares(p, c) ==
  \/ proc[p].at \in {"roots", "repair"}
  \/ proc[p].at \in {"fetch", "store"} /\ rows[c].key = "root"
  \/ proc[p].at = "load" /\ proc[p].key = rows[c].key
  \/ proc[p].at = "ask" /\ proc[p].key = "post" /\ rows[c].key = "post"
  \/ proc[p].at = "found" /\ rows[c].key = "root"
  \/ Holds(proc[p].at) /\ ((rows[c].key = "root" /\ c > proc[p].cursor) \/ c \in proc[p].batch)
  \/ p = "boot" /\ rows[c].key \in proc[p].keys

Cared(c) == album = rows[c].key \/ \E p \in Procs : Cares(p, c)

Owed(c) == Pending(c) /\ c \notin gaveUp /\ rows[c].key # "other"

CareInv == mapped => \A c \in Comments : Owed(c) => Cared(c)

\* The mirrored comment shows its row, or a job is on the way that has read the
\* row as it is or is still to read it; the exceptions apart.
Edited(c) == \E w \in 1..Workers : work[w].id = c

ShownInv ==
  \A c \in Comments :
    rows[c].status = "success" /\ rows[c].known /\ c \notin lost \cup raced =>
      \/ c \in Queued
      \/ \E w \in 1..Workers : work[w].id = c /\ work[w].text = rows[c].text
      \/ ~Edited(c) /\ shown[c] = rows[c].text

\* Two jobs of one comment are a race, and only what was sent has a job, or what
\* was filed under another root while it was sent.
JobsInv ==
  /\ \A w, x \in 1..Workers :
       w # x /\ work[w].id = work[x].id /\ work[w].id # 0 => work[w].id \in raced
  /\ \A c \in Comments :
       c \in Queued \/ Edited(c) =>
         rows[c].status \in {"success", "failed"} \/ rows[c].key = "other"

CommentInv ==
  /\ TypeOK /\ HandsInv /\ LockInv /\ RowInv /\ EditInv /\ CopyInv
  /\ ShownInv /\ JobsInv

----------------------------------------------------------------------------
(* Types *)

\* What a goroutine is where it waits.
LEMMA IdleProc ==
  /\ Idle \in Proc /\ [Idle EXCEPT !.at = "roots"] \in Proc
  /\ None(0) \in [Comments -> Nat] /\ 0 \in 0..LastId
<1>1. 0 \in 0..LastId /\ None(0) \in [Comments -> Nat]
  BY CommentAssumption DEF None
<1> QED
  BY <1>1 DEF Idle, Proc

\* The locals of a goroutine keep their types, whatever it goes on with.
LEMMA LocalTypes ==
  ASSUME TypeOK, NEW p \in Procs
  PROVE  /\ proc[p] \in Proc
         /\ \A at \in {"ask", "mark", "markblind", "edit", "idle", "fetch"} :
              [proc[p] EXCEPT !.at = at] \in Proc
         /\ [proc[p] EXCEPT !.at = "found", !.key = "root"] \in Proc
         /\ [proc[p] EXCEPT !.at = "scan", !.cursor = 0] \in Proc
         /\ [proc[p] EXCEPT !.at = "item", !.unit = {}, !.single = @ \cup proc[p].unit]
              \in Proc
         /\ \A key \in {"post", "root"} :
              [proc[p] EXCEPT !.at = "load", !.key = key] \in Proc
         /\ \A was \in {"pending", "success", "blind", "failed"} :
              [proc[p] EXCEPT !.at = "editwrite", !.was = was] \in Proc
         /\ [proc[p] EXCEPT !.at = "repair", !.was = "run"] \in Proc
         /\ [proc[p] EXCEPT !.at = "load", !.key = "root", !.was = "run"] \in Proc
         /\ \A keys \in SUBSET {"post", "root"} :
              [proc[p] EXCEPT !.at = "next", !.keys = keys] \in Proc
         /\ \A key \in proc[p].keys :
              [proc[p] EXCEPT !.at = "load", !.key = key, !.keys = @ \ {key}] \in Proc
<1>1. proc[p] \in Proc
  BY DEF TypeOK
<1>2. proc[p].unit \subseteq Comments /\ proc[p].keys \subseteq {"post", "root"}
      /\ 0 \in 0..LastId
  BY <1>1, IdleProc DEF Proc
<1> QED
  BY <1>1, <1>2, ZenonT(60) DEF Proc

\* Where a flush begins it has a key.
LEMMA FlushKeys ==
  ASSUME TypeOK, NEW p \in Procs, HandOf(p), proc[p].at \in {"load", "ask"}
  PROVE  proc[p].key \in {"post", "root"}
<1>1. proc[p] \in Proc
  BY DEF TypeOK
<1>2. proc[p].key \in {"", "post", "root"}
  BY <1>1 DEF Proc
<1> QED
  BY <1>2 DEF HandOf, Hand

LEMMA BecomeShape ==
  ASSUME TypeOK, NEW p \in Procs, NEW r \in Proc, Become(p, r)
  PROVE  /\ proc' \in [Procs -> Proc]
         /\ \A q \in Procs \ {p} : proc'[q] = proc[q]
         /\ proc'[p] = r
  BY DEF Become, TypeOK

\* What stays of a goroutine that returns from a flush.
LEMMA ReturnShape ==
  ASSUME TypeOK, NEW p \in Procs, Return(p)
  PROVE  /\ proc' \in [Procs -> Proc]
         /\ \A q \in Procs \ {p} : proc'[q] = proc[q]
         /\ proc'[p] = Back(p)
         /\ lock' = IF lock = p THEN "free" ELSE lock
<1>1. proc[p] \in Proc
  BY DEF TypeOK
<1>2. Back(p) \in Proc
  BY <1>1, IdleProc DEF Back, Proc
<1> QED
  BY <1>2, BecomeShape DEF Return

LEMMA RestShape ==
  ASSUME TypeOK, NEW p \in Procs, NEW done
  PROVE  /\ Rest(p, done) \in Proc
         /\ Rest(p, done).key = proc[p].key /\ Rest(p, done).keys = proc[p].keys
         /\ Rest(p, done).todo = proc[p].todo /\ Rest(p, done).was = proc[p].was
         /\ Rest(p, done).cursor = proc[p].cursor
         /\ Rest(p, done).batch = proc[p].batch \ done
         /\ Rest(p, done).unit = proc[p].unit \ done
         /\ \A c \in Comments \ done : Rest(p, done).read[c] = proc[p].read[c]
         /\ Rest(p, done).at = IF proc[p].unit \ done # {} THEN proc[p].at
                               ELSE IF proc[p].batch \ done = {} THEN "scan" ELSE "item"
<1>1. proc[p] \in Proc
  BY DEF TypeOK
<1> QED
  BY <1>1 DEF Rest, Proc

LEMMA AdvanceShape ==
  ASSUME TypeOK, NEW p \in Procs, NEW done, Advance(p, done)
  PROVE  /\ proc' \in [Procs -> Proc]
         /\ \A q \in Procs \ {p} : proc'[q] = proc[q]
         /\ proc'[p] = Rest(p, done)
  BY RestShape, BecomeShape DEF Advance

\* The rows keep their type, however they are changed.
LEMMA RowTypes ==
  ASSUME TypeOK
  PROVE  /\ \A c \in Comments, key \in {"post", "root"}, v \in Nat :
              Inserted(c, key, v) \in [Comments -> Row]
         /\ \A cs : MarkedFailed(cs) \in [Comments -> Row]
         /\ \A from, to \in {"post", "root", "other"} : Refiled(from, to) \in [Comments -> Row]
         /\ \A c \in Comments, v \in Nat :
              [rows EXCEPT ![c].text = v] \in [Comments -> Row]
         /\ \A c \in Comments, known \in BOOLEAN :
              [rows EXCEPT ![c].status = "success", ![c].known = known]
                \in [Comments -> Row]
<1>1. rows \in [Comments -> Row]
  BY DEF TypeOK
<1>2. \A c \in Comments :
        /\ rows[c] \in Row
        /\ [rows[c] EXCEPT !.status = "failed"] \in Row
        /\ \A to \in {"root", "post", "other"} : [rows[c] EXCEPT !.key = to] \in Row
        /\ \A v \in Nat : [rows[c] EXCEPT !.text = v] \in Row
  BY <1>1 DEF Row
<1>3. \A c \in Comments, key \in {"post", "root"}, v \in Nat :
        Inserted(c, key, v) \in [Comments -> Row]
  BY <1>1 DEF Inserted, Row
<1>4. \A cs : MarkedFailed(cs) \in [Comments -> Row]
  BY <1>2 DEF MarkedFailed
<1>5. \A from, to \in {"post", "root", "other"} : Refiled(from, to) \in [Comments -> Row]
  BY <1>2 DEF Refiled
<1>6. \A c \in Comments, v \in Nat : [rows EXCEPT ![c].text = v] \in [Comments -> Row]
  BY <1>1, <1>2
<1>7. \A c \in Comments, known \in BOOLEAN :
        [rows EXCEPT ![c].status = "success", ![c].known = known] \in [Comments -> Row]
  BY <1>1, ZenonT(60) DEF Row
<1> QED
  BY <1>3, <1>4, <1>5, <1>6, <1>7

LEMMA TypeInit == Init => TypeOK
<1> SUFFICES ASSUME Init PROVE TypeOK
  OBVIOUS
<1>1. Started \in [Procs -> Proc] /\ NoRow \in Row
  BY IdleProc DEF Started, NoRow, Row
<1>2. Resting \in [1..Workers -> Job]
  BY DEF Resting, Job
<1>3. <<>> \in Seq(Event) /\ <<>> \in Seq(Comments) /\ Len(<<>>) = 0
  OBVIOUS
<1>4. /\ None(-1) \in [Comments -> Nat \cup {-1}] /\ None(0) \in [Comments -> Nat]
      /\ None(NoRow) \in [Comments -> Row]
  BY <1>1 DEF None
<1>5. 0 <= QueueLimit /\ 0 <= JobLimit
  BY CommentAssumption
<1>6. /\ text \in [Comments -> Nat \cup {-1}] /\ grouped \in Albums
      /\ mapped \in BOOLEAN /\ restarts \in Nat /\ rows \in [Comments -> Row]
      /\ shown \in [Comments -> Nat] /\ copies \in [Comments -> Nat]
  BY <1>4 DEF Init
<1>7. /\ queue \in Seq(Event) /\ Len(queue) <= QueueLimit
      /\ jobs \in Seq(Comments) /\ Len(jobs) <= JobLimit
  BY <1>3, <1>5 DEF Init
<1>8. /\ album \in {"", "post", "root"} /\ lock \in Procs \cup {"free"}
      /\ proc \in [Procs -> Proc]
      /\ work \in [1..Workers -> Job]
      /\ gaveUp \subseteq Comments /\ lost \subseteq Comments /\ raced \subseteq Comments
  BY <1>1, <1>2 DEF Init
<1> QED
  BY <1>6, <1>7, <1>8 DEF TypeOK

\* Whoever finds the queue full drops its event.
LEMMA QueueTypes ==
  ASSUME TypeOK, NEW e \in Event
  PROVE  Enqueued(e) \in Seq(Event) /\ Len(Enqueued(e)) <= QueueLimit
<1>1. queue \in Seq(Event) /\ Len(queue) <= QueueLimit /\ QueueLimit \in Nat
  BY CommentAssumption DEF TypeOK
<1>2. Append(queue, e) \in Seq(Event) /\ Len(Append(queue, e)) = Len(queue) + 1
  BY <1>1
<1> QED
  BY <1>1, <1>2 DEF Enqueued

LEMMA HeadTypes ==
  ASSUME TypeOK, queue # <<>>
  PROVE  /\ Tail(queue) \in Seq(Event) /\ Len(Tail(queue)) <= QueueLimit
         /\ queue[1] \in Event /\ queue[1].id \in Comments /\ queue[1].text \in Nat
<1>1. queue \in Seq(Event) /\ Len(queue) <= QueueLimit /\ QueueLimit \in Nat
  BY CommentAssumption DEF TypeOK
<1>2. queue[1] \in Event
  BY <1>1
<1>3. Tail(queue) \in Seq(Event) /\ Len(Tail(queue)) <= QueueLimit
  BY <1>1
<1> QED
  BY <1>2, <1>3 DEF Event

LEMMA SubmitTypes ==
  ASSUME TypeOK, NEW c \in Comments, Submit(c)
  PROVE  jobs' \in Seq(Comments) /\ Len(jobs') <= JobLimit /\ lost' \subseteq Comments
<1>1. jobs \in Seq(Comments) /\ Len(jobs) <= JobLimit /\ JobLimit \in Nat
      /\ lost \subseteq Comments
  BY CommentAssumption DEF TypeOK
<1>2. Append(jobs, c) \in Seq(Comments) /\ Len(Append(jobs, c)) = Len(jobs) + 1
  BY <1>1
<1> QED
  BY <1>1, <1>2 DEF Submit

\* The unit that has arrived is marked from its first comment on.
LEMMA UnitHead ==
  ASSUME TypeOK, HandsInv, NEW p \in Procs, Marking(p)
  PROVE  /\ Min(proc[p].unit) \in proc[p].unit /\ Min(proc[p].unit) \in Comments
         /\ proc[p].unit \subseteq proc[p].batch
<1>1. proc[p].unit \in SUBSET Comments /\ proc[p].unit # {}
      /\ proc[p].unit \subseteq proc[p].batch
  BY DEF Marking, HandsInv, HandOf, Hand, TypeOK, Proc
<1> QED
  BY <1>1, MaxMin

LEMMA TypeStep ==
  TypeOK /\ HandsInv /\ RowInv /\ EditInv /\ CopyInv /\ [Next]_vars => TypeOK'
<1> SUFFICES ASSUME TypeOK, HandsInv, RowInv, EditInv, CopyInv, [Next]_vars PROVE TypeOK'
  OBVIOUS
<1> USE DEF history, edit, world
<1>1. CASE UNCHANGED vars
  BY <1>1 DEF vars, TypeOK
<1>2. ASSUME NEW c \in Comments, Write(c) PROVE TypeOK'
  <2>1. [kind |-> "new", id |-> c, text |-> 0] \in Event
    BY DEF Event
  <2>2. queue' \in Seq(Event) /\ Len(queue') <= QueueLimit
    BY <1>2, <2>1, QueueTypes DEF Write, TypeOK
  <2> QED
    BY <1>2, <2>2 DEF Write, TypeOK
<1>3. ASSUME NEW c \in Comments, EditText(c) PROVE TypeOK'
  <2>a. text \in [Comments -> Nat \cup {-1}] /\ text[c] >= 0
    BY <1>3 DEF EditText, TypeOK
  <2>0. text[c] + 1 \in Nat
    BY <2>a
  <2>1. [kind |-> "edit", id |-> c, text |-> text[c] + 1] \in Event
    BY <2>0 DEF Event
  <2>2. queue' \in Seq(Event) /\ Len(queue') <= QueueLimit
    BY <1>3, <2>1, QueueTypes DEF EditText
  <2> QED
    BY <1>3, <2>0, <2>2 DEF EditText, TypeOK
<1>4. ASSUME NEW p \in Procs, NotMapped(p) PROVE TypeOK'
  BY <1>4, ReturnShape DEF NotMapped, LeftMapped, Filed, TypeOK
<1>a. ASSUME NEW p \in Procs, Unmapped(p) PROVE TypeOK'
  <2>1. proc' \in [Procs -> Proc]
    BY <1>a, LocalTypes, BecomeShape DEF Unmapped, Goto
  <2> QED
    BY <1>a, <2>1 DEF Unmapped, LeftMapped, Filed, TypeOK
<1>5. ASSUME NEW p \in Procs, Lookup(p) PROVE TypeOK'
  <2>1. proc' \in [Procs -> Proc]
    BY <1>5, LocalTypes, BecomeShape DEF Lookup
  <2>2. rows' \in [Comments -> Row] /\ gaveUp' \subseteq Comments
    BY <1>5, RowTypes DEF Lookup, Filed, TypeOK
  <2> QED
    BY <1>5, <2>1, <2>2 DEF Lookup, TypeOK
<1>b. ASSUME NEW p \in Procs, Misfile(p) PROVE TypeOK'
  <2>1. proc[p].key \in {"post", "root"}
    BY <1>b, FlushKeys DEF Misfile, HandsInv
  <2>2. rows' \in [Comments -> Row]
    BY <1>b, <2>1, RowTypes DEF Misfile
  <2> QED
    BY <1>b, <2>2, ReturnShape DEF Misfile, TypeOK
<1>6. ASSUME NEW p \in Procs, LookupFails(p) PROVE TypeOK'
  BY <1>6, ReturnShape DEF LookupFails, TypeOK, Filed
<1>c. ASSUME NEW p \in Procs, ScanFails(p) PROVE TypeOK'
  BY <1>c, ReturnShape DEF ScanFails, TypeOK, Filed
<1>7. ASSUME NEW p \in Procs, Lock(p) PROVE TypeOK'
  BY <1>7, LocalTypes, BecomeShape DEF Lock, TypeOK
<1>8. ASSUME NEW p \in Procs, Scan(p) PROVE TypeOK'
  <2>1. CASE Left(p) = {}
    BY <1>8, <2>1, ReturnShape DEF Scan, Left, TypeOK
  <2>2. CASE Left(p) # {}
    <3>0. PICK batch \in Batches(p) :
            /\ Become(p, [proc[p] EXCEPT !.at = "item", !.cursor = Max(batch),
                 !.batch = batch, !.read = [c \in Comments |->
                                              IF c \in batch THEN rows[c].text ELSE 0]])
            /\ UNCHANGED <<text, rows, mapped, queue, album, edit, world, history, lock>>
      BY <1>8, <2>2 DEF Scan, Left, First, Whole, Batches
    <3>1. Max(batch) \in 0..LastId /\ batch \subseteq Comments
      BY <2>2, BatchTaken DEF Left, Filed, Comments
    <3> DEFINE read == [c \in Comments |-> IF c \in batch THEN rows[c].text ELSE 0]
    <3>2. read \in [Comments -> Nat]
      BY DEF TypeOK, Row
    <3> DEFINE r == [proc[p] EXCEPT !.at = "item", !.cursor = Max(batch),
                       !.batch = batch, !.read = read]
    <3>3. Become(p, r) /\ UNCHANGED <<text, rows, mapped, queue, album, edit, world, history, lock>>
      BY <3>0
    <3> HIDE DEF read
    <3>4. r \in Proc
      <4>1. proc[p] \in Proc
        BY LocalTypes
      <4> QED
        BY <3>1, <3>2, <4>1 DEF Proc
    <3> HIDE DEF r
    <3> QED
      BY <3>3, <3>4, BecomeShape DEF TypeOK
  <2> QED
    BY <2>1, <2>2
<1>9. ASSUME NEW p \in Procs, Filter(p) PROVE TypeOK'
  <2>1. PICK refused \in SUBSET HeadUnit(p) :
          /\ \/ rows' = MarkedFailed(refused \cap Filed("root")) /\ gaveUp' = gaveUp
             \/ rows' = rows /\ gaveUp' = gaveUp \cup refused
          /\ IF refused = HeadUnit(p) THEN Advance(p, HeadUnit(p))
             ELSE Become(p, [Rest(p, refused) EXCEPT !.at = "send",
                                                     !.unit = HeadUnit(p) \ refused])
    BY <1>9 DEF Filter, Refusals
  <2>2. HeadUnit(p) \subseteq Comments
    <3>1. proc[p].batch \in SUBSET Comments /\ proc[p].batch # {}
      BY <1>9 DEF Filter, HandsInv, HandOf, Hand, TypeOK, Proc
    <3> QED
      BY <3>1, MaxMin DEF HeadUnit
  <2>3. [Rest(p, refused) EXCEPT !.at = "send", !.unit = HeadUnit(p) \ refused] \in Proc
    <3> DEFINE r == Rest(p, refused)
    <3>1. r \in Proc
      BY RestShape
    <3> HIDE DEF r
    <3>2. \A unit \in SUBSET Comments : [r EXCEPT !.at = "send", !.unit = unit] \in Proc
      BY <3>1 DEF Proc
    <3> QED
      BY <3>2, <2>2 DEF r
  <2>4. proc' \in [Procs -> Proc]
    BY <2>1, <2>3, AdvanceShape, BecomeShape
  <2>5. rows' \in [Comments -> Row]
    <3>1. rows \in [Comments -> Row]
      BY DEF TypeOK
    <3>2. \A cs : MarkedFailed(cs) \in [Comments -> Row]
      BY RowTypes
    <3> QED
      BY <2>1, <3>1, <3>2, Zenon
  <2>6. gaveUp' \subseteq Comments
    <3>1. gaveUp \subseteq Comments
      BY DEF TypeOK
    <3> QED
      BY <2>1, <2>2, <3>1
  <2> QED
    BY <1>9, <2>4, <2>5, <2>6 DEF Filter, TypeOK
<1>10. ASSUME NEW p \in Procs, AlbumSent(p) \/ OneSent(p) PROVE TypeOK'
  <2>1. copies \in [Comments -> Nat]
    BY DEF TypeOK
  <2>2. Added(1, proc[p].unit) \in [Comments -> Nat]
    BY <2>1 DEF Added
  <2> QED
    BY <1>10, <2>2, LocalTypes, BecomeShape DEF AlbumSent, OneSent, Goto, TypeOK
<1>12. ASSUME NEW p \in Procs, NothingSent(p) PROVE TypeOK'
  BY <1>12, AdvanceShape, RowTypes DEF NothingSent, TypeOK
<1>13. ASSUME NEW p \in Procs, AlbumError(p) PROVE TypeOK'
  BY <1>13, LocalTypes, BecomeShape DEF AlbumError, TypeOK
<1>14. ASSUME NEW p \in Procs, OneError(p) PROVE TypeOK'
  <2>1. proc[p].unit \subseteq Comments
    BY DEF TypeOK, Proc
  <2> QED
    BY <1>14, <2>1, AdvanceShape DEF OneError, TypeOK
<1>15. ASSUME NEW p \in Procs, SendFlood(p) PROVE TypeOK'
  BY <1>15, ReturnShape DEF SendFlood, TypeOK, Filed
<1>16. ASSUME NEW p \in Procs, Mark(p), \A c \in proc[p].unit : copies[c] > 0
       PROVE  TypeOK'
  <2> DEFINE c == Min(proc[p].unit)
  <2>1. c \in Comments /\ proc[p].read[c] \in Nat
    <3>1. proc[p].unit \in SUBSET Comments /\ proc[p].unit # {}
      BY <1>16 DEF Mark, Marking, HandsInv, HandOf, Hand, TypeOK, Proc
    <3>2. c \in Comments
      BY <3>1, MaxMin
    <3>3. proc[p] \in Proc
      BY LocalTypes
    <3> HIDE DEF c
    <3> QED
      BY <3>2, <3>3 DEF Proc
  <2>2. proc' \in [Procs -> Proc]
    BY <1>16, AdvanceShape DEF Mark
  <2>3. rows' \in [Comments -> Row]
    <3>1. \/ rows' = rows
          \/ \E known \in BOOLEAN :
               rows' = [rows EXCEPT ![c].status = "success", ![c].known = known]
      BY <1>16 DEF Mark
    <3>2. rows \in [Comments -> Row]
      BY DEF TypeOK
    <3> HIDE DEF c
    <3>3. CASE rows' = rows
      BY <3>2, <3>3
    <3>4. CASE rows' # rows
      <4>1. PICK known \in BOOLEAN :
              rows' = [rows EXCEPT ![c].status = "success", ![c].known = known]
        BY <3>1, <3>4
      <4> QED
        BY <2>1, <4>1, RowTypes
    <3> QED
      BY <3>3, <3>4
  <2>4. shown' \in [Comments -> Nat] /\ gaveUp' \subseteq Comments
    <3>1. /\ shown' = shown \/ shown' = [shown EXCEPT ![c] = proc[p].read[c]]
          /\ gaveUp' = gaveUp \ {c}
      BY <1>16 DEF Mark
    <3> HIDE DEF c
    <3> QED
      BY <2>1, <3>1 DEF TypeOK
  <2>5. Submit(c) \/ UNCHANGED <<jobs, lost>>
    BY <1>16 DEF Mark
  <2>6. jobs' \in Seq(Comments) /\ Len(jobs') <= JobLimit /\ lost' \subseteq Comments
    <3> HIDE DEF c
    <3> QED
      BY <2>1, <2>5, SubmitTypes DEF TypeOK
  <2>7. UNCHANGED <<text, mapped, queue, album, lock, work, world, raced>>
    BY <1>16 DEF Mark
  <2>8. copies' \in [Comments -> Nat]
    <3>1. c \in proc[p].unit
      BY <1>16, UnitHead DEF Mark
    <3>2. copies' \in {copies, Added(-1, {c})}
      BY <1>16 DEF Mark
    <3> HIDE DEF c
    <3>3. copies \in [Comments -> Nat] /\ copies[c] > 0
      BY <1>16, <3>1 DEF TypeOK
    <3>4. Added(-1, {c}) \in [Comments -> Nat]
      BY <3>3 DEF Added
    <3> QED
      BY <3>2, <3>3, <3>4
  <2> HIDE DEF c
  <2> QED
    BY <2>2, <2>3, <2>4, <2>6, <2>7, <2>8 DEF TypeOK
<1>17. ASSUME NEW p \in Procs, MarkFails(p), \A c \in proc[p].unit : copies[c] > 0
       PROVE  TypeOK'
  <2>1. proc[p].unit \in SUBSET Comments /\ proc[p].unit # {}
    BY <1>17 DEF MarkFails, Marking, HandsInv, HandOf, Hand, TypeOK, Proc
  <2>2. PICK c \in proc[p].unit : c = Min(proc[p].unit)
    BY <2>1, MaxMin
  <2>3. Added(-1, {c}) \in [Comments -> Nat]
    <3>1. copies \in [Comments -> Nat] /\ copies[c] > 0
      BY <1>17 DEF TypeOK
    <3> QED
      BY <3>1 DEF Added
  <2> QED
    BY <1>17, <2>1, <2>2, <2>3, AdvanceShape DEF MarkFails, TypeOK
<1>18. CASE FlushAlbum
  <2>1. "producer" \in Procs /\ album \in {"post", "root"}
    BY <1>18 DEF FlushAlbum, TypeOK, Procs
  <2>2. [proc["producer"] EXCEPT !.at = "load", !.key = album] \in Proc
    BY <2>1, LocalTypes
  <2> QED
    BY <1>18, <2>1, <2>2, BecomeShape DEF FlushAlbum, FlushKey, TypeOK
<1>19. CASE Refuse \/ IgnoreEdit
  BY <1>19, HeadTypes DEF Refuse, IgnoreEdit, HeadIs, TypeOK
<1>20. CASE TakeNew
  <2>1. queue # <<>> /\ queue' = Tail(queue)
    BY <1>20 DEF TakeNew, HeadIs
  <2>2. PICK key \in {"post", "root"} :
          /\ rows' = Inserted(queue[1].id, key, queue[1].text)
          /\ \/ album' = key /\ UNCHANGED proc
             \/ UNCHANGED album
                /\ Become("producer", [proc["producer"] EXCEPT !.at = "load", !.key = key])
    BY <1>20 DEF TakeNew, Roots, FlushKey
  <2>3. [proc["producer"] EXCEPT !.at = "load", !.key = key] \in Proc
    BY LocalTypes DEF Procs
  <2>4. proc' \in [Procs -> Proc]
    BY <2>2, <2>3, BecomeShape DEF TypeOK, Procs
  <2>5. rows' \in [Comments -> Row]
    BY <2>1, <2>2, HeadTypes, RowTypes
  <2>6. queue' \in Seq(Event) /\ Len(queue') <= QueueLimit
    BY <2>1, HeadTypes
  <2>7. UNCHANGED <<text, mapped, lock, edit, world, history>>
    BY <1>20 DEF TakeNew
  <2> QED
    BY <2>2, <2>4, <2>5, <2>6, <2>7 DEF TypeOK
<1>21. CASE BlockEdit
  <2>1. /\ queue # <<>> /\ queue' = Tail(queue)
        /\ rows' = MarkedFailed({queue[1].id})
        /\ UNCHANGED <<text, mapped, album, proc, lock, edit, world, history>>
    BY <1>21 DEF BlockEdit, HeadIs
  <2> QED
    BY <2>1, HeadTypes, RowTypes DEF TypeOK
<1>22. CASE TakeEdit
  <2>1. queue # <<>>
    BY <1>22 DEF TakeEdit, HeadIs
  <2>2. [proc["producer"] EXCEPT !.at = "edit"] \in Proc
    BY LocalTypes DEF Procs
  <2>3. queue[1].id \in Comments /\ queue[1].text \in Nat
    BY <2>1, HeadTypes
  <2>4. [rows EXCEPT ![queue[1].id].text = queue[1].text] \in [Comments -> Row]
    BY <2>3, RowTypes
  <2>5. UNCHANGED <<text, mapped, album, lock, edit, world, history>>
    BY <1>22 DEF TakeEdit
  <2>6. \/ /\ rows' = [rows EXCEPT ![queue[1].id].text = queue[1].text]
           /\ queue' = Tail(queue) /\ UNCHANGED proc
        \/ /\ Become("producer", [proc["producer"] EXCEPT !.at = "edit"])
           /\ UNCHANGED <<rows, queue>>
    BY <1>22 DEF TakeEdit, Goto
  <2>7. proc' \in [Procs -> Proc]
    BY <2>2, <2>6, BecomeShape DEF TypeOK, Procs
  <2>8. rows' \in [Comments -> Row] /\ queue' \in Seq(Event) /\ Len(queue') <= QueueLimit
    BY <2>1, <2>4, <2>6, HeadTypes DEF TypeOK
  <2> QED
    BY <2>5, <2>7, <2>8 DEF TypeOK
<1>23. ASSUME ReadForEdit, queue # <<>> PROVE TypeOK'
  <2>1. /\ rows[queue[1].id].status \in {"none", "pending", "success", "failed"}
        /\ queue[1].id \in Comments
    BY <1>23, HeadTypes DEF TypeOK, Row
  <2>2. /\ [proc["producer"] EXCEPT !.at = "idle"] \in Proc
        /\ \A was \in {"pending", "success", "blind", "failed"} :
             [proc["producer"] EXCEPT !.at = "editwrite", !.was = was] \in Proc
    BY LocalTypes DEF Procs
  <2>3. \/ /\ Become("producer", [proc["producer"] EXCEPT !.at = "idle"])
           /\ queue' = Tail(queue)
        \/ /\ \E was \in {"pending", "success", "blind", "failed"} :
                Become("producer", [proc["producer"] EXCEPT !.at = "editwrite", !.was = was])
           /\ UNCHANGED queue
    BY <1>23, <2>1 DEF ReadForEdit, Goto
  <2>4. UNCHANGED <<text, rows, mapped, album, lock, edit, world, history>>
    BY <1>23 DEF ReadForEdit
  <2>5. proc' \in [Procs -> Proc]
    BY <2>2, <2>3, BecomeShape DEF TypeOK, Procs
  <2>6. queue' \in Seq(Event) /\ Len(queue') <= QueueLimit
    BY <1>23, <2>3, HeadTypes DEF TypeOK
  <2> QED
    BY <2>4, <2>5, <2>6 DEF TypeOK
<1>24. ASSUME WriteEdit, queue # <<>> PROVE TypeOK'
  <2>1. queue[1].id \in Comments /\ queue[1].text \in Nat
    BY <1>24, HeadTypes
  <2>2. proc' \in [Procs -> Proc]
    BY <1>24, IdleProc, BecomeShape DEF WriteEdit, Procs
  <2>3. rows' \in [Comments -> Row]
    BY <1>24, <2>1, RowTypes DEF WriteEdit
  <2>4. queue' \in Seq(Event) /\ Len(queue') <= QueueLimit
    BY <1>24, HeadTypes DEF WriteEdit
  <2>5. jobs' \in Seq(Comments) /\ Len(jobs') <= JobLimit /\ lost' \subseteq Comments
    BY <1>24, <2>1, SubmitTypes DEF WriteEdit, TypeOK
  <2>6. raced' \subseteq Comments
    BY <1>24, <2>1 DEF WriteEdit, TypeOK
  <2>7. UNCHANGED <<text, mapped, album, lock, work, shown, world, copies, gaveUp>>
    BY <1>24 DEF WriteEdit
  <2> QED
    BY <2>2, <2>3, <2>4, <2>5, <2>6, <2>7 DEF TypeOK
<1>25. CASE BootRoots
  <2>1. {rows[c].key : c \in {d \in Comments : Pending(d)}} \ {"other"}
          \subseteq {"post", "root"}
    BY <1>25 DEF RowInv, Pending, TypeOK, Row
  <2> QED
    BY <1>25, <2>1, LocalTypes, BecomeShape DEF BootRoots, TypeOK, Procs
<1>26. CASE BootNext
  BY <1>26, LocalTypes, IdleProc, BecomeShape DEF BootNext, TypeOK, Procs
<1>d. CASE BootFails
  BY <1>d, IdleProc, BecomeShape DEF BootFails, TypeOK, Procs
<1>27. CASE StoreMapping \/ MappingFails
  BY <1>27, LocalTypes, BecomeShape DEF StoreMapping, MappingFails, TypeOK, Procs
<1>28. CASE Repair
  <2>1. proc' \in [Procs -> Proc]
    BY <1>28, LocalTypes, BecomeShape DEF Repair, Goto, Procs
  <2>2. rows' \in [Comments -> Row] /\ gaveUp' \subseteq Comments
    <3>1. rows \in [Comments -> Row] /\ gaveUp \subseteq Comments
      BY DEF TypeOK
    <3>2. \A to \in {"root", "other"} : Refiled("post", to) \in [Comments -> Row]
      BY RowTypes
    <3> QED
      BY <1>28, <3>1, <3>2 DEF Repair, Filed
  <2> QED
    BY <1>28, <2>1, <2>2 DEF Repair, TypeOK
<1>29. CASE FetchReplies
  <2>1. PICK cs \in {{}, {c \in Comments : text[c] >= 0}} :
          Become("trunk",
            [proc["trunk"] EXCEPT !.at = IF cs = {} THEN "load" ELSE "store",
               !.key = "root", !.todo = cs,
               !.read = [c \in Comments |-> IF c \in cs THEN text[c] ELSE 0]])
    BY <1>29 DEF FetchReplies
  <2> DEFINE read == [c \in Comments |-> IF c \in cs THEN text[c] ELSE 0]
  <2>2. read \in [Comments -> Nat]
    <3>1. text \in [Comments -> Nat \cup {-1}]
      BY DEF TypeOK
    <3> QED
      BY <3>1
  <2> HIDE DEF read
  <2>3. proc["trunk"] \in Proc
    BY LocalTypes DEF Procs
  <2>4. [proc["trunk"] EXCEPT !.at = IF cs = {} THEN "load" ELSE "store",
               !.key = "root", !.todo = cs, !.read = read] \in Proc
    BY <2>2, <2>3 DEF Proc
  <2>5. proc' \in [Procs -> Proc]
    BY <2>1, <2>4, BecomeShape DEF read, Procs
  <2> QED
    BY <1>29, <2>5 DEF FetchReplies, TypeOK
<1>30. CASE StoreReply
  <2> DEFINE c == Min(proc["trunk"].todo)
  <2>1. proc["trunk"] \in Proc
    BY LocalTypes DEF Procs
  <2>2. proc["trunk"].todo \in SUBSET Comments /\ proc["trunk"].todo # {}
    BY <1>30, <2>1 DEF StoreReply, HandsInv, HandOf, Hand, Proc, Procs
  <2>3. c \in Comments
    BY <2>2, MaxMin
  <2>4. Become("trunk",
         [proc["trunk"] EXCEPT !.at = IF proc["trunk"].todo = {c} THEN "load" ELSE "store",
            !.todo = @ \ {c}, !.read = [@ EXCEPT ![c] = 0]])
    BY <1>30 DEF StoreReply
  <2>5. rows' = rows \/ rows' = Inserted(c, "root", proc["trunk"].read[c])
    BY <1>30 DEF StoreReply
  <2> HIDE DEF c
  <2>6. proc["trunk"].read[c] \in Nat /\ [proc["trunk"].read EXCEPT ![c] = 0] \in [Comments -> Nat]
    BY <2>1, <2>3 DEF Proc
  <2>7. [proc["trunk"] EXCEPT !.at = IF proc["trunk"].todo = {c} THEN "load" ELSE "store",
            !.todo = @ \ {c}, !.read = [@ EXCEPT ![c] = 0]] \in Proc
    BY <2>1, <2>2, <2>6 DEF Proc
  <2>8. proc' \in [Procs -> Proc]
    BY <2>4, <2>7, BecomeShape DEF Procs
  <2>9. rows' \in [Comments -> Row]
    <3>1. Inserted(c, "root", proc["trunk"].read[c]) \in [Comments -> Row]
      BY <2>3, <2>6, RowTypes
    <3>2. rows \in [Comments -> Row]
      BY DEF TypeOK
    <3> QED
      BY <2>5, <3>1, <3>2
  <2> QED
    BY <1>30, <2>8, <2>9 DEF StoreReply, TypeOK
<1>31. ASSUME NEW w \in 1..Workers, JobStart(w) PROVE TypeOK'
  <2>1. Head(jobs) \in Comments /\ Tail(jobs) \in Seq(Comments) /\ Len(Tail(jobs)) <= JobLimit
    <3>1. jobs \in Seq(Comments) /\ Len(jobs) <= JobLimit /\ JobLimit \in Nat
      BY CommentAssumption DEF TypeOK
    <3>2. jobs # <<>>
      BY <1>31 DEF JobStart
    <3> QED
      BY <3>1, <3>2
  <2>2. rows[Head(jobs)].text \in Nat
    <3>1. rows \in [Comments -> Row]
      BY DEF TypeOK
    <3>2. rows[Head(jobs)] \in Row
      BY <2>1, <3>1
    <3> QED
      BY <3>2 DEF Row
  <2>3. work' \in [1..Workers -> Job]
    <3>1. [id |-> Head(jobs), text |-> rows[Head(jobs)].text] \in Job
      BY <2>1, <2>2 DEF Job
    <3>2. work \in [1..Workers -> Job]
      BY DEF TypeOK
    <3> QED
      BY <1>31, <3>1, <3>2 DEF JobStart
  <2>4. raced' \subseteq Comments
    BY <1>31, <2>1 DEF JobStart, TypeOK
  <2>5. jobs' \in Seq(Comments) /\ Len(jobs') <= JobLimit
    BY <1>31, <2>1 DEF JobStart
  <2>6. UNCHANGED <<text, rows, mapped, queue, album, proc, lock, shown, world, copies,
                    gaveUp, lost>>
    BY <1>31 DEF JobStart
  <2> QED
    BY <2>3, <2>4, <2>5, <2>6 DEF TypeOK
<1>32. ASSUME NEW w \in 1..Workers, JobEdit(w) PROVE TypeOK'
  <2>1. work \in [1..Workers -> Job]
    BY DEF TypeOK
  <2>2. work[w].id \in Comments /\ work[w].text \in Nat
    BY <1>32, <2>1 DEF JobEdit, Job
  <2>3. work' \in [1..Workers -> Job]
    <3>1. [id |-> 0, text |-> 0] \in Job
      BY DEF Job
    <3> QED
      BY <1>32, <2>1, <3>1 DEF JobEdit
  <2>4. shown' \in [Comments -> Nat] /\ lost' \subseteq Comments
    BY <1>32, <2>2 DEF JobEdit, TypeOK
  <2>5. UNCHANGED <<text, rows, mapped, queue, album, proc, lock, jobs, world,
                    copies, gaveUp, raced>>
    BY <1>32 DEF JobEdit
  <2> QED
    BY <2>3, <2>4, <2>5 DEF TypeOK
<1>33. ASSUME Restart, \A p \in Procs : Marking(p) => \A c \in proc[p].unit : copies[c] > 0
       PROVE  TypeOK'
  <2>1. Started \in [Procs -> Proc]
    BY IdleProc DEF Started
  <2>2. Resting \in [1..Workers -> Job]
    BY DEF Resting, Job
  <2>3. UNION {Unmarked(p) : p \in Procs} \subseteq {c \in Comments : copies[c] > 0}
    <3>1. \A p \in Procs : Unmarked(p) \subseteq {c \in Comments : copies[c] > 0}
      <4> SUFFICES ASSUME NEW p \in Procs, Marking(p)
                   PROVE  proc[p].unit \subseteq {c \in Comments : copies[c] > 0}
        BY DEF Unmarked
      <4>1. proc[p] \in Proc
        BY LocalTypes
      <4>2. proc[p].unit \subseteq Comments
        BY <4>1 DEF Proc
      <4> QED
        BY <1>33, <4>2
    <3> QED
      BY <3>1
  <2>4. copies' \in [Comments -> Nat]
    <3>1. copies \in [Comments -> Nat]
      BY DEF TypeOK
    <3> DEFINE U == UNION {Unmarked(p) : p \in Procs}
    <3>2. copies' = Added(-1, U)
      BY <1>33 DEF Restart
    <3>3. U \subseteq {c \in Comments : copies[c] > 0}
      BY <2>3
    <3> HIDE DEF U
    <3>4. \A c \in U : copies[c] + -1 \in Nat
      BY <3>1, <3>3
    <3> QED
      BY <3>1, <3>2, <3>4 DEF Added
  <2>5. lost' \subseteq Comments
    <3>1. jobs \in Seq(Comments) /\ lost \subseteq Comments
          /\ work \in [1..Workers -> Job]
      BY DEF TypeOK
    <3>2. Queued \subseteq Comments
      BY <3>1 DEF Queued
    <3>3. {work[w].id : w \in 1..Workers} \ {0} \subseteq Comments
      BY <3>1 DEF Job
    <3>4. lost' = lost \cup Queued \cup ({work[w].id : w \in 1..Workers} \ {0})
      BY <1>33 DEF Restart
    <3> QED
      BY <3>1, <3>2, <3>3, <3>4
  <2>6. /\ queue' = <<>> /\ jobs' = <<>> /\ album' = "" /\ lock' = "free"
        /\ proc' = Started /\ work' = Resting /\ restarts' = restarts + 1
        /\ UNCHANGED <<text, rows, mapped, grouped, shown, gaveUp, raced>>
    BY <1>33 DEF Restart
  <2>7. /\ queue' \in Seq(Event) /\ Len(queue') <= QueueLimit
        /\ jobs' \in Seq(Comments) /\ Len(jobs') <= JobLimit
    <3>1. 0 <= QueueLimit /\ 0 <= JobLimit
      BY CommentAssumption
    <3>2. <<>> \in Seq(Event) /\ <<>> \in Seq(Comments) /\ Len(<<>>) = 0
      OBVIOUS
    <3> QED
      BY <2>6, <3>1, <3>2
  <2>8. /\ restarts' \in Nat /\ album' \in {"", "post", "root"}
        /\ lock' \in Procs \cup {"free"} /\ proc' \in [Procs -> Proc]
        /\ work' \in [1..Workers -> Job]
    <3>0. restarts \in Nat
      BY DEF TypeOK
    <3>1. restarts + 1 \in Nat
      BY <3>0
    <3> QED
      BY <2>1, <2>2, <2>6, <3>1, Zenon
  <2>9. UNCHANGED <<text, rows, mapped, grouped, shown, gaveUp, raced>>
    BY <2>6
  <2> QED
    BY <2>4, <2>5, <2>7, <2>8, <2>9 DEF TypeOK
<1>34. \A p \in Procs : Marking(p) => \A c \in proc[p].unit : copies[c] > 0
  <2> SUFFICES ASSUME NEW p \in Procs, Marking(p), NEW c \in proc[p].unit
               PROVE  copies[c] > 0
    OBVIOUS
  <2>1. c \in proc[p].batch
    BY DEF HandsInv, HandOf, Hand
  <2>2. copies[c] = 1
    BY <2>1 DEF CopyInv
  <2> QED
    BY <2>2
<1>35. ASSUME NEW p \in Procs, Flush(p) PROVE TypeOK'
  BY <1>4, <1>5, <1>6, <1>7, <1>8, <1>9, <1>10, <1>12, <1>13, <1>14, <1>15, <1>16, <1>17,
     <1>34, <1>35, <1>a, <1>b, <1>c DEF Flush, Mark, MarkFails
<1>36. ReadForEdit \/ WriteEdit => queue # <<>>
  BY DEF ReadForEdit, WriteEdit, EditInv
<1> QED
  BY <1>1, <1>2, <1>3, <1>18, <1>19, <1>20, <1>21, <1>22, <1>23, <1>24, <1>25, <1>26, <1>27,
     <1>28, <1>29, <1>30, <1>31, <1>32, <1>33, <1>34, <1>35, <1>36, <1>d DEF Next

----------------------------------------------------------------------------
(* What the steps do to the locals of the goroutine that takes them *)

Moves(p, at, key, keys, todo, batch, unit, cursor, was) ==
  /\ \A q \in Procs \ {p} : proc'[q] = proc[q]
  /\ proc'[p].at = at /\ proc'[p].key = key /\ proc'[p].keys = keys
  /\ proc'[p].todo = todo /\ proc'[p].batch = batch /\ proc'[p].unit = unit
  /\ proc'[p].cursor = cursor /\ proc'[p].was = was

\* A goroutine that only goes to another step.
Goes(p, at) ==
  Moves(p, at, proc[p].key, proc[p].keys, proc[p].todo, proc[p].batch, proc[p].unit,
        proc[p].cursor, proc[p].was)

LEMMA BecomeMoves ==
  ASSUME TypeOK, NEW p \in Procs, NEW r, Become(p, r)
  PROVE  Moves(p, r.at, r.key, r.keys, r.todo, r.batch, r.unit, r.cursor, r.was)
<1>1. proc \in [Procs -> Proc]
  BY DEF TypeOK
<1> QED
  BY <1>1 DEF Become, Moves

LEMMA ReturnMoves ==
  ASSUME TypeOK, NEW p \in Procs, Return(p)
  PROVE  /\ Moves(p, IF p = "boot" THEN "next" ELSE "idle", "", proc[p].keys, {}, {}, {},
                  0, proc[p].was)
         /\ lock' = IF lock = p THEN "free" ELSE lock
<1>1. Become(p, Back(p)) /\ lock' = IF lock = p THEN "free" ELSE lock
  BY DEF Return
<1>2. /\ Back(p).at = (IF p = "boot" THEN "next" ELSE "idle") /\ Back(p).key = ""
      /\ Back(p).keys = proc[p].keys /\ Back(p).todo = {} /\ Back(p).batch = {}
      /\ Back(p).unit = {} /\ Back(p).cursor = 0 /\ Back(p).was = proc[p].was
  BY DEF Back, Idle
<1> QED
  BY <1>1, <1>2, BecomeMoves

LEMMA IdleMoves ==
  ASSUME TypeOK, NEW p \in Procs, Become(p, Idle)
  PROVE  Moves(p, "idle", "", {}, {}, {}, {}, 0, "none")
<1>1. /\ Idle.at = "idle" /\ Idle.key = "" /\ Idle.keys = {} /\ Idle.todo = {}
      /\ Idle.batch = {} /\ Idle.unit = {} /\ Idle.cursor = 0 /\ Idle.was = "none"
  BY DEF Idle
<1> QED
  BY <1>1, BecomeMoves

\* The goroutine is done with some of its batch.
LEMMA AdvanceMoves ==
  ASSUME TypeOK, NEW p \in Procs, NEW done, Advance(p, done)
  PROVE  Moves(p, IF proc[p].unit \ done # {} THEN proc[p].at
                  ELSE IF proc[p].batch \ done = {} THEN "scan" ELSE "item",
               proc[p].key, proc[p].keys, proc[p].todo, proc[p].batch \ done,
               proc[p].unit \ done, proc[p].cursor, proc[p].was)
<1> DEFINE r == Rest(p, done)
<1>1. Moves(p, r.at, r.key, r.keys, r.todo, r.batch, r.unit, r.cursor, r.was)
  BY BecomeMoves DEF Advance
<1>2. /\ r.key = proc[p].key /\ r.keys = proc[p].keys /\ r.todo = proc[p].todo
      /\ r.was = proc[p].was /\ r.cursor = proc[p].cursor
      /\ r.batch = proc[p].batch \ done /\ r.unit = proc[p].unit \ done
      /\ r.at = IF proc[p].unit \ done # {} THEN proc[p].at
                ELSE IF proc[p].batch \ done = {} THEN "scan" ELSE "item"
  BY RestShape
<1> HIDE DEF r
<1> QED
  BY <1>1, <1>2

LEMMA GoesTo ==
  ASSUME TypeOK, NEW p \in Procs, NEW at, Goto(p, at)
  PROVE  Goes(p, at)
<1>1. proc[p] \in Proc
  BY LocalTypes
<1> DEFINE r == [proc[p] EXCEPT !.at = at]
<1>2. Moves(p, r.at, r.key, r.keys, r.todo, r.batch, r.unit, r.cursor, r.was)
  BY BecomeMoves DEF Goto
<1> QED
  BY <1>1, <1>2 DEF Goes, Proc

LEMMA LookupMoves ==
  ASSUME TypeOK, NEW p \in Procs, Lookup(p)
  PROVE  Moves(p, "found", "root", proc[p].keys, proc[p].todo, proc[p].batch, proc[p].unit,
               proc[p].cursor, proc[p].was)
<1>1. proc[p] \in Proc
  BY LocalTypes
<1> DEFINE r == [proc[p] EXCEPT !.at = "found", !.key = "root"]
<1>2. Moves(p, r.at, r.key, r.keys, r.todo, r.batch, r.unit, r.cursor, r.was)
  BY BecomeMoves DEF Lookup
<1> QED
  BY <1>1, <1>2 DEF Proc

LEMMA LockMoves ==
  ASSUME TypeOK, NEW p \in Procs, Lock(p)
  PROVE  Moves(p, "scan", proc[p].key, proc[p].keys, proc[p].todo, proc[p].batch,
               proc[p].unit, 0, proc[p].was)
<1>1. proc[p] \in Proc
  BY LocalTypes
<1> DEFINE r == [proc[p] EXCEPT !.at = "scan", !.cursor = 0]
<1>2. Moves(p, r.at, r.key, r.keys, r.todo, r.batch, r.unit, r.cursor, r.was)
  BY BecomeMoves DEF Lock
<1> QED
  BY <1>1, <1>2 DEF Proc

\* A scan finds nothing and returns, or takes a batch.
LEMMA ScanMoves ==
  ASSUME TypeOK, NEW p \in Procs, Scan(p)
  PROVE  \/ Left(p) = {} /\ Return(p)
         \/ /\ Left(p) # {} /\ UNCHANGED lock
            /\ \E batch \in Batches(p) :
                 Moves(p, "item", proc[p].key, proc[p].keys, proc[p].todo, batch,
                       proc[p].unit, Max(batch), proc[p].was)
<1>1. CASE Left(p) = {}
  BY <1>1 DEF Scan, Left
<1>2. CASE Left(p) # {}
  <2>0. PICK batch \in Batches(p) :
          /\ Become(p, [proc[p] EXCEPT !.at = "item", !.cursor = Max(batch),
               !.batch = batch, !.read = [c \in Comments |->
                                            IF c \in batch THEN rows[c].text ELSE 0]])
          /\ UNCHANGED lock
    BY <1>2 DEF Scan, Left, First, Whole, Batches
  <2> DEFINE read == [c \in Comments |-> IF c \in batch THEN rows[c].text ELSE 0]
             r == [proc[p] EXCEPT !.at = "item", !.cursor = Max(batch),
                     !.batch = batch, !.read = read]
  <2>1. Become(p, r) /\ UNCHANGED lock
    BY <2>0
  <2>2. Moves(p, r.at, r.key, r.keys, r.todo, r.batch, r.unit, r.cursor, r.was)
    BY <2>1, BecomeMoves
  <2>3. proc[p] \in Proc
    BY LocalTypes
  <2> HIDE DEF read
  <2> QED
    BY <1>2, <2>1, <2>2, <2>3 DEF Proc
<1> QED
  BY <1>1, <1>2

\* A unit that is refused as a whole is done with; what is left is sent.
LEMMA FilterMoves ==
  ASSUME TypeOK, HandsInv, NEW p \in Procs, Filter(p)
  PROVE  /\ HeadUnit(p) \subseteq proc[p].batch /\ HeadUnit(p) # {}
         /\ \E refused \in SUBSET HeadUnit(p) :
              /\ \/ rows' = MarkedFailed(refused \cap Filed("root")) /\ gaveUp' = gaveUp
                 \/ rows' = rows /\ gaveUp' = gaveUp \cup refused
              /\ \/ Advance(p, refused) /\ refused = HeadUnit(p)
                 \/ /\ refused # HeadUnit(p)
                    /\ Moves(p, "send", proc[p].key, proc[p].keys, proc[p].todo,
                             proc[p].batch \ refused, HeadUnit(p) \ refused,
                             proc[p].cursor, proc[p].was)
<1>1. proc[p].batch \in SUBSET Comments /\ proc[p].batch # {}
  <2>1. proc[p] \in Proc
    BY LocalTypes
  <2> QED
    BY <2>1 DEF Filter, HandsInv, HandOf, Hand, Proc
<1>2. HeadUnit(p) \subseteq proc[p].batch /\ HeadUnit(p) # {}
  <2> DEFINE b == proc[p].batch
             first == Min(proc[p].batch)
  <2>1. first \in b /\ \A d \in b : first <= d
    BY <1>1, MaxMin
  <2>2. first \notin {c \in b : \A d \in b : d <= c =>
            ~(d \notin grouped \/ d \in proc[p].single)}
        => first \notin grouped \/ first \in proc[p].single
    <3> SUFFICES ASSUME first \in grouped, first \notin proc[p].single,
                        NEW d \in b, d <= first
                 PROVE  d \in grouped /\ d \notin proc[p].single
      BY <2>1
    <3>1. d = first
      BY <1>1, <2>1, CommentAssumption DEF Comments
    <3> QED
      BY <3>1
  <2> HIDE DEF b, first
  <2>3. HeadUnit(p) = IF first \notin grouped \/ first \in proc[p].single THEN {first}
                      ELSE {c \in b : \A d \in b : d <= c =>
                              ~(d \notin grouped \/ d \in proc[p].single)}
    BY DEF HeadUnit, b, first
  <2> QED
    BY <2>1, <2>2, <2>3 DEF b
<1>3. PICK refused \in SUBSET HeadUnit(p) :
        /\ \/ rows' = MarkedFailed(refused \cap Filed("root")) /\ gaveUp' = gaveUp
           \/ rows' = rows /\ gaveUp' = gaveUp \cup refused
        /\ IF refused = HeadUnit(p) THEN Advance(p, HeadUnit(p))
           ELSE Become(p, [Rest(p, refused) EXCEPT !.at = "send",
                                                   !.unit = HeadUnit(p) \ refused])
  BY DEF Filter, Refusals
<1>4. ASSUME refused # HeadUnit(p)
      PROVE  Moves(p, "send", proc[p].key, proc[p].keys, proc[p].todo,
                   proc[p].batch \ refused, HeadUnit(p) \ refused,
                   proc[p].cursor, proc[p].was)
  <2> DEFINE rest == Rest(p, refused)
             r == [rest EXCEPT !.at = "send", !.unit = HeadUnit(p) \ refused]
  <2>1. Moves(p, r.at, r.key, r.keys, r.todo, r.batch, r.unit, r.cursor, r.was)
    BY <1>3, <1>4, BecomeMoves
  <2>2. /\ rest \in Proc
        /\ rest.key = proc[p].key /\ rest.keys = proc[p].keys
        /\ rest.todo = proc[p].todo /\ rest.was = proc[p].was
        /\ rest.cursor = proc[p].cursor /\ rest.batch = proc[p].batch \ refused
    BY RestShape
  <2> HIDE DEF rest
  <2> QED
    BY <2>1, <2>2 DEF Proc
<1> QED
  BY <1>2, <1>3, <1>4

LEMMA AlbumErrorMoves ==
  ASSUME TypeOK, NEW p \in Procs, AlbumError(p)
  PROVE  Moves(p, "item", proc[p].key, proc[p].keys, proc[p].todo, proc[p].batch, {},
               proc[p].cursor, proc[p].was)
<1>1. proc[p] \in Proc
  BY LocalTypes
<1> DEFINE r == [proc[p] EXCEPT !.at = "item", !.unit = {}, !.single = @ \cup proc[p].unit]
<1>2. Moves(p, r.at, r.key, r.keys, r.todo, r.batch, r.unit, r.cursor, r.was)
  BY BecomeMoves DEF AlbumError
<1> QED
  BY <1>1, <1>2 DEF Proc

\* The producer or boot starts on a key.
LEMMA FlushKeyMoves ==
  ASSUME TypeOK, NEW p \in Procs, NEW key, FlushKey(p, key)
  PROVE  Moves(p, "load", key, proc[p].keys, proc[p].todo, proc[p].batch, proc[p].unit,
               proc[p].cursor, proc[p].was)
<1>1. proc[p] \in Proc
  BY LocalTypes
<1> DEFINE r == [proc[p] EXCEPT !.at = "load", !.key = key]
<1>2. Moves(p, r.at, r.key, r.keys, r.todo, r.batch, r.unit, r.cursor, r.was)
  BY BecomeMoves DEF FlushKey
<1> QED
  BY <1>1, <1>2 DEF Proc

LEMMA ReadForEditMoves ==
  ASSUME TypeOK, ReadForEdit, queue # <<>>
  PROVE  LET p == "producer"  row == rows[queue[1].id] IN
         \/ row.status = "none" /\ queue' = Tail(queue) /\ Goes(p, "idle")
         \/ /\ row.status # "none" /\ UNCHANGED queue
            /\ Moves(p, "editwrite", proc[p].key, proc[p].keys, proc[p].todo, proc[p].batch,
                     proc[p].unit, proc[p].cursor,
                     IF row.status = "success" /\ ~row.known THEN "blind" ELSE row.status)
<1> DEFINE p == "producer"  row == rows[queue[1].id]
           was == IF row.status = "success" /\ ~row.known THEN "blind" ELSE row.status
           r == [proc[p] EXCEPT !.at = "editwrite", !.was = was]
<1>0. p \in Procs
  BY DEF Procs
<1>1. proc[p] \in Proc
  BY LocalTypes, <1>0
<1>2. CASE row.status = "none"
  BY <1>0, <1>2, GoesTo DEF ReadForEdit
<1>3. CASE row.status # "none"
  <2>1. Become(p, r) /\ UNCHANGED queue
    BY <1>3 DEF ReadForEdit
  <2>2. Moves(p, r.at, r.key, r.keys, r.todo, r.batch, r.unit, r.cursor, r.was)
    BY <1>0, <2>1, BecomeMoves
  <2> HIDE DEF was
  <2>3. Moves(p, "editwrite", proc[p].key, proc[p].keys, proc[p].todo, proc[p].batch,
              proc[p].unit, proc[p].cursor, was)
    BY <1>1, <2>2 DEF Proc
  <2> QED
    BY <1>3, <2>1, <2>3 DEF was
<1> QED
  BY <1>2, <1>3

LEMMA BootMoves ==
  ASSUME TypeOK, BootRoots \/ BootFails \/ BootNext
  PROVE  LET p == "boot" IN
         \/ /\ BootRoots
            /\ Moves(p, "next", proc[p].key,
                     {rows[c].key : c \in {d \in Comments : Pending(d)}} \ {"other"},
                     proc[p].todo, proc[p].batch, proc[p].unit, proc[p].cursor, proc[p].was)
         \/ BootFails /\ Moves(p, "idle", "", {}, {}, {}, {}, 0, "none")
         \/ /\ BootNext /\ proc[p].keys = {}
            /\ Moves(p, "idle", "", {}, {}, {}, {}, 0, "none")
         \/ \E key \in proc[p].keys :
              /\ BootNext
              /\ Moves(p, "load", key, proc[p].keys \ {key}, proc[p].todo, proc[p].batch,
                       proc[p].unit, proc[p].cursor, proc[p].was)
<1> DEFINE p == "boot"
<1>0. p \in Procs
  BY DEF Procs
<1>1. proc[p] \in Proc
  BY LocalTypes, <1>0
<1>2. CASE BootRoots
  <2> DEFINE keys == {rows[c].key : c \in {d \in Comments : Pending(d)}} \ {"other"}
             r == [proc[p] EXCEPT !.at = "next", !.keys = keys]
  <2>1. Moves(p, r.at, r.key, r.keys, r.todo, r.batch, r.unit, r.cursor, r.was)
    BY <1>0, <1>2, BecomeMoves DEF BootRoots
  <2> HIDE DEF keys
  <2>2. Moves(p, "next", proc[p].key, keys, proc[p].todo, proc[p].batch, proc[p].unit,
              proc[p].cursor, proc[p].was)
    BY <1>1, <2>1 DEF Proc
  <2> QED
    BY <1>2, <2>2 DEF keys
<1>3. CASE BootNext
  <2>1. CASE proc[p].keys = {} /\ Become(p, Idle)
    BY <1>0, <1>3, <2>1, IdleMoves
  <2>2. CASE \E key \in proc[p].keys :
               Become(p, [proc[p] EXCEPT !.at = "load", !.key = key, !.keys = @ \ {key}])
    <3>1. PICK key \in proc[p].keys :
            Become(p, [proc[p] EXCEPT !.at = "load", !.key = key, !.keys = @ \ {key}])
      BY <2>2
    <3> DEFINE r == [proc[p] EXCEPT !.at = "load", !.key = key, !.keys = @ \ {key}]
    <3>2. Moves(p, r.at, r.key, r.keys, r.todo, r.batch, r.unit, r.cursor, r.was)
      BY <1>0, <3>1, BecomeMoves
    <3>3. Moves(p, "load", key, proc[p].keys \ {key}, proc[p].todo, proc[p].batch,
                proc[p].unit, proc[p].cursor, proc[p].was)
      BY <1>1, <3>2 DEF Proc
    <3> QED
      BY <1>3, <3>3
  <2> QED
    BY <1>3, <2>1, <2>2 DEF BootNext
<1>4. CASE BootFails
  BY <1>0, <1>4, IdleMoves DEF BootFails
<1> QED
  BY <1>2, <1>3, <1>4

LEMMA TrunkMoves ==
  ASSUME TypeOK, HandsInv
  PROVE  LET p == "trunk"  c == Min(proc[p].todo) IN
         /\ StoreMapping =>
              Moves(p, "repair", proc[p].key, proc[p].keys, proc[p].todo, proc[p].batch,
                    proc[p].unit, proc[p].cursor, "run")
         /\ MappingFails =>
              Moves(p, "load", "root", proc[p].keys, proc[p].todo, proc[p].batch,
                    proc[p].unit, proc[p].cursor, "run")
         /\ Repair => Goes(p, "fetch")
         /\ FetchReplies =>
              \E cs : Moves(p, IF cs = {} THEN "load" ELSE "store", "root", proc[p].keys, cs,
                           proc[p].batch, proc[p].unit, proc[p].cursor, proc[p].was)
         /\ StoreReply =>
              /\ c \in Comments
              /\ Moves(p, IF proc[p].todo = {c} THEN "load" ELSE "store", proc[p].key,
                       proc[p].keys, proc[p].todo \ {c}, proc[p].batch, proc[p].unit,
                       proc[p].cursor, proc[p].was)
<1> DEFINE p == "trunk"
<1>0. p \in Procs
  BY DEF Procs
<1>1. proc[p] \in Proc
  BY LocalTypes, <1>0
<1>2. ASSUME StoreMapping
      PROVE  Moves(p, "repair", proc[p].key, proc[p].keys, proc[p].todo, proc[p].batch,
                   proc[p].unit, proc[p].cursor, "run")
  <2> DEFINE r == [proc[p] EXCEPT !.at = "repair", !.was = "run"]
  <2>1. Moves(p, r.at, r.key, r.keys, r.todo, r.batch, r.unit, r.cursor, r.was)
    BY <1>0, <1>2, BecomeMoves DEF StoreMapping
  <2> QED
    BY <1>1, <2>1 DEF Proc
<1>a. ASSUME MappingFails
      PROVE  Moves(p, "load", "root", proc[p].keys, proc[p].todo, proc[p].batch,
                   proc[p].unit, proc[p].cursor, "run")
  <2> DEFINE r == [proc[p] EXCEPT !.at = "load", !.key = "root", !.was = "run"]
  <2>1. Moves(p, r.at, r.key, r.keys, r.todo, r.batch, r.unit, r.cursor, r.was)
    BY <1>0, <1>a, BecomeMoves DEF MappingFails
  <2> QED
    BY <1>1, <2>1 DEF Proc
<1>3. ASSUME Repair PROVE Goes(p, "fetch")
  BY <1>0, <1>3, GoesTo DEF Repair
<1>4. ASSUME FetchReplies
      PROVE  \E cs : Moves(p, IF cs = {} THEN "load" ELSE "store", "root", proc[p].keys, cs,
                          proc[p].batch, proc[p].unit, proc[p].cursor, proc[p].was)
  <2>1. PICK cs \in {{}, {c \in Comments : text[c] >= 0}} :
          Become("trunk",
            [proc["trunk"] EXCEPT !.at = IF cs = {} THEN "load" ELSE "store",
               !.key = "root", !.todo = cs,
               !.read = [c \in Comments |-> IF c \in cs THEN text[c] ELSE 0]])
    BY <1>4 DEF FetchReplies
  <2> DEFINE read == [c \in Comments |-> IF c \in cs THEN text[c] ELSE 0]
             r == [proc[p] EXCEPT !.at = IF cs = {} THEN "load" ELSE "store",
                     !.key = "root", !.todo = cs, !.read = read]
  <2>2. Moves(p, r.at, r.key, r.keys, r.todo, r.batch, r.unit, r.cursor, r.was)
    BY <1>0, <2>1, BecomeMoves
  <2> HIDE DEF read
  <2>3. Moves(p, IF cs = {} THEN "load" ELSE "store", "root", proc[p].keys, cs,
              proc[p].batch, proc[p].unit, proc[p].cursor, proc[p].was)
    BY <1>1, <2>2 DEF Proc
  <2> QED
    BY <2>3
<1>5. ASSUME StoreReply
      PROVE  LET c == Min(proc[p].todo) IN
             /\ c \in Comments
             /\ Moves(p, IF proc[p].todo = {c} THEN "load" ELSE "store", proc[p].key,
                      proc[p].keys, proc[p].todo \ {c}, proc[p].batch, proc[p].unit,
                      proc[p].cursor, proc[p].was)
  <2> DEFINE c == Min(proc[p].todo)
             r == [proc[p] EXCEPT !.at = IF proc[p].todo = {c} THEN "load" ELSE "store",
                     !.todo = @ \ {c}, !.read = [@ EXCEPT ![c] = 0]]
  <2>1. Moves(p, r.at, r.key, r.keys, r.todo, r.batch, r.unit, r.cursor, r.was)
    BY <1>0, <1>5, BecomeMoves DEF StoreReply
  <2>2. proc[p].todo \in SUBSET Comments /\ proc[p].todo # {}
    BY <1>0, <1>1, <1>5 DEF StoreReply, HandsInv, HandOf, Hand, Proc
  <2>3. c \in Comments
    BY <2>2, MaxMin
  <2> HIDE DEF c
  <2>4. Moves(p, IF proc[p].todo = {c} THEN "load" ELSE "store", proc[p].key,
              proc[p].keys, proc[p].todo \ {c}, proc[p].batch, proc[p].unit,
              proc[p].cursor, proc[p].was)
    BY <1>1, <2>1 DEF Proc
  <2> QED
    BY <2>3, <2>4 DEF c
<1> QED
  BY <1>2, <1>3, <1>4, <1>5, <1>a

\* After a start boot looks up what is pending, and the others wait.
LEMMA StartMoves ==
  \A p \in Procs :
    /\ Started[p].at = (IF p = "boot" THEN "roots" ELSE "idle")
    /\ Started[p].key = "" /\ Started[p].keys = {} /\ Started[p].todo = {}
    /\ Started[p].batch = {} /\ Started[p].unit = {}
  BY DEF Started, Idle

----------------------------------------------------------------------------
(* What the goroutines have in their hands, and the lock *)

LEMMA HandMoves ==
  ASSUME HandsInv, NEW p \in Procs, NEW at, NEW key, NEW keys, NEW todo, NEW batch,
         NEW unit, NEW cursor, NEW was,
         Moves(p, at, key, keys, todo, batch, unit, cursor, was),
         Hand(p, at, key, keys, todo, batch, unit)
  PROVE  HandsInv'
<1> SUFFICES ASSUME NEW q \in Procs PROVE HandOf(q)'
  BY DEF HandsInv
<1>1. CASE q = p
  BY <1>1 DEF Moves, HandOf
<1>2. CASE q # p
  BY <1>2 DEF Moves, HandOf, HandsInv
<1> QED
  BY <1>1, <1>2

LEMMA HandsStep == TypeOK /\ HandsInv /\ RowInv /\ EditInv /\ [Next]_vars => HandsInv'
<1> SUFFICES ASSUME TypeOK, HandsInv, RowInv, EditInv, [Next]_vars PROVE HandsInv'
  OBVIOUS
<1>0. \A p \in Procs : HandOf(p)
  BY DEF HandsInv
<1>1. CASE UNCHANGED proc
  BY <1>1 DEF HandsInv, HandOf

<1>2. ASSUME NEW p \in Procs, Return(p) PROVE HandsInv'
  <2>1. Hand(p, IF p = "boot" THEN "next" ELSE "idle", "", proc[p].keys, {}, {}, {})
    BY DEF Hand
  <2> QED
    BY <1>2, <2>1, ReturnMoves, HandMoves
<1>a. ASSUME NEW p \in Procs, Unmapped(p) PROVE HandsInv'
  <2>1. Hand(p, "ask", proc[p].key, proc[p].keys, proc[p].todo, proc[p].batch, proc[p].unit)
    BY <1>0, <1>a DEF Unmapped, HandOf, Hand
  <2>2. Goes(p, "ask")
    BY <1>a, GoesTo DEF Unmapped
  <2> QED
    BY <2>1, <2>2, HandMoves DEF Goes
<1>3. ASSUME NEW p \in Procs, Lookup(p) PROVE HandsInv'
  <2>1. Hand(p, "found", "root", proc[p].keys, proc[p].todo, proc[p].batch, proc[p].unit)
    BY <1>0, <1>3 DEF Lookup, HandOf, Hand
  <2> QED
    BY <1>3, <2>1, LookupMoves, HandMoves
<1>4. ASSUME NEW p \in Procs, Lock(p) PROVE HandsInv'
  <2>1. Hand(p, "scan", proc[p].key, proc[p].keys, proc[p].todo, proc[p].batch, proc[p].unit)
    BY <1>0, <1>4 DEF Lock, Target, HandOf, Hand
  <2> QED
    BY <1>4, <2>1, LockMoves, HandMoves
<1>5. ASSUME NEW p \in Procs, Scan(p) PROVE HandsInv'
  <2>1. CASE Return(p)
    BY <1>2, <2>1
  <2>2. CASE ~Return(p)
    <3>0. PICK batch \in Batches(p) :
            /\ Moves(p, "item", proc[p].key, proc[p].keys, proc[p].todo, batch,
                     proc[p].unit, Max(batch), proc[p].was)
            /\ Left(p) # {}
      BY <1>5, <2>2, ScanMoves
    <3>1. Hand(p, "item", proc[p].key, proc[p].keys, proc[p].todo, batch, proc[p].unit)
      BY <1>0, <1>5, <3>0, BatchTaken DEF Scan, HandOf, Hand
    <3> QED
      BY <3>0, <3>1, HandMoves
  <2> QED
    BY <2>1, <2>2
<1>6. ASSUME NEW p \in Procs, NEW done, Advance(p, done), proc[p].batch # {}
      PROVE  HandsInv'
  <2>1. Hand(p, IF proc[p].unit \ done # {} THEN proc[p].at
                ELSE IF proc[p].batch \ done = {} THEN "scan" ELSE "item",
             proc[p].key, proc[p].keys, proc[p].todo, proc[p].batch \ done,
             proc[p].unit \ done)
    BY <1>0, <1>6 DEF HandOf, Hand
  <2> QED
    BY <1>6, <2>1, AdvanceMoves, HandMoves
<1>7. ASSUME NEW p \in Procs, Filter(p) PROVE HandsInv'
  <2>1. PICK refused \in SUBSET HeadUnit(p) :
          \/ Advance(p, refused)
          \/ /\ refused # HeadUnit(p)
             /\ Moves(p, "send", proc[p].key, proc[p].keys, proc[p].todo,
                      proc[p].batch \ refused, HeadUnit(p) \ refused,
                      proc[p].cursor, proc[p].was)
    BY <1>7, FilterMoves
  <2>2. proc[p].batch # {} /\ proc[p].at = "item" /\ HeadUnit(p) \subseteq proc[p].batch
    BY <1>0, <1>7, FilterMoves DEF Filter, HandOf, Hand
  <2>3. CASE Advance(p, refused)
    BY <1>6, <2>2, <2>3
  <2>4. CASE ~Advance(p, refused)
    <3>1. Hand(p, "send", proc[p].key, proc[p].keys, proc[p].todo, proc[p].batch \ refused,
               HeadUnit(p) \ refused)
      BY <1>0, <2>1, <2>2, <2>4 DEF HandOf, Hand
    <3> QED
      BY <2>1, <2>4, <3>1, HandMoves
  <2> QED
    BY <2>3, <2>4
<1>8. ASSUME NEW p \in Procs, AlbumSent(p) \/ OneSent(p) PROVE HandsInv'
  <2>1. PICK at \in {"mark", "markblind"} : Goes(p, at)
    BY <1>8, GoesTo DEF AlbumSent, OneSent
  <2>2. Hand(p, at, proc[p].key, proc[p].keys, proc[p].todo, proc[p].batch, proc[p].unit)
    BY <1>0, <1>8 DEF AlbumSent, OneSent, HandOf, Hand
  <2> QED
    BY <2>1, <2>2, HandMoves DEF Goes
<1>9. ASSUME NEW p \in Procs, AlbumError(p) PROVE HandsInv'
  <2>1. Hand(p, "item", proc[p].key, proc[p].keys, proc[p].todo, proc[p].batch, {})
    BY <1>0, <1>9 DEF AlbumError, HandOf, Hand
  <2> QED
    BY <1>9, <2>1, AlbumErrorMoves, HandMoves
<1>10. ASSUME NEW key \in {"post", "root"}, Free, FlushKey("producer", key) PROVE HandsInv'
  <2> DEFINE p == "producer"
  <2>0. p \in Procs
    BY DEF Procs
  <2>1. Hand(p, "load", key, proc[p].keys, proc[p].todo, proc[p].batch, proc[p].unit)
    BY <1>0, <1>10, <2>0 DEF Free, HandOf, Hand
  <2> QED
    BY <1>10, <2>0, <2>1, FlushKeyMoves, HandMoves
<1>11. CASE FlushAlbum \/ TakeNew
  BY <1>1, <1>10, <1>11 DEF FlushAlbum, TakeNew, Roots, TypeOK
<1>12. ASSUME NEW at \in {"edit", "idle"}, NEW p \in Procs, p = "producer", Goes(p, at),
              proc[p].at \in {"idle", "edit"}
       PROVE  HandsInv'
  <2>1. Hand(p, at, proc[p].key, proc[p].keys, proc[p].todo, proc[p].batch, proc[p].unit)
    BY <1>0, <1>12 DEF HandOf, Hand
  <2> QED
    BY <1>12, <2>1, HandMoves DEF Goes
<1>13. CASE TakeEdit
  BY <1>1, <1>12, <1>13, GoesTo DEF TakeEdit, Free, Procs
<1>14. CASE ReadForEdit
  <2> DEFINE p == "producer"
             was == IF rows[queue[1].id].status = "success" /\ ~rows[queue[1].id].known
                    THEN "blind" ELSE rows[queue[1].id].status
  <2>0. p \in Procs /\ queue # <<>> /\ proc[p].at = "edit"
    BY <1>14 DEF ReadForEdit, EditInv, Procs
  <2>1. Hand(p, "editwrite", proc[p].key, proc[p].keys, proc[p].todo, proc[p].batch,
             proc[p].unit)
    BY <1>0, <2>0 DEF HandOf, Hand
  <2>2. Goes(p, "idle") \/ Moves(p, "editwrite", proc[p].key, proc[p].keys, proc[p].todo,
          proc[p].batch, proc[p].unit, proc[p].cursor, was)
    BY <1>14, <2>0, ReadForEditMoves
  <2> HIDE DEF was
  <2> QED
    BY <1>12, <2>0, <2>1, <2>2, HandMoves
<1>15. CASE WriteEdit
  <2>1. Hand("producer", "idle", "", {}, {}, {}, {})
    BY DEF Hand
  <2> QED
    BY <1>15, <2>1, IdleMoves, HandMoves DEF WriteEdit, Procs
<1>16. CASE BootRoots \/ BootFails \/ BootNext
  <2> DEFINE p == "boot"
             keys == {rows[c].key : c \in {d \in Comments : Pending(d)}} \ {"other"}
  <2>0. p \in Procs /\ "" \notin proc[p].keys /\ proc[p].at \in {"roots", "next"}
    <3>1. p \in Procs
      BY DEF Procs
    <3>2. proc[p] \in Proc
      BY <3>1, LocalTypes
    <3>3. proc[p].at \in {"roots", "next"}
      BY <1>16 DEF BootRoots, BootFails, BootNext
    <3> QED
      BY <3>1, <3>2, <3>3 DEF Proc
  <2>1. /\ Hand(p, "next", proc[p].key, keys, proc[p].todo, proc[p].batch, proc[p].unit)
        /\ Hand(p, "idle", "", {}, {}, {}, {})
        /\ \A key \in proc[p].keys :
             Hand(p, "load", key, proc[p].keys \ {key}, proc[p].todo, proc[p].batch,
                  proc[p].unit)
    <3> HIDE DEF keys
    <3> QED
      BY <1>0, <2>0 DEF HandOf, Hand
  <2> HIDE DEF p, keys
  <2>2. \/ Moves(p, "next", proc[p].key, keys, proc[p].todo, proc[p].batch, proc[p].unit,
                 proc[p].cursor, proc[p].was)
        \/ Moves(p, "idle", "", {}, {}, {}, {}, 0, "none")
        \/ \E key \in proc[p].keys :
             Moves(p, "load", key, proc[p].keys \ {key}, proc[p].todo, proc[p].batch,
                   proc[p].unit, proc[p].cursor, proc[p].was)
    BY <1>16, BootMoves DEF p, keys
  <2> QED
    BY <2>0, <2>1, <2>2, HandMoves
<1>17. CASE StoreMapping \/ MappingFails \/ Repair \/ FetchReplies \/ StoreReply
  <2> DEFINE p == "trunk"
             c == Min(proc[p].todo)
  <2>0. p \in Procs
    BY DEF Procs
  <2> HIDE DEF p, c
  <2>1. CASE StoreMapping
    <3>1. Hand(p, "repair", proc[p].key, proc[p].keys, proc[p].todo, proc[p].batch,
               proc[p].unit)
      BY <1>0, <2>0, <2>1 DEF StoreMapping, HandOf, Hand, p
    <3> QED
      BY <2>0, <2>1, <3>1, TrunkMoves, HandMoves DEF p
  <2>a. CASE MappingFails
    <3>1. Hand(p, "load", "root", proc[p].keys, proc[p].todo, proc[p].batch, proc[p].unit)
      BY <1>0, <2>0, <2>a DEF MappingFails, HandOf, Hand, p
    <3> QED
      BY <2>0, <2>a, <3>1, TrunkMoves, HandMoves DEF p
  <2>2. CASE Repair
    <3>1. Hand(p, "fetch", proc[p].key, proc[p].keys, proc[p].todo, proc[p].batch,
               proc[p].unit)
      BY <1>0, <2>0, <2>2 DEF Repair, HandOf, Hand, p
    <3> QED
      BY <2>0, <2>2, <3>1, TrunkMoves, HandMoves DEF p, Goes
  <2>3. CASE FetchReplies
    <3>1. PICK cs : Moves(p, IF cs = {} THEN "load" ELSE "store", "root", proc[p].keys, cs,
                          proc[p].batch, proc[p].unit, proc[p].cursor, proc[p].was)
      BY <2>3, TrunkMoves DEF p
    <3>2. Hand(p, IF cs = {} THEN "load" ELSE "store", "root", proc[p].keys, cs,
               proc[p].batch, proc[p].unit)
      BY <1>0, <2>0, <2>3 DEF FetchReplies, HandOf, Hand, p
    <3> QED
      BY <2>0, <3>1, <3>2, HandMoves
  <2>4. CASE StoreReply
    <3>1. Moves(p, IF proc[p].todo = {c} THEN "load" ELSE "store", proc[p].key,
                proc[p].keys, proc[p].todo \ {c}, proc[p].batch, proc[p].unit,
                proc[p].cursor, proc[p].was)
      BY <2>4, TrunkMoves DEF p, c
    <3>2. Hand(p, IF proc[p].todo = {c} THEN "load" ELSE "store", proc[p].key,
               proc[p].keys, proc[p].todo \ {c}, proc[p].batch, proc[p].unit)
      <4>1. proc[p].at = "store" /\ proc[p].todo # {} /\ HandOf(p)
        BY <1>0, <2>0, <2>4 DEF StoreReply, HandOf, Hand, p
      <4>2. proc[p].todo \ {c} # {} <=> proc[p].todo # {c}
        BY <4>1
      <4> QED
        BY <4>1, <4>2 DEF HandOf, Hand
    <3> QED
      BY <2>0, <3>1, <3>2, HandMoves
  <2> QED
    BY <1>17, <2>1, <2>2, <2>3, <2>4, <2>a
<1>18. CASE Restart
  <2>1. proc' = Started
    BY <1>18 DEF Restart
  <2>2. \A p \in Procs : Hand(p, Started[p].at, Started[p].key, Started[p].keys,
          Started[p].todo, Started[p].batch, Started[p].unit)
    BY StartMoves DEF Hand
  <2> QED
    BY <2>1, <2>2 DEF HandsInv, HandOf
<1>19. ASSUME NEW p \in Procs, Flush(p) PROVE HandsInv'
  <2>1. proc[p].at \in {"send", "mark", "markblind"} => proc[p].batch # {}
    BY <1>0 DEF HandOf, Hand
  <2> QED
    BY <1>2, <1>3, <1>4, <1>5, <1>6, <1>7, <1>8, <1>9, <1>19, <1>a, <2>1
       DEF Flush, Misfile, LookupFails, NotMapped, ScanFails, NothingSent, OneError,
           SendFlood, Mark, MarkFails, Marking
<1> QED
  BY <1>1, <1>11, <1>13, <1>14, <1>15, <1>16, <1>17, <1>18, <1>19
     DEF Next, vars, Write, EditText, Refuse, IgnoreEdit, BlockEdit, JobStart, JobEdit

LEMMA LockMoved ==
  ASSUME LockInv, NEW p \in Procs, NEW at, NEW key, NEW keys, NEW todo, NEW batch,
         NEW unit, NEW cursor, NEW was,
         Moves(p, at, key, keys, todo, batch, unit, cursor, was),
         \/ UNCHANGED lock /\ (Holds(at) <=> Holds(proc[p].at))
         \/ lock = "free" /\ lock' = p /\ Holds(at)
         \/ lock' = (IF lock = p THEN "free" ELSE lock) /\ ~Holds(at)
  PROVE  LockInv'
<1> SUFFICES ASSUME NEW q \in Procs PROVE Holds(proc'[q].at) <=> lock' = q
  BY DEF LockInv
<1>0. "free" \notin Procs
  BY DEF Procs
<1>1. (Holds(proc[q].at) <=> lock = q) /\ (Holds(proc[p].at) <=> lock = p)
  BY DEF LockInv
<1>2. CASE q = p
  BY <1>0, <1>1, <1>2 DEF Moves
<1>3. CASE q # p
  BY <1>0, <1>1, <1>3 DEF Moves
<1> QED
  BY <1>2, <1>3

LEMMA LockStep == TypeOK /\ HandsInv /\ EditInv /\ LockInv /\ [Next]_vars => LockInv'
<1> SUFFICES ASSUME TypeOK, HandsInv, EditInv, LockInv, [Next]_vars PROVE LockInv'
  OBVIOUS
<1>0. \A p \in Procs : HandOf(p)
  BY DEF HandsInv
<1>1. CASE UNCHANGED <<proc, lock>>
  BY <1>1 DEF LockInv
<1>2. ASSUME NEW p \in Procs, Return(p) PROVE LockInv'
  BY <1>2, ReturnMoves, LockMoved DEF Holds
<1>3. ASSUME NEW p \in Procs, Lookup(p) PROVE LockInv'
  BY <1>3, LookupMoves, LockMoved DEF Lookup, Holds
<1>4. ASSUME NEW p \in Procs, Lock(p) PROVE LockInv'
  BY <1>4, LockMoves, LockMoved DEF Lock, Target, Holds
<1>5. ASSUME NEW p \in Procs, Scan(p) PROVE LockInv'
  BY <1>2, <1>5, ScanMoves, LockMoved DEF Scan, Holds
<1>6. ASSUME NEW p \in Procs, NEW done, Advance(p, done), UNCHANGED lock,
             proc[p].at \in {"item", "send", "mark", "markblind"}
      PROVE  LockInv'
  <2> DEFINE at == IF proc[p].unit \ done # {} THEN proc[p].at
                   ELSE IF proc[p].batch \ done = {} THEN "scan" ELSE "item"
  <2>1. Holds(at) /\ Holds(proc[p].at)
    BY <1>6 DEF Holds
  <2>2. Moves(p, at, proc[p].key, proc[p].keys, proc[p].todo, proc[p].batch \ done,
               proc[p].unit \ done, proc[p].cursor, proc[p].was)
    BY <1>6, AdvanceMoves
  <2> HIDE DEF at
  <2> QED
    BY <1>6, <2>1, <2>2, LockMoved
<1>7. ASSUME NEW p \in Procs, Filter(p) PROVE LockInv'
  <2>1. PICK refused \in SUBSET HeadUnit(p) :
          \/ Advance(p, refused)
          \/ Moves(p, "send", proc[p].key, proc[p].keys, proc[p].todo,
                   proc[p].batch \ refused, HeadUnit(p) \ refused,
                   proc[p].cursor, proc[p].was)
    BY <1>7, FilterMoves
  <2>2. proc[p].at = "item" /\ UNCHANGED lock
    BY <1>7 DEF Filter
  <2> QED
    BY <1>6, <2>1, <2>2, LockMoved DEF Holds
<1>8. ASSUME NEW p \in Procs, NEW at, Goes(p, at), UNCHANGED lock,
             Holds(at) <=> Holds(proc[p].at)
      PROVE  LockInv'
  BY <1>8, LockMoved DEF Goes
<1>a. ASSUME NEW p \in Procs, Unmapped(p) PROVE LockInv'
  BY <1>8, <1>a, GoesTo DEF Unmapped, Holds
<1>9. ASSUME NEW p \in Procs, AlbumSent(p) \/ OneSent(p) PROVE LockInv'
  BY <1>8, <1>9, GoesTo DEF AlbumSent, OneSent, Holds
<1>10. ASSUME NEW p \in Procs, AlbumError(p) PROVE LockInv'
  BY <1>10, AlbumErrorMoves, LockMoved DEF AlbumError, Holds
<1>11. ASSUME NEW key, Free, FlushKey("producer", key), UNCHANGED lock PROVE LockInv'
  BY <1>11, FlushKeyMoves, LockMoved DEF Free, Holds, Procs
<1>12. CASE FlushAlbum \/ TakeNew
  BY <1>1, <1>11, <1>12 DEF FlushAlbum, TakeNew
<1>13. CASE TakeEdit
  BY <1>1, <1>8, <1>13, GoesTo DEF TakeEdit, Free, Holds, Procs
<1>14. CASE ReadForEdit
  <2> DEFINE p == "producer"
             was == IF rows[queue[1].id].status = "success" /\ ~rows[queue[1].id].known
                    THEN "blind" ELSE rows[queue[1].id].status
  <2>0. p \in Procs /\ queue # <<>> /\ proc[p].at = "edit" /\ UNCHANGED lock
    BY <1>14 DEF ReadForEdit, EditInv, Procs
  <2>2. Goes(p, "idle") \/ Moves(p, "editwrite", proc[p].key, proc[p].keys, proc[p].todo,
          proc[p].batch, proc[p].unit, proc[p].cursor, was)
    BY <1>14, <2>0, ReadForEditMoves
  <2>3. ~Holds("idle") /\ ~Holds("edit") /\ ~Holds("editwrite")
    BY DEF Holds
  <2> HIDE DEF was
  <2> QED
    BY <1>8, <2>0, <2>2, <2>3, LockMoved
<1>15. CASE WriteEdit
  BY <1>15, IdleMoves, LockMoved DEF WriteEdit, Procs, Holds
<1>16. CASE BootRoots \/ BootFails \/ BootNext
  <2> DEFINE p == "boot"
             keys == {rows[c].key : c \in {d \in Comments : Pending(d)}} \ {"other"}
  <2>0. p \in Procs /\ proc[p].at \in {"roots", "next"} /\ UNCHANGED lock
    BY <1>16 DEF Procs, BootRoots, BootFails, BootNext
  <2>1. ~Holds("next") /\ ~Holds("idle") /\ ~Holds("load") /\ ~Holds("roots")
    BY DEF Holds
  <2> HIDE DEF p, keys
  <2>2. \/ Moves(p, "next", proc[p].key, keys, proc[p].todo, proc[p].batch, proc[p].unit,
                 proc[p].cursor, proc[p].was)
        \/ Moves(p, "idle", "", {}, {}, {}, {}, 0, "none")
        \/ \E key \in proc[p].keys :
             Moves(p, "load", key, proc[p].keys \ {key}, proc[p].todo, proc[p].batch,
                   proc[p].unit, proc[p].cursor, proc[p].was)
    BY <1>16, BootMoves DEF p, keys
  <2> QED
    BY <2>0, <2>1, <2>2, LockMoved
<1>17. CASE StoreMapping \/ MappingFails \/ Repair \/ FetchReplies \/ StoreReply
  <2> DEFINE p == "trunk"
             c == Min(proc[p].todo)
  <2>0. p \in Procs /\ proc[p].at \in {"idle", "repair", "fetch", "store"} /\ UNCHANGED lock
    BY <1>17 DEF StoreMapping, MappingFails, Repair, FetchReplies, StoreReply, Procs
  <2>1. ~Holds("idle") /\ ~Holds("repair") /\ ~Holds("fetch") /\ ~Holds("store")
        /\ ~Holds("load")
    BY DEF Holds
  <2> HIDE DEF p, c
  <2>2. CASE StoreMapping
    BY <2>0, <2>1, <2>2, TrunkMoves, LockMoved DEF p
  <2>a. CASE MappingFails
    BY <2>0, <2>1, <2>a, TrunkMoves, LockMoved DEF p
  <2>3. CASE Repair
    BY <1>8, <2>0, <2>1, <2>3, TrunkMoves DEF p
  <2>4. CASE FetchReplies
    <3>1. PICK cs : Moves(p, IF cs = {} THEN "load" ELSE "store", "root", proc[p].keys, cs,
                          proc[p].batch, proc[p].unit, proc[p].cursor, proc[p].was)
      BY <2>4, TrunkMoves DEF p
    <3> QED
      BY <2>0, <2>1, <3>1, LockMoved
  <2>5. CASE StoreReply
    <3>1. Moves(p, IF proc[p].todo = {c} THEN "load" ELSE "store", proc[p].key,
                proc[p].keys, proc[p].todo \ {c}, proc[p].batch, proc[p].unit,
                proc[p].cursor, proc[p].was)
      BY <2>5, TrunkMoves DEF p, c
    <3> QED
      BY <2>0, <2>1, <3>1, LockMoved
  <2> QED
    BY <1>17, <2>2, <2>3, <2>4, <2>5, <2>a
<1>18. CASE Restart
  <2>1. proc' = Started /\ lock' = "free" /\ "free" \notin Procs
    BY <1>18 DEF Restart, Procs
  <2>2. \A p \in Procs : ~Holds(Started[p].at)
    BY StartMoves DEF Holds
  <2> QED
    BY <2>1, <2>2 DEF LockInv
<1>19. ASSUME NEW p \in Procs, Flush(p) PROVE LockInv'
  BY <1>2, <1>3, <1>4, <1>5, <1>6, <1>7, <1>9, <1>10, <1>19, <1>a
     DEF Flush, Misfile, LookupFails, NotMapped, ScanFails, NothingSent, OneError,
         SendFlood, Mark, MarkFails, Marking
<1> QED
  BY <1>1, <1>12, <1>13, <1>14, <1>15, <1>16, <1>17, <1>18, <1>19
     DEF Next, vars, Write, EditText, Refuse, IgnoreEdit, BlockEdit, JobStart, JobEdit

----------------------------------------------------------------------------
(* What the steps do to the rows *)

\* A row is written once, is filed under the root and at last under another one,
\* and leaves pending once; what was sent or refused stays so.
Kept(c) ==
  /\ rows[c].key = "other" => rows'[c].key = "other"
  /\ rows[c].key \in {"root", "other"} => rows'[c].key \in {"root", "other"}
  /\ rows[c].status # "none" => rows'[c].status # "none"
  /\ rows[c].status \in {"success", "failed"} =>
       rows'[c].status = rows[c].status /\ rows'[c].known = rows[c].known
  /\ rows'[c].status = "none" <=> rows'[c].key = ""

\* Nor does its text change, and nothing is marked sent.
Still(c) ==
  /\ rows[c].status \in {"success", "failed"} => rows'[c].text = rows[c].text
  /\ rows'[c].status = "success" => rows[c].status = "success"

LEMMA InsertedRows ==
  ASSUME TypeOK, RowInv, NEW d \in Comments, NEW key \in {"post", "root"}, NEW v,
         rows' = Inserted(d, key, v)
  PROVE  /\ \A c \in Comments : Kept(c) /\ Still(c)
         /\ \A c \in Comments \ {d} : rows'[c] = rows[c]
         /\ rows[d].status = "none" => rows'[d].key = key
         /\ rows[d].status # "none" => rows'[d] = rows[d]
<1>1. rows \in [Comments -> Row]
  BY DEF TypeOK
<1>2. CASE rows[d].status # "none"
  BY <1>2 DEF Inserted, Kept, Still, RowInv
<1>3. CASE rows[d].status = "none"
  BY <1>1, <1>3 DEF Inserted, Kept, Still, RowInv
<1> QED
  BY <1>2, <1>3

LEMMA FailedRows ==
  ASSUME TypeOK, RowInv, NEW cs, rows' = MarkedFailed(cs)
  PROVE  /\ \A c \in Comments : Kept(c) /\ Still(c) /\ rows'[c].key = rows[c].key
         /\ \A c \in Comments : Pending(c)' => Pending(c) /\ c \notin cs
<1> SUFFICES ASSUME NEW c \in Comments
             PROVE  /\ Kept(c) /\ Still(c) /\ rows'[c].key = rows[c].key
                    /\ Pending(c)' => Pending(c) /\ c \notin cs
  OBVIOUS
<1>1. rows[c] \in Row
  BY DEF TypeOK
<1>2. rows'[c] = IF c \in cs /\ Pending(c) THEN [rows[c] EXCEPT !.status = "failed"]
                 ELSE rows[c]
  BY DEF MarkedFailed
<1>3. CASE c \in cs /\ Pending(c)
  <2>1. /\ rows'[c].status = "failed" /\ rows'[c].key = rows[c].key
        /\ rows[c].status = "pending"
    BY <1>1, <1>2, <1>3 DEF Row, Pending
  <2> QED
    BY <2>1 DEF Kept, Still, Pending, RowInv
<1>4. CASE ~(c \in cs /\ Pending(c))
  BY <1>2, <1>4 DEF Kept, Still, Pending, RowInv
<1> QED
  BY <1>3, <1>4

LEMMA RefiledRows ==
  ASSUME TypeOK, RowInv, NEW from \in {"post", "root"}, NEW to \in {"root", "other"},
         rows' = Refiled(from, to)
  PROVE  \A c \in Comments :
           /\ Kept(c) /\ Still(c) /\ (Pending(c)' <=> Pending(c))
           /\ Pending(c) /\ rows[c].key = from => rows'[c].key = to
           /\ rows[c].key # from => rows'[c] = rows[c]
<1> SUFFICES ASSUME NEW c \in Comments
             PROVE  /\ Kept(c) /\ Still(c) /\ (Pending(c)' <=> Pending(c))
                    /\ Pending(c) /\ rows[c].key = from => rows'[c].key = to
                    /\ rows[c].key # from => rows'[c] = rows[c]
  OBVIOUS
<1>1. rows[c] \in Row /\ (rows[c].status # "none" <=> rows[c].key # "")
  BY DEF TypeOK, RowInv
<1>2. CASE c \in Filed(from)
  <2>1. rows'[c] = [rows[c] EXCEPT !.key = to]
    BY <1>2 DEF Refiled
  <2>2. rows[c].status = "pending" /\ rows[c].key = from
    BY <1>2 DEF Filed, Pending
  <2>3. rows'[c].key = to /\ rows'[c].status = "pending"
    BY <1>1, <2>1, <2>2 DEF Row
  <2> QED
    BY <2>2, <2>3 DEF Kept, Still, Pending
<1>3. CASE c \notin Filed(from)
  <2>1. rows'[c] = rows[c]
    BY <1>3 DEF Refiled
  <2>2. ~(Pending(c) /\ rows[c].key = from)
    BY <1>3 DEF Filed
  <2> QED
    BY <1>1, <2>1, <2>2 DEF Kept, Still, Pending
<1> QED
  BY <1>2, <1>3

\* Where the rows are filed by a lookup, by what is taken for one, and by a repair.
LEMMA LookupRows ==
  ASSUME TypeOK, HandsInv, RowInv, NEW p \in Procs, Lookup(p) \/ Misfile(p) \/ Repair
  PROVE  \/ UNCHANGED rows
         \/ \E from \in {"post", "root"}, to \in {"root", "other"} :
              rows' = Refiled(from, to)
<1>1. CASE Misfile(p)
  <2>1. proc[p].key \in {"post", "root"}
    BY <1>1, FlushKeys DEF Misfile, HandsInv
  <2> QED
    BY <1>1, <2>1 DEF Misfile
<1> QED
  BY <1>1 DEF Lookup, Repair

LEMMA TextRows ==
  ASSUME TypeOK, RowInv, NEW d \in Comments, NEW v, rows' = [rows EXCEPT ![d].text = v]
  PROVE  /\ \A c \in Comments :
              /\ Kept(c) /\ rows'[c].key = rows[c].key
              /\ rows'[c].status = rows[c].status /\ rows'[c].known = rows[c].known
         /\ \A c \in Comments \ {d} : rows'[c] = rows[c]
         /\ rows'[d].text = v
<1>1. rows \in [Comments -> Row]
  BY DEF TypeOK
<1>2. rows[d] \in Row /\ rows'[d] = [rows[d] EXCEPT !.text = v]
  BY <1>1
<1>3. /\ rows'[d].status = rows[d].status /\ rows'[d].key = rows[d].key
      /\ rows'[d].known = rows[d].known /\ rows'[d].text = v
  BY <1>2 DEF Row
<1>4. \A c \in Comments \ {d} : rows'[c] = rows[c]
  BY <1>1
<1> QED
  BY <1>3, <1>4 DEF Kept, RowInv

LEMMA SentRows ==
  ASSUME TypeOK, RowInv, NEW d \in Comments, NEW known \in BOOLEAN, Pending(d),
         rows' = [rows EXCEPT ![d].status = "success", ![d].known = known]
  PROVE  /\ \A c \in Comments : Kept(c) /\ rows'[c].key = rows[c].key
         /\ \A c \in Comments \ {d} : rows'[c] = rows[c]
         /\ rows'[d].status = "success" /\ rows'[d].known = known
         /\ rows'[d].text = rows[d].text
<1>1. rows \in [Comments -> Row]
  BY DEF TypeOK
<1>2. /\ rows[d] \in Row
      /\ rows'[d] = [rows[d] EXCEPT !.status = "success", !.known = known]
  BY <1>1
<1>3. /\ rows'[d].status = "success" /\ rows'[d].key = rows[d].key
      /\ rows'[d].known = known /\ rows'[d].text = rows[d].text
  <2> DEFINE r == rows[d]
             s == rows'[d]
  <2>1. r \in Row /\ s = [r EXCEPT !.status = "success", !.known = known]
    BY <1>2
  <2> HIDE DEF r, s
  <2>2. s.status = "success"
    BY <2>1 DEF Row
  <2>3. s.key = r.key
    BY <2>1 DEF Row
  <2>4. s.text = r.text
    BY <2>1 DEF Row
  <2>5. s.known = known
    BY <2>1 DEF Row
  <2> QED
    BY <2>2, <2>3, <2>4, <2>5 DEF r, s
<1>4. \A c \in Comments \ {d} : rows'[c] = rows[c]
  BY <1>1
<1> QED
  BY <1>3, <1>4 DEF Kept, RowInv, Pending

\* What is left of a comment's row after a step.
LEMMA RowsStep ==
  TypeOK /\ HandsInv /\ RowInv /\ EditInv /\ [Next]_vars => \A c \in Comments : Kept(c)
<1> SUFFICES ASSUME TypeOK, HandsInv, RowInv, EditInv, [Next]_vars
             PROVE  \A c \in Comments : Kept(c)
  OBVIOUS
<1>1. CASE UNCHANGED rows
  BY <1>1 DEF Kept, RowInv
<1>2. ASSUME NEW p \in Procs, Filter(p) \/ NothingSent(p)
      PROVE  \A c \in Comments : Kept(c)
  BY <1>1, <1>2, FailedRows DEF Filter, NothingSent
<1>a. ASSUME NEW p \in Procs, Lookup(p) \/ Misfile(p) \/ Repair
      PROVE  \A c \in Comments : Kept(c)
  BY <1>1, <1>a, LookupRows, RefiledRows
<1>3. ASSUME NEW p \in Procs, Mark(p) PROVE \A c \in Comments : Kept(c)
  <2> DEFINE d == Min(proc[p].unit)
             known == proc[p].at = "mark"
  <2>1. d \in Comments /\ known \in BOOLEAN
    BY <1>3, UnitHead DEF Mark
  <2>2. rows' = IF d \in Filed("root")
                THEN [rows EXCEPT ![d].status = "success", ![d].known = known] ELSE rows
    BY <1>3 DEF Mark
  <2> HIDE DEF d, known
  <2> QED
    BY <1>1, <2>1, <2>2, SentRows DEF Filed
<1>4. CASE TakeNew
  <2>1. queue[1].id \in Comments
    BY <1>4, HeadTypes DEF TakeNew, HeadIs
  <2>2. PICK key \in {"post", "root"} : rows' = Inserted(queue[1].id, key, queue[1].text)
    BY <1>4 DEF TakeNew, Roots
  <2> QED
    BY <2>1, <2>2, InsertedRows
<1>5. CASE BlockEdit
  BY <1>5, FailedRows DEF BlockEdit
<1>6. CASE TakeEdit \/ WriteEdit
  <2>1. queue # <<>>
    BY <1>6 DEF TakeEdit, HeadIs, WriteEdit, EditInv
  <2>2. queue[1].id \in Comments
    BY <2>1, HeadTypes
  <2>3. \/ UNCHANGED rows
        \/ rows' = [rows EXCEPT ![queue[1].id].text = queue[1].text]
    BY <1>6 DEF TakeEdit, WriteEdit
  <2> QED
    BY <1>1, <2>2, <2>3, TextRows
<1>7. CASE Repair
  BY <1>7, <1>a DEF Procs
<1>8. CASE StoreReply
  <2>1. Min(proc["trunk"].todo) \in Comments
    BY <1>8, TrunkMoves
  <2> QED
    BY <1>1, <1>8, <2>1, InsertedRows DEF StoreReply
<1>9. ASSUME NEW p \in Procs, Flush(p) PROVE \A c \in Comments : Kept(c)
  BY <1>1, <1>2, <1>3, <1>9, <1>a
     DEF Flush, Unmapped, NotMapped, LookupFails, Lock, Scan, ScanFails, AlbumSent, OneSent,
         AlbumError, OneError, SendFlood, MarkFails
<1> QED
  BY <1>1, <1>4, <1>5, <1>6, <1>7, <1>8, <1>9
     DEF Next, vars, Write, EditText, FlushAlbum, Refuse, IgnoreEdit, ReadForEdit, BootRoots,
         BootFails, BootNext, StoreMapping, MappingFails, FetchReplies, JobStart, JobEdit,
         Restart

----------------------------------------------------------------------------
(* Rows and batches *)

\* A batch shrinks, or it is a new one.
LEMMA BatchStep ==
  TypeOK /\ HandsInv /\ EditInv /\ [Next]_vars =>
    \A p \in Procs : \/ proc'[p].batch \subseteq proc[p].batch
                     \/ Scan(p) /\ Left(p) # {} /\ proc'[p].batch \in Batches(p)
<1> DEFINE Less == \A p \in Procs : proc'[p].batch \subseteq proc[p].batch
           Goal == \A p \in Procs : \/ proc'[p].batch \subseteq proc[p].batch
                                    \/ Scan(p) /\ Left(p) # {} /\ proc'[p].batch \in Batches(p)
<1> SUFFICES ASSUME TypeOK, HandsInv, EditInv, [Next]_vars PROVE Goal
  OBVIOUS
<1>0. Less => Goal
  OBVIOUS
<1>a. ASSUME NEW p \in Procs, NEW at, NEW key, NEW keys, NEW todo,
             NEW batch \in SUBSET proc[p].batch, NEW unit, NEW cursor, NEW was,
             Moves(p, at, key, keys, todo, batch, unit, cursor, was)
      PROVE  Less
  BY <1>a DEF Moves
<1> HIDE DEF Goal, Less
<1>1. CASE UNCHANGED proc
  BY <1>0, <1>1 DEF Less
<1>2. ASSUME NEW p \in Procs, Return(p) PROVE Less
  BY <1>a, <1>2, ReturnMoves
<1>3. ASSUME NEW p \in Procs, Lookup(p) \/ Lock(p) \/ AlbumError(p) PROVE Less
  <2>1. CASE Lookup(p)
    BY <1>a, <2>1, LookupMoves
  <2>2. CASE Lock(p)
    BY <1>a, <2>2, LockMoves
  <2>3. CASE AlbumError(p)
    BY <1>a, <2>3, AlbumErrorMoves
  <2> QED
    BY <1>3, <2>1, <2>2, <2>3
<1>4. ASSUME NEW p \in Procs, NEW done, Advance(p, done) PROVE Less
  <2>1. proc[p].batch \ done \in SUBSET proc[p].batch
    OBVIOUS
  <2> QED
    BY <1>4, <2>1, AdvanceMoves DEF Moves, Less
<1>5. ASSUME NEW p \in Procs, Filter(p) PROVE Less
  BY <1>a, <1>4, <1>5, FilterMoves
<1>6. ASSUME NEW p \in Procs, NEW at, Goes(p, at) PROVE Less
  BY <1>a, <1>6 DEF Goes
<1>7. ASSUME NEW p \in Procs, Scan(p) PROVE Goal
  BY <1>0, <1>2, <1>7, ScanMoves DEF Moves, Goal
<1>8. CASE FlushAlbum \/ TakeNew \/ TakeEdit
  <2>1. \/ UNCHANGED proc
        \/ \E key : FlushKey("producer", key)
        \/ Goto("producer", "edit")
    BY <1>8 DEF FlushAlbum, TakeNew, TakeEdit
  <2>2. "producer" \in Procs
    BY DEF Procs
  <2> QED
    BY <1>0, <1>a, <1>1, <1>6, <2>1, <2>2, FlushKeyMoves, GoesTo
<1>9. CASE ReadForEdit
  <2>1. "producer" \in Procs /\ queue # <<>>
    BY <1>9 DEF ReadForEdit, EditInv, Procs
  <2> QED
    BY <1>0, <1>a, <1>6, <1>9, <2>1, ReadForEditMoves
<1>10. CASE WriteEdit
  BY <1>0, <1>a, <1>10, IdleMoves DEF WriteEdit, Procs
<1>11. CASE BootRoots \/ BootFails \/ BootNext
  <2>1. "boot" \in Procs
    BY DEF Procs
  <2> QED
    BY <1>0, <1>a, <1>11, <2>1, BootMoves
<1>12. CASE StoreMapping \/ MappingFails \/ Repair \/ FetchReplies \/ StoreReply
  <2>1. "trunk" \in Procs
    BY DEF Procs
  <2> QED
    BY <1>0, <1>a, <1>6, <1>12, <2>1, TrunkMoves
<1>13. CASE Restart
  BY <1>0, <1>13, StartMoves DEF Restart, Less
<1>14. ASSUME NEW p \in Procs, Flush(p) PROVE Goal
  BY <1>0, <1>2, <1>3, <1>4, <1>5, <1>6, <1>7, <1>14, GoesTo
     DEF Flush, Unmapped, Misfile, LookupFails, NotMapped, ScanFails, AlbumSent, OneSent,
         NothingSent, OneError, SendFlood, Mark, MarkFails
<1> QED
  BY <1>1, <1>8, <1>9, <1>10, <1>11, <1>12, <1>13, <1>14
     DEF Next, vars, Write, EditText, Refuse, IgnoreEdit, BlockEdit, JobStart, JobEdit

LEMMA RowStep == TypeOK /\ HandsInv /\ RowInv /\ EditInv /\ [Next]_vars => RowInv'
<1> SUFFICES ASSUME TypeOK, HandsInv, RowInv, EditInv, [Next]_vars PROVE RowInv'
  OBVIOUS
<1>1. \A c \in Comments : Kept(c)
  BY RowsStep
<1>2. ASSUME NEW p \in Procs, NEW c \in proc'[p].batch
      PROVE  rows'[c].key \in {"root", "other"}
  <2>1. CASE proc'[p].batch \subseteq proc[p].batch
    <3>1. proc[p] \in Proc
      BY LocalTypes
    <3>2. c \in Comments /\ rows[c].key \in {"root", "other"}
      BY <1>2, <2>1, <3>1 DEF RowInv, Proc
    <3> QED
      BY <1>1, <3>2 DEF Kept
  <2>2. CASE Scan(p) /\ Left(p) # {} /\ proc'[p].batch \in Batches(p)
    <3>1. c \in Left(p) /\ rows' = rows
      BY <1>2, <2>2, BatchTaken DEF Scan
    <3> QED
      BY <3>1 DEF Left, Filed
  <2> QED
    BY <2>1, <2>2, BatchStep
<1> QED
  BY <1>1, <1>2 DEF RowInv, Kept

----------------------------------------------------------------------------
(* Edits *)

\* What the producer has read of the row still holds when it writes it: nobody
\* else takes its events, and what was sent or refused stays so.
LEMMA EditStep == TypeOK /\ HandsInv /\ RowInv /\ EditInv /\ [Next]_vars => EditInv'
<1> SUFFICES ASSUME TypeOK, HandsInv, RowInv, EditInv, [Next]_vars PROVE EditInv'
  OBVIOUS
<1> DEFINE m == "producer"
<1>0. m \in Procs
  BY DEF Procs
<1>k. queue # <<>> => Kept(queue[1].id)
  BY RowsStep, HeadTypes
<1>1. ASSUME proc'[m].at \notin {"edit", "editwrite"} PROVE EditInv'
  BY <1>1 DEF EditInv
<1>2. ASSUME UNCHANGED proc[m], queue # <<>> => queue' # <<>> /\ queue'[1] = queue[1]
      PROVE  EditInv'
  <2>1. CASE proc[m].at \notin {"edit", "editwrite"}
    BY <1>1, <1>2, <2>1
  <2>2. CASE proc[m].at \in {"edit", "editwrite"}
    <3>1. /\ queue # <<>> /\ queue' # <<>> /\ queue'[1] = queue[1]
          /\ proc'[m].at = proc[m].at /\ proc'[m].was = proc[m].was
      BY <1>2, <2>2 DEF EditInv
    <3>2. Kept(queue[1].id)
      BY <1>k, <3>1
    <3> QED
      BY <3>1, <3>2 DEF EditInv, Kept
  <2> QED
    BY <2>1, <2>2
<1>3. ASSUME UNCHANGED <<proc, queue>> PROVE EditInv'
  BY <1>2, <1>3
<1>4. ASSUME NEW c \in Comments, Write(c) \/ EditText(c) PROVE EditInv'
  <2>1. PICK e : queue' \in {queue, Append(queue, e)}
    BY <1>4 DEF Write, EditText, Enqueued
  <2>2. queue # <<>> => queue' # <<>> /\ queue'[1] = queue[1]
    <3>1. queue \in Seq(Event)
      BY DEF TypeOK
    <3> QED
      BY <2>1, <3>1
  <2> QED
    BY <1>2, <1>4, <2>2 DEF Write, EditText
<1>5. ASSUME NEW p \in Procs, p # m, NEW at, NEW key, NEW keys, NEW todo, NEW batch,
             NEW unit, NEW cursor, NEW was, UNCHANGED queue,
             Moves(p, at, key, keys, todo, batch, unit, cursor, was)
      PROVE  EditInv'
  BY <1>0, <1>2, <1>5 DEF Moves
<1>6. ASSUME NEW p \in Procs, UNCHANGED queue, proc'[p].at \notin {"edit", "editwrite"},
             \A q \in Procs \ {p} : proc'[q] = proc[q]
      PROVE  EditInv'
  BY <1>0, <1>1, <1>2, <1>6
<1>7. ASSUME NEW p \in Procs, Return(p), UNCHANGED queue PROVE EditInv'
  <2> DEFINE at == IF p = "boot" THEN "next" ELSE "idle"
  <2>1. at \notin {"edit", "editwrite"}
    OBVIOUS
  <2>2. Moves(p, at, "", proc[p].keys, {}, {}, {}, 0, proc[p].was)
    BY <1>7, ReturnMoves
  <2> HIDE DEF at
  <2> QED
    BY <1>6, <1>7, <2>1, <2>2 DEF Moves
<1>8. ASSUME NEW p \in Procs, NEW done, Advance(p, done), UNCHANGED queue,
             proc[p].at \in {"item", "send", "mark", "markblind"}
      PROVE  EditInv'
  <2> DEFINE at == IF proc[p].unit \ done # {} THEN proc[p].at
                   ELSE IF proc[p].batch \ done = {} THEN "scan" ELSE "item"
  <2>1. at \notin {"edit", "editwrite"}
    BY <1>8
  <2>2. Moves(p, at, proc[p].key, proc[p].keys, proc[p].todo, proc[p].batch \ done,
              proc[p].unit \ done, proc[p].cursor, proc[p].was)
    BY <1>8, AdvanceMoves
  <2> HIDE DEF at
  <2> QED
    BY <1>6, <1>8, <2>1, <2>2 DEF Moves
<1>9. ASSUME NEW p \in Procs, Flush(p) PROVE EditInv'
  <2>1. CASE Misfile(p) \/ LookupFails(p) \/ NotMapped(p) \/ ScanFails(p) \/ SendFlood(p)
    BY <1>7, <2>1 DEF Misfile, LookupFails, NotMapped, ScanFails, SendFlood
  <2>a. CASE Unmapped(p)
    BY <1>6, <2>a, GoesTo DEF Unmapped, Goes, Moves
  <2>2. CASE NothingSent(p) \/ OneError(p) \/ Mark(p) \/ MarkFails(p)
    BY <1>8, <2>2 DEF NothingSent, OneError, Mark, MarkFails, Marking
  <2>3. CASE Lookup(p)
    BY <1>6, <2>3, LookupMoves DEF Lookup, Moves
  <2>4. CASE Lock(p)
    BY <1>6, <2>4, LockMoves DEF Lock, Moves
  <2>5. CASE Scan(p)
    BY <1>6, <1>7, <2>5, ScanMoves DEF Scan, Moves
  <2>6. CASE Filter(p)
    BY <1>6, <1>8, <2>6, FilterMoves DEF Filter, Moves
  <2>7. CASE AlbumSent(p) \/ OneSent(p)
    BY <1>6, <2>7, GoesTo DEF AlbumSent, OneSent, Goes, Moves
  <2>8. CASE AlbumError(p)
    BY <1>6, <2>8, AlbumErrorMoves DEF AlbumError, Moves
  <2> QED
    BY <1>9, <2>1, <2>2, <2>3, <2>4, <2>5, <2>6, <2>7, <2>8, <2>a DEF Flush
<1>10. ASSUME NEW key, FlushKey(m, key) PROVE EditInv'
  BY <1>0, <1>1, <1>10, FlushKeyMoves DEF Moves
<1>11. ASSUME Free, UNCHANGED proc PROVE EditInv'
  BY <1>1, <1>11 DEF Free
<1>12. CASE FlushAlbum \/ Refuse \/ TakeNew \/ IgnoreEdit \/ BlockEdit
  BY <1>10, <1>11, <1>12 DEF FlushAlbum, Refuse, TakeNew, IgnoreEdit, BlockEdit
<1>13. CASE TakeEdit
  <2>1. CASE UNCHANGED proc
    BY <1>11, <1>13, <2>1 DEF TakeEdit
  <2>2. CASE ~UNCHANGED proc
    <3>1. Goes(m, "edit") /\ UNCHANGED queue /\ queue # <<>>
      BY <1>0, <1>13, <2>2, GoesTo DEF TakeEdit, HeadIs
    <3> QED
      BY <3>1 DEF Goes, Moves, EditInv
  <2> QED
    BY <2>1, <2>2
<1>14. CASE ReadForEdit
  <2> DEFINE row == rows[queue[1].id]
             was == IF row.status = "success" /\ ~row.known THEN "blind" ELSE row.status
  <2>1. queue # <<>> /\ rows' = rows
    BY <1>14 DEF ReadForEdit, EditInv
  <2>2. \/ Goes(m, "idle")
        \/ /\ row.status # "none" /\ UNCHANGED queue
           /\ Moves(m, "editwrite", proc[m].key, proc[m].keys, proc[m].todo, proc[m].batch,
                    proc[m].unit, proc[m].cursor, was)
    BY <1>14, <2>1, ReadForEditMoves
  <2>3. CASE Goes(m, "idle")
    BY <1>1, <2>3 DEF Goes, Moves
  <2>4. CASE ~Goes(m, "idle")
    <3>1. row.status \in {"pending", "success", "failed"} /\ queue' = queue
      BY <2>1, <2>2, <2>4, HeadTypes DEF TypeOK, Row
    <3>2. proc'[m].at = "editwrite" /\ proc'[m].was = was
      BY <2>2, <2>4 DEF Moves
    <3>3. rows'[queue'[1].id] = row /\ queue' # <<>>
      BY <2>1, <3>1
    <3> HIDE DEF m
    <3>4. /\ was \in {"pending", "success", "blind", "failed"}
          /\ was \in {"success", "failed"} => row.status = was
          /\ was = "blind" => row.status = "success" /\ ~row.known
      BY <3>1
    <3> HIDE DEF was, row
    <3> QED
      BY <3>2, <3>3, <3>4 DEF EditInv, m
  <2> QED
    BY <2>2, <2>3, <2>4
<1>15. CASE WriteEdit
  BY <1>0, <1>1, <1>15, IdleMoves DEF WriteEdit, Moves
<1>16. CASE BootRoots \/ BootFails \/ BootNext
  <2>1. UNCHANGED queue /\ "boot" \in Procs /\ "boot" # m
    BY <1>16 DEF BootRoots, BootFails, BootNext, Procs
  <2> QED
    BY <1>5, <1>16, <2>1, BootMoves
<1>17. CASE StoreMapping \/ MappingFails \/ Repair \/ FetchReplies \/ StoreReply
  <2>1. UNCHANGED queue /\ "trunk" \in Procs /\ "trunk" # m
    BY <1>17 DEF StoreMapping, MappingFails, Repair, FetchReplies, StoreReply, Procs
  <2> QED
    BY <1>5, <1>17, <2>1, TrunkMoves DEF Goes
<1>18. CASE Restart
  <2>1. proc'[m].at = "idle"
    BY <1>0, <1>18, StartMoves DEF Restart
  <2> QED
    BY <1>1, <2>1
<1>19. ASSUME NEW w \in 1..Workers, JobStart(w) \/ JobEdit(w) PROVE EditInv'
  BY <1>3, <1>19 DEF JobStart, JobEdit
<1>20. CASE UNCHANGED vars
  BY <1>3, <1>20 DEF vars
<1> QED
  BY <1>4, <1>9, <1>12, <1>13, <1>14, <1>15, <1>16, <1>17, <1>18, <1>19, <1>20 DEF Next

----------------------------------------------------------------------------
(* Copies *)

\* Only one goroutine at a time has a batch.
LEMMA OneBatch ==
  ASSUME HandsInv, LockInv, NEW p \in Procs, NEW q \in Procs,
         Holds(proc[p].at), Holds(proc[q].at) \/ proc[q].batch # {} \/ Marking(q)
  PROVE  q = p
<1>1. Holds(proc[q].at)
  BY DEF HandsInv, HandOf, Hand, Holds, Marking
<1> QED
  BY <1>1 DEF LockInv

\* Nothing is sent, and whoever lets go of what it has was not about to mark it.
LEMMA CopyKept ==
  ASSUME TypeOK, CopyInv, \A c \in Comments : Kept(c), UNCHANGED copies, NEW p \in Procs,
         \A q \in Procs \ {p} : proc'[q] = proc[q], proc'[p].batch \subseteq proc[p].batch,
         ~Marking(p), proc'[p].at \notin {"mark", "markblind"}
  PROVE  CopyInv'
<1>1. ASSUME NEW c \in Comments
      PROVE  /\ copies'[c] <= 1
             /\ copies'[c] = 1 => rows'[c].status # "none"
             /\ copies'[c] = 1 /\ Pending(c)' =>
                  \E q \in Procs : Marking(q)' /\ c \in proc'[q].unit
  <2>1. /\ copies[c] <= 1 /\ Kept(c) /\ (copies[c] = 1 => rows[c].status # "none")
        /\ copies[c] = 1 /\ Pending(c) => \E q \in Procs : Marking(q) /\ c \in proc[q].unit
    BY DEF CopyInv
  <2>2. ASSUME copies'[c] = 1, Pending(c)'
        PROVE  \E q \in Procs : Marking(q)' /\ c \in proc'[q].unit
    <3>1. rows[c] \in Row
      BY DEF TypeOK
    <3>2. Pending(c)
      BY <2>1, <2>2, <3>1 DEF Kept, Pending, Row
    <3>3. PICK q \in Procs : Marking(q) /\ c \in proc[q].unit
      BY <2>1, <2>2, <3>2
    <3> QED
      BY <3>3 DEF Marking
  <2> QED
    BY <2>1, <2>2 DEF Kept
<1>2. ASSUME NEW q \in Procs, NEW c \in proc'[q].batch
      PROVE  copies'[c] = IF Marking(q)' /\ c \in proc'[q].unit THEN 1 ELSE 0
  <2>1. CASE q = p
    <3>1. copies[c] = 0
      BY <1>2, <2>1 DEF CopyInv
    <3> QED
      BY <2>1, <3>1 DEF Marking
  <2>2. CASE q # p
    <3>1. proc'[q] = proc[q]
      BY <2>2
    <3> QED
      BY <1>2, <3>1 DEF CopyInv, Marking
  <2> QED
    BY <2>1, <2>2
<1> QED
  BY <1>1, <1>2 DEF CopyInv

\* What is pending and not in a unit that is about to be marked has no copy.
LEMMA NoCopy ==
  ASSUME TypeOK, HandsInv, LockInv, CopyInv, NEW p \in Procs, Holds(proc[p].at),
         ~Marking(p), NEW c \in Comments, Pending(c)
  PROVE  copies[c] = 0
<1>1. copies[c] # 1
  BY OneBatch DEF CopyInv
<1>2. copies[c] \in Nat /\ copies[c] <= 1
  BY DEF TypeOK, CopyInv
<1> QED
  BY <1>1, <1>2

LEMMA CopySent ==
  ASSUME TypeOK, HandsInv, LockInv, RowInv, CopyInv, NEW p \in Procs,
         AlbumSent(p) \/ OneSent(p)
  PROVE  CopyInv'
<1>1. PICK at \in {"mark", "markblind"} : Goes(p, at)
  BY GoesTo DEF AlbumSent, OneSent
<1>2. /\ proc'[p].batch = proc[p].batch /\ proc'[p].unit = proc[p].unit
      /\ Marking(p)' /\ rows' = rows /\ copies' = Added(1, proc[p].unit)
      /\ proc[p].at = "send" /\ \A q \in Procs \ {p} : proc'[q] = proc[q]
  BY <1>1 DEF AlbumSent, OneSent, Goes, Moves, Marking
<1>3. Holds(proc[p].at) /\ ~Marking(p)
  BY <1>2 DEF Holds, Marking
<1>4. proc[p].unit \subseteq proc[p].batch /\ proc[p].batch \subseteq Comments
  BY DEF HandsInv, HandOf, Hand, TypeOK, Proc
<1>5. \A q \in Procs \ {p} : ~Marking(q) /\ proc'[q].batch = {}
  BY <1>2, <1>3, OneBatch
<1>6. \A c \in proc[p].batch : copies[c] = 0
  BY <1>3 DEF CopyInv
<1>7. \A c \in Comments : copies'[c] = IF c \in proc[p].unit THEN copies[c] + 1 ELSE copies[c]
  BY <1>2 DEF Added
<1>8. ASSUME NEW c \in Comments
      PROVE  /\ copies'[c] <= 1
             /\ copies'[c] = 1 => rows'[c].status # "none"
             /\ copies'[c] = 1 /\ Pending(c)' =>
                  \E q \in Procs : Marking(q)' /\ c \in proc'[q].unit
  <2>1. CASE c \in proc[p].unit
    <3>1. c \in proc[p].batch /\ copies[c] = 0
      BY <1>4, <1>6, <2>1
    <3>2. copies'[c] = 1
      BY <1>7, <2>1, <3>1
    <3>3. rows[c].key # "" /\ (rows[c].status # "none" <=> rows[c].key # "")
      BY <3>1 DEF RowInv
    <3>4. Marking(p)' /\ c \in proc'[p].unit /\ rows'[c].status # "none"
      BY <1>2, <2>1, <3>3
    <3> QED
      BY <3>2, <3>4
  <2>2. CASE c \notin proc[p].unit
    <3>1. copies'[c] = copies[c]
      BY <1>7, <2>2
    <3>2. copies[c] = 1 => ~Pending(c)
      BY <1>3, <1>5, <2>2 DEF CopyInv
    <3> QED
      BY <1>2, <3>1, <3>2 DEF CopyInv, Pending
  <2> QED
    BY <2>1, <2>2
<1>9. ASSUME NEW q \in Procs, NEW c \in proc'[q].batch
      PROVE  copies'[c] = IF Marking(q)' /\ c \in proc'[q].unit THEN 1 ELSE 0
  <2>1. q = p /\ c \in proc[p].batch
    BY <1>2, <1>5, <1>9
  <2> QED
    BY <1>2, <1>4, <1>6, <1>7, <2>1
<1> QED
  BY <1>8, <1>9 DEF CopyInv

\* One comment of the unit is marked, or cannot be marked.
LEMMA CopyMarked ==
  ASSUME TypeOK, HandsInv, LockInv, RowInv, CopyInv, \A c \in Comments : Kept(c),
         NEW p \in Procs, Mark(p) \/ MarkFails(p)
  PROVE  CopyInv'
<1>0. PICK d \in Comments : d = Min(proc[p].unit)
  BY UnitHead DEF Mark, MarkFails
<1>1. Marking(p) /\ d \in proc[p].unit /\ proc[p].unit \subseteq proc[p].batch
  BY <1>0, UnitHead DEF Mark, MarkFails
<1>2. \/ UNCHANGED copies /\ ~Pending(d)'
      \/ copies' = Added(-1, {d}) /\ rows' = rows
  <2>1. CASE MarkFails(p)
    BY <1>0, <2>1 DEF MarkFails
  <2>2. CASE Mark(p)
    <3> DEFINE known == proc[p].at = "mark"
               found == d \in Filed("root")
    <3>1. /\ copies' = IF Pending(d) /\ ~found THEN Added(-1, {d}) ELSE copies
          /\ rows' = IF found
                     THEN [rows EXCEPT ![d].status = "success", ![d].known = known] ELSE rows
          /\ known \in BOOLEAN
      BY <1>0, <2>2 DEF Mark
    <3> HIDE DEF known
    <3>2. CASE found
      <4>1. Pending(d)
        BY <3>2 DEF Filed
      <4>2. rows'[d].status = "success"
        BY <3>1, <3>2, <4>1, SentRows
      <4> QED
        BY <3>1, <3>2, <4>2 DEF Pending
    <3>3. CASE ~found
      BY <3>1, <3>3 DEF Pending
    <3> QED
      BY <3>2, <3>3
  <2> QED
    BY <2>1, <2>2
<1>3. /\ \A q \in Procs \ {p} : proc'[q] = proc[q]
      /\ proc'[p].batch = proc[p].batch \ {d} /\ proc'[p].unit = proc[p].unit \ {d}
      /\ proc[p].unit \ {d} # {} => proc'[p].at = proc[p].at
  <2>1. Advance(p, {d})
    BY <1>0 DEF Mark, MarkFails
  <2> QED
    BY <2>1, AdvanceMoves DEF Moves
<1>4. \A c \in Comments \ {d} : copies'[c] = copies[c]
  BY <1>2 DEF Added
<1>5. ASSUME NEW c \in Comments
      PROVE  /\ copies'[c] <= 1
             /\ copies'[c] = 1 => rows'[c].status # "none"
             /\ copies'[c] = 1 /\ Pending(c)' =>
                  \E q \in Procs : Marking(q)' /\ c \in proc'[q].unit
  <2>0. Kept(c) /\ copies[c] \in Nat /\ copies[c] <= 1
    BY DEF CopyInv, TypeOK
  <2>1. CASE c = d
    <3>1. copies[d] = 1
      BY <1>1 DEF CopyInv
    <3>2. (copies'[d] = 1 /\ ~Pending(d)') \/ copies'[d] = 0
      BY <1>1, <1>2, <3>1 DEF Added
    <3>3. rows'[d].status # "none"
      BY <2>0, <2>1, <3>1 DEF CopyInv, Kept
    <3> QED
      BY <2>1, <3>2, <3>3
  <2>2. CASE c # d
    <3>1. copies'[c] = copies[c]
      BY <1>4, <2>2
    <3>2. ASSUME copies[c] = 1, Pending(c)'
          PROVE  \E q \in Procs : Marking(q)' /\ c \in proc'[q].unit
      <4>1. rows[c] \in Row /\ rows[c].status # "none"
        BY <3>2 DEF CopyInv, TypeOK
      <4>2. Pending(c)
        BY <2>0, <3>2, <4>1 DEF Kept, Pending, Row
      <4>3. PICK q \in Procs : Marking(q) /\ c \in proc[q].unit
        BY <3>2, <4>2 DEF CopyInv
      <4> QED
        BY <1>3, <2>2, <4>3 DEF Marking
    <3> QED
      BY <2>0, <3>1, <3>2 DEF CopyInv, Kept
  <2> QED
    BY <2>1, <2>2
<1>6. ASSUME NEW q \in Procs, NEW c \in proc'[q].batch
      PROVE  copies'[c] = IF Marking(q)' /\ c \in proc'[q].unit THEN 1 ELSE 0
  <2>1. Holds(proc[p].at)
    BY <1>1 DEF Marking, Holds
  <2>2. q = p
    BY <1>3, <1>6, <2>1, OneBatch
  <2>3. c \in Comments /\ c # d /\ c \in proc[p].batch
    <3>1. proc[p].batch \subseteq Comments
      BY DEF TypeOK, Proc
    <3> QED
      BY <1>3, <1>6, <2>2, <3>1
  <2>4. copies'[c] = IF c \in proc[p].unit THEN 1 ELSE 0
    BY <1>1, <1>4, <2>3 DEF CopyInv
  <2>5. c \in proc[p].unit => Marking(p)'
    BY <1>1, <1>3, <2>3 DEF Marking
  <2> QED
    BY <1>3, <2>2, <2>3, <2>4, <2>5
<1> QED
  BY <1>5, <1>6 DEF CopyInv

LEMMA CopyStep ==
  /\ TypeOK /\ HandsInv /\ LockInv /\ RowInv /\ EditInv /\ CopyInv
  /\ [Next]_vars
  => CopyInv'
<1> SUFFICES ASSUME TypeOK, HandsInv, LockInv, RowInv, EditInv, CopyInv, [Next]_vars
             PROVE  CopyInv'
  OBVIOUS
<1>0. \A c \in Comments : Kept(c)
  BY RowsStep
<1>1. ASSUME UNCHANGED <<proc, copies>> PROVE CopyInv'
  <2> DEFINE p == "boot"
  <2>1. /\ \A q \in Procs : proc'[q] = proc[q] /\ (Marking(q)' <=> Marking(q))
        /\ UNCHANGED copies
    BY <1>1 DEF Marking
  <2>2. ASSUME NEW c \in Comments, copies[c] = 1, Pending(c)' PROVE Pending(c)
    <3>1. rows[c] \in Row /\ rows[c].status # "none" /\ Kept(c)
      BY <1>0, <2>2 DEF CopyInv, TypeOK
    <3> QED
      BY <2>2, <3>1 DEF Kept, Pending, Row
  <2> QED
    BY <1>0, <2>1, <2>2 DEF CopyInv, Kept
<1>2. ASSUME NEW p \in Procs, UNCHANGED copies, \A q \in Procs \ {p} : proc'[q] = proc[q],
             proc'[p].batch \subseteq proc[p].batch,
             ~Marking(p), proc'[p].at \notin {"mark", "markblind"}
      PROVE  CopyInv'
  BY <1>0, <1>2, CopyKept
<1>3. ASSUME NEW p \in Procs, Return(p), ~Marking(p), UNCHANGED copies PROVE CopyInv'
  BY <1>2, <1>3, ReturnMoves DEF Moves
<1>4. ASSUME NEW p \in Procs, NEW done, Advance(p, done), UNCHANGED copies,
             proc[p].at \in {"item", "send"}
      PROVE  CopyInv'
  <2>1. proc'[p].batch \subseteq proc[p].batch /\ \A q \in Procs \ {p} : proc'[q] = proc[q]
    BY <1>4, AdvanceMoves DEF Moves
  <2>2. ~Marking(p) /\ proc'[p].at \notin {"mark", "markblind"}
    BY <1>4, AdvanceMoves DEF Moves, Marking
  <2> QED
    BY <1>2, <1>4, <2>1, <2>2
<1>5. ASSUME NEW p \in Procs, Flush(p) PROVE CopyInv'
  <2>1. CASE Misfile(p) \/ LookupFails(p) \/ NotMapped(p) \/ ScanFails(p) \/ SendFlood(p)
    BY <1>3, <2>1 DEF Misfile, LookupFails, NotMapped, ScanFails, SendFlood, Marking, history
  <2>a. CASE Unmapped(p)
    BY <1>2, <2>a, GoesTo DEF Unmapped, Goes, Moves, Marking
  <2>2. CASE NothingSent(p) \/ OneError(p)
    BY <1>4, <2>2 DEF NothingSent, OneError, history
  <2>3. CASE Lookup(p)
    BY <1>2, <2>3, LookupMoves DEF Lookup, Moves, Marking, history
  <2>4. CASE Lock(p)
    BY <1>2, <2>4, LockMoves DEF Lock, Target, Moves, Marking, history
  <2>5. CASE Scan(p)
    <3>1. UNCHANGED <<copies, rows>> /\ ~Marking(p) /\ Holds(proc[p].at)
      BY <2>5 DEF Scan, Marking, Holds, history
    <3>2. CASE Return(p)
      BY <1>3, <3>1, <3>2
    <3>3. CASE ~Return(p)
      <4>0. PICK batch \in Batches(p) :
              /\ Moves(p, "item", proc[p].key, proc[p].keys, proc[p].todo, batch,
                       proc[p].unit, Max(batch), proc[p].was)
              /\ Left(p) # {}
        BY <2>5, <3>3, ScanMoves
      <4>1. /\ batch \subseteq Left(p) /\ proc'[p].batch = batch
            /\ proc'[p].at = "item" /\ \A q \in Procs \ {p} : proc'[q] = proc[q]
        BY <4>0, BatchTaken DEF Moves
      <4>2. \A q \in Procs : Marking(q)' <=> Marking(q)
        BY <3>1, <4>1 DEF Marking
      <4>3. \A c \in Comments : Pending(c)' <=> Pending(c)
        BY <3>1 DEF Pending
      <4>4. \A c \in batch : copies[c] = 0
        BY <3>1, <4>1, NoCopy DEF Left, Filed
      <4>5. \A q \in Procs : Marking(q) => q # p /\ proc'[q] = proc[q]
        BY <3>1, <4>1
      <4>6. ASSUME NEW c \in Comments
            PROVE  /\ copies'[c] <= 1
                   /\ copies'[c] = 1 => rows'[c].status # "none"
                   /\ copies'[c] = 1 /\ Pending(c)' =>
                        \E q \in Procs : Marking(q)' /\ c \in proc'[q].unit
        BY <3>1, <4>2, <4>3, <4>5 DEF CopyInv
      <4>7. ASSUME NEW q \in Procs, NEW c \in proc'[q].batch
            PROVE  copies'[c] = IF Marking(q)' /\ c \in proc'[q].unit THEN 1 ELSE 0
        <5>1. CASE q = p
          BY <3>1, <4>1, <4>2, <4>4, <4>7, <5>1
        <5>2. CASE q # p
          BY <3>1, <4>1, <4>2, <4>7, <5>2 DEF CopyInv
        <5> QED
          BY <5>1, <5>2
      <4> QED
        BY <4>6, <4>7 DEF CopyInv
    <3> QED
      BY <3>2, <3>3
  <2>6. CASE Filter(p)
    <3>1. UNCHANGED copies /\ proc[p].at = "item" /\ ~Marking(p)
      BY <2>6 DEF Filter, Marking, history
    <3> QED
      BY <1>2, <1>4, <2>6, <3>1, FilterMoves DEF Moves
  <2>7. CASE AlbumSent(p) \/ OneSent(p)
    BY <2>7, CopySent
  <2>8. CASE AlbumError(p)
    BY <1>2, <2>8, AlbumErrorMoves DEF AlbumError, Moves, Marking, history
  <2>9. CASE Mark(p) \/ MarkFails(p)
    BY <1>0, <2>9, CopyMarked
  <2> QED
    BY <1>5, <2>1, <2>2, <2>3, <2>4, <2>5, <2>6, <2>7, <2>8, <2>9, <2>a DEF Flush
<1>6. ASSUME NEW key, Free, FlushKey("producer", key), UNCHANGED copies PROVE CopyInv'
  BY <1>2, <1>6, FlushKeyMoves DEF Free, Moves, Marking, Procs
<1>7. CASE FlushAlbum \/ TakeNew
  BY <1>1, <1>6, <1>7 DEF FlushAlbum, TakeNew, history
<1>8. ASSUME NEW p \in Procs, NEW at, Goes(p, at), UNCHANGED copies, ~Marking(p),
             at \notin {"mark", "markblind"}
      PROVE  CopyInv'
  BY <1>2, <1>8 DEF Goes, Moves
<1>9. CASE TakeEdit
  BY <1>1, <1>8, <1>9, GoesTo DEF TakeEdit, Free, Marking, Procs, history
<1>10. CASE ReadForEdit
  <2>1. /\ "producer" \in Procs /\ queue # <<>> /\ ~Marking("producer")
        /\ UNCHANGED copies
    BY <1>10 DEF ReadForEdit, EditInv, Procs, Marking, history
  <2> QED
    BY <1>2, <1>8, <1>10, <2>1, ReadForEditMoves DEF Moves
<1>11. CASE WriteEdit
  BY <1>2, <1>11, IdleMoves DEF WriteEdit, Moves, Marking, Procs
<1>12. CASE BootRoots \/ BootFails \/ BootNext
  <2>1. "boot" \in Procs /\ UNCHANGED copies /\ ~Marking("boot")
    BY <1>12 DEF BootRoots, BootFails, BootNext, Procs, Marking, history
  <2> QED
    BY <1>2, <1>12, <2>1, BootMoves DEF Moves
<1>13. CASE StoreMapping \/ MappingFails \/ Repair \/ FetchReplies \/ StoreReply
  <2>1. "trunk" \in Procs /\ UNCHANGED copies /\ ~Marking("trunk")
    BY <1>13 DEF StoreMapping, MappingFails, Repair, FetchReplies, StoreReply, Procs,
                 Marking, history
  <2> QED
    BY <1>2, <1>8, <1>13, <2>1, TrunkMoves DEF Moves
<1>14. CASE Restart
  <2> DEFINE U == UNION {Unmarked(p) : p \in Procs}
  <2>1. copies' = Added(-1, U) /\ rows' = rows /\ proc' = Started
    BY <1>14 DEF Restart
  <2>2. \A p \in Procs : proc'[p].batch = {}
    BY <2>1, StartMoves
  <2>3. ASSUME NEW c \in Comments
        PROVE  /\ copies'[c] <= 1
               /\ copies'[c] = 1 => rows'[c].status # "none" /\ ~Pending(c)'
    <3>1. copies[c] \in Nat /\ copies[c] <= 1
      BY DEF TypeOK, CopyInv
    <3>2. copies[c] = 1 => rows[c].status # "none" /\ (Pending(c) => c \in U)
      BY DEF CopyInv, Unmarked
    <3>3. copies'[c] = IF c \in U THEN copies[c] + -1 ELSE copies[c]
      BY <2>1 DEF Added
    <3>4. Pending(c)' <=> Pending(c)
      BY <2>1 DEF Pending
    <3> HIDE DEF U
    <3> QED
      BY <2>1, <3>1, <3>2, <3>3, <3>4
  <2> QED
    BY <2>2, <2>3 DEF CopyInv
<1>15. ASSUME NEW c \in Comments, Write(c) \/ EditText(c) PROVE CopyInv'
  BY <1>1, <1>15 DEF Write, EditText, history
<1>16. ASSUME NEW w \in 1..Workers, JobStart(w) \/ JobEdit(w) PROVE CopyInv'
  BY <1>1, <1>16 DEF JobStart, JobEdit
<1>17. CASE Refuse \/ IgnoreEdit \/ BlockEdit
  BY <1>1, <1>17 DEF Refuse, IgnoreEdit, BlockEdit, history
<1>18. CASE UNCHANGED vars
  BY <1>1, <1>18 DEF vars, history
<1> QED
  BY <1>5, <1>7, <1>9, <1>10, <1>11, <1>12, <1>13, <1>14, <1>15, <1>16, <1>17, <1>18
     DEF Next

----------------------------------------------------------------------------
(* Who still looks at what is pending *)

\* A scan that ends within an album takes the later parts of the album too and
\* goes on behind the last of them: no comment may lie between the parts.
AlbumsTogether ==
  \A g \in Albums : \A a, b \in g, c \in Comments : a < c /\ c < b => c \in g

\* A scan that takes a batch leaves nothing behind it.
LEMMA ScanAhead ==
  ASSUME TypeOK, AlbumsTogether, NEW p \in Procs, Left(p) # {}, NEW batch \in Batches(p),
         NEW c \in Left(p), c \notin batch
  PROVE  c > Max(batch)
<1> DEFINE m == Max(batch)
           Below(x) == {d \in Left(p) : d < x}
<1>0. /\ Left(p) \in SUBSET Comments /\ Comments \subseteq Nat /\ First(p) \subseteq Left(p)
      /\ First(p) \subseteq batch
  BY CommentAssumption DEF Left, Filed, Comments, First, Whole, Batches
<1>1. m \in batch /\ batch \subseteq Left(p)
  BY BatchTaken
<1>2. ASSUME NEW f \in First(p) PROVE f < c
  <2>1. Cardinality(Below(f)) < BatchSize /\ ~(Cardinality(Below(c)) < BatchSize)
    <3>1. c \notin First(p)
      BY <1>0
    <3> QED
      BY <1>2, <3>1 DEF First
  <2>2. ASSUME c <= f PROVE FALSE
    <3>0. f \in Nat /\ c \in Nat /\ \A d \in Left(p) : d \in Nat
      BY <1>0, <1>2
    <3>1. Below(c) \subseteq Below(f)
      <4> SUFFICES ASSUME NEW d \in Left(p), d < c PROVE d < f
        OBVIOUS
      <4> QED
        BY <2>2, <3>0
    <3>2. Below(f) \in SUBSET Comments /\ Below(c) \in SUBSET Comments
      BY <1>0
    <3> HIDE DEF Below
    <3>3. /\ IsFiniteSet(Below(f))
          /\ Cardinality(Below(f)) \in Nat /\ Cardinality(Below(c)) \in Nat
      BY <3>2, CommentsFinite
    <3>4. Cardinality(Below(c)) <= Cardinality(Below(f))
      BY <3>1, <3>3, FS_Subset
    <3>5. BatchSize \in Nat
      BY CommentAssumption
    <3> QED
      BY <2>1, <3>3, <3>4, <3>5
  <2>3. f \in Nat /\ c \in Nat
    BY <1>0, <1>2
  <2> QED
    BY <2>2, <2>3
<1>3. CASE m \in First(p)
  BY <1>2, <1>3
<1>4. CASE m \notin First(p)
  <2>1. /\ First(p) # {} /\ Max(First(p)) \in grouped /\ m \in grouped
        /\ batch = First(p) \cup (Left(p) \cap grouped)
    BY <1>1, <1>4 DEF Batches, Whole
  <2>2. c \notin grouped
    BY <2>1
  <2>3. Max(First(p)) \in First(p)
    BY <1>0, <2>1, MaxMin
  <2>4. Max(First(p)) < c
    BY <1>2, <2>3
  <2>5. grouped \in Albums /\ c \in Comments /\ m \in Comments /\ m # c
    BY <1>0, <1>1 DEF TypeOK
  <2> HIDE DEF m
  <2>6. ~(c < m)
    BY <2>1, <2>2, <2>4, <2>5 DEF AlbumsTogether
  <2>7. c \in Nat /\ m \in Nat
    BY <1>0, <2>5
  <2> QED
    BY <2>5, <2>6, <2>7 DEF m
<1> QED
  BY <1>3, <1>4

\* One goroutine moves; whatever it cared for is still in somebody's care.
LEMMA CareKept ==
  ASSUME CareInv, UNCHANGED mapped, NEW p \in Procs,
         \A q \in Procs \ {p} : proc'[q] = proc[q],
         \A c \in Comments :
           Owed(c)' => /\ Owed(c) /\ rows'[c].key = rows[c].key
                       /\ album = rows[c].key \/ Cares(p, c) =>
                            album' = rows'[c].key \/ Cares(p, c)'
  PROVE  CareInv'
<1> SUFFICES ASSUME mapped, NEW c \in Comments, Owed(c)' PROVE Cared(c)'
  BY DEF CareInv
<1>1. Owed(c) /\ rows'[c].key = rows[c].key
  BY Zenon
<1>2. album = rows[c].key \/ \E q \in Procs : Cares(q, c)
  BY <1>1 DEF CareInv, Cared
<1>3. CASE album = rows[c].key \/ Cares(p, c)
  BY <1>3 DEF Cared
<1>4. ASSUME NEW q \in Procs \ {p}, Cares(q, c) PROVE Cares(q, c)'
  <2>1. proc'[q] = proc[q]
    OBVIOUS
  <2> QED
    BY <1>1, <1>4, <2>1 DEF Cares
<1> QED
  BY <1>2, <1>3, <1>4 DEF Cared

\* The rows that stay pending are filed as before, and what was given up stays so.
LEMMA CareFiled ==
  ASSUME CareInv, UNCHANGED <<mapped, album>>, NEW p \in Procs,
         \A q \in Procs \ {p} : proc'[q] = proc[q],
         \A c \in Comments : Owed(c)' => Owed(c) /\ rows'[c].key = rows[c].key,
         \A c \in Comments : Owed(c) /\ Owed(c)' /\ Cares(p, c) => Cares(p, c)'
  PROVE  CareInv'
  BY CareKept

\* The moves of a flush that keep its care: what it leaves is sent, refused, given
\* up or filed under another root.
LEMMA CareReturn ==
  ASSUME TypeOK, CareInv, UNCHANGED <<mapped, album>>, NEW p \in Procs, Return(p),
         \A c \in Comments : Owed(c)' =>
           /\ Owed(c) /\ rows'[c].key = rows[c].key
           /\ Cares(p, c) => p = "boot" /\ rows[c].key \in proc[p].keys
  PROVE  CareInv'
<1>1. /\ \A q \in Procs \ {p} : proc'[q] = proc[q]
      /\ proc'[p].keys = proc[p].keys
  BY ReturnMoves DEF Moves
<1>2. ASSUME NEW c \in Comments, Owed(c), Owed(c)', Cares(p, c) PROVE Cares(p, c)'
  BY <1>1, <1>2 DEF Cares
<1> QED
  BY <1>1, <1>2, CareFiled

LEMMA CareFlush ==
  ASSUME AlbumsTogether, TypeOK, HandsInv, LockInv, RowInv, CareInv,
         \A c \in Comments : Kept(c), NEW p \in Procs, Flush(p)
  PROVE  CareInv'
<1>0. HandOf(p) /\ UNCHANGED <<mapped, album>>
  BY DEF HandsInv, Flush, Unmapped, Lookup, Misfile, LookupFails, NotMapped, Lock, Scan,
         ScanFails, Filter, AlbumSent, OneSent, NothingSent, AlbumError, OneError, SendFlood,
         Mark, MarkFails
<1>a. \A c \in proc[p].batch : rows[c].key \in {"root", "other"} /\ c \in Comments
  BY DEF RowInv, TypeOK, Proc
<1>b. CASE ~mapped
  BY <1>0, <1>b DEF CareInv
<1>1. CASE Unmapped(p) /\ mapped
  <2>1. /\ proc[p].at = "load" /\ UNCHANGED rows
        /\ gaveUp' = IF proc[p].key = "root" THEN gaveUp \cup Filed("root") ELSE gaveUp
        /\ Goes(p, "ask")
    BY <1>1, GoesTo DEF Unmapped, LeftMapped
  <2>2. /\ proc'[p].at = "ask" /\ proc'[p].key = proc[p].key
        /\ proc'[p].keys = proc[p].keys /\ \A q \in Procs \ {p} : proc'[q] = proc[q]
    BY <2>1 DEF Goes, Moves
  <2>3. \A c \in Comments : Owed(c)' => Owed(c) /\ rows'[c].key = rows[c].key
    BY <2>1 DEF Owed, Pending
  <2>4. \A c \in Comments : Owed(c)' /\ proc[p].key = "root" => rows[c].key # "root"
    BY <2>1 DEF Owed, Pending, Filed
  <2>5. proc[p].key \in {"post", "root"}
    BY <1>0, <2>1, FlushKeys
  <2>6. \A c \in Comments : Owed(c)' /\ Cares(p, c) => Cares(p, c)'
    BY <2>1, <2>2, <2>4, <2>5 DEF Cares, Holds
  <2> QED
    BY <1>0, <2>2, <2>3, <2>6, CareFiled
<1>2. CASE Lookup(p)
  <2>1. /\ proc'[p].at = "found" /\ proc'[p].key = "root"
        /\ \/ rows' = Refiled("post", "root") /\ UNCHANGED gaveUp
           \/ UNCHANGED rows /\ gaveUp' = gaveUp \cup Filed("post")
    BY <1>2, LookupMoves DEF Lookup, Moves
  <2>2. \A c \in Comments : Owed(c)' => rows'[c].key = "root"
    <3> SUFFICES ASSUME NEW c \in Comments, Owed(c)' PROVE rows'[c].key = "root"
      OBVIOUS
    <3>1. CASE rows' = Refiled("post", "root")
      <4>1. /\ Pending(c) /\ rows[c].key = "post" => rows'[c].key = "root"
            /\ rows[c].key # "post" => rows'[c] = rows[c]
            /\ Pending(c)' <=> Pending(c)
        BY <3>1, RefiledRows
      <4> QED
        BY <4>1 DEF Owed, RowInv, Pending, TypeOK, Row
    <3>2. CASE UNCHANGED rows /\ gaveUp' = gaveUp \cup Filed("post")
      BY <3>2 DEF Owed, Filed, RowInv, Pending, TypeOK, Row
    <3> QED
      BY <2>1, <3>1, <3>2
  <2> QED
    BY <2>1, <2>2 DEF CareInv, Cared, Cares
<1>c. CASE Misfile(p)
  <2>1. /\ proc[p].at = "ask" /\ rows' = Refiled(proc[p].key, "other") /\ Return(p)
        /\ UNCHANGED gaveUp /\ ~Holds(proc[p].at)
    BY <1>c DEF Misfile, history, Holds
  <2>2. proc[p].key \in {"post", "root"}
    BY <1>0, <2>1, FlushKeys
  <2>3. ASSUME NEW c \in Comments, Owed(c)'
        PROVE  Owed(c) /\ rows'[c] = rows[c] /\ rows[c].key # proc[p].key
    <3>1. /\ Pending(c) /\ rows[c].key = proc[p].key => rows'[c].key = "other"
          /\ rows[c].key # proc[p].key => rows'[c] = rows[c]
          /\ Pending(c)' <=> Pending(c)
      BY <2>1, <2>2, RefiledRows
    <3> QED
      BY <2>1, <2>3, <3>1 DEF Owed
  <2>4. \A c \in Comments : Owed(c)' /\ Cares(p, c) => p = "boot" /\ rows[c].key \in proc[p].keys
    BY <2>1, <2>3 DEF Cares
  <2> QED
    BY <1>0, <2>1, <2>3, <2>4, CareReturn
<1>3. CASE LookupFails(p)
  <2>1. /\ proc[p].at = "ask" /\ UNCHANGED rows /\ Return(p)
        /\ gaveUp' = IF proc[p].key = "post" THEN gaveUp \cup Filed("post") ELSE gaveUp
        /\ ~Holds(proc[p].at)
    BY <1>3 DEF LookupFails, Holds
  <2>2. \A c \in Comments : Owed(c)' =>
          /\ Owed(c) /\ rows'[c].key = rows[c].key
          /\ proc[p].key = "post" => rows[c].key # "post"
    BY <2>1 DEF Owed, Filed, Pending
  <2>3. \A c \in Comments : Owed(c)' /\ Cares(p, c) => p = "boot" /\ rows[c].key \in proc[p].keys
    BY <2>1, <2>2 DEF Cares
  <2> QED
    BY <1>0, <2>1, <2>2, <2>3, CareReturn
<1>d. CASE NotMapped(p) /\ mapped
  <2>1. /\ proc[p].at = "found" /\ UNCHANGED rows /\ Return(p)
        /\ gaveUp' = gaveUp \cup Filed("root") /\ ~Holds(proc[p].at)
    BY <1>d DEF NotMapped, LeftMapped, Holds
  <2>2. \A c \in Comments : Owed(c)' =>
          Owed(c) /\ rows'[c].key = rows[c].key /\ rows[c].key # "root"
    BY <2>1 DEF Owed, Filed, Pending
  <2>3. \A c \in Comments : Owed(c)' /\ Cares(p, c) => p = "boot" /\ rows[c].key \in proc[p].keys
    BY <2>1, <2>2 DEF Cares
  <2> QED
    BY <1>0, <2>1, <2>2, <2>3, CareReturn
<1>e. CASE ScanFails(p) \/ SendFlood(p)
  <2>1. /\ proc[p].at \in {"scan", "send"} /\ UNCHANGED rows /\ Return(p)
        /\ gaveUp' = gaveUp \cup Filed("root")
    BY <1>e DEF ScanFails, SendFlood
  <2>2. \A c \in Comments : Owed(c)' =>
          Owed(c) /\ rows'[c].key = rows[c].key /\ rows[c].key \notin {"root", "other"}
    BY <2>1 DEF Owed, Filed, Pending
  <2>3. \A c \in Comments : Owed(c)' /\ Cares(p, c) => p = "boot" /\ rows[c].key \in proc[p].keys
    BY <1>a, <2>1, <2>2 DEF Cares
  <2> QED
    BY <1>0, <2>1, <2>2, <2>3, CareReturn
<1>4. CASE Lock(p)
  <2>1. /\ proc[p].at \in {"load", "found"} /\ proc[p].key = "root" /\ UNCHANGED <<rows, gaveUp>>
        /\ proc'[p].at = "scan" /\ proc'[p].cursor = 0 /\ proc'[p].keys = proc[p].keys
        /\ \A q \in Procs \ {p} : proc'[q] = proc[q]
    BY <1>4, LockMoves DEF Lock, Target, Moves, history
  <2>2. \A c \in Comments : c > 0 /\ (Owed(c)' => Owed(c))
    BY <2>1, CommentAssumption DEF Comments, Owed, Pending
  <2>3. \A c \in Comments : Cares(p, c) => Cares(p, c)'
    BY <2>1, <2>2 DEF Cares, Holds
  <2> QED
    BY <1>0, <2>1, <2>2, <2>3, CareFiled
<1>5. CASE Scan(p)
  <2>1. /\ proc[p].at = "scan" /\ UNCHANGED <<rows, gaveUp>> /\ proc[p].batch = {}
        /\ Holds(proc[p].at)
    BY <1>0, <1>5 DEF Scan, history, HandOf, Hand, Holds
  <2>2. \A c \in Comments : Owed(c)' <=> Owed(c)
    BY <2>1 DEF Owed, Pending
  <2>3. CASE Left(p) = {}
    <3>1. Return(p)
      BY <1>5, <2>3 DEF Scan, Left
    <3>2. \A c \in Comments : Owed(c)' => ~(rows[c].key = "root" /\ c > proc[p].cursor)
      BY <2>2, <2>3 DEF Owed, Left, Filed
    <3>3. \A c \in Comments : Owed(c)' /\ Cares(p, c) => p = "boot" /\ rows[c].key \in proc[p].keys
      BY <2>1, <3>2 DEF Cares
    <3> QED
      BY <1>0, <2>1, <2>2, <3>1, <3>3, CareReturn
  <2>4. CASE Left(p) # {}
    <3>0. PICK batch \in Batches(p) :
            Moves(p, "item", proc[p].key, proc[p].keys, proc[p].todo, batch, proc[p].unit,
                  Max(batch), proc[p].was)
      BY <1>5, <2>4, ScanMoves
    <3>1. /\ proc'[p].at = "item" /\ proc'[p].keys = proc[p].keys
          /\ proc'[p].batch = batch /\ proc'[p].cursor = Max(batch)
          /\ \A q \in Procs \ {p} : proc'[q] = proc[q]
      BY <3>0 DEF Moves
    <3>2. ASSUME NEW c \in Comments, Owed(c), Cares(p, c) PROVE Cares(p, c)'
      <4>1. CASE rows[c].key = "root" /\ c > proc[p].cursor
        <5>1. c \in Left(p)
          BY <3>2, <4>1 DEF Left, Filed, Owed
        <5>2. c \in batch \/ c > Max(batch)
          BY <2>4, <5>1, ScanAhead
        <5> QED
          BY <2>1, <3>1, <4>1, <5>2 DEF Cares, Holds
      <4>2. CASE p = "boot" /\ rows[c].key \in proc[p].keys
        BY <2>1, <3>1, <4>2 DEF Cares
      <4> QED
        BY <2>1, <3>2, <4>1, <4>2 DEF Cares
    <3> QED
      BY <1>0, <2>1, <2>2, <3>1, <3>2, CareFiled
  <2> QED
    BY <2>3, <2>4
<1>6. ASSUME NEW done, Holds(proc[p].at), Holds(proc'[p].at),
             proc'[p].batch = proc[p].batch \ done, proc'[p].cursor = proc[p].cursor,
             proc'[p].keys = proc[p].keys, \A q \in Procs \ {p} : proc'[q] = proc[q],
             \A c \in Comments : rows'[c].key = rows[c].key,
             \A c \in Comments : Owed(c)' => Owed(c),
             \A c \in Comments \cap done : Owed(c)' => c > proc[p].cursor
      PROVE  CareInv'
  <2>1. ASSUME NEW c \in Comments, Owed(c)', Cares(p, c) PROVE Cares(p, c)'
    <3>1. CASE rows[c].key = "root" /\ c > proc[p].cursor
      BY <1>6, <3>1 DEF Cares
    <3>2. CASE c \in proc[p].batch
      <4>1. rows'[c].key = "root"
        BY <1>6, <1>a, <2>1, <3>2 DEF Owed
      <4>2. c \in proc'[p].batch \/ c > proc'[p].cursor
        BY <1>6, <2>1, <3>2
      <4> QED
        BY <1>6, <4>1, <4>2 DEF Cares
    <3>3. CASE p = "boot" /\ rows[c].key \in proc[p].keys
      BY <1>6, <3>3 DEF Cares
    <3> QED
      BY <1>6, <2>1, <3>1, <3>2, <3>3 DEF Cares, Holds
  <2> QED
    BY <1>0, <1>6, <2>1, CareFiled
<1>7. ASSUME NEW done, Advance(p, done), proc[p].at \in {"item", "send", "mark", "markblind"},
             \A c \in Comments : rows'[c].key = rows[c].key,
             \A c \in Comments : Owed(c)' => Owed(c),
             \A c \in Comments \cap done : ~Owed(c)'
      PROVE  CareInv'
  <2> DEFINE at == IF proc[p].unit \ done # {} THEN proc[p].at
                   ELSE IF proc[p].batch \ done = {} THEN "scan" ELSE "item"
  <2>1. Holds(at) /\ Holds(proc[p].at)
    BY <1>7 DEF Holds
  <2>2. /\ proc'[p].at = at /\ proc'[p].batch = proc[p].batch \ done
        /\ proc'[p].cursor = proc[p].cursor
        /\ proc'[p].keys = proc[p].keys /\ \A q \in Procs \ {p} : proc'[q] = proc[q]
    BY <1>7, AdvanceMoves DEF Moves
  <2> HIDE DEF at
  <2> QED
    BY <1>6, <1>7, <2>1, <2>2
<1>8. CASE Filter(p)
  <2>1. PICK refused \in SUBSET HeadUnit(p) :
          /\ \/ rows' = MarkedFailed(refused \cap Filed("root")) /\ gaveUp' = gaveUp
             \/ rows' = rows /\ gaveUp' = gaveUp \cup refused
          /\ \/ Advance(p, refused)
             \/ Moves(p, "send", proc[p].key, proc[p].keys, proc[p].todo,
                      proc[p].batch \ refused, HeadUnit(p) \ refused,
                      proc[p].cursor, proc[p].was)
    BY <1>8, FilterMoves
  <2>2. proc[p].at = "item" /\ refused \subseteq proc[p].batch
    BY <1>8, FilterMoves DEF Filter
  <2>3. /\ \A c \in Comments : rows'[c].key = rows[c].key
        /\ \A c \in Comments : Owed(c)' => Owed(c) /\ c \notin refused
    <3> SUFFICES ASSUME NEW c \in Comments
                 PROVE  /\ rows'[c].key = rows[c].key
                        /\ Owed(c)' => Owed(c) /\ c \notin refused
      OBVIOUS
    <3>1. CASE rows' = MarkedFailed(refused \cap Filed("root")) /\ gaveUp' = gaveUp
      <4>1. /\ rows'[c].key = rows[c].key
            /\ Pending(c)' => Pending(c) /\ c \notin refused \cap Filed("root")
        BY <3>1, FailedRows
      <4>2. c \in refused => rows[c].key \in {"root", "other"}
        BY <1>a, <2>2
      <4> QED
        BY <3>1, <4>1, <4>2 DEF Owed, Filed
    <3>2. CASE rows' = rows /\ gaveUp' = gaveUp \cup refused
      BY <3>2 DEF Owed, Pending
    <3> QED
      BY <2>1, <3>1, <3>2
  <2>4. CASE Advance(p, refused)
    BY <1>7, <2>2, <2>3, <2>4
  <2>5. CASE ~Advance(p, refused)
    <3>1. /\ proc'[p].at = "send" /\ proc'[p].batch = proc[p].batch \ refused
          /\ proc'[p].cursor = proc[p].cursor
          /\ proc'[p].keys = proc[p].keys /\ \A q \in Procs \ {p} : proc'[q] = proc[q]
      BY <2>1, <2>5 DEF Moves
    <3>2. Holds(proc[p].at) /\ Holds(proc'[p].at)
      BY <2>2, <3>1 DEF Holds
    <3> QED
      BY <1>6, <2>3, <3>1, <3>2
  <2> QED
    BY <2>4, <2>5
<1>9. CASE AlbumSent(p) \/ OneSent(p) \/ AlbumError(p)
  <2>1. /\ UNCHANGED <<rows, gaveUp>> /\ proc[p].at = "send"
        /\ proc'[p].batch = proc[p].batch \ {} /\ proc'[p].cursor = proc[p].cursor
        /\ proc'[p].keys = proc[p].keys /\ \A q \in Procs \ {p} : proc'[q] = proc[q]
    BY <1>9, GoesTo, AlbumErrorMoves
       DEF AlbumSent, OneSent, AlbumError, Goes, Moves, history
  <2>2. proc'[p].at \in {"item", "mark", "markblind"}
    BY <1>9, GoesTo, AlbumErrorMoves DEF AlbumSent, OneSent, AlbumError, Goes, Moves
  <2>3. Holds(proc[p].at) /\ Holds(proc'[p].at) /\ \A c \in Comments : Owed(c)' => Owed(c)
    BY <2>1, <2>2 DEF Holds, Owed, Pending
  <2>4. /\ \A c \in Comments : rows'[c].key = rows[c].key
        /\ \A c \in Comments \cap {} : Owed(c)' => c > proc[p].cursor
    BY <2>1
  <2> QED
    BY <1>6, <2>1, <2>3, <2>4
<1>10. CASE NothingSent(p)
  <2>1. /\ rows' = MarkedFailed(proc[p].unit \cap Filed("root")) /\ UNCHANGED gaveUp
        /\ Advance(p, proc[p].unit) /\ proc[p].at = "send"
    BY <1>10 DEF NothingSent, history
  <2>2. /\ \A c \in Comments : rows'[c].key = rows[c].key
        /\ \A c \in Comments : Owed(c)' => Owed(c) /\ c \notin proc[p].unit
    <3> SUFFICES ASSUME NEW c \in Comments
                 PROVE  /\ rows'[c].key = rows[c].key
                        /\ Owed(c)' => Owed(c) /\ c \notin proc[p].unit
      OBVIOUS
    <3>1. /\ rows'[c].key = rows[c].key
          /\ Pending(c)' => Pending(c) /\ c \notin proc[p].unit \cap Filed("root")
      BY <2>1, FailedRows
    <3>2. c \in proc[p].unit => rows[c].key \in {"root", "other"}
      BY <1>0, <1>a DEF HandOf, Hand
    <3> QED
      BY <2>1, <3>1, <3>2 DEF Owed, Filed
  <2> QED
    BY <1>7, <2>1, <2>2
<1>11. CASE OneError(p)
  <2>1. /\ UNCHANGED rows /\ gaveUp' = gaveUp \cup proc[p].unit
        /\ Advance(p, proc[p].unit) /\ proc[p].at = "send"
    BY <1>11 DEF OneError
  <2>2. \A c \in Comments : Owed(c)' => Owed(c) /\ c \notin proc[p].unit
    BY <2>1 DEF Owed, Pending
  <2> QED
    BY <1>7, <2>1, <2>2
<1>13. CASE Mark(p) \/ MarkFails(p)
  <2>0. PICK d \in Comments : d = Min(proc[p].unit)
    BY <1>13, UnitHead DEF Mark, MarkFails
  <2>1. Advance(p, {d}) /\ proc[p].at \in {"item", "send", "mark", "markblind"}
    BY <1>13, <2>0 DEF Mark, MarkFails, Marking
  <2>2. /\ \A c \in Comments : rows'[c].key = rows[c].key
        /\ \A c \in Comments : Owed(c)' => Owed(c) /\ c # d
    <3>1. CASE MarkFails(p)
      <4>1. UNCHANGED rows /\ gaveUp' = gaveUp \cup {d}
        BY <2>0, <3>1 DEF MarkFails
      <4> QED
        BY <4>1 DEF Owed, Pending
    <3>2. CASE Mark(p)
      <4> DEFINE known == proc[p].at = "mark"
      <4>1. /\ gaveUp' = gaveUp \ {d} /\ known \in BOOLEAN
            /\ rows' = IF d \in Filed("root")
                       THEN [rows EXCEPT ![d].status = "success", ![d].known = known]
                       ELSE rows
        BY <2>0, <3>2 DEF Mark
      <4> HIDE DEF known
      <4>0. rows[d].key \in {"root", "other"}
        BY <1>a, <2>0, <3>2, UnitHead DEF Mark
      <4>2. CASE d \in Filed("root")
        <5>1. /\ \A c \in Comments : rows'[c].key = rows[c].key
              /\ \A c \in Comments \ {d} : rows'[c] = rows[c]
              /\ rows'[d].status = "success"
          BY <4>1, <4>2, SentRows DEF Filed
        <5> QED
          BY <4>1, <5>1 DEF Owed, Pending
      <4>3. CASE d \notin Filed("root")
        BY <4>0, <4>1, <4>3 DEF Owed, Pending, Filed
      <4> QED
        BY <4>2, <4>3
    <3> QED
      BY <1>13, <3>1, <3>2
  <2> QED
    BY <1>7, <2>1, <2>2
<1> QED
  BY <1>1, <1>2, <1>3, <1>4, <1>5, <1>8, <1>9, <1>10, <1>11, <1>13, <1>b, <1>c, <1>d, <1>e
     DEF Flush

LEMMA CareStep ==
  /\ AlbumsTogether /\ TypeOK /\ HandsInv /\ LockInv /\ RowInv /\ EditInv /\ CareInv
  /\ [Next]_vars
  => CareInv'
<1> SUFFICES ASSUME AlbumsTogether, TypeOK, HandsInv, LockInv, RowInv, EditInv, CareInv,
                    [Next]_vars
             PROVE  CareInv'
  OBVIOUS
<1> DEFINE m == "producer"  b == "boot"  t == "trunk"
<1>0. /\ m \in Procs /\ b \in Procs /\ t \in Procs /\ m # b /\ t # b
      /\ \A c \in Comments : Kept(c)
  BY RowsStep DEF Procs
<1>a. \A p \in Procs : HandOf(p)
  BY DEF HandsInv
<1>b. \A c \in Comments : Owed(c) => rows[c].key \in {"post", "root"}
  BY DEF Owed, RowInv, Pending, TypeOK, Row
<1>1. ASSUME UNCHANGED <<mapped, album, proc>>,
             \A c \in Comments : Owed(c)' => Owed(c) /\ rows'[c].key = rows[c].key
      PROVE  CareInv'
  BY <1>0, <1>1, CareFiled DEF Cares
<1>2. ASSUME UNCHANGED <<mapped, album, proc, rows, gaveUp>> PROVE CareInv'
  BY <1>1, <1>2 DEF Owed, Pending
\* The steps of the producer that cares for nothing but its album.
<1>3. ASSUME UNCHANGED mapped, proc[m].at \in {"idle", "edit", "editwrite"},
             \A q \in Procs \ {m} : proc'[q] = proc[q],
             \A c \in Comments :
               Owed(c)' => \/ album' = rows'[c].key \/ Cares(m, c)'
                           \/ Owed(c) /\ rows'[c].key = rows[c].key /\ album # rows[c].key
      PROVE  CareInv'
  <2>1. ASSUME NEW c \in Comments PROVE ~Cares(m, c)
    BY <1>0, <1>3 DEF Cares, Holds
  <2> SUFFICES ASSUME mapped, NEW c \in Comments, Owed(c)' PROVE Cared(c)'
    BY <1>3 DEF CareInv
  <2>2. CASE album' = rows'[c].key \/ Cares(m, c)'
    BY <1>0, <2>2 DEF Cared
  <2>3. CASE Owed(c) /\ rows'[c].key = rows[c].key /\ album # rows[c].key
    <3>1. PICK q \in Procs : Cares(q, c)
      BY <2>3 DEF CareInv, Cared
    <3>2. q # m
      BY <2>1, <3>1
    <3>3. Cares(q, c)'
      BY <1>3, <2>3, <3>1, <3>2 DEF Cares
    <3> QED
      BY <3>3 DEF Cared
  <2> QED
    BY <1>3, <2>2, <2>3
<1>4. CASE FlushAlbum
  <2>1. /\ Free /\ FlushKey(m, album) /\ UNCHANGED <<mapped, rows, gaveUp>>
    BY <1>4 DEF FlushAlbum, history
  <2>2. /\ proc'[m].at = "load" /\ proc'[m].key = album
        /\ \A q \in Procs \ {m} : proc'[q] = proc[q]
    BY <1>0, <2>1, FlushKeyMoves DEF Moves
  <2>3. \A c \in Comments : /\ Owed(c)' => Owed(c) /\ rows'[c].key = rows[c].key
                            /\ album = rows[c].key => Cares(m, c)'
    BY <2>1, <2>2 DEF Owed, Pending, Cares
  <2> QED
    BY <1>3, <2>1, <2>2, <2>3 DEF Free
<1>5. CASE TakeNew
  <2> DEFINE d == queue[1].id
  <2>1. d \in Comments
    BY <1>5, HeadTypes DEF TakeNew, HeadIs
  <2>2. PICK key \in {"post", "root"} :
          /\ album = "" \/ key = album
          /\ rows' = Inserted(d, key, queue[1].text)
          /\ \/ album' = key /\ UNCHANGED proc
             \/ FlushKey(m, key) /\ UNCHANGED album
    BY <1>5 DEF TakeNew, Roots
  <2>3. Free /\ UNCHANGED <<mapped, gaveUp>>
    BY <1>5 DEF TakeNew, history
  <2> HIDE DEF d
  <2>4. /\ \A c \in Comments \ {d} : rows'[c] = rows[c]
        /\ rows[d].status = "none" => rows'[d].key = key
        /\ rows[d].status # "none" => rows'[d] = rows[d]
    BY <2>1, <2>2, InsertedRows
  <2>5. album' = key \/ \A c \in Comments : rows'[c].key = key => Cares(m, c)'
    <3>1. CASE album' = key
      BY <3>1
    <3>2. CASE FlushKey(m, key)
      <4>1. proc'[m].at = "load" /\ proc'[m].key = key
        BY <1>0, <3>2, FlushKeyMoves DEF Moves
      <4> QED
        BY <4>1 DEF Cares
    <3> QED
      BY <2>2, <3>1, <3>2
  <2>6. \A q \in Procs \ {m} : proc'[q] = proc[q]
    BY <1>0, <2>2, FlushKeyMoves DEF Moves
  <2>7. ASSUME NEW c \in Comments, Owed(c)'
        PROVE  \/ album' = rows'[c].key \/ Cares(m, c)'
               \/ Owed(c) /\ rows'[c].key = rows[c].key /\ album # rows[c].key
    <3>1. CASE rows'[c].key = key
      BY <2>5, <2>7, <3>1
    <3>2. CASE rows'[c].key # key
      <4>1. rows'[c] = rows[c]
        BY <2>4, <3>2
      <4>2. Owed(c) /\ rows[c].key \in {"post", "root"}
        BY <1>b, <2>3, <2>7, <4>1 DEF Owed, Pending
      <4>3. album # rows[c].key
        BY <2>2, <3>2, <4>1, <4>2
      <4> QED
        BY <4>1, <4>2, <4>3
    <3> QED
      BY <3>1, <3>2
  <2> QED
    BY <1>3, <2>3, <2>6, <2>7 DEF Free
<1>6. CASE BlockEdit
  <2>1. \A c \in Comments : Owed(c)' => Owed(c) /\ rows'[c].key = rows[c].key
    BY <1>6, FailedRows DEF BlockEdit, Owed, history
  <2> QED
    BY <1>1, <1>6, <2>1 DEF BlockEdit
\* The steps of an edit.
<1>7. ASSUME UNCHANGED <<mapped, album, gaveUp>>, proc[m].at \in {"idle", "edit", "editwrite"},
             \A q \in Procs \ {m} : proc'[q] = proc[q],
             \A c \in Comments : rows'[c].key = rows[c].key
                                 /\ rows'[c].status = rows[c].status
      PROVE  CareInv'
  BY <1>3, <1>7 DEF Owed, Pending
<1>8. CASE TakeEdit \/ WriteEdit
  <2>1. queue # <<>>
    BY <1>8 DEF TakeEdit, HeadIs, WriteEdit, EditInv
  <2>2. queue[1].id \in Comments
    BY <2>1, HeadTypes
  <2>3. \/ UNCHANGED rows
        \/ rows' = [rows EXCEPT ![queue[1].id].text = queue[1].text]
    BY <1>8 DEF TakeEdit, WriteEdit
  <2>4. \A c \in Comments : rows'[c].key = rows[c].key /\ rows'[c].status = rows[c].status
    BY <2>2, <2>3, TextRows
  <2>5. UNCHANGED <<mapped, album, gaveUp>> /\ proc[m].at \in {"idle", "editwrite"}
    BY <1>8 DEF TakeEdit, WriteEdit, Free, history
  <2>6. \A q \in Procs \ {m} : proc'[q] = proc[q]
    BY <1>0, <1>8, GoesTo, IdleMoves DEF TakeEdit, WriteEdit, Goes, Moves
  <2> QED
    BY <1>7, <2>4, <2>5, <2>6
<1>9. CASE ReadForEdit
  <2>1. UNCHANGED <<mapped, album, gaveUp, rows>> /\ proc[m].at = "edit" /\ queue # <<>>
    BY <1>9 DEF ReadForEdit, EditInv, history
  <2>2. \A q \in Procs \ {m} : proc'[q] = proc[q]
    BY <1>9, <2>1, ReadForEditMoves DEF Goes, Moves
  <2> QED
    BY <1>7, <2>1, <2>2
<1>10. CASE BootRoots
  <2> DEFINE keys == {rows[c].key : c \in {d \in Comments : Pending(d)}} \ {"other"}
  <2>1. /\ UNCHANGED <<mapped, album, gaveUp, rows>>
        /\ proc'[b].keys = keys /\ \A q \in Procs \ {b} : proc'[q] = proc[q]
    <3>1. /\ UNCHANGED <<mapped, album, gaveUp, rows>>
          /\ Become(b, [proc[b] EXCEPT !.at = "next", !.keys = keys])
      BY <1>10 DEF BootRoots, history
    <3> DEFINE r == [proc[b] EXCEPT !.at = "next", !.keys = keys]
    <3>2. Moves(b, r.at, r.key, r.keys, r.todo, r.batch, r.unit, r.cursor, r.was)
      BY <1>0, <3>1, BecomeMoves
    <3>3. proc[b] \in Proc
      BY <1>0, LocalTypes
    <3> HIDE DEF keys
    <3>4. r.keys = keys
      BY <3>3 DEF Proc
    <3> HIDE DEF r
    <3> QED
      BY <3>1, <3>2, <3>4 DEF Moves
  <2>2. \A c \in Comments : Owed(c)' => Owed(c) /\ rows'[c].key \in keys
    BY <2>1 DEF Owed, Pending
  <2> HIDE DEF keys
  <2> QED
    BY <1>0, <2>1, <2>2, CareFiled DEF Cares
<1>11. CASE BootNext
  <2>1. UNCHANGED <<mapped, album, gaveUp, rows>> /\ proc[b].at = "next"
    BY <1>11 DEF BootNext, history
  <2>2. \A c \in Comments : Owed(c)' => Owed(c) /\ rows'[c].key = rows[c].key
    BY <2>1 DEF Owed, Pending
  <2>3. \A c \in Comments : Cares(b, c) => rows[c].key \in proc[b].keys
    BY <2>1 DEF Cares, Holds
  <2>4. \/ proc[b].keys = {}
        \/ \E key \in proc[b].keys : /\ proc'[b].at = "load" /\ proc'[b].key = key
                                     /\ proc'[b].keys = proc[b].keys \ {key}
    BY <1>11, <2>1, BootMoves DEF BootRoots, BootFails, Moves
  <2>5. \A q \in Procs \ {b} : proc'[q] = proc[q]
    BY <1>11, BootMoves DEF Moves
  <2>6. \A c \in Comments : Cares(b, c) => Cares(b, c)'
    BY <2>1, <2>3, <2>4 DEF Cares
  <2> QED
    BY <1>0, <2>1, <2>2, <2>5, <2>6, CareFiled
<1>12. CASE StoreMapping
  <2>1. proc'[t].at = "repair"
    BY <1>12, TrunkMoves DEF Moves
  <2> QED
    BY <1>0, <2>1 DEF CareInv, Cared, Cares
<1>c. CASE MappingFails
  <2>1. UNCHANGED <<mapped, album, gaveUp, rows>> /\ proc[t].at = "idle"
    BY <1>c DEF MappingFails, history
  <2>2. \A q \in Procs \ {t} : proc'[q] = proc[q]
    BY <1>c, TrunkMoves DEF Moves
  <2>3. \A c \in Comments : /\ Owed(c)' => Owed(c) /\ rows'[c].key = rows[c].key
                            /\ ~Cares(t, c)
    BY <1>0, <2>1 DEF Owed, Pending, Cares, Holds
  <2> QED
    BY <1>0, <2>1, <2>2, <2>3, CareFiled
<1>d. CASE BootFails
  <2>1. UNCHANGED rows /\ gaveUp' = gaveUp \cup {c \in Comments : Pending(c)}
    BY <1>d DEF BootFails
  <2>2. \A c \in Comments : ~Owed(c)'
    BY <2>1 DEF Owed, Pending
  <2> QED
    BY <2>2 DEF CareInv
<1>13. CASE Repair
  <2>1. /\ proc'[t].at = "fetch"
        /\ \/ \E to \in {"root", "other"} : rows' = Refiled("post", to)
           \/ UNCHANGED rows /\ gaveUp' = gaveUp \cup Filed("post")
    BY <1>13, TrunkMoves DEF Repair, Goes, Moves
  <2>2. \A c \in Comments : Owed(c)' => rows'[c].key = "root"
    <3> SUFFICES ASSUME NEW c \in Comments, Owed(c)' PROVE rows'[c].key = "root"
      OBVIOUS
    <3>1. CASE \E to \in {"root", "other"} : rows' = Refiled("post", to)
      <4>0. PICK to \in {"root", "other"} : rows' = Refiled("post", to)
        BY <3>1
      <4>1. /\ Pending(c) /\ rows[c].key = "post" => rows'[c].key = to
            /\ rows[c].key # "post" => rows'[c] = rows[c]
            /\ Pending(c)' <=> Pending(c)
        BY <4>0, RefiledRows
      <4> QED
        BY <4>1 DEF Owed, RowInv, Pending, TypeOK, Row
    <3>2. CASE UNCHANGED rows /\ gaveUp' = gaveUp \cup Filed("post")
      BY <3>2 DEF Owed, Filed, RowInv, Pending, TypeOK, Row
    <3> QED
      BY <2>1, <3>1, <3>2
  <2> QED
    BY <1>0, <2>1, <2>2 DEF CareInv, Cared, Cares
<1>14. CASE FetchReplies
  <2>1. UNCHANGED <<mapped, album, gaveUp, rows>> /\ proc[t].at = "fetch"
    BY <1>14 DEF FetchReplies, history
  <2>2. PICK cs : Moves(t, IF cs = {} THEN "load" ELSE "store", "root", proc[t].keys, cs,
                        proc[t].batch, proc[t].unit, proc[t].cursor, proc[t].was)
    BY <1>14, TrunkMoves
  <2>3. /\ \A q \in Procs \ {t} : proc'[q] = proc[q]
        /\ proc'[t].at \in {"load", "store"} /\ proc'[t].key = "root"
    BY <2>2 DEF Moves
  <2>4. \A c \in Comments : /\ Owed(c)' => Owed(c) /\ rows'[c].key = rows[c].key
                            /\ Cares(t, c) => rows'[c].key = "root"
    BY <1>0, <2>1 DEF Owed, Pending, Cares, Holds
  <2>5. \A c \in Comments : Cares(t, c) => Cares(t, c)'
    BY <2>3, <2>4 DEF Cares
  <2> QED
    BY <1>0, <2>1, <2>3, <2>4, <2>5, CareFiled
<1>15. CASE StoreReply
  <2>0. PICK d \in Comments : d = Min(proc[t].todo)
    BY <1>15, TrunkMoves
  <2>1. /\ UNCHANGED <<mapped, album, gaveUp>> /\ proc[t].at = "store" /\ proc[t].key = "root"
        /\ UNCHANGED rows \/ rows' = Inserted(d, "root", proc[t].read[d])
    BY <1>0, <1>a, <1>15, <2>0 DEF StoreReply, HandOf, Hand, history
  <2>2. /\ \A q \in Procs \ {t} : proc'[q] = proc[q]
        /\ proc'[t].at \in {"load", "store"} /\ proc'[t].key = proc[t].key
    BY <1>15, TrunkMoves DEF Moves
  <2>3. \A c \in Comments : rows'[c].key = "root" => Cares(t, c)'
    BY <2>1, <2>2 DEF Cares
  <2>4. \A c \in Comments : rows'[c] = rows[c] \/ rows'[c].key = "root"
    BY <2>1, InsertedRows
  <2>5. ASSUME NEW c \in Comments, mapped, Owed(c)', rows'[c].key # "root"
        PROVE  Cared(c)'
    <3>1. Owed(c) /\ rows'[c] = rows[c]
      BY <2>1, <2>4, <2>5 DEF Owed, Pending
    <3>2. ~Cares(t, c)
      BY <1>0, <2>1, <2>5, <3>1 DEF Cares, Holds
    <3>3. album = rows[c].key \/ \E q \in Procs \ {t} : Cares(q, c)
      BY <2>5, <3>1, <3>2 DEF CareInv, Cared
    <3>4. \A q \in Procs \ {t} : Cares(q, c) => Cares(q, c)'
      BY <2>2, <3>1 DEF Cares
    <3> QED
      BY <2>1, <3>1, <3>3, <3>4 DEF Cared
  <2>6. \A c \in Comments : Cares(t, c)' => Cared(c)'
    BY <1>0 DEF Cared
  <2> QED
    BY <2>1, <2>3, <2>5, <2>6 DEF CareInv
<1>16. CASE Restart
  <2>1. proc'[b].at = "roots"
    BY <1>0, <1>16, StartMoves DEF Restart
  <2> QED
    BY <1>0, <2>1 DEF CareInv, Cared, Cares
<1>17. ASSUME NEW p \in Procs, Flush(p) PROVE CareInv'
  BY <1>0, <1>17, CareFlush
<1>18. ASSUME NEW c \in Comments, Write(c) \/ EditText(c) PROVE CareInv'
  BY <1>2, <1>18 DEF Write, EditText, history
<1>19. ASSUME NEW w \in 1..Workers, JobStart(w) \/ JobEdit(w) PROVE CareInv'
  BY <1>2, <1>19 DEF JobStart, JobEdit
<1>20. CASE Refuse \/ IgnoreEdit \/ UNCHANGED vars
  BY <1>2, <1>20 DEF Refuse, IgnoreEdit, vars, history
<1> QED
  BY <1>4, <1>5, <1>6, <1>8, <1>9, <1>10, <1>11, <1>12, <1>13, <1>14, <1>15, <1>16, <1>17,
     <1>18, <1>19, <1>20, <1>c, <1>d DEF Next

----------------------------------------------------------------------------
(* Edit jobs *)

\* A comment that is sent is sent by Mark; its text changes by WriteEdit only.
LEMMA StillStep ==
  /\ TypeOK /\ HandsInv /\ RowInv /\ EditInv /\ [Next]_vars
  => WriteEdit \/ (\E p \in Procs : Mark(p)) \/ \A c \in Comments : Still(c)
<1> SUFFICES ASSUME TypeOK, HandsInv, RowInv, EditInv, [Next]_vars, ~WriteEdit,
                    \A p \in Procs : ~Mark(p)
             PROVE  \A c \in Comments : Still(c)
  OBVIOUS
<1>1. CASE UNCHANGED rows
  BY <1>1 DEF Still
<1>2. ASSUME NEW p \in Procs, Filter(p) \/ NothingSent(p)
      PROVE  \A c \in Comments : Still(c)
  BY <1>1, <1>2, FailedRows DEF Filter, NothingSent
<1>a. ASSUME NEW p \in Procs, Lookup(p) \/ Misfile(p) \/ Repair
      PROVE  \A c \in Comments : Still(c)
  BY <1>1, <1>a, LookupRows, RefiledRows
<1>3. CASE TakeNew
  <2>1. queue[1].id \in Comments
    BY <1>3, HeadTypes DEF TakeNew, HeadIs
  <2>2. PICK key \in {"post", "root"} : rows' = Inserted(queue[1].id, key, queue[1].text)
    BY <1>3 DEF TakeNew, Roots
  <2> QED
    BY <2>1, <2>2, InsertedRows
<1>4. CASE BlockEdit
  BY <1>4, FailedRows DEF BlockEdit
<1>5. CASE TakeEdit
  <2> DEFINE d == queue[1].id
  <2>1. d \in Comments
    BY <1>5, HeadTypes DEF TakeEdit, HeadIs
  <2>2. UNCHANGED rows \/ (Pending(d) /\ rows' = [rows EXCEPT ![d].text = queue[1].text])
    BY <1>5 DEF TakeEdit
  <2>3. CASE UNCHANGED rows
    BY <1>1, <2>3
  <2>4. CASE Pending(d) /\ rows' = [rows EXCEPT ![d].text = queue[1].text]
    <3> HIDE DEF d
    <3>1. /\ \A c \in Comments : rows'[c].status = rows[c].status
          /\ \A c \in Comments \ {d} : rows'[c] = rows[c]
      BY <2>1, <2>4, TextRows
    <3> QED
      BY <2>4, <3>1 DEF Still, Pending
  <2> QED
    BY <2>2, <2>3, <2>4
<1>6. CASE Repair
  BY <1>6, <1>a DEF Procs
<1>7. CASE StoreReply
  <2>1. Min(proc["trunk"].todo) \in Comments
    BY <1>7, TrunkMoves
  <2> QED
    BY <1>1, <1>7, <2>1, InsertedRows DEF StoreReply
<1>8. ASSUME NEW p \in Procs, Flush(p) PROVE \A c \in Comments : Still(c)
  BY <1>1, <1>2, <1>8, <1>a
     DEF Flush, Unmapped, NotMapped, LookupFails, Lock, Scan, ScanFails, AlbumSent, OneSent,
         AlbumError, OneError, SendFlood, MarkFails
<1> QED
  BY <1>1, <1>3, <1>4, <1>5, <1>6, <1>7, <1>8
     DEF Next, vars, Write, EditText, FlushAlbum, Refuse, IgnoreEdit, ReadForEdit, BootRoots,
         BootFails, BootNext, StoreMapping, MappingFails, FetchReplies, JobStart, JobEdit,
         Restart

\* The queue of jobs.
LEMMA QueuedIds ==
  ASSUME TypeOK
  PROVE  /\ Queued \subseteq Comments
         /\ jobs # <<>> => Head(jobs) \in Queued
<1>1. jobs \in Seq(Comments)
  BY DEF TypeOK
<1> QED
  BY <1>1 DEF Queued

LEMMA SubmitJobs ==
  ASSUME TypeOK, NEW c \in Comments, Submit(c)
  PROVE  /\ Queued \subseteq Queued' /\ Queued' \subseteq Queued \cup {c}
         /\ lost \subseteq lost' /\ (c \in Queued' \/ c \in lost')
<1>1. jobs \in Seq(Comments)
  BY DEF TypeOK
<1>2. CASE jobs' = Append(jobs, c) /\ lost' = lost
  <2>1. /\ Len(jobs') = Len(jobs) + 1 /\ Len(jobs) \in Nat
        /\ \A i \in 1..Len(jobs) : jobs'[i] = jobs[i]
        /\ jobs'[Len(jobs) + 1] = c
    BY <1>1, <1>2
  <2>2. Queued \subseteq Queued'
    BY <2>1 DEF Queued
  <2>3. Queued' \subseteq Queued \cup {c}
    BY <2>1 DEF Queued
  <2>4. c \in Queued'
    BY <2>1 DEF Queued
  <2> QED
    BY <1>2, <2>2, <2>3, <2>4
<1>3. CASE lost' = lost \cup {c} /\ jobs' = jobs
  BY <1>3 DEF Queued
<1> QED
  BY <1>2, <1>3 DEF Submit

\* A job that is taken off the queue.
LEMMA TakenJobs ==
  ASSUME TypeOK, jobs # <<>>, jobs' = Tail(jobs)
  PROVE  Queued' \subseteq Queued /\ Queued \subseteq Queued' \cup {Head(jobs)}
<1>1. jobs \in Seq(Comments)
  BY DEF TypeOK
<1>2. /\ Len(jobs') = Len(jobs) - 1 /\ Len(jobs) \in Nat
      /\ \A i \in 1..Len(jobs') : jobs'[i] = jobs[i + 1]
  BY <1>1
<1>3. Queued' \subseteq Queued
  BY <1>2 DEF Queued
<1>4. ASSUME NEW i \in 1..Len(jobs) PROVE jobs[i] \in Queued' \cup {Head(jobs)}
  <2>1. CASE i = 1
    BY <1>1, <2>1
  <2>2. CASE i # 1
    <3>1. i - 1 \in 1..Len(jobs') /\ jobs'[i - 1] = jobs[i]
      BY <1>2, <2>2
    <3> QED
      BY <3>1 DEF Queued
  <2> QED
    BY <2>1, <2>2
<1> QED
  BY <1>3, <1>4 DEF Queued

LEMMA JobStep ==
  /\ TypeOK /\ HandsInv /\ RowInv /\ EditInv /\ ShownInv /\ JobsInv /\ [Next]_vars
  => ShownInv' /\ JobsInv'
<1> SUFFICES ASSUME TypeOK, HandsInv, RowInv, EditInv, ShownInv, JobsInv, [Next]_vars
             PROVE  ShownInv' /\ JobsInv'
  OBVIOUS
<1>0. \A c \in Comments : Kept(c)
  BY RowsStep
<1>a. /\ work \in [1..Workers -> Job] /\ 0 \notin Comments
      /\ shown \in [Comments -> Nat]
  <2>1. 0 \notin Comments
    BY CommentAssumption DEF Comments
  <2> QED
    BY <2>1 DEF TypeOK
\* Nothing happens to the jobs and to what has been sent.
<1>1. ASSUME UNCHANGED <<jobs, work, shown, lost, raced>>, \A c \in Comments : Still(c)
      PROVE  ShownInv' /\ JobsInv'
  <2>1. Queued' = Queued /\ \A c \in Comments : Edited(c)' <=> Edited(c)
    BY <1>1 DEF Queued, Edited
  <2>2. ShownInv'
    <3> SUFFICES ASSUME NEW c \in Comments, rows'[c].status = "success", rows'[c].known,
                        c \notin lost \cup raced
                 PROVE  \/ c \in Queued
                        \/ \E w \in 1..Workers :
                             work[w].id = c /\ work[w].text = rows'[c].text
                        \/ ~Edited(c) /\ shown[c] = rows'[c].text
      BY <1>1, <2>1 DEF ShownInv
    <3>1. /\ rows[c].status = "success" /\ rows[c].known /\ rows'[c].text = rows[c].text
      BY <1>0, <1>1 DEF Kept, Still
    <3> QED
      BY <3>1 DEF ShownInv
  <2>3. JobsInv'
    BY <1>0, <1>1, <2>1 DEF JobsInv, Kept
  <2> QED
    BY <2>2, <2>3
\* A comment is sent, or an edit is written: a job may be submitted.
<1>2. ASSUME NEW d \in Comments,
             UNCHANGED <<work>>, raced \subseteq raced', lost \subseteq lost',
             Queued \subseteq Queued', Queued' \subseteq Queued \cup {d},
             d \in Queued' \ Queued =>
               rows'[d].status \in {"success", "failed"} \/ rows'[d].key = "other",
             \A c \in Comments \ {d} : rows'[c] = rows[c] /\ shown'[c] = shown[c],
             \/ d \in Queued' \/ d \in lost' \cup raced'
             \/ rows'[d].status # "success" \/ ~rows'[d].known
             \/ ~Edited(d) /\ shown'[d] = rows'[d].text
      PROVE  ShownInv' /\ JobsInv'
  <2>1. \A c \in Comments : Edited(c)' <=> Edited(c)
    BY <1>2 DEF Edited
  <2>2. ShownInv'
    <3> SUFFICES ASSUME NEW c \in Comments, rows'[c].status = "success", rows'[c].known,
                        c \notin lost' \cup raced'
                 PROVE  \/ c \in Queued'
                        \/ \E w \in 1..Workers :
                             work[w].id = c /\ work[w].text = rows'[c].text
                        \/ ~Edited(c) /\ shown'[c] = rows'[c].text
      BY <1>2, <2>1 DEF ShownInv
    <3>1. CASE c = d
      BY <1>2, <3>1
    <3>2. CASE c # d
      BY <1>2, <3>2 DEF ShownInv
    <3> QED
      BY <3>1, <3>2
  <2>3. JobsInv'
    <3>1. \A w, x \in 1..Workers :
            w # x /\ work'[w].id = work'[x].id /\ work'[w].id # 0 => work'[w].id \in raced'
      BY <1>2 DEF JobsInv
    <3>2. ASSUME NEW c \in Comments, c \in Queued' \/ Edited(c)
          PROVE  rows'[c].status \in {"success", "failed"} \/ rows'[c].key = "other"
      BY <1>0, <1>2, <3>2 DEF JobsInv, Kept
    <3> QED
      BY <2>1, <3>1, <3>2 DEF JobsInv
  <2> QED
    BY <2>2, <2>3
<1>3. ASSUME NEW p \in Procs, Mark(p) PROVE ShownInv' /\ JobsInv'
  <2>0. PICK d \in Comments : d = Min(proc[p].unit) /\ d \in proc[p].batch
    BY <1>3, UnitHead DEF Mark
  <2> DEFINE known == proc[p].at = "mark"
             sent == proc[p].read[d]
             found == d \in Filed("root")
             cas == found /\ rows[d].text = sent
  <2>1. /\ rows' = IF found
                   THEN [rows EXCEPT ![d].status = "success", ![d].known = known] ELSE rows
        /\ shown' = IF found THEN [shown EXCEPT ![d] = sent] ELSE shown
        /\ IF known /\ ~cas THEN Submit(d) ELSE UNCHANGED <<jobs, lost>>
        /\ UNCHANGED <<work, raced>> /\ known \in BOOLEAN
    BY <1>3, <2>0 DEF Mark
  <2>z. found <=> Pending(d) /\ rows[d].key = "root"
    BY DEF Filed
  <2> HIDE DEF known, sent, found
  <2>2. /\ Queued \subseteq Queued' /\ Queued' \subseteq Queued \cup {d} /\ lost \subseteq lost'
        /\ known /\ ~cas => d \in Queued' \/ d \in lost'
    <3>1. CASE known /\ ~cas
      BY <2>1, <3>1, SubmitJobs
    <3>2. CASE ~(known /\ ~cas)
      BY <2>1, <3>2 DEF Queued
    <3> QED
      BY <3>1, <3>2
  <2>3. CASE found
    <3>1. /\ \A c \in Comments \ {d} : rows'[c] = rows[c]
          /\ rows'[d].status = "success" /\ rows'[d].known = known
          /\ rows'[d].text = rows[d].text
      BY <2>1, <2>3, <2>z, SentRows
    <3>2. \A c \in Comments \ {d} : shown'[c] = shown[c]
      BY <1>a, <2>1, <2>3
    <3>3. shown'[d] = sent
      BY <1>a, <2>1, <2>3
    <3>4. ~Edited(d)
      BY <2>3, <2>z DEF JobsInv, Pending
    <3> QED
      BY <1>2, <2>1, <2>2, <2>3, <3>1, <3>2, <3>3, <3>4
  <2>4. CASE ~found
    <3>1. rows' = rows /\ shown' = shown
      BY <2>1, <2>4
    <3>2. rows[d].status \in {"success", "failed"} \/ rows[d].key = "other"
      <4>1. rows[d].key \in {"root", "other"} /\ rows[d] \in Row
        BY <2>0 DEF RowInv, TypeOK
      <4> QED
        BY <2>4, <2>z, <4>1 DEF RowInv, Pending, Row
    <3>3. CASE known
      BY <1>2, <2>1, <2>2, <2>4, <3>1, <3>2, <3>3
    <3>4. CASE ~known
      <4>1. UNCHANGED <<jobs, work, shown, lost, raced>>
        BY <2>1, <3>1, <3>4
      <4>2. \A c \in Comments : Still(c)
        BY <3>1 DEF Still
      <4> QED
        BY <1>1, <4>1, <4>2
    <3> QED
      BY <3>3, <3>4
  <2> QED
    BY <2>3, <2>4
<1>4. CASE WriteEdit
  <2>0. queue # <<>> /\ proc["producer"].at = "editwrite"
    BY <1>4 DEF WriteEdit, EditInv
  <2>1. PICK d \in Comments : d = queue[1].id
    BY <2>0, HeadTypes
  <2> DEFINE was == proc["producer"].was
  <2>2. /\ rows' = [rows EXCEPT ![d].text = queue[1].text]
        /\ IF was = "success" THEN Submit(d) ELSE UNCHANGED <<jobs, lost>>
        /\ raced' = IF was = "pending" THEN raced \cup {d} ELSE raced
        /\ UNCHANGED <<work, shown>>
    BY <1>4, <2>1 DEF WriteEdit
  <2>3. /\ was \in {"pending", "success", "blind", "failed"}
        /\ was \in {"success", "failed"} => rows[d].status = was
        /\ was = "blind" => rows[d].status = "success" /\ ~rows[d].known
    BY <2>0, <2>1 DEF EditInv
  <2> HIDE DEF was
  <2>4. /\ \A c \in Comments \ {d} : rows'[c] = rows[c] /\ shown'[c] = shown[c]
        /\ rows'[d].status = rows[d].status /\ rows'[d].known = rows[d].known
    BY <2>2, TextRows
  <2>5. /\ Queued \subseteq Queued' /\ Queued' \subseteq Queued \cup {d} /\ lost \subseteq lost'
        /\ was = "success" => d \in Queued' \/ d \in lost'
        /\ was # "success" => Queued' = Queued
    <3>1. CASE was = "success"
      BY <2>2, <3>1, SubmitJobs
    <3>2. CASE was # "success"
      BY <2>2, <3>2 DEF Queued
    <3> QED
      BY <3>1, <3>2
  <2>6. raced \subseteq raced' /\ (was = "pending" => d \in raced')
    BY <2>2
  <2>7. d \in Queued' \ Queued => rows'[d].status \in {"success", "failed"}
    BY <2>3, <2>4, <2>5
  <2>8. \/ d \in Queued' \/ d \in lost' \cup raced'
        \/ rows'[d].status # "success" \/ ~rows'[d].known
    BY <2>3, <2>4, <2>5, <2>6
  <2> QED
    BY <1>2, <2>2, <2>4, <2>5, <2>6, <2>7, <2>8
<1>5. ASSUME NEW v \in 1..Workers, JobStart(v) PROVE ShownInv' /\ JobsInv'
  <2>1. PICK d \in Comments : d = Head(jobs) /\ d \in Queued
    BY <1>5, QueuedIds DEF JobStart
  <2>2. /\ work[v].id = 0 /\ jobs # <<>> /\ jobs' = Tail(jobs)
        /\ \/ /\ rows[d].status = "success" /\ rows[d].known
              /\ work' = [work EXCEPT ![v] = [id |-> d, text |-> rows[d].text]]
           \/ ~(rows[d].status = "success" /\ rows[d].known) /\ work' = work
        /\ raced' = IF Edited(d) THEN raced \cup {d} ELSE raced
        /\ UNCHANGED <<rows, shown, lost>>
    BY <1>5, <2>1 DEF JobStart, Edited
  <2>3. Queued' \subseteq Queued /\ Queued \subseteq Queued' \cup {d}
    BY <2>1, <2>2, TakenJobs
  <2>4. /\ \A w \in (1..Workers) \ {v} : work'[w] = work[w]
        /\ \/ work'[v] = work[v] /\ ~(rows[d].status = "success" /\ rows[d].known)
           \/ work'[v].id = d /\ work'[v].text = rows[d].text
    <3>1. CASE ~(rows[d].status = "success" /\ rows[d].known)
      BY <2>2, <3>1
    <3>2. CASE work' = [work EXCEPT ![v] = [id |-> d, text |-> rows[d].text]]
      <4>1. work'[v] = [id |-> d, text |-> rows[d].text]
        BY <1>a, <3>2
      <4>2. \A w \in (1..Workers) \ {v} : work'[w] = work[w]
        BY <1>a, <3>2
      <4> QED
        BY <4>1, <4>2
    <3> QED
      BY <2>2, <3>1, <3>2
  <2>5. \A c \in Comments \ {d} :
          /\ Edited(c)' <=> Edited(c)
          /\ \A w \in 1..Workers : work[w].id = c => work'[w] = work[w]
    BY <1>a, <2>2, <2>4 DEF Edited
  <2>6. rows[d].status \in {"success", "failed"} \/ rows[d].key = "other"
    BY <2>1 DEF JobsInv
  <2>7. ShownInv'
    <3> SUFFICES ASSUME NEW c \in Comments, rows[c].status = "success", rows[c].known,
                        c \notin lost \cup raced'
                 PROVE  \/ c \in Queued'
                        \/ \E w \in 1..Workers :
                             work'[w].id = c /\ work'[w].text = rows[c].text
                        \/ ~Edited(c)' /\ shown[c] = rows[c].text
      BY <2>2 DEF ShownInv
    <3>1. CASE c = d
      BY <2>4, <3>1
    <3>2. CASE c # d
      <4>1. c \notin lost \cup raced
        BY <2>2
      <4>2. \/ c \in Queued
            \/ \E w \in 1..Workers : work[w].id = c /\ work[w].text = rows[c].text
            \/ ~Edited(c) /\ shown[c] = rows[c].text
        BY <4>1 DEF ShownInv
      <4> QED
        BY <2>3, <2>5, <3>2, <4>2
    <3> QED
      BY <3>1, <3>2
  <2>8. JobsInv'
    <3>1. ASSUME NEW w \in 1..Workers, NEW x \in 1..Workers, w # x,
                 work'[w].id = work'[x].id, work'[w].id # 0
          PROVE  work'[w].id \in raced'
      <4>1. CASE work' = work
        BY <2>2, <3>1, <4>1 DEF JobsInv
      <4>2. CASE work' # work /\ work'[w].id = d
        <5>1. \E y \in 1..Workers : work[y].id = d
          BY <2>4, <3>1, <4>2
        <5> QED
          BY <2>2, <4>2, <5>1 DEF Edited
      <4>3. CASE work' # work /\ work'[w].id # d
        <5>1. work'[w] = work[w] /\ work'[x] = work[x]
          BY <2>2, <2>4, <3>1, <4>3
        <5> QED
          BY <2>2, <3>1, <5>1 DEF JobsInv
      <4> QED
        BY <4>1, <4>2, <4>3
    <3>2. ASSUME NEW c \in Comments, c \in Queued' \/ Edited(c)'
          PROVE  rows'[c].status \in {"success", "failed"} \/ rows'[c].key = "other"
      <4>1. CASE c = d
        BY <2>2, <2>6, <4>1
      <4>2. CASE c # d
        <5>1. c \in Queued \/ Edited(c)
          BY <2>3, <2>5, <3>2, <4>2
        <5> QED
          BY <2>2, <5>1 DEF JobsInv
      <4> QED
        BY <4>1, <4>2
    <3> QED
      BY <3>1, <3>2 DEF JobsInv
  <2> QED
    BY <2>7, <2>8
<1>6. ASSUME NEW v \in 1..Workers, JobEdit(v) PROVE ShownInv' /\ JobsInv'
  <2>1. PICK d \in Comments : d = work[v].id
    BY <1>a, <1>6 DEF JobEdit, Job
  <2>2. /\ \/ shown' = [shown EXCEPT ![d] = work[v].text] /\ lost' = lost
           \/ lost' = lost \cup {d} /\ shown' = shown
        /\ work' = [work EXCEPT ![v] = [id |-> 0, text |-> 0]]
        /\ UNCHANGED <<rows, jobs, raced>>
    BY <1>6, <2>1 DEF JobEdit
  <2>3. Queued' = Queued
    BY <2>2 DEF Queued
  <2>4. work'[v].id = 0 /\ \A w \in (1..Workers) \ {v} : work'[w] = work[w]
    BY <1>a, <2>2
  <2>5. \A c \in Comments \ {d} :
          /\ shown'[c] = shown[c]
          /\ Edited(c)' <=> Edited(c)
          /\ \A w \in 1..Workers : work[w].id = c => work'[w] = work[w]
    <3>1. \A c \in Comments \ {d} : shown'[c] = shown[c]
      BY <1>a, <2>2
    <3>2. \A c \in Comments \ {d} : Edited(c)' <=> Edited(c)
      BY <1>a, <2>1, <2>4 DEF Edited
    <3> QED
      BY <2>1, <2>4, <3>1, <3>2
  <2>6. ShownInv'
    <3> SUFFICES ASSUME NEW c \in Comments, rows[c].status = "success", rows[c].known,
                        c \notin lost' \cup raced
                 PROVE  \/ c \in Queued
                        \/ \E w \in 1..Workers :
                             work'[w].id = c /\ work'[w].text = rows[c].text
                        \/ ~Edited(c)' /\ shown'[c] = rows[c].text
      BY <2>2, <2>3 DEF ShownInv
    <3>1. c \notin lost \cup raced
      BY <2>2
    <3>2. \/ c \in Queued
          \/ \E w \in 1..Workers : work[w].id = c /\ work[w].text = rows[c].text
          \/ ~Edited(c) /\ shown[c] = rows[c].text
      BY <3>1 DEF ShownInv
    <3>3. CASE c = d
      <4>1. \A w \in 1..Workers : work[w].id = d => w = v
        BY <1>a, <2>1, <3>1, <3>3 DEF JobsInv
      <4>2. CASE c \in Queued
        BY <4>2
      <4>3. CASE c \notin Queued
        <5>1. work[v].text = rows[c].text
          BY <2>1, <3>2, <3>3, <4>1, <4>3 DEF Edited
        <5>2. shown'[c] = rows[c].text
          BY <1>a, <2>2, <3>3, <5>1
        <5>3. ~Edited(c)'
          BY <1>a, <2>4, <3>3, <4>1 DEF Edited
        <5> QED
          BY <5>2, <5>3
      <4> QED
        BY <4>2, <4>3
    <3>4. CASE c # d
      <4>1. /\ Edited(c)' <=> Edited(c)
            /\ shown'[c] = shown[c]
            /\ \A w \in 1..Workers : work[w].id = c => work'[w] = work[w]
        BY <2>5, <3>4
      <4> QED
        BY <2>3, <3>2, <4>1
    <3> QED
      BY <3>3, <3>4
  <2>7. JobsInv'
    <3>1. ASSUME NEW w \in 1..Workers, NEW x \in 1..Workers, w # x,
                 work'[w].id = work'[x].id, work'[w].id # 0
          PROVE  work'[w].id \in raced'
      <4>1. work'[w] = work[w] /\ work'[x] = work[x]
        BY <2>4, <3>1
      <4> QED
        BY <2>2, <3>1, <4>1 DEF JobsInv
    <3>2. \A c \in Comments : Edited(c)' => Edited(c)
      BY <1>a, <2>4 DEF Edited
    <3> QED
      BY <2>2, <2>3, <3>1, <3>2 DEF JobsInv
  <2> QED
    BY <2>6, <2>7
<1>7. CASE Restart
  <2>1. /\ jobs' = <<>> /\ work' = Resting /\ UNCHANGED <<rows, shown, raced>>
        /\ lost' = lost \cup Queued \cup ({work[w].id : w \in 1..Workers} \ {0})
    BY <1>7 DEF Restart
  <2>2. \A w \in 1..Workers : work'[w].id = 0
    BY <2>1 DEF Resting
  <2>3. Queued' = {} /\ \A c \in Comments : ~Edited(c)'
    BY <1>a, <2>1, <2>2 DEF Queued, Edited
  <2>4. \A c \in Comments : c \notin lost' => c \notin lost \cup Queued /\ ~Edited(c)
    BY <1>a, <2>1 DEF Edited
  <2>5. ShownInv'
    BY <2>1, <2>3, <2>4 DEF ShownInv, Edited
  <2> QED
    BY <2>2, <2>3, <2>5 DEF JobsInv
<1>8. CASE /\ ~WriteEdit /\ ~Restart /\ \A p \in Procs : ~Mark(p)
           /\ \A w \in 1..Workers : ~JobStart(w) /\ ~JobEdit(w)
  <2>1. \A c \in Comments : Still(c)
    BY <1>8, StillStep
  <2>2. UNCHANGED <<jobs, work, shown, lost, raced>>
    BY <1>8
       DEF Next, vars, edit, history, Flush, Unmapped, Lookup, Misfile, LookupFails,
           NotMapped, Lock, Scan, ScanFails, Filter, AlbumSent, OneSent, NothingSent, AlbumError, OneError, SendFlood,
           MarkFails, Write, EditText, FlushAlbum, Refuse, TakeNew, IgnoreEdit, BlockEdit,
           TakeEdit, ReadForEdit, BootRoots, BootFails, BootNext, StoreMapping,
           MappingFails, Repair, FetchReplies, StoreReply
  <2> QED
    BY <1>1, <2>1, <2>2
<1> QED
  BY <1>3, <1>4, <1>5, <1>6, <1>7, <1>8

----------------------------------------------------------------------------
(* The theorems *)

LEMMA InitHolds == Init => CommentInv /\ CareInv
<1> SUFFICES ASSUME Init PROVE CommentInv /\ CareInv
  OBVIOUS
<1>1. TypeOK
  BY TypeInit
<1>2. /\ rows = None(NoRow) /\ copies = None(0) /\ shown = None(0) /\ proc = Started
      /\ lock = "free" /\ jobs = <<>> /\ work = Resting /\ queue = <<>> /\ mapped = FALSE
  BY DEF Init
<1>3. \A c \in Comments : rows[c].status = "none" /\ rows[c].key = "" /\ copies[c] = 0
  BY <1>2 DEF None, NoRow
<1>4. HandsInv
  <2>1. \A p \in Procs : Hand(p, Started[p].at, Started[p].key, Started[p].keys,
          Started[p].todo, Started[p].batch, Started[p].unit)
    BY StartMoves DEF Hand
  <2> QED
    BY <1>2, <2>1 DEF HandsInv, HandOf
<1>5. LockInv
  <2>1. \A p \in Procs : ~Holds(Started[p].at) /\ p # "free"
    BY StartMoves DEF Holds, Procs
  <2> QED
    BY <1>2, <2>1 DEF LockInv
<1>6. \A p \in Procs : proc[p].batch = {}
  BY <1>2, StartMoves
<1>7. RowInv /\ CopyInv
  <2>1. RowInv
    BY <1>3, <1>6 DEF RowInv
  <2>2. CopyInv
    <3>1. ASSUME NEW c \in Comments PROVE copies[c] <= 1 /\ copies[c] # 1
      <4>1. copies[c] = 0
        BY <1>3
      <4> QED
        BY <4>1
    <3> QED
      BY <1>6, <3>1 DEF CopyInv
  <2> QED
    BY <2>1, <2>2
<1>8. EditInv
  <2>1. proc["producer"].at = "idle"
    BY <1>2, StartMoves DEF Procs
  <2> QED
    BY <2>1 DEF EditInv
<1>9. CareInv /\ ShownInv
  BY <1>2, <1>3 DEF CareInv, ShownInv
<1>10. JobsInv
  <2>1. /\ Queued = {} /\ \A w \in 1..Workers : work[w].id = 0
        /\ \A c \in Comments : c # 0
    BY <1>2, CommentAssumption DEF Queued, Resting, Comments
  <2> QED
    BY <2>1 DEF JobsInv, Edited
<1> QED
  BY <1>1, <1>4, <1>5, <1>7, <1>8, <1>9, <1>10 DEF CommentInv

LEMMA StepHolds == CommentInv /\ [Next]_vars => CommentInv'
<1> SUFFICES ASSUME CommentInv, [Next]_vars PROVE CommentInv'
  OBVIOUS
<1>1. /\ TypeOK /\ HandsInv /\ LockInv /\ RowInv /\ EditInv /\ CopyInv
      /\ ShownInv /\ JobsInv
  BY DEF CommentInv
<1>2. TypeOK' /\ HandsInv' /\ LockInv' /\ RowInv' /\ EditInv'
  BY <1>1, TypeStep, HandsStep, LockStep, RowStep, EditStep
<1>3. CopyInv' /\ ShownInv' /\ JobsInv'
  BY <1>1, CopyStep, JobStep
<1> QED
  BY <1>2, <1>3 DEF CommentInv

\* Whatever the comments, the albums, the batches and the limits, and however the
\* flushes, edits and restarts interleave, the inductive invariant holds.
THEOREM CommentInvHolds == Spec => []CommentInv
<1>1. Init => CommentInv
  BY InitHolds
<1> QED
  BY <1>1, StepHolds, PTL DEF Spec

\* The queue, the rows, the goroutines and the pool only ever hold what they may.
THEOREM CommentTypeCorrect == Spec => []TypeOK
<1>1. CommentInv => TypeOK
  BY DEF CommentInv
<1> QED
  BY <1>1, CommentInvHolds, PTL

\* A comment is mirrored once, and once more only after an arrival that could not
\* be marked, which is so too when its row was filed under another root while it
\* was sent (comment_pending_send.go): one flush at a time has it in its batch, and
\* what was marked is never pending again.
THEOREM CommentsAreMirroredOnce == Spec => []MirroredOnce
<1>1. CommentInv => MirroredOnce
  BY DEF CommentInv, CopyInv, MirroredOnce
<1> QED
  BY <1>1, CommentInvHolds, PTL

\* The mirrored comment shows the payload of its row once no job of it is left,
\* but for a lost job and the two known races (comment.go, comment_edit.go).
THEOREM CommentEditsReach == Spec => []EditsReach
<1>1. CommentInv => EditsReach
  BY DEF CommentInv, ShownInv, Edited, EditsReach
<1> QED
  BY <1>1, CommentInvHolds, PTL

\* No comment is forgotten, provided that no other comment lies between the parts
\* of an album: with the roots mapped and everyone at rest, what is pending met an
\* error, or a rule that was off, which left it for a later flush, or was taken for
\* a comment of another post (comment.go, comment_pending_send.go).
THEOREM NoCommentIsForgotten ==
  ASSUME AlbumsTogether
  PROVE  Spec => []NotStranded
<1>1. Init => CareInv
  BY InitHolds
<1>2. CommentInv /\ CareInv /\ [Next]_vars => CareInv'
  BY CareStep DEF CommentInv
<1>3. CommentInv /\ CareInv => NotStranded
  <2> SUFFICES ASSUME CommentInv, CareInv, Settled, mapped,
                      NEW c \in Comments, Pending(c), c \notin gaveUp,
                      rows[c].key # "other"
               PROVE  FALSE
    BY DEF NotStranded
  <2>1. rows[c].key # "" /\ album = ""
    BY DEF CommentInv, RowInv, Pending, Settled
  <2>2. PICK p \in Procs : Cares(p, c)
    BY <2>1 DEF CareInv, Owed, Cared
  <2>3. proc[p].at = "idle" /\ HandOf(p)
    BY DEF Settled, CommentInv, HandsInv
  <2>4. p = "boot" /\ rows[c].key \in proc[p].keys
    BY <2>2, <2>3 DEF Cares, Holds
  <2> QED
    BY <2>3, <2>4 DEF HandOf, Hand
<1> QED
  BY <1>1, <1>2, <1>3, CommentInvHolds, PTL DEF Spec

=============================================================================
