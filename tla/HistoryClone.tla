---------------------------- MODULE HistoryClone ----------------------------
(***************************************************************************)
(* The history clone of one task (engine/history.go): the channel's        *)
(* history is read page by page, oldest or newest first, each message or   *)
(* album is filtered or sent, and after each the cursor is written to the  *)
(* tasks row, from which the next run resumes.  In newest-first order a    *)
(* run starts by catching up with what is newer than history_max_id.       *)
(*                                                                         *)
(* Every request to Telegram and every database statement is a step; a     *)
(* run may be interrupted (pause, stop, crash) between any two.  Waiting   *)
(* for the quota changes nothing here.  Message ids count posts; `clones'  *)
(* before the schema had history_max_id are not among the initial rows.    *)
(***************************************************************************)
EXTENDS Integers, FiniteSets, FiniteSetsExt

CONSTANTS
  LastId,        \* bound: messages 1..LastId are posted
  Albums,        \* sets of messages that share a grouped_id
  Services,      \* service messages: in the history, but not a *tg.Message
  PageLimit,     \* defaultHistoryPageSize
  Orders,        \* subset of {"old", "new"}: the values of HistoryOrder
  Scopes,        \* values of historyBounds: [min, max, count], 0 is no bound
  Retries,       \* defaultProcessRetries
  FallbackWindow,\* defaultCatchUpFallbackWindow
  CatchUpLimit,  \* the 10_000 of catchUpNewMessagesNewToOld
  Starts         \* bound: how often the task is started

Messages == 1..LastId

ASSUME HistoryAssumption ==
  /\ LastId \in Nat /\ PageLimit \in Nat \ {0} /\ Retries \in Nat \ {0}
  /\ FallbackWindow \in Nat /\ CatchUpLimit \in Nat /\ Starts \in Nat
  /\ Services \subseteq Messages
  /\ \A a \in Albums : a \subseteq Messages
  /\ Orders \subseteq {"old", "new"}
  /\ Scopes \subseteq [min : Nat, max : Nat, count : Nat]
  /\ \A s \in Scopes : s.min <= s.max /\ (s.min = 0 => s.max = 0)

VARIABLES
  order,      \* task.HistoryOrder
  scope,      \* parseHistoryBounds(task)
  posted,     \* the newest message of the source channel
  row,        \* the tasks row: history_cursor and history_max_id
  run,        \* the clone: where it is and its local variables
  starts,     \* how often the task was started
  handled,    \* history: messages sent, filtered or given up at least once
  sent,       \* history: how often a message arrived at the target
  torn,       \* history: how often it arrived without the cursor following
  due,        \* history: the newest message when the task was last started
  headless    \* history: some start found a maximum but no cursor

task    == <<order, scope>>
history == <<handled, sent, torn, due, headless>>
vars    == <<order, scope, posted, row, run, starts, history>>
-----------------------------------------------------------------------------
Idle == {"off", "done", "failed"}

Runs ==
  [at : Idle \cup {"page", "maxid", "unit", "send", "persist"},
   phase : {"catchup", "old", "new"}, cursor : Nat, first : BOOLEAN,
   page : SUBSET Messages, unit : SUBSET Messages, tries : 0..Retries,
   arrived : BOOLEAN, processed : Nat,
   latest : 0..LastId, since : 0..LastId, maxSeen : 0..LastId]

NoRun ==
  [at |-> "off", phase |-> "old", cursor |-> 0, first |-> FALSE,
   page |-> {}, unit |-> {}, tries |-> 0, arrived |-> FALSE, processed |-> 0,
   latest |-> 0, since |-> 0, maxSeen |-> 0]

TypeOK ==
  /\ order \in {"old", "new"} /\ scope \in Scopes
  /\ posted \in 0..LastId /\ due \in 0..LastId /\ starts \in Nat
  /\ row \in [cursor : Nat, max : 0..LastId] /\ run \in Runs
  /\ handled \subseteq Messages /\ headless \in BOOLEAN
  /\ sent \in [Messages -> Nat] /\ torn \in [Messages -> Nat]

Init ==
  /\ order \in Orders /\ scope \in Scopes
  /\ posted = 0 /\ row = [cursor |-> 0, max |-> 0]
  /\ run = NoRun /\ starts = 0
  /\ handled = {} /\ due = 0 /\ headless = FALSE
  /\ sent = [m \in Messages |-> 0] /\ torn = [m \in Messages |-> 0]

\* Telegram: a message is posted.
Post ==
  /\ posted < LastId
  /\ posted' = posted + 1
  /\ UNCHANGED <<task, row, run, starts, history>>
-----------------------------------------------------------------------------
(* Where a phase starts. *)

Smaller(a, b) == IF a < b THEN a ELSE b
Larger(a, b)  == IF a > b THEN a ELSE b

\* getLatestRemoteMessageID asks for one message and drops it if it is a service
\* message: then there is no latest one.
Latest == IF posted \in Services THEN 0 ELSE posted

\* catchUpNewMessagesNewToOld: what is newer than history_max_id.
Since == IF row.max > 0 THEN row.max ELSE Larger(Latest - FallbackWindow, 0)
CatchUpStart ==
  [NoRun EXCEPT !.at = "page", !.phase = "catchup", !.latest = Latest, !.since = Since,
                !.cursor = Larger(Since, 1), !.first = Since <= 0, !.maxSeen = row.max]

\* cloneHistoryOldToNew goes on from the cursor, or from the first message.
OldToNewStart ==
  LET low == IF scope.min > 0 THEN Larger(row.cursor, scope.min - 1) ELSE row.cursor IN
  [NoRun EXCEPT !.at = "page", !.phase = "old", !.cursor = Larger(low, 1), !.first = low <= 0]

\* mutant: the bound is taken as the offset, which leaves its own message out
NewToOldStartAtMax(max) ==
  [NoRun EXCEPT !.at = "page", !.phase = "new", !.maxSeen = max,
                !.cursor = IF row.cursor <= 0 THEN scope.max ELSE row.cursor]

\* cloneHistoryNewToOld goes on from the cursor, or from the newest message, with
\* the history_max_id the run has read: what its catch-up wrote is not in it.
NewToOldStart(max) ==
  [NoRun EXCEPT !.at = "page", !.phase = "new", !.maxSeen = max,
                !.cursor = IF row.cursor <= 0 /\ scope.max > 0 THEN scope.max + 1 ELSE row.cursor]

CloneStart(max) == IF order = "old" THEN OldToNewStart ELSE NewToOldStart(max)

CatchesUp == order = "new" /\ (row.max > 0 \/ row.cursor > 0) /\ Latest > Since

\* CloneHistoryWithPeers, with the row as the run has read it.
Start ==
  /\ run.at \in Idle /\ starts < Starts
  /\ starts' = starts + 1
  /\ run' = IF CatchesUp THEN CatchUpStart ELSE CloneStart(row.max)
  /\ due' = posted
  /\ headless' = (headless \/ (order = "new" /\ row.max > 0 /\ row.cursor = 0))
  /\ UNCHANGED <<task, posted, row, handled, sent, torn>>
-----------------------------------------------------------------------------
(* Pages: a request for at most n messages next to the cursor.  The guards of  *)
(* the loop end the phase, and so does a page without a message to deal with,  *)
(* also when the history goes on behind it.                                    *)

Ascending(ids, n)  == {m \in ids : Cardinality({k \in ids : k < m}) < n}
Descending(ids, n) == {m \in ids : Cardinality({k \in ids : k > m}) < n}

PageSize == IF scope.count > 0 THEN Smaller(scope.count, PageLimit) ELSE PageLimit
Left     == IF scope.count > 0 THEN Smaller(PageSize, scope.count - run.processed) ELSE PageSize
Enough   == scope.count > 0 /\ run.processed >= scope.count

\* mutant: every request takes the cursor's own message in
FromSelf == run.cursor - 1

\* The first request takes the cursor's own message in.
From == IF run.first THEN run.cursor - 1 ELSE run.cursor

Asking(phase) == run.at = "page" /\ run.phase = phase

CatchUpPage ==
  LET page == Ascending({m \in Messages : m > From /\ m <= run.latest}, PageSize)
      todo == {m \in page \ Services : m > run.since}
  IN /\ Asking("catchup")
     /\ run' = IF \/ run.cursor >= run.latest \/ run.processed > CatchUpLimit
                  \/ todo = {}
               THEN CloneStart(run.maxSeen)
               ELSE [run EXCEPT !.at = "unit", !.first = FALSE, !.page = todo]
     /\ UNCHANGED <<task, posted, row, starts, history>>

\* mutant: an empty page is asked for again
OldToNewPageAgain ==
  LET ids  == {m \in Messages : m > From /\ m <= posted /\ (scope.max > 0 => m <= scope.max)}
      todo == {m \in Ascending(ids, Left) \ Services : scope.min > 0 => m >= scope.min}
  IN /\ Asking("old")
     /\ run' = CASE Enough \/ (scope.max > 0 /\ run.cursor >= scope.max) -> [NoRun EXCEPT !.at = "done"]
                 [] todo = {} -> run
                 [] OTHER -> [run EXCEPT !.at = "unit", !.first = FALSE,
                                         !.page = todo]
     /\ UNCHANGED <<task, posted, row, starts, history>>

OldToNewPage ==
  LET ids  == {m \in Messages : m > From /\ m <= posted /\ (scope.max > 0 => m <= scope.max)}
      todo == {m \in Ascending(ids, Left) \ Services : scope.min > 0 => m >= scope.min}
  IN /\ Asking("old")
     /\ run' = IF Enough \/ (scope.max > 0 /\ run.cursor >= scope.max) \/ todo = {}
               THEN [NoRun EXCEPT !.at = "done"]
               ELSE [run EXCEPT !.at = "unit", !.first = FALSE, !.page = todo]
     /\ UNCHANGED <<task, posted, row, starts, history>>

\* Newest first, the largest id is written before its page is worked on.
NewToOldPage ==
  LET ids  == {m \in Messages : /\ m <= posted /\ (run.cursor > 0 => m < run.cursor)
                                /\ (scope.min > 0 => m >= scope.min)
                                /\ (scope.max > 0 => m <= scope.max)}
      todo == Descending(ids, Left) \ Services
  IN /\ Asking("new")
     /\ run' = IF Enough \/ (scope.min > 0 /\ run.cursor <= scope.min) \/ todo = {}
               THEN [NoRun EXCEPT !.at = "done"]
               ELSE [run EXCEPT !.at = IF Max(todo) > run.maxSeen THEN "maxid" ELSE "unit",
                                !.maxSeen = Larger(@, Max(todo)),
                                !.page = todo]
     /\ UNCHANGED <<task, posted, row, starts, history>>

FetchPage == CatchUpPage \/ OldToNewPage \/ NewToOldPage

PersistMaxID ==
  /\ run.at = "maxid"
  /\ row' = [row EXCEPT !.max = Larger(@, run.maxSeen)]
  /\ run' = [run EXCEPT !.at = "unit"]
  /\ UNCHANGED <<task, posted, starts, history>>
-----------------------------------------------------------------------------
(* Units: a message, or the parts of an album that lie side by side.  The      *)
(* filters let a unit through, or it is dealt with as filtered.                *)

SameAlbum(a, b) == \E al \in Albums : a \in al /\ b \in al

\* A page is worked on in the order of its phase; Head is the next message.
Precedes(a, b) == IF run.phase = "new" THEN a >= b ELSE a <= b
Head    == CHOOSE h \in run.page : \A m \in run.page : Precedes(h, m)
Grouped == \E al \in Albums : Head \in al
Parts ==
  {m \in run.page : \A k \in run.page : Precedes(k, m) => SameAlbum(Head, k)}

Working(phase) == run.at = "unit" /\ run.phase = phase

Take(unit) ==
  /\ \E next \in {"send", "persist"} :
       /\ run' = [run EXCEPT !.at = next, !.unit = unit, !.tries = 0, !.arrived = FALSE]
       /\ handled' = IF next = "persist" THEN handled \cup unit ELSE handled
  /\ UNCHANGED <<task, posted, row, starts, sent, torn, due, headless>>

CatchUpAlbum   == Working("catchup") /\ Grouped  /\ Take(Parts)
CatchUpSingle  == Working("catchup") /\ ~Grouped /\ Take({Head})
OldToNewAlbum  == Working("old") /\ Grouped  /\ Take(Parts)
OldToNewSingle == Working("old") /\ ~Grouped /\ Take({Head})
NewToOldAlbum  == Working("new") /\ Grouped  /\ Take(Parts)
NewToOldSingle == Working("new") /\ ~Grouped /\ Take({Head})

TakeUnit == \/ CatchUpAlbum \/ CatchUpSingle \/ OldToNewAlbum \/ OldToNewSingle
            \/ NewToOldAlbum \/ NewToOldSingle

Bumped(f, ms) == [m \in Messages |-> IF m \in ms THEN f[m] + 1 ELSE f[m]]

\* processWithRetry: the attempt succeeds (an unsupported medium counts as such).
SendOk ==
  /\ run.at = "send" /\ run.tries < Retries
  /\ \E arrives \in BOOLEAN :
       /\ run' = [run EXCEPT !.at = "persist", !.arrived = arrives]
       /\ sent' = IF arrives THEN Bumped(sent, run.unit) ELSE sent
  /\ handled' = handled \cup run.unit
  /\ UNCHANGED <<task, posted, row, starts, torn, due, headless>>

\* ErrMediaDownload: the unit is given up and passed.
SendSkipped ==
  /\ run.at = "send" /\ run.tries < Retries
  /\ run' = [run EXCEPT !.at = "persist"]
  /\ handled' = handled \cup run.unit
  /\ UNCHANGED <<task, posted, row, starts, sent, torn, due, headless>>

\* mutant: the attempts are not counted against the limit
SendAgainAlways ==
  /\ run.at = "send"
  /\ run' = [run EXCEPT !.tries = @ + 1]
  /\ UNCHANGED <<task, posted, row, starts, history>>

\* A transient error is tried again; the answer may be what got lost.
SendAgain ==
  /\ run.at = "send" /\ run.tries < Retries
  /\ run' = [run EXCEPT !.tries = @ + 1]
  /\ \E arrives \in BOOLEAN :
       /\ sent' = IF arrives THEN Bumped(sent, run.unit) ELSE sent
       /\ torn' = IF arrives THEN Bumped(torn, run.unit) ELSE torn
       /\ handled' = IF arrives THEN handled \cup run.unit ELSE handled
  /\ UNCHANGED <<task, posted, row, starts, due, headless>>

\* Any other error, or the retries used up: the clone fails at this unit.
SendFails ==
  /\ run.at = "send"
  /\ run' = [NoRun EXCEPT !.at = "failed"]
  /\ UNCHANGED <<task, posted, row, starts, history>>

\* The cursor after the unit, what it leaves of the page, and the row it makes.
Persisted(reached, newRow) ==
  LET rest == run.page \ run.unit IN
  /\ row' = newRow
  /\ run' = [run EXCEPT !.at = IF rest = {} THEN "page" ELSE "unit", !.page = rest,
                        !.cursor = reached, !.processed = @ + Cardinality(run.unit),
                        !.unit = {}, !.arrived = FALSE]
  /\ UNCHANGED <<task, posted, starts, history>>

Settling(phase) == run.at = "persist" /\ run.phase = phase

\* mutant: the newest message seen is written with the first unit
CatchUpPersistLatest ==
  /\ Settling("catchup")
  /\ Persisted(Max(run.unit), [row EXCEPT !.max = Larger(@, run.latest)])

CatchUpPersist ==
  /\ Settling("catchup")
  /\ Persisted(Max(run.unit), [row EXCEPT !.max = Larger(@, Max(run.unit))])

OldToNewPersist ==
  /\ Settling("old")
  /\ Persisted(Max(run.unit), [cursor |-> Max(run.unit), max |-> Larger(row.max, Max(run.unit))])

NewToOldPersist ==
  /\ Settling("new")
  /\ Persisted(Min(run.unit), [row EXCEPT !.cursor = Min(run.unit)])

Persist == CatchUpPersist \/ OldToNewPersist \/ NewToOldPersist

\* An interruption or an error after the unit arrived and before the write.
Torn == IF run.at = "persist" /\ run.arrived THEN Bumped(torn, run.unit) ELSE torn

\* quotaAdd or the write itself returns an error.
PersistFails ==
  /\ run.at \in {"persist", "maxid"}
  /\ run' = [NoRun EXCEPT !.at = "failed"]
  /\ torn' = Torn
  /\ UNCHANGED <<task, posted, row, starts, handled, sent, due, headless>>

\* Pause, stop or crash of the process, or a request to Telegram that fails.
Interrupt ==
  /\ run.at \notin Idle
  /\ run' = NoRun
  /\ torn' = Torn
  /\ UNCHANGED <<task, posted, row, starts, handled, sent, due, headless>>
-----------------------------------------------------------------------------
Clone == FetchPage \/ PersistMaxID \/ TakeUnit \/ SendOk \/ SendSkipped \/ SendAgain
         \/ SendFails \/ Persist \/ PersistFails
Next  == Post \/ Start \/ Clone \/ Interrupt

Spec == Init /\ [][Next]_vars

\* The goroutine of the clone runs on; nobody need post or start anything.
FairSpec == Spec /\ WF_vars(Clone)
-----------------------------------------------------------------------------
InScope == {m \in Messages \ Services :
              (scope.min > 0 => m >= scope.min) /\ (scope.max > 0 => m <= scope.max)}

\* The messages the next run will not look at again.
Window ==
  IF order = "old" THEN {m \in InScope : m <= row.cursor}
  ELSE {m \in InScope : row.cursor > 0 /\ row.cursor <= m /\ m <= row.max}

\* The clone is a ResumableCopy: however it is interrupted and resumed, in either
\* order, the persisted cursor and maximum never enclose a message that no run
\* has dealt with.
Copies == INSTANCE ResumableCopy WITH Items <- Messages, copied <- handled, window <- Window
CloneCopies == Copies!Spec

\* A message arrives twice only after its arrival went without the cursor's
\* (a lost answer, a crash or an error in between), unless a newest-first clone
\* was interrupted before it had a cursor: that one starts over.
ResentOnlyIfTorn == \A m \in Messages : sent[m] <= 1 + torn[m] \/ headless

\* A clone without a count bound that says it is through has dealt with every
\* message in scope that was there when it started.  A whole page of service
\* messages stops it early, so there must be none; and a newest-first clone that
\* finds a service message as the newest one does not look above what
\* history_max_id covers.
NoServicePage == \A m \in Messages : ~(m..(m + PageLimit - 1) \subseteq Services)
Blind == order = "new" /\ due \in Services
DoneMeansComplete ==
  run.at = "done" /\ scope.count = 0 /\ NoServicePage
    => \A m \in InScope : m <= due /\ (Blind => m <= row.max) => m \in handled

\* history.go:119-120, of the newest-first order: a clone that is started again
\* catches up with the newest messages first.  Not if a service message is the
\* newest: the messages below it stay out until somebody posts another one.
CaughtUp ==
  run.at = "done" /\ order = "new" /\ scope.count = 0 /\ NoServicePage
    => \A m \in InScope : m <= due => m \in handled

\* A clone that is not interrupted comes to an end.
CloneEnds == run.at = "page" ~> run.at \in {"done", "failed", "off"}
=============================================================================
