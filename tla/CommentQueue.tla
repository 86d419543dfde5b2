---------------------------- MODULE CommentQueue ----------------------------
(***************************************************************************)
(* Comment mirroring of one task and one channel post: the comments under  *)
(* the post are queued in the task's SQLite file and copied under the      *)
(* mirrored post once the mapping of the two discussion roots is known.    *)
(*                                                                         *)
(* Three goroutines flush the queue, one at a time (sendMu):               *)
(*   producer  comment.go: the events of new and edited comments           *)
(*   boot      comment.go: what an earlier run left pending                *)
(*   trunk     producer.go: the relay or the clone that copied the post    *)
(* and up to Workers jobs of the edit pool bring later edits over.  Every  *)
(* SQL statement and every request to Telegram is a step.                  *)
(*                                                                         *)
(* A comment is filed under the discussion root, or under the id of the    *)
(* channel post when the root could not be resolved at first.  Both are    *)
(* plain numbers of two chats: a root that is not mapped may be taken for  *)
(* a post, and a post for a root, of another discussion.  A row that is    *)
(* filed there ("other") is not followed any further: it is sent under the *)
(* other post or stays.  A text is its version.  Which reply a comment is  *)
(* attached to is left out; so is a replaced run that is still sending     *)
(* when the next one starts.                                               *)
(***************************************************************************)
EXTENDS Integers, FiniteSets, Sequences, FiniteSetsExt

CONSTANTS
  LastId,     \* bound: the comments are 1..LastId
  Albums,     \* the sets of comments that may share a grouped_id
  QueueLimit, \* the 512 of newCommentProducerTask
  BatchSize,  \* commentScanBatchSize
  Workers,    \* the 4 workers of commentEditPool
  JobLimit,   \* its queue of 512
  Mix,        \* bound: the pairs of how many comments and how many edits there may be
  Restarts    \* bound: how often the run ends and starts again

Comments == 1..LastId
Procs    == {"producer", "boot", "trunk"}

ASSUME CommentAssumption ==
  /\ {LastId, QueueLimit, BatchSize, Workers, JobLimit, Restarts} \subseteq Nat
  /\ BatchSize > 0 /\ Albums \subseteq SUBSET Comments /\ Mix \subseteq Nat \X Nat

VARIABLES
  text,       \* Telegram: the version of each comment, -1 before it is written
  rows,       \* comment_queue: status, root key, payload, target_msg_id known
  mapped,     \* root_mapping has an entry for the post's discussion
  queue,      \* commentProducerTask.queue
  album,      \* pendingRootID: key of the album that waits for more parts, or ""
  proc,       \* the three goroutines
  lock,       \* sendMu: its holder, or "free"
  jobs,       \* commentEditPool: queued jobs
  work,       \* its workers: 0, or the comment and the payload read for it
  restarts,   \* how often the run was restarted
  grouped,    \* the comments that share a grouped_id; it never changes
  shown,      \* the version the mirrored comment shows
  copies,     \* history: its arrivals but those that could not be marked
  gaveUp,     \* history: an error, or the rule being off, left it pending
  lost,       \* history: an edit job for it was dropped, failed or died
  raced       \* history: two edit jobs overlapped, or an edit met an unsent row

history == <<copies, gaveUp, lost, raced>>
edit    == <<jobs, work, shown>>
world   == <<restarts, grouped>>
vars    == <<text, rows, mapped, queue, album, proc, lock, edit, world, history>>
-----------------------------------------------------------------------------
None(val) == [c \in Comments |-> val]

\* The local variables of a goroutine, by the step it is at: the key it flushes;
\* the keys boot has still to flush, the comments trunk has still to store; the
\* batch read from the rows, with the texts read, the parts of an album that are
\* tried one by one, and the unit being sent.
Idle == [at |-> "idle", key |-> "", keys |-> {}, todo |-> {}, batch |-> {},
         read |-> None(0), single |-> {}, unit |-> {}, cursor |-> 0, was |-> "none"]
Started == [p \in Procs |-> IF p = "boot" THEN [Idle EXCEPT !.at = "roots"] ELSE Idle]
Resting == [w \in 1..Workers |-> [id |-> 0, text |-> 0]]
NoRow == [status |-> "none", key |-> "", text |-> 0, known |-> FALSE]

Job   == [id : Comments \cup {0}, text : Nat]
Event == [kind : {"new", "edit"}, id : Comments, text : Nat]
Row   == [status : {"none", "pending", "success", "failed"},
          key : {"", "post", "root", "other"}, text : Nat, known : BOOLEAN]
Proc  == [at : {"idle", "load", "ask", "found", "scan", "item", "send", "mark", "markblind",
                "edit", "editwrite", "roots", "next", "repair", "fetch", "store"},
          key : {"", "post", "root"}, keys : SUBSET {"post", "root"},
          todo : SUBSET Comments, batch : SUBSET Comments, read : [Comments -> Nat],
          single : SUBSET Comments, unit : SUBSET Comments, cursor : 0..LastId,
          was : {"none", "run", "pending", "success", "blind", "failed"}]

TypeOK ==
  /\ text \in [Comments -> Nat \cup {-1}] /\ grouped \in Albums
  /\ mapped \in BOOLEAN /\ restarts \in Nat
  /\ rows \in [Comments -> Row]
  /\ queue \in Seq(Event) /\ Len(queue) <= QueueLimit
  /\ album \in {"", "post", "root"} /\ lock \in Procs \cup {"free"}
  /\ proc \in [Procs -> Proc]
  /\ jobs \in Seq(Comments) /\ Len(jobs) <= JobLimit
  /\ work \in [1..Workers -> Job]
  /\ shown \in [Comments -> Nat] /\ copies \in [Comments -> Nat]
  /\ gaveUp \subseteq Comments /\ lost \subseteq Comments /\ raced \subseteq Comments

Init ==
  /\ text = None(-1) /\ rows = None(NoRow) /\ mapped = FALSE
  /\ queue = <<>> /\ album = "" /\ lock = "free"
  /\ proc = Started
  /\ jobs = <<>> /\ work = Resting
  /\ restarts = 0 /\ grouped \in Albums /\ shown = None(0) /\ copies = None(0)
  /\ gaveUp = {} /\ lost = {} /\ raced = {}

Pending(c) == rows[c].status = "pending"
Filed(key) == {c \in Comments : Pending(c) /\ rows[c].key = key}
Added(n, cs) == [c \in Comments |-> IF c \in cs THEN copies[c] + n ELSE copies[c]]

\* The row that is written unless there is one for this msg_id.
Inserted(c, key, v) ==
  IF rows[c].status # "none" THEN rows
  ELSE [rows EXCEPT ![c] = [status |-> "pending", key |-> key, text |-> v, known |-> FALSE]]

MarkedFailed(cs) ==
  [c \in Comments |-> IF c \in cs /\ Pending(c) THEN [rows[c] EXCEPT !.status = "failed"]
                      ELSE rows[c]]

Refiled(from, to) ==
  [c \in Comments |-> IF c \in Filed(from) THEN [rows[c] EXCEPT !.key = to] ELSE rows[c]]

Become(p, local) == proc' = [proc EXCEPT ![p] = local]
Goto(p, at)      == Become(p, [proc[p] EXCEPT !.at = at])
-----------------------------------------------------------------------------
(* Telegram: a comment is written or edited; its event is dropped when the     *)
(* queue is full, and reaches nobody before the run has registered.            *)

\* mutant: without the select's default.
EnqueuedAlways(e) == Append(queue, e)

Enqueued(e) == IF Len(queue) < QueueLimit THEN Append(queue, e) ELSE queue

Written   == Cardinality({c \in Comments : text[c] >= 0})
EditCount == MapThenSumSet(LAMBDA c : IF text[c] > 0 THEN text[c] ELSE 0, Comments)

Write(c) ==
  /\ text[c] = -1 /\ \A b \in 1..(c - 1) : text[b] >= 0
  /\ <<Written + 1, EditCount>> \in Mix
  /\ text' = [text EXCEPT ![c] = 0]
  /\ \E q \in {queue, Enqueued([kind |-> "new", id |-> c, text |-> 0])} : queue' = q
  /\ UNCHANGED <<rows, mapped, album, proc, lock, edit, world, history>>

EditText(c) ==
  /\ text[c] >= 0
  /\ <<Written, EditCount + 1>> \in Mix
  /\ text' = [text EXCEPT ![c] = @ + 1]
  /\ queue' = Enqueued([kind |-> "edit", id |-> c, text |-> text[c] + 1])
  /\ UNCHANGED <<rows, mapped, album, proc, lock, edit, world, history>>
-----------------------------------------------------------------------------
(* flushRoot: find where the comments of a key go, then send them.             *)

\* What the goroutine goes on with after flushRoot or sendPendingCommentsForRoot.
Back(p) == [Idle EXCEPT !.at = IF p = "boot" THEN "next" ELSE "idle",
                             !.keys = proc[p].keys, !.was = proc[p].was]
Return(p) ==
  /\ Become(p, Back(p))
  /\ lock' = IF lock = p THEN "free" ELSE lock

\* What a failing statement leaves behind once the roots are mapped.
LeftMapped(cs) == IF mapped THEN gaveUp \cup cs ELSE gaveUp

\* loadTargetRootID finds no mapping for the key, or fails, which reads the same.
Unmapped(p) ==
  /\ proc[p].at = "load" /\ p # "trunk"
  /\ gaveUp' = IF proc[p].key = "root" THEN LeftMapped(Filed("root")) ELSE gaveUp
  /\ Goto(p, "ask")
  /\ UNCHANGED <<text, rows, mapped, queue, album, lock, edit, world, copies, lost, raced>>

\* mutant: the pending rows keep the id of the post.
LookupOnly(p) ==
  /\ proc[p].at = "ask" /\ proc[p].key = "post"
  /\ Become(p, [proc[p] EXCEPT !.at = "found", !.key = "root"])
  /\ UNCHANGED <<text, rows, mapped, queue, album, lock, edit, world, history>>

\* Both repairs: the root of the post's discussion is asked for, and the pending
\* rows are filed under it.  The error of this UPDATE is ignored.
Lookup(p) ==
  /\ proc[p].at = "ask" /\ proc[p].key = "post"
  /\ \/ rows' = Refiled("post", "root") /\ UNCHANGED gaveUp
     \/ gaveUp' = gaveUp \cup Filed("post") /\ UNCHANGED rows
  /\ Become(p, [proc[p] EXCEPT !.at = "found", !.key = "root"])
  /\ UNCHANGED <<text, mapped, queue, album, lock, edit, world, copies, lost, raced>>

\* A repair finds another discussion, the key being also the id of another post,
\* of a comment under it, or its root: the rows are filed there.
Misfile(p) ==
  /\ proc[p].at = "ask"
  /\ rows' = Refiled(proc[p].key, "other")
  /\ Return(p)
  /\ UNCHANGED <<text, mapped, queue, album, edit, world, history>>

\* Neither repair finds anything: not known after six attempts, or refused.  What
\* is filed under the root waits there for its mapping.
LookupFails(p) ==
  /\ proc[p].at = "ask"
  /\ gaveUp' = IF proc[p].key = "post" THEN gaveUp \cup Filed("post") ELSE gaveUp
  /\ Return(p)
  /\ UNCHANGED <<text, rows, mapped, queue, album, edit, world, copies, lost, raced>>

\* The root that was found has no mapping yet, or its mapping cannot be read.
NotMapped(p) ==
  /\ proc[p].at = "found"
  /\ gaveUp' = LeftMapped(Filed("root"))
  /\ Return(p)
  /\ UNCHANGED <<text, rows, mapped, queue, album, edit, world, copies, lost, raced>>

\* Whoever copied the post knows both roots without the mapping.
Target(p) ==
  proc[p].at \in {"load", "found"} /\ proc[p].key = "root" /\ (mapped \/ p = "trunk")

\* mutant: sendMu is not taken.
LockShared(p) ==
  /\ Target(p)
  /\ lock' = p
  /\ Become(p, [proc[p] EXCEPT !.at = "scan", !.cursor = 0])
  /\ UNCHANGED <<text, rows, mapped, queue, album, edit, world, history>>

\* sendPendingCommentsForRoot: one flush at a time.
Lock(p) ==
  /\ Target(p) /\ lock = "free"
  /\ lock' = p
  /\ Become(p, [proc[p] EXCEPT !.at = "scan", !.cursor = 0])
  /\ UNCHANGED <<text, rows, mapped, queue, album, edit, world, history>>

\* The next batch in ascending order; an album at its end is taken in whole, unless
\* the query for its other parts fails.
Scan(p) ==
  LET left  == {c \in Filed("root") : c > proc[p].cursor}
      first == {c \in left : Cardinality({d \in left : d < c}) < BatchSize}
      whole == IF first # {} /\ Max(first) \in grouped THEN first \cup (left \cap grouped) ELSE first
  IN /\ proc[p].at = "scan"
     /\ IF left = {} THEN Return(p)
        ELSE /\ \E batch \in {first, whole} :
                  Become(p, [proc[p] EXCEPT !.at = "item", !.cursor = Max(batch), !.batch = batch,
                               !.read = [c \in Comments |->
                                           IF c \in batch THEN rows[c].text ELSE 0]])
             /\ UNCHANGED lock
     /\ UNCHANGED <<text, rows, mapped, queue, album, edit, world, history>>

\* The rule is off, a peer is missing, or the scan fails: what is pending stays so.
ScanFails(p) ==
  /\ proc[p].at = "scan"
  /\ gaveUp' = gaveUp \cup Filed("root")
  /\ Return(p)
  /\ UNCHANGED <<text, rows, mapped, queue, album, edit, world, copies, lost, raced>>

\* A comment, or the parts of the album that lie side by side.
HeadUnit(p) ==
  LET batch    == proc[p].batch
      alone(c) == c \notin grouped \/ c \in proc[p].single
  IN IF alone(Min(batch)) THEN {Min(batch)}
     ELSE {c \in batch : \A d \in batch : d <= c => ~alone(d)}

\* The goroutine once it is done with some of its batch: with what is left of the
\* unit, then with the next unit, then with the next batch.
Rest(p, done) ==
  [proc[p] EXCEPT !.batch = @ \ done, !.single = @ \ done, !.unit = @ \ done,
     !.read = [c \in Comments |-> IF c \in done THEN 0 ELSE @[c]],
     !.at = IF proc[p].unit \ done # {} THEN @
            ELSE IF proc[p].batch \ done = {} THEN "scan" ELSE "item"]

Advance(p, done) == Become(p, Rest(p, done))

\* Identity, type and keyword filters: what they refuse is marked failed, if it is
\* still filed under the root; the error of this UPDATE is ignored.
Refusals(unit) == SUBSET unit

Filter(p) ==
  LET unit == HeadUnit(p) IN
  /\ proc[p].at = "item"
  /\ \E refused \in Refusals(unit) :
       /\ \/ rows' = MarkedFailed(refused \cap Filed("root")) /\ UNCHANGED gaveUp
          \/ gaveUp' = gaveUp \cup refused /\ UNCHANGED rows
       /\ IF refused = unit THEN Advance(p, unit)
          ELSE Become(p, [Rest(p, refused) EXCEPT !.at = "send", !.unit = unit \ refused])
  /\ UNCHANGED <<text, mapped, queue, album, lock, edit, world, copies, lost, raced>>

Alone(unit) == \E c \in unit : unit = {c}

\* An album in one request; "markblind" when the answer names too few ids.
AlbumSent(p) ==
  /\ proc[p].at = "send" /\ ~Alone(proc[p].unit)
  /\ copies' = Added(1, proc[p].unit)
  /\ \E at \in {"mark", "markblind"} : Goto(p, at)
  /\ UNCHANGED <<text, rows, mapped, queue, album, lock, edit, world, gaveUp, lost, raced>>

OneSent(p) ==
  /\ proc[p].at = "send" /\ Alone(proc[p].unit)
  /\ copies' = Added(1, proc[p].unit)
  /\ Goto(p, "mark")
  /\ UNCHANGED <<text, rows, mapped, queue, album, lock, edit, world, gaveUp, lost, raced>>

\* No error and no id: there was nothing to send.
NothingSent(p) ==
  /\ proc[p].at = "send" /\ Alone(proc[p].unit)
  /\ rows' = MarkedFailed(proc[p].unit \cap Filed("root"))
  /\ Advance(p, proc[p].unit)
  /\ UNCHANGED <<text, mapped, queue, album, lock, edit, world, history>>

\* An error, also of a request that arrived all the same (not counted): the parts
\* of an album are then tried one by one.
AlbumError(p) ==
  /\ proc[p].at = "send" /\ ~Alone(proc[p].unit)
  /\ Become(p, [proc[p] EXCEPT !.at = "item", !.unit = {}, !.single = @ \cup proc[p].unit])
  /\ UNCHANGED <<text, rows, mapped, queue, album, lock, edit, world, history>>

\* A single comment is skipped until the next flush; so is one for which there was
\* nothing to send if it cannot be marked failed.
OneError(p) ==
  /\ proc[p].at = "send" /\ Alone(proc[p].unit)
  /\ Advance(p, proc[p].unit) /\ gaveUp' = gaveUp \cup proc[p].unit
  /\ UNCHANGED <<text, rows, mapped, queue, album, lock, edit, world, copies, lost, raced>>

\* FLOOD_WAIT: the rest of the root is left for later.
SendFlood(p) ==
  /\ proc[p].at = "send"
  /\ gaveUp' = gaveUp \cup Filed("root")
  /\ Return(p)
  /\ UNCHANGED <<text, rows, mapped, queue, album, edit, world, copies, lost, raced>>

\* submitCommentEdit: the job is dropped when the pool's queue is full.
Submit(c) ==
  IF Len(jobs) < JobLimit
  THEN jobs' = Append(jobs, c) /\ UNCHANGED lost
  ELSE lost' = lost \cup {c} /\ UNCHANGED jobs

Marking(p) == proc[p].at \in {"mark", "markblind"}

\* mutant: an edit that came in while it was sent is not noticed.
MarkBlindly(p) ==
  LET c == Min(proc[p].unit) IN
  /\ Marking(p)
  /\ rows' = IF Pending(c)
             THEN [rows EXCEPT ![c].status = "success", ![c].known = proc[p].at = "mark"]
             ELSE rows
  /\ shown' = IF Pending(c) THEN [shown EXCEPT ![c] = proc[p].read[c]] ELSE shown
  /\ gaveUp' = gaveUp \ {c}
  /\ Advance(p, {c})
  /\ UNCHANGED <<text, mapped, queue, album, lock, jobs, work, world, copies, lost, raced>>

\* markSuccessWithCAS: when the payload was edited while it was sent, the success
\* is written all the same and an edit job is to bring the new payload over.  A row
\* that was filed under another root in the meantime is not found: it stays
\* pending there, and its arrival is not counted.
Mark(p) ==
  LET c     == Min(proc[p].unit)
      sent  == proc[p].read[c]
      known == proc[p].at = "mark"
      found == c \in Filed("root")
      cas   == found /\ rows[c].text = sent
  IN /\ Marking(p)
     /\ rows' = IF found THEN [rows EXCEPT ![c].status = "success", ![c].known = known]
                ELSE rows
     /\ shown' = IF found THEN [shown EXCEPT ![c] = sent] ELSE shown
     /\ copies' = IF Pending(c) /\ ~found THEN Added(-1, {c}) ELSE copies
     /\ gaveUp' = gaveUp \ {c}
     /\ IF known /\ ~cas THEN Submit(c) ELSE UNCHANGED <<jobs, lost>>
     /\ Advance(p, {c})
  /\ UNCHANGED <<text, mapped, queue, album, lock, work, world, raced>>

\* The statement that marks it fails: the comment stays pending.
MarkFails(p) ==
  LET c == Min(proc[p].unit) IN
  /\ Marking(p)
  /\ copies' = Added(-1, {c}) /\ gaveUp' = gaveUp \cup {c}
  /\ Advance(p, {c})
  /\ UNCHANGED <<text, rows, mapped, queue, album, lock, edit, world, lost, raced>>

Flush(p) ==
  \/ Unmapped(p) \/ Lookup(p) \/ Misfile(p) \/ LookupFails(p) \/ NotMapped(p)
  \/ Lock(p) \/ Scan(p) \/ ScanFails(p) \/ Filter(p)
  \/ AlbumSent(p) \/ OneSent(p) \/ NothingSent(p) \/ AlbumError(p) \/ OneError(p)
  \/ SendFlood(p) \/ Mark(p) \/ MarkFails(p)
-----------------------------------------------------------------------------
(* producer: commentProducerTask.run *)

Free == proc["producer"].at = "idle"
HeadIs(kind) == queue # <<>> /\ queue[1].kind = kind
FlushKey(p, key) == Become(p, [proc[p] EXCEPT !.at = "load", !.key = key])

\* The timer of a pending album, or a comment of another album or another root.
FlushAlbum ==
  /\ Free /\ album # ""
  /\ FlushKey("producer", album) /\ album' = ""
  /\ UNCHANGED <<text, rows, mapped, queue, lock, edit, world, history>>

\* A new comment without a root or under another one, refused by the rule or while
\* it is off, or one that cannot be stored.
Refuse ==
  /\ Free /\ HeadIs("new")
  /\ queue' = Tail(queue)
  /\ UNCHANGED <<text, rows, mapped, album, proc, lock, edit, world, history>>

\* The root as far as it can be told from the comment: the root of the discussion,
\* or the id of the post.
Roots == {"post", "root"}

TakeNew ==
  /\ Free /\ HeadIs("new")
  /\ LET c == queue[1].id IN
     \E key \in Roots :
       /\ album = "" \/ (c \in grouped /\ key = album)
       /\ rows' = Inserted(c, key, queue[1].text)
       /\ IF c \in grouped THEN album' = key /\ UNCHANGED proc
          ELSE FlushKey("producer", key) /\ UNCHANGED album
  /\ queue' = Tail(queue)
  /\ UNCHANGED <<text, mapped, lock, edit, world, history>>

\* An edit is ignored while the rule is off; one that a keyword blocks fails the
\* comment if it is still pending.
IgnoreEdit ==
  /\ Free /\ HeadIs("edit")
  /\ queue' = Tail(queue)
  /\ UNCHANGED <<text, rows, mapped, album, proc, lock, edit, world, history>>

BlockEdit ==
  /\ Free /\ HeadIs("edit")
  /\ rows' = MarkedFailed({queue[1].id}) /\ queue' = Tail(queue)
  /\ UNCHANGED <<text, mapped, album, proc, lock, edit, world, history>>

\* Branch A: the payload of a pending comment is changed; of any other comment
\* the row has to be looked at.
TakeEdit ==
  LET c == queue[1].id IN
  /\ Free /\ HeadIs("edit")
  /\ IF Pending(c)
     THEN /\ rows' = [rows EXCEPT ![c].text = queue[1].text]
          /\ queue' = Tail(queue) /\ UNCHANGED proc
     ELSE Goto("producer", "edit") /\ UNCHANGED <<rows, queue>>
  /\ UNCHANGED <<text, mapped, album, lock, edit, world, history>>

\* Branch B: the row is read, then written, then brought over.
ReadForEdit ==
  /\ proc["producer"].at = "edit"
  /\ LET r == rows[queue[1].id] IN
     IF r.status = "none" THEN Goto("producer", "idle") /\ queue' = Tail(queue)
     ELSE /\ Become("producer",
               [proc["producer"] EXCEPT !.at = "editwrite",
                  !.was = IF r.status = "success" /\ ~r.known THEN "blind" ELSE r.status])
          /\ UNCHANGED queue
  /\ UNCHANGED <<text, rows, mapped, album, lock, edit, world, history>>

WriteEdit ==
  LET c == queue[1].id  was == proc["producer"].was IN
  /\ proc["producer"].at = "editwrite"
  /\ rows' = [rows EXCEPT ![c].text = queue[1].text]
  /\ IF was = "success" THEN Submit(c) ELSE UNCHANGED <<jobs, lost>>
  /\ raced' = IF was = "pending" THEN raced \cup {c} ELSE raced
  /\ Become("producer", Idle) /\ queue' = Tail(queue)
  /\ UNCHANGED <<text, mapped, album, lock, work, shown, world, copies, gaveUp>>
-----------------------------------------------------------------------------
(* boot: what is pending when the run starts *)

BootRoots ==
  /\ proc["boot"].at = "roots"
  /\ Become("boot", [proc["boot"] EXCEPT !.at = "next",
                       !.keys = {rows[c].key : c \in {d \in Comments : Pending(d)}} \ {"other"}])
  /\ UNCHANGED <<text, rows, mapped, queue, album, lock, edit, world, history>>

\* The rows cannot be read, or 100 other roots come first.
BootFails ==
  /\ proc["boot"].at = "roots"
  /\ Become("boot", Idle)
  /\ gaveUp' = gaveUp \cup {c \in Comments : Pending(c)}
  /\ UNCHANGED <<text, rows, mapped, queue, album, lock, edit, world, copies, lost, raced>>

BootNext ==
  /\ proc["boot"].at = "next"
  /\ \/ proc["boot"].keys = {} /\ Become("boot", Idle)
     \/ \E key \in proc["boot"].keys :
          Become("boot", [proc["boot"] EXCEPT !.at = "load", !.key = key, !.keys = @ \ {key}])
  /\ UNCHANGED <<text, rows, mapped, queue, album, lock, edit, world, history>>
-----------------------------------------------------------------------------
(* trunk: ProduceHistoryCommentsForTrunk, then sendPendingCommentsForRoot *)

StoreMapping ==
  /\ proc["trunk"].at = "idle" /\ proc["trunk"].was = "none"
  /\ mapped' = TRUE
  /\ Become("trunk", [proc["trunk"] EXCEPT !.at = "repair", !.was = "run"])
  /\ UNCHANGED <<text, rows, queue, album, lock, edit, world, history>>

\* The mapping cannot be stored: the relay stops here, the clone goes on to send.
MappingFails ==
  /\ proc["trunk"].at = "idle" /\ proc["trunk"].was = "none"
  /\ Become("trunk", [proc["trunk"] EXCEPT !.at = "load", !.key = "root", !.was = "run"])
  /\ UNCHANGED <<text, rows, mapped, queue, album, lock, edit, world, history>>

\* What is filed under the post goes to the root, unless the id of the post is a
\* mapped root itself, of another post.  The error of this UPDATE is ignored.
Repair ==
  /\ proc["trunk"].at = "repair"
  /\ \/ \E to \in {"root", "other"} : rows' = Refiled("post", to) /\ UNCHANGED gaveUp
     \/ gaveUp' = gaveUp \cup Filed("post") /\ UNCHANGED rows
  /\ Goto("trunk", "fetch")
  /\ UNCHANGED <<text, mapped, queue, album, lock, edit, world, copies, lost, raced>>

\* fetchRepliesByRoot: the comments there are, with their present texts; or none,
\* when the post had no replies or the request failed.
FetchReplies ==
  /\ proc["trunk"].at = "fetch"
  /\ \E cs \in {{}, {c \in Comments : text[c] >= 0}} :
       Become("trunk",
         [proc["trunk"] EXCEPT !.at = IF cs = {} THEN "load" ELSE "store",
            !.key = "root", !.todo = cs,
            !.read = [c \in Comments |-> IF c \in cs THEN text[c] ELSE 0]])
  /\ UNCHANGED <<text, rows, mapped, queue, album, lock, edit, world, history>>

StoreReply ==
  LET c == Min(proc["trunk"].todo) IN
  /\ proc["trunk"].at = "store"
  /\ \/ rows' = Inserted(c, "root", proc["trunk"].read[c])
     \/ UNCHANGED rows
  /\ Become("trunk",
       [proc["trunk"] EXCEPT !.at = IF proc["trunk"].todo = {c} THEN "load" ELSE "store",
          !.todo = @ \ {c}, !.read = [@ EXCEPT ![c] = 0]])
  /\ UNCHANGED <<text, mapped, queue, album, lock, edit, world, history>>
-----------------------------------------------------------------------------
(* The edit pool: a job reads the payload when it runs, then edits.            *)

JobStart(w) ==
  LET c == Head(jobs) IN
  /\ work[w].id = 0 /\ jobs # <<>>
  /\ jobs' = Tail(jobs)
  /\ IF rows[c].status = "success" /\ rows[c].known
     THEN work' = [work EXCEPT ![w] = [id |-> c, text |-> rows[c].text]]
     ELSE UNCHANGED work
  /\ raced' = IF \E x \in 1..Workers : work[x].id = c THEN raced \cup {c} ELSE raced
  /\ UNCHANGED <<text, rows, mapped, queue, album, proc, lock, shown, world,
                 copies, gaveUp, lost>>

JobEdit(w) ==
  LET c == work[w].id IN
  /\ c # 0
  /\ \/ shown' = [shown EXCEPT ![c] = work[w].text] /\ UNCHANGED lost
     \/ lost' = lost \cup {c} /\ UNCHANGED shown
  /\ work' = [work EXCEPT ![w] = [id |-> 0, text |-> 0]]
  /\ UNCHANGED <<text, rows, mapped, queue, album, proc, lock, jobs, world,
                 copies, gaveUp, raced>>
-----------------------------------------------------------------------------
\* The run ends, by a stop or a crash, and starts again.
Queued == {jobs[i] : i \in 1..Len(jobs)}
Unmarked(p) == IF Marking(p) THEN proc[p].unit ELSE {}
Restart ==
  /\ restarts < Restarts /\ restarts' = restarts + 1
  /\ proc' = Started
  /\ copies' = Added(-1, UNION {Unmarked(p) : p \in Procs})
  /\ lost' = lost \cup Queued \cup ({work[w].id : w \in 1..Workers} \ {0})
  /\ queue' = <<>> /\ album' = "" /\ lock' = "free"
  /\ jobs' = <<>> /\ work' = Resting
  /\ UNCHANGED <<text, rows, mapped, grouped, shown, gaveUp, raced>>

Next ==
  \/ \E c \in Comments : Write(c) \/ EditText(c)
  \/ \E p \in Procs : Flush(p)
  \/ FlushAlbum \/ Refuse \/ TakeNew \/ IgnoreEdit \/ BlockEdit \/ TakeEdit
  \/ ReadForEdit \/ WriteEdit
  \/ BootRoots \/ BootFails \/ BootNext
  \/ StoreMapping \/ MappingFails \/ Repair \/ FetchReplies \/ StoreReply
  \/ \E w \in 1..Workers : JobStart(w) \/ JobEdit(w)
  \/ Restart

Spec == Init /\ [][Next]_vars
-----------------------------------------------------------------------------
\* However the three flushes, edits and restarts interleave, a comment is mirrored
\* once, and once more only after an arrival that could not be marked: the statement
\* failed, the run ended, or the row had been filed under another root.
MirroredOnce == \A c \in Comments : copies[c] <= 1

\* Nothing is left to do for the queue.
Settled == /\ \A p \in Procs : proc[p].at = "idle"
           /\ queue = <<>> /\ album = ""

\* No comment is forgotten: once the roots are mapped and everyone is at rest,
\* what is still pending met an error or a rule that was off, which left it for a
\* later flush, or was filed under the root of another post.
NotStranded ==
  Settled /\ mapped =>
    \A c \in Comments : Pending(c) => c \in gaveUp \/ rows[c].key = "other"

\* The mirrored comment shows the payload of the row as soon as no edit job is
\* left, unless a job was lost or one of the two known races happened: two jobs
\* of one comment at once, an edit that met the row before it was sent.
EditsReach ==
  \A c \in Comments :
    /\ rows[c].status = "success" /\ rows[c].known
    /\ c \notin Queued /\ \A w \in 1..Workers : work[w].id # c
    /\ c \notin lost \cup raced
    => shown[c] = rows[c].text
=============================================================================
