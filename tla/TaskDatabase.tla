---------------------------- MODULE TaskDatabase ----------------------------
(***************************************************************************)
(* The SQLite file of one task and the table of connections through which  *)
(* its runs reach it (localdb/manager.go), with the mappings of mirrored   *)
(* messages it keeps and the cache before them (keep_reply.go).            *)
(*                                                                         *)
(* A run opens the connection when it starts and closes it by a deferred   *)
(* call when it ends (worker.go); a run that replaces another may overlap  *)
(* with it.  Deleting the task destroys the file under whoever runs.       *)
(***************************************************************************)
EXTENDS Naturals, FiniteSets

CONSTANTS Runs,         \* runs of the task
          Messages,     \* source messages whose copies are recorded
          MaxHandles    \* bound on the connections ever opened

Handles == 1..MaxHandles
NoHandle == 0
NoMessage == "none"
Deleter == "deleter"
Actors == Runs \cup {Deleter}

VARIABLES
  keepReply,  \* runs that record mappings
  mirror,     \* whether the task mirrors comments
  conns,      \* the connection in the manager's table
  open,       \* connections that are open
  opened,     \* connections ever opened
  step,       \* progress of each actor
  hand,       \* the connection an actor works with outside the lock
  comments,   \* the connection a run's comment pipeline was given
  owner,      \* runs whose deferred call closes the connection
  message,    \* the message a run is recording
  cache,      \* mappings in the task's memory cache
  rows,       \* mappings in the file
  orphans,    \* connections to a file that has been removed
  recorded,   \* mappings each run has recorded
  robbed,     \* runs whose connection another actor has taken off the table
  \* auxiliary
  lost,       \* connections that an Open has overwritten, or has opened and
              \* then failed to prepare
  unwritten   \* mappings each run has had refused by an open connection

vars == <<keepReply, mirror, conns, open, opened, step, hand, comments, owner,
          message, cache, rows, orphans, recorded, robbed, lost, unwritten>>

Steps == {"idle", "replies", "comments", "opening", "installing", "taking",
          "running", "writing", "closing", "removing", "ended"}

Init ==
  /\ keepReply \in {{}, Runs}
  /\ mirror \in BOOLEAN
  /\ conns = NoHandle /\ open = {} /\ opened = 0
  /\ step = [a \in Actors |-> "idle"]
  /\ hand = [a \in Actors |-> NoHandle]
  /\ comments = [r \in Runs |-> NoHandle]
  /\ owner = {}
  /\ message = [r \in Runs |-> NoMessage]
  /\ cache = {} /\ rows = {} /\ orphans = {}
  /\ recorded = [r \in Runs |-> {}]
  /\ robbed = {} /\ lost = {}
  /\ unwritten = [r \in Runs |-> {}]

At(a, s) == step[a] = s
Goes(a, s) == step' = [step EXCEPT ![a] = s]
Alive(r) == step[r] \notin {"idle", "ended"}

\* The caller of Open: the replies come first, then the comments.
AfterOpen(r) == IF r \in keepReply /\ r \notin owner THEN "comments" ELSE "taking"

----------------------------------------------------------------------------
(* executeTask: opening.                                                   *)

Start(r) ==
  /\ At(r, "idle")
  /\ Goes(r, IF r \in keepReply THEN "replies" ELSE "comments")
  /\ UNCHANGED <<keepReply, mirror, conns, open, opened, hand, comments, owner,
                 message, cache, rows, orphans, recorded, robbed, lost,
                 unwritten>>

\* Open looks into the table under the lock ...
OpenForReplies(r) ==
  /\ At(r, "replies")
  /\ IF conns # NoHandle
     THEN Goes(r, "comments") /\ owner' = owner \cup {r}
     ELSE Goes(r, "opening") /\ UNCHANGED owner
  /\ UNCHANGED <<keepReply, mirror, conns, open, opened, hand, comments,
                 message, cache, rows, orphans, recorded, robbed, lost,
                 unwritten>>

\* The comment pipeline takes what the table has, and opens it otherwise.
OpenForComments(r) ==
  /\ At(r, "comments")
  /\ IF ~mirror
     THEN Goes(r, "running") /\ UNCHANGED comments
     ELSE IF conns # NoHandle
          THEN Goes(r, "running") /\ comments' = [comments EXCEPT ![r] = conns]
          ELSE Goes(r, "opening") /\ UNCHANGED comments
  /\ UNCHANGED <<keepReply, mirror, conns, open, opened, hand, owner, message,
                 cache, rows, orphans, recorded, robbed, lost, unwritten>>

\* mutant: the file is created anew by every Open.
OpenTruncates(r) ==
  /\ At(r, "opening") /\ opened < MaxHandles
  /\ opened' = opened + 1
  /\ open' = open \cup {opened + 1}
  /\ hand' = [hand EXCEPT ![r] = opened + 1]
  /\ rows' = {}
  /\ Goes(r, "installing")
  /\ UNCHANGED <<keepReply, mirror, conns, comments, owner, message, cache,
                 orphans, recorded, robbed, lost, unwritten>>

\* ... opens the file outside it ...
OpenFile(r) ==
  /\ At(r, "opening") /\ opened < MaxHandles
  /\ opened' = opened + 1
  /\ open' = open \cup {opened + 1}
  /\ hand' = [hand EXCEPT ![r] = opened + 1]
  /\ Goes(r, "installing")
  /\ UNCHANGED <<keepReply, mirror, conns, comments, owner, message, cache,
                 rows, orphans, recorded, robbed, lost, unwritten>>

\* An error turns the feature off for the run.  The file may have been opened by
\* then: if its schema cannot be prepared, the connection is dropped as it is.
OpenFails(r) ==
  /\ At(r, "opening")
  /\ \/ UNCHANGED <<open, opened, lost>>
     \/ /\ opened < MaxHandles
        /\ opened' = opened + 1
        /\ open' = open \cup {opened + 1}
        /\ lost' = lost \cup {opened + 1}
  /\ IF AfterOpen(r) = "comments"
     THEN keepReply' = keepReply \ {r} /\ Goes(r, "comments")
     ELSE Goes(r, "running") /\ UNCHANGED keepReply
  /\ UNCHANGED <<mirror, conns, hand, comments, owner, message, cache, rows,
                 orphans, recorded, robbed, unwritten>>

\* ... and puts the connection into the table, over another one if two runs
\* have opened at once.
Install(r) ==
  /\ At(r, "installing")
  /\ lost' = IF conns = NoHandle THEN lost ELSE lost \cup {conns}
  /\ conns' = hand[r]
  /\ hand' = [hand EXCEPT ![r] = NoHandle]
  /\ owner' = owner \cup {r}
  /\ Goes(r, AfterOpen(r))
  /\ UNCHANGED <<keepReply, mirror, open, opened, comments, message, cache,
                 rows, orphans, recorded, robbed, unwritten>>

\* The comment pipeline gets what the table has by now.
TakeConnection(r) ==
  /\ At(r, "taking")
  /\ comments' = [comments EXCEPT ![r] = conns]
  /\ Goes(r, "running")
  /\ UNCHANGED <<keepReply, mirror, conns, open, opened, hand, owner, message,
                 cache, rows, orphans, recorded, robbed, lost, unwritten>>

----------------------------------------------------------------------------
(* storeMsgMapping and lookupTargetMsgID.                                  *)

\* The cache takes the mapping; without a connection it is all that happens.
Record(r, m) ==
  /\ At(r, "running") /\ r \in keepReply
  /\ m \notin recorded[r]
  /\ cache' = cache \cup {m}
  /\ IF conns = NoHandle
     THEN /\ recorded' = [recorded EXCEPT ![r] = @ \cup {m}]
          /\ UNCHANGED <<step, hand, message>>
     ELSE /\ hand' = [hand EXCEPT ![r] = conns]
          /\ message' = [message EXCEPT ![r] = m]
          /\ Goes(r, "writing")
          /\ UNCHANGED recorded
  /\ UNCHANGED <<keepReply, mirror, conns, open, opened, comments, owner, rows,
                 orphans, robbed, lost, unwritten>>

\* The INSERT may fail, and fails on a closed connection, which is only logged.
WriteRow(r) ==
  /\ At(r, "writing")
  /\ \/ /\ hand[r] \in open \ orphans
        /\ rows' = rows \cup {message[r]}
        /\ UNCHANGED unwritten
     \/ /\ hand[r] \in open
        /\ unwritten' = [unwritten EXCEPT ![r] = @ \cup {message[r]}]
        /\ UNCHANGED rows
     \/ hand[r] \notin open \ orphans /\ UNCHANGED <<rows, unwritten>>
  /\ recorded' = [recorded EXCEPT ![r] = @ \cup {message[r]}]
  /\ message' = [message EXCEPT ![r] = NoMessage]
  /\ hand' = [hand EXCEPT ![r] = NoHandle]
  /\ Goes(r, "running")
  /\ UNCHANGED <<keepReply, mirror, conns, open, opened, comments, owner,
                 cache, orphans, robbed, lost>>

\* A lookup fills the cache from the file.
Lookup(r, m) ==
  /\ At(r, "running") /\ r \in keepReply
  /\ m \in rows \ cache /\ conns \in open \ orphans
  /\ cache' = cache \cup {m}
  /\ UNCHANGED <<keepReply, mirror, conns, open, opened, step, hand, comments,
                 owner, message, rows, orphans, recorded, robbed, lost,
                 unwritten>>

----------------------------------------------------------------------------
(* Close, by the deferred call of a run that opened, and Destroy.          *)

\* Off the table first ...
TakeOff(a) ==
  /\ hand' = [hand EXCEPT ![a] = conns]
  /\ conns' = NoHandle
  /\ robbed' = robbed \cup {r \in Runs \ {a} : Alive(r)}
  /\ Goes(a, "closing")

Finish(r) ==
  /\ At(r, "running")
  /\ IF r \in owner
     THEN TakeOff(r)
     ELSE Goes(r, "ended") /\ UNCHANGED <<hand, conns, robbed>>
  /\ UNCHANGED <<keepReply, mirror, open, opened, comments, owner, message,
                 cache, rows, orphans, recorded, lost, unwritten>>

Destroy ==
  /\ At(Deleter, "idle")
  /\ TakeOff(Deleter)
  /\ UNCHANGED <<keepReply, mirror, open, opened, comments, owner, message,
                 cache, rows, orphans, recorded, lost, unwritten>>

\* mutant: the connection is dropped from the table and not closed.
DropConnection(a) ==
  /\ At(a, "closing")
  /\ hand' = [hand EXCEPT ![a] = NoHandle]
  /\ cache' = IF a = Deleter THEN cache ELSE {}
  /\ Goes(a, IF a = Deleter THEN "removing" ELSE "ended")
  /\ UNCHANGED <<keepReply, mirror, conns, open, opened, comments, owner,
                 message, rows, orphans, recorded, robbed, lost, unwritten>>

\* ... then the connection is closed, and a run clears the cache.
CloseConnection(a) ==
  /\ At(a, "closing")
  /\ open' = open \ {hand[a]}
  /\ hand' = [hand EXCEPT ![a] = NoHandle]
  /\ cache' = IF a = Deleter THEN cache ELSE {}
  /\ Goes(a, IF a = Deleter THEN "removing" ELSE "ended")
  /\ UNCHANGED <<keepReply, mirror, conns, opened, comments, owner, message,
                 rows, orphans, recorded, robbed, lost, unwritten>>

\* The file goes; a connection opened meanwhile writes to a removed file.
RemoveFile ==
  /\ At(Deleter, "removing")
  /\ rows' = {}
  /\ orphans' = open
  /\ Goes(Deleter, "ended")
  /\ UNCHANGED <<keepReply, mirror, conns, open, opened, hand, comments, owner,
                 message, cache, recorded, robbed, lost, unwritten>>

Next ==
  \/ \E r \in Runs :
       \/ Start(r) \/ OpenForReplies(r) \/ OpenForComments(r) \/ OpenFile(r)
       \/ OpenFails(r) \/ Install(r) \/ TakeConnection(r) \/ WriteRow(r) \/ Finish(r)
       \/ \E m \in Messages : Record(r, m) \/ Lookup(r, m)
  \/ \E a \in Actors : CloseConnection(a)
  \/ Destroy \/ RemoveFile

Spec == Init /\ [][Next]_vars

----------------------------------------------------------------------------

TypeOK ==
  /\ keepReply \subseteq Runs /\ mirror \in BOOLEAN
  /\ conns \in 0..MaxHandles
  /\ open \subseteq Handles /\ opened \in 0..MaxHandles
  /\ step \in [Actors -> Steps]
  /\ hand \in [Actors -> 0..MaxHandles]
  /\ comments \in [Runs -> 0..MaxHandles]
  /\ owner \subseteq Runs
  /\ message \in [Runs -> Messages \cup {NoMessage}]
  /\ {cache, rows} \subseteq SUBSET Messages
  /\ orphans \subseteq Handles
  /\ recorded \in [Runs -> SUBSET Messages]
  /\ robbed \subseteq Runs /\ lost \subseteq Handles
  /\ unwritten \in [Runs -> SUBSET Messages]

\* Every open connection is in the table or in the hands of the one actor that
\* is about to install or close it, and the table holds no closed one, however
\* the opening, closing and destroying of several runs interleave.  Excused, as
\* nobody ever closes them: a connection that a second Open has overwritten, and
\* one whose Open failed after it had opened the file.
HandlesAccounted ==
  /\ conns # NoHandle => conns \in open
  /\ \A h \in open \ lost :
       \/ h = conns
       \/ \E a \in Actors : hand[a] = h /\ step[a] \in {"installing", "closing"}

\* While the task is not deleted, a mapping a run has recorded is in the file,
\* where the next run finds it.  Excused: a mapping whose INSERT failed, and the
\* runs whose connection the run they replaced has closed under them; such a
\* mapping stays in the cache at most.
MappingKept ==
  ~At(Deleter, "ended") =>
    \A r \in Runs \ robbed : recorded[r] \ unwritten[r] \subseteq rows

=============================================================================
