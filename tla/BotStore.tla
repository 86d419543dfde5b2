------------------------------ MODULE BotStore ------------------------------
(***************************************************************************)
(* The bots of the server: global/bot_store.go keeps the list in memory    *)
(* and in a file, and rewrites the file as a whole with every change.  A   *)
(* change copies the list, changes the copy, writes it and only then       *)
(* makes it the list, all under one lock; the process may end in between.  *)
(***************************************************************************)
EXTENDS Naturals

CONSTANTS
  Handlers,   \* handlers of the bot API
  Bots,       \* ids of bots
  MaxEdits    \* bound: the entries made by Add and Update

VARIABLES
  list,      \* s.bots: the version of each bot's entry, 0 when it has none
  file,      \* the same in bots.store.json
  lock,      \* the handler inside s.mu, if any
  handler,   \* where it is, with what it asked for
  copy,      \* its changed copy of the list
  issued,    \* the ids Add has given to bots
  edits,     \* entries that exist
  \* auxiliary
  promised,  \* what the answers say of each bot
  unread,    \* bots of the file that the last start failed to read
  dropped    \* those a later change has left out of the file

vars == <<list, file, lock, handler, copy, issued, edits, promised, unread,
          dropped>>

----------------------------------------------------------------------------
(* Types and helpers *)

Gone == 0
Entries == 0..MaxEdits
Lists == [Bots -> Entries]
Empty == [b \in Bots |-> Gone]
Idle == [at |-> "idle", op |-> "none", bot |-> Gone, entry |-> Gone]
Asked(op, b, e) == [at |-> "lock", op |-> op, bot |-> b, entry |-> e]

TypeOK ==
  /\ list \in Lists /\ file \in Lists /\ promised \in Lists
  /\ lock \subseteq Handlers
  /\ \A h \in Handlers :
       /\ handler[h].at \in {"idle", "lock", "save", "assign"}
       /\ handler[h].op \in {"none", "add", "update", "remove"}
       /\ handler[h].at # "idle" => handler[h].bot \in Bots
       /\ handler[h].entry \in Entries
  /\ copy \in [Handlers -> Lists] /\ edits \in Entries /\ issued \subseteq Bots
  /\ unread \subseteq Bots /\ dropped \subseteq Bots

Init ==
  /\ list = Empty /\ file = Empty /\ promised = Empty
  /\ lock = {} /\ edits = 0 /\ issued = {} /\ unread = {} /\ dropped = {}
  /\ handler = [h \in Handlers |-> Idle]
  /\ copy = [h \in Handlers |-> Empty]

At(h, step) == handler' = [handler EXCEPT ![h].at = step]
Leave(h) == handler' = [handler EXCEPT ![h] = Idle] /\ lock' = lock \ {h}

----------------------------------------------------------------------------
(* Add, Update and Remove *)

\* Add makes up an id of its own, the others name a bot the user has seen.
AskAdd(h) ==
  /\ handler[h].at = "idle" /\ edits < MaxEdits
  /\ \E b \in Bots \ issued :
       /\ issued' = issued \cup {b}
       /\ handler' = [handler EXCEPT ![h] = Asked("add", b, edits + 1)]
  /\ edits' = edits + 1
  /\ UNCHANGED <<list, file, lock, copy, promised, unread, dropped>>

AskUpdate(h) ==
  /\ handler[h].at = "idle" /\ edits < MaxEdits
  /\ \E b \in issued :
       handler' = [handler EXCEPT ![h] = Asked("update", b, edits + 1)]
  /\ edits' = edits + 1
  /\ UNCHANGED <<list, file, lock, copy, issued, promised, unread, dropped>>

AskRemove(h) ==
  /\ handler[h].at = "idle"
  /\ \E b \in issued : handler' = [handler EXCEPT ![h] = Asked("remove", b, Gone)]
  /\ UNCHANGED <<list, file, lock, copy, issued, edits, promised, unread, dropped>>

\* Mutation: the list is copied without the lock.
Unlocked == TRUE

\* The lock and, under it, the copy with the change made.
Free == lock = {}
Change(h) == [list EXCEPT ![handler[h].bot] = handler[h].entry]

TakeLock(h) ==
  /\ handler[h].at = "lock" /\ Free
  /\ handler[h].op = "add" \/ list[handler[h].bot] # Gone
  /\ lock' = {h}
  /\ copy' = [copy EXCEPT ![h] = Change(h)]
  /\ At(h, "save")
  /\ UNCHANGED <<list, file, issued, edits, promised, unread, dropped>>

\* Update and Remove return at once for a bot that is not in the list.
NotFound(h) ==
  /\ handler[h].at = "lock" /\ Free
  /\ handler[h].op # "add" /\ list[handler[h].bot] = Gone
  /\ handler' = [handler EXCEPT ![h] = Idle]
  /\ UNCHANGED <<list, file, lock, copy, issued, edits, promised, unread, dropped>>

\* saveLocked: a temporary file that replaces the old one, with all it had.
SaveFile(h) ==
  /\ handler[h].at = "save"
  /\ file' = copy[h]
  /\ dropped' = dropped \cup unread /\ unread' = {}
  /\ At(h, "assign")
  /\ UNCHANGED <<list, lock, copy, issued, edits, promised>>

SaveFails(h) ==
  /\ handler[h].at = "save"
  /\ Leave(h)
  /\ UNCHANGED <<list, file, copy, issued, edits, promised, unread, dropped>>

\* The copy becomes the list, the handler unlocks and answers.
AssignList(h) ==
  /\ handler[h].at = "assign"
  /\ list' = copy[h]
  /\ promised' = [promised EXCEPT ![handler[h].bot] = handler[h].entry]
  /\ Leave(h)
  /\ UNCHANGED <<file, copy, issued, edits, unread, dropped>>

\* The process ends, and Init starts with an empty list, which Load replaces by
\* the file.  Its error is ignored: a file that cannot be read or parsed leaves
\* the list empty.  Nobody was told of a change that reached the file and
\* nothing else, and it counts from now on.
Restart ==
  /\ \/ list' = file /\ unread' = {}
     \/ list' = Empty /\ unread' = {b \in Bots : file[b] # Gone}
  /\ lock' = {} /\ handler' = [h \in Handlers |-> Idle]
  /\ promised' = [b \in Bots |->
       IF \E h \in Handlers : handler[h].at = "assign" /\ handler[h].bot = b
       THEN file[b] ELSE promised[b]]
  /\ UNCHANGED <<file, copy, issued, edits, dropped>>

Next ==
  \/ \E h \in Handlers :
       \/ AskAdd(h) \/ AskUpdate(h) \/ AskRemove(h) \/ TakeLock(h) \/ NotFound(h)
       \/ SaveFile(h) \/ SaveFails(h) \/ AssignList(h)
  \/ Restart

Spec == Init /\ [][Next]_vars

----------------------------------------------------------------------------
(* Properties *)

\* bot_store.go: a bot is what the last answer about it says, in memory and in
\* the file, whatever other handlers, failed writes and restarts there were;
\* the file is ahead only while a handler is about to answer.  A start that
\* could not read the file shows no bot it had, and the file keeps them only
\* until the next change.
BotsKept ==
  /\ \A b \in Bots \ dropped :
       /\ list[b] = IF b \in unread THEN Gone ELSE promised[b]
       /\ \/ file[b] = promised[b]
          \/ \E h \in Handlers : handler[h].at = "assign" /\ handler[h].bot = b

============================================================================
