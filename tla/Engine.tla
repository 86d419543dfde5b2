------------------------------- MODULE Engine -------------------------------
(***************************************************************************)
(* The parts of the engine that serve a run, next to each other: the       *)
(* realtime relay (EXTENDS), and the publishing of a unit, the logins, the *)
(* shared connection of an account, the proxy, the bots, the task's        *)
(* database, its daily quota, the cache of strategies and the dashboard's  *)
(* counters (INSTANCE).  They have no state in common, so a behaviour      *)
(* moves one of them, chosen at the start: for TLC the states of the parts *)
(* add up instead of multiplying.                                          *)
(***************************************************************************)
EXTENDS RealtimeRelay

CONSTANTS
  Feed, RepliesTo, Retries, ChunkSize, Locations, Faults,        \* publishing
  Logins, Tasks, MaxRuntimes, Clients, MaxChanges, Bots,         \* accounts
  Handlers, MaxEdits,                                            \* shared
  Runs, Sources, MaxHandles, Limit, LastDay, MaxSent,   \* a task's data
  Editors, Readers, Workers, MaxCalls, MaxCrashes

ASSUME EngineAssumption ==
  /\ Limit \in Nat /\ LastDay \in Nat /\ MaxRuntimes \in Nat
  /\ MaxEdits \in Nat \ {0} /\ MaxChanges \in Nat
  /\ MaxHandles \in Nat /\ MaxCalls \in Nat /\ MaxCrashes \in Nat
  \* The names of the roles and of nothing are not those of the many.
  /\ "deleter" \notin Runs /\ {"none", "torn"} \cap Logins = {}
  /\ {"flusher", "nobody"} \cap Workers = {}

Parts == {"relay", "publish", "login", "runtime", "proxy", "bots",
          "database", "quota", "strategy", "stats"}
VARIABLE part
relayVars == vars

\* Bound: once the run of the relay has ended, and nothing revives it, only its
\* worker and its poller are followed: the worker alone can still handle a
\* message, and what calls and timers still do reaches neither.
RelayStep == Next /\ (Ended => worker' # worker \/ poller' # poller)

\* The state of the part that moves, when it is not the relay: each part gives
\* the variables its own meaning, and leaves those it does not need at None.
VARIABLES
  v1, v2, v3, v4, v5, v6, v7, v8, v9, v10, v11, v12, v13, v14, v15, v16, v17

None == "none"
partVars ==
  <<v1, v2, v3, v4, v5, v6, v7, v8, v9, v10, v11, v12, v13, v14, v15, v16, v17>>

Send == INSTANCE PublishingProofs WITH
  Units <- Feed, Replies <- RepliesTo,
  setup <- v1, kind <- v2, job <- v3, files <- v4, target <- v5, cache <- v6,
  db <- v7, history <- v8

ASSUME SendAssumption == Send!FeedAssumption

KeptState == INSTANCE KeptStateProofs WITH
  Messages <- Sources,
  kind <- v1, stage <- v2, status <- v3, listed <- v4, usePending <- v5,
  key <- v6, pending <- v7, final <- v8, authKeys <- v9, box <- v10,
  shared <- v12, removed <- v13, left <- v14, told <- v15,
  broken <- v16,                                                   \* Login
  session <- v1, entry <- v2, created <- v3, ready <- v4, failed <- v5,
  cancel <- v6, stopped <- v7, loop <- v8, caller <- v9, remover <- v10,
  slipped <- v11, stranded <- v12,                                 \* Runtime
  memory <- v2, todo <- v3, link <- v4, crossed <- v6, refused <- v7,
  unread <- v8,                                             \* Proxy and Bot
  list <- v2, lock <- v3, copy <- v4, issued <- v6, promised <- v7,
  dropped <- v9,                                                   \* Bot
  file <- v1, handler <- v11, edits <- v5,                     \* two or three
  keepReply <- v1, mirror <- v2, conns <- v3, open <- v4, opened <- v5,
  step <- v6, hand <- v7, comments <- v8, owner <- v9, message <- v10,
  rows <- v12, orphans <- v13, recorded <- v14, robbed <- v15, lost <- v16,
  unwritten <- v17,                                                \* Db
  day <- v2, start <- v3, edit <- v4, phase <- v5, task <- v6, quota <- v7,
  at <- v8, sent <- v9, wrong <- v10,                              \* Quota
  editor <- v2, reader <- v3, outdated <- v4,                      \* Strategy
  row <- v1, cache <- v11,                                     \* two of them
  bizDay <- v2, total <- v3, today <- v4, seq <- v5, queue <- v6, pc <- v7,
  held <- v8, now <- v9, rotator <- v10, snap <- v11, disk <- v12,
  clock <- v13, calls <- v14, crashes <- v15, counted <- v16, torn <- v17
                                                                   \* Stats

\* The variables each part does not need.
relaySpare ==
  /\ v1 = None /\ v2 = None /\ v3 = None /\ v4 = None /\ v5 = None
  /\ v6 = None /\ v7 = None /\ v8 = None /\ v9 = None /\ v10 = None
  /\ v11 = None /\ v12 = None /\ v13 = None /\ v14 = None /\ v15 = None
  /\ v16 = None /\ v17 = None

publishSpare ==
  /\ v9 = None /\ v10 = None /\ v11 = None /\ v12 = None /\ v13 = None
  /\ v14 = None /\ v15 = None /\ v16 = None /\ v17 = None

loginSpare == v17 = None

runtimeSpare ==
  /\ v13 = None /\ v14 = None /\ v15 = None /\ v16 = None
  /\ v17 = None

proxySpare ==
  /\ v9 = None /\ v10 = None /\ v12 = None /\ v13 = None /\ v14 = None
  /\ v15 = None /\ v16 = None /\ v17 = None

botSpare ==
  /\ v10 = None /\ v12 = None /\ v13 = None /\ v14 = None /\ v15 = None
  /\ v16 = None /\ v17 = None

quotaSpare ==
  /\ v11 = None /\ v12 = None /\ v13 = None /\ v14 = None /\ v15 = None
  /\ v16 = None /\ v17 = None

strategySpare ==
  /\ v6 = None /\ v7 = None /\ v8 = None /\ v9 = None /\ v10 = None
  /\ v12 = None /\ v13 = None /\ v14 = None /\ v15 = None /\ v16 = None
  /\ v17 = None

----------------------------------------------------------------------------
(* The relay's initial state also stands for a relay that is off.          *)

SuiteInit ==
  /\ Init
  /\ \/ /\ part = "relay" /\ relaySpare
     \/ /\ part = "publish" /\ Send!Init /\ publishSpare
     \/ /\ part = "login" /\ KeptState!Login!Init /\ loginSpare
     \/ /\ part = "runtime" /\ KeptState!Runtime!Init /\ runtimeSpare
     \/ /\ part = "proxy" /\ KeptState!Proxy!Init /\ proxySpare
     \/ /\ part = "bots" /\ KeptState!Bot!Init /\ botSpare
     \/ /\ part = "database" /\ KeptState!Db!Init
     \/ /\ part = "quota" /\ KeptState!Quota!Init /\ quotaSpare
     \/ /\ part = "strategy" /\ KeptState!Strategy!Init /\ strategySpare
     \/ /\ part = "stats" /\ KeptState!Stats!Init

SuiteNext ==
  \/ /\ part = "relay" /\ RelayStep
     /\ UNCHANGED <<part, partVars>>
  \/ /\ part = "publish" /\ Send!Next
     /\ UNCHANGED <<part, relayVars, v9, v10, v11, v12, v13, v14, v15, v16,
                   v17>>
  \/ /\ part = "login" /\ KeptState!Login!Next
     /\ UNCHANGED <<part, relayVars, v17>>
  \/ /\ part = "runtime" /\ KeptState!Runtime!Next
     /\ UNCHANGED <<part, relayVars, v13, v14, v15, v16, v17>>
  \/ /\ part = "proxy" /\ KeptState!Proxy!Next
     /\ UNCHANGED <<part, relayVars, v9, v10, v12, v13, v14, v15, v16, v17>>
  \/ /\ part = "bots" /\ KeptState!Bot!Next
     /\ UNCHANGED <<part, relayVars, v10, v12, v13, v14, v15, v16, v17>>
  \/ /\ part = "database" /\ KeptState!Db!Next
     /\ UNCHANGED <<part, relayVars>>
  \/ /\ part = "quota" /\ KeptState!Quota!Next
     /\ UNCHANGED <<part, relayVars, v11, v12, v13, v14, v15, v16, v17>>
  \/ /\ part = "strategy" /\ KeptState!Strategy!Next
     /\ UNCHANGED <<part, relayVars, v6, v7, v8, v9, v10, v12, v13, v14,
                   v15, v16, v17>>
  \/ /\ part = "stats" /\ KeptState!Stats!Next
     /\ UNCHANGED <<part, relayVars>>

suiteVars == <<part, relayVars, partVars>>

Suite == SuiteInit /\ [][SuiteNext]_suiteVars

----------------------------------------------------------------------------
(* The invariants of the parts, each stated in its module.                 *)

\* Every variable of every part has its type.
SuiteTypeOK ==
  /\ part = "relay" => TypeOK
  /\ part = "publish" => Send!TypeOK
  /\ part = "login" => KeptState!Login!TypeOK
  /\ part = "runtime" => KeptState!Runtime!TypeOK
  /\ part = "stats" => KeptState!Stats!TypeOK
  /\ part = "database" => KeptState!Db!TypeOK
  /\ part = "quota" => KeptState!Quota!TypeOK
  /\ part = "strategy" => KeptState!Strategy!TypeOK
  /\ part = "proxy" => KeptState!Proxy!TypeOK
  /\ part = "bots" => KeptState!Bot!TypeOK

\* Every return of a transfer removes its temporary files, but for a watermarked
\* picture that was not written to its end (media.go, bot_publish.go).
TempFilesGone == part = "publish" => Send!TempFilesGone

\* No message reaches the target twice, unless an answer was lost
\* (history.go, processWithRetry).
SentOnce == part = "publish" => Send!SentOnce

\* A unit that counts as done is in the target, unless one of its media had
\* nothing to download (pipeline.go, bot_publish.go, processWithRetry).
Delivered == part = "publish" => Send!Delivered

\* What is uploaded is the whole file, also after a broken download that is
\* tried again (media.go).
FilesWhole == part = "publish" => Send!FilesWhole

\* A reply in the target answers the copy of the message it replied to, or of the
\* top of its thread while that message has none (keep_reply.go).
RepliesRight == part = "publish" => Send!RepliesRight

\* A login told to be authorised has left a session that works, unless another
\* login or the end of the process wrote across it (session.go).
SessionKept == part = "login" => KeptState!Login!SessionKept

\* No pending session file outlives its logins, unless the process or a client
\* without an error ended first (session.go).
PendingGone == part = "login" => KeptState!Login!PendingGone

\* One client of the tasks at a time works on a session file (monitor.go,
\* telegramRuntimeManager).
OneClient == part = "runtime" => KeptState!Runtime!OneClient

\* No task waits on a start that nobody will finish, unless its loop was shut
\* down or took a timeout for that (monitor.go, ensureStarted).
WaitersReleased == part = "runtime" => KeptState!Runtime!WaitersReleased

\* Today's count never exceeds what was counted since midnight
\* (stats_persist.go, ensureBizDay).
TodayHonest == part = "stats" => KeptState!Stats!TodayHonest

\* The numbers of the log lines stay unique across restarts
\* (stats_persist.go, seedDashboardLogsFromDisk).
LogNumbersUnique == part = "stats" => KeptState!Stats!LogNumbersUnique

\* Every open connection to the task's file is known to the manager or about
\* to be, unless its Open was overwritten or failed (localdb/manager.go).
HandlesAccounted == part = "database" => KeptState!Db!HandlesAccounted

\* A recorded mapping is in the task's file, unless its INSERT failed or its run
\* was robbed (keep_reply.go).
MappingKept == part = "database" => KeptState!Db!MappingKept

\* No more units are sent in a day than its limit, unless a count was lost or
\* made from an outdated row (quota.go, waitForQuota).
DailyLimitKept == part = "quota" => KeptState!Quota!DailyLimitKept

\* The row counts the units of the day, no less and no more, unless a count was
\* lost or carried over (quota.go, quotaAdd).
CountHonest == part = "quota" => KeptState!Quota!CountHonest

\* The cached strategy is the row's, unless somebody is about to update it or
\* put down a replaced version (strategy_cache.go).
CacheFollows == part = "strategy" => KeptState!Strategy!CacheFollows

\* Every client goes through the current proxy or will be told to, and a restart
\* finds the same proxy (proxy_runtime.go, HotApplyProxy).
ProxyReaches == part = "proxy" => KeptState!Proxy!ProxyReaches

\* A bot is what the last answer about it says, in memory and in the file, unless
\* a start could not read the file (bot_store.go).
BotsKept == part = "bots" => KeptState!Bot!BotsKept

============================================================================
