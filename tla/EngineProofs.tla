---------------------------- MODULE EngineProofs ----------------------------
(***************************************************************************)
(* The properties of the parts, as the runs check them, for every value of *)
(* the constants: each part keeps the inductive invariant its own module   *)
(* of proofs has, and the others do not touch its state.                   *)
(***************************************************************************)
EXTENDS Engine, RealtimeRelayProofs

\* What is inductive of each part.
PublishingInv == part = "publish" => Send!PublishInv
LoginInv == part = "login" => KeptState!LoginInv
RuntimeInv == part = "runtime" => KeptState!RuntimeInv
ProxyInv == part = "proxy" => KeptState!ProxyIInv
BotInv == part = "bots" => KeptState!BotIInv
DatabaseInv == part = "database" => KeptState!HandleInv /\ KeptState!MappingInv
QuotaInv == part = "quota" => KeptState!QuotaIInv
StrategyInv ==
  part = "strategy" =>
    KeptState!Strategy!TypeOK /\ KeptState!Strategy!CacheFollows
StatsInv == part = "stats" => KeptState!StatsInv

PartsInv ==
  /\ PublishingInv /\ LoginInv /\ RuntimeInv /\ ProxyInv /\ BotInv
  /\ DatabaseInv /\ QuotaInv /\ StrategyInv /\ StatsInv

\* What the lemmas of the parts assume of the constants.
LEMMA PartsAssume ==
  /\ KeptState!NamedLogins /\ KeptState!RuntimeBound
  /\ KeptState!Apart /\ KeptState!NamedWorkers
  BY EngineAssumption
     DEF KeptState!NamedLogins, KeptState!Login!None, KeptState!RuntimeBound,
         KeptState!Apart, KeptState!Db!Deleter, KeptState!NamedWorkers,
         KeptState!Stats!Flusher, KeptState!Stats!Nobody

LEMMA PartsStart == SuiteInit => PartsInv
<1> SUFFICES ASSUME SuiteInit PROVE PartsInv
  OBVIOUS
<1> USE EngineAssumption, PartsAssume DEF SuiteInit
<1>1. LoginInv
  BY KeptState!LoginInitInv DEF LoginInv
<1>2. RuntimeInv
  BY KeptState!RuntimeInitInv DEF RuntimeInv
<1>3. ProxyInv
  BY KeptState!ProxyInitInv DEF ProxyInv
<1>4. BotInv
  BY KeptState!BotInitInv DEF BotInv
<1>5. DatabaseInv
  BY KeptState!InitHandles, KeptState!InitMappings DEF DatabaseInv
<1>6. QuotaInv
  BY KeptState!QuotaInitInv DEF QuotaInv
<1>7. StrategyInv
  BY KeptState!StrategyInitInv DEF StrategyInv
<1>8. StatsInv
  BY KeptState!StatsInitInv DEF StatsInv
<1>9. PublishingInv
  BY SendAssumption, Send!PublishInitInv DEF PublishingInv
<1> QED
  BY <1>1, <1>2, <1>3, <1>4, <1>5, <1>6, <1>7, <1>8, <1>9 DEF PartsInv

\* A step of the suite is a step of its part, and of no other.
LEMMA PartsStep == PartsInv /\ [SuiteNext]_suiteVars => PartsInv'
<1> SUFFICES ASSUME PartsInv, [SuiteNext]_suiteVars PROVE PartsInv'
  OBVIOUS
<1> USE EngineAssumption, PartsAssume
    DEF PartsInv, SuiteNext, suiteVars, partVars
<1>1. LoginInv'
  BY KeptState!LoginStepInv DEF LoginInv, KeptState!Login!vars
<1>2. RuntimeInv'
  BY KeptState!RuntimeStepInv DEF RuntimeInv, KeptState!Runtime!vars
<1>3. ProxyInv'
  BY KeptState!ProxyStepInv DEF ProxyInv, KeptState!Proxy!vars
<1>4. BotInv'
  BY KeptState!BotStepTyped, KeptState!BotStepLocked
     DEF BotInv, KeptState!BotIInv, KeptState!Bot!vars
<1>5. DatabaseInv'
  BY KeptState!StepHandles, KeptState!StepMappings
     DEF DatabaseInv, KeptState!Db!vars
<1>6. QuotaInv'
  BY KeptState!QuotaStepInv DEF QuotaInv, KeptState!Quota!vars
<1>7. StrategyInv'
  BY KeptState!StrategyStepTyped, KeptState!StrategyStepFollows
     DEF StrategyInv, KeptState!Strategy!vars
<1>8. StatsInv'
  BY KeptState!StatsStepInv DEF StatsInv, KeptState!Stats!vars
<1>9. PublishingInv'
  BY SendAssumption, Send!PublishStepInv DEF PublishingInv, Send!vars
<1> QED
  BY <1>1, <1>2, <1>3, <1>4, <1>5, <1>6, <1>7, <1>8, <1>9

LEMMA PartsHold == Suite => []PartsInv
  BY PartsStart, PartsStep, PTL DEF Suite

\* The parts whose types their properties do not need.
TypesInv ==
  /\ part = "proxy" => KeptState!Proxy!TypeOK
  /\ part = "database" => KeptState!DbTypes
  /\ part = "stats" => KeptState!StatsBounded

LEMMA TypesStart == SuiteInit => TypesInv
<1> SUFFICES ASSUME SuiteInit PROVE TypesInv
  OBVIOUS
<1> USE EngineAssumption DEF SuiteInit
<1>1. part = "proxy" => KeptState!Proxy!TypeOK
  BY KeptState!ProxyInitTypes
<1>2. part = "database" => KeptState!DbTypes
  BY KeptState!DbInitTypes
<1>3. part = "stats" => KeptState!StatsBounded
  BY KeptState!BoundsStart
<1> QED
  BY <1>1, <1>2, <1>3 DEF TypesInv

LEMMA TypesStep == PartsInv /\ TypesInv /\ [SuiteNext]_suiteVars => TypesInv'
<1> SUFFICES ASSUME PartsInv, TypesInv, [SuiteNext]_suiteVars PROVE TypesInv'
  OBVIOUS
<1> USE EngineAssumption, PartsAssume
    DEF TypesInv, SuiteNext, suiteVars, partVars
<1>1. (part = "proxy" => KeptState!Proxy!TypeOK)'
  BY KeptState!ProxyStepTypes DEF KeptState!Proxy!vars
<1>2. (part = "database" => KeptState!DbTypes)'
  BY KeptState!DbStepTypes DEF KeptState!Db!vars
<1>3. (part = "stats" => KeptState!StatsBounded)'
  <2>1. part = "stats" => KeptState!StatsTyped
    BY DEF PartsInv, StatsInv, KeptState!StatsInv, KeptState!CountersInv
  <2> QED
    BY <2>1, KeptState!BoundsStep DEF KeptState!Stats!vars
<1> QED
  BY <1>1, <1>2, <1>3

LEMMA TypesHold == Suite => []TypesInv
  BY TypesStart, TypesStep, PartsHold, PTL DEF Suite

LEMMA RelaySteps == [SuiteNext]_suiteVars => [Next]_vars
  BY DEF SuiteNext, suiteVars, relayVars, RelayStep

LEMMA RelayHolds == Suite => []RelayInv
<1>1. SuiteInit => RelayInv
  BY RelayInitInv DEF SuiteInit
<1> QED
  BY <1>1, RelayStepInv, RelaySteps, PTL DEF Suite

----------------------------------------------------------------------------
(* The properties *)

\* Every variable of every part of the engine keeps its type, with the bounds:
\* of the dashboard no counter exceeds the calls that were made (stats.go), of
\* the database no run writes a mapping it does not have (keep_reply.go).
THEOREM SuiteTypesHold == Suite => []SuiteTypeOK
<1>1. PartsInv /\ TypesInv /\ RelayInv => SuiteTypeOK
  <2> SUFFICES ASSUME PartsInv, TypesInv, RelayInv PROVE SuiteTypeOK
    OBVIOUS
  <2>1. TypeOK
    BY TypesTogether DEF RelayInv, RelayWhole
  <2>2. part = "publish" => Send!TypeOK
    BY DEF PartsInv, PublishingInv, Send!PublishInv
  <2>3. part = "login" => KeptState!Login!TypeOK
    BY DEF PartsInv, LoginInv, KeptState!LoginInv
  <2>4. part = "runtime" => KeptState!Runtime!TypeOK
    BY DEF PartsInv, RuntimeInv, KeptState!RuntimeInv
  <2>5. part = "stats" => KeptState!Stats!TypeOK
    <3>1. part = "stats" => KeptState!StatsTyped
      BY DEF PartsInv, StatsInv, KeptState!StatsInv, KeptState!CountersInv
    <3> QED
      BY <3>1, EngineAssumption, KeptState!StatsTypesTogether DEF TypesInv
  <2>6. part = "database" => KeptState!Db!TypeOK
    BY DEF TypesInv, KeptState!DbTypes
  <2>7. part = "quota" => KeptState!Quota!TypeOK
    BY DEF PartsInv, QuotaInv, KeptState!QuotaIInv
  <2>8. part = "strategy" => KeptState!Strategy!TypeOK
    BY DEF PartsInv, StrategyInv
  <2>9. part = "proxy" => KeptState!Proxy!TypeOK
    BY DEF TypesInv
  <2>10. part = "bots" => KeptState!Bot!TypeOK
    BY KeptState!BotTypesTogether DEF PartsInv, BotInv, KeptState!BotIInv
  <2> QED
    BY <2>1, <2>2, <2>3, <2>4, <2>5, <2>6, <2>7, <2>8, <2>9, <2>10
       DEF SuiteTypeOK
<1> QED
  BY <1>1, PartsHold, TypesHold, RelayHolds, PTL

\* monitor.go, handleAlbum and deliverAlbum: the worker never waits for an album
\* that nobody is going to deliver, for any messages, albums and queue.
THEOREM AlbumIsAnswered == Suite => []AlbumAnswered
<1>1. RelayInv => AlbumAnswered
  BY RelayInvImplies
<1> QED
  BY <1>1, RelayHolds, PTL

\* dedup.go: no mark hides a message that the run has neither in its hands nor
\* handled, nor let go as a stray.
THEOREM MarkStaysHeld == Suite => []MarkedIsHeld
<1>1. RelayInv => MarkedIsHeld
  BY RelayInvImplies
<1> QED
  BY <1>1, RelayHolds, PTL

\* monitor.go, dispatchMessageToRuntimeTask: a task that goes from old to new
\* and whose de-duplication remembers what is still under way handles no
\* message twice, however pushes, polls, timers and ends of the run interleave.
THEOREM MessagesAreHandledOnce ==
  ASSUME ~EarlyExpiry, ~NewToOld
  PROVE  Suite => []HandledOnce
<1>1. RelayInv /\ OnceInv /\ [Next]_vars => OnceInv'
  BY OnceStepInv
<1>2. SuiteInit => OnceInv
  BY OnceInitInv DEF SuiteInit
<1>3. OnceInv => HandledOnce
  BY OnceInvImplies
<1> QED
  BY <1>1, <1>2, <1>3, RelaySteps, RelayHolds, PTL DEF Suite

\* media.go and bot_publish.go: whichever way a transfer ends, after whatever
\* tries, no temporary file of it is left, but for a watermarked picture that
\* was not written to its end.
THEOREM TempFilesAreGone == Suite => []TempFilesGone
<1>1. PartsInv => TempFilesGone
  BY DEF PartsInv, PublishingInv, TempFilesGone, Send!PublishInv, Send!FilesInv
<1> QED
  BY <1>1, PartsHold, PTL

\* processWithRetry and the fallbacks: for any feed, however tries, ways to send
\* and lost answers alternate, the target has one copy of a message, and one
\* more for every answer lost; but for a bot's album in several chunks.
THEOREM MessagesAreSentOnce == Suite => []SentOnce
<1>1. PartsInv => SentOnce
  BY Send!SentOnceInv DEF PartsInv, PublishingInv, SentOnce
<1> QED
  BY <1>1, PartsHold, PTL

\* pipeline.go and bot_publish.go: a unit that counts as done is in the target
\* with all its parts that can be sent, also when its chunks went one by one,
\* unless a part of it turned out to have nothing to download.
THEOREM UnitsAreDelivered == Suite => []Delivered
<1>1. PartsInv => Delivered
  BY DEF PartsInv, PublishingInv, Delivered, Send!PublishInv
<1> QED
  BY <1>1, PartsHold, PTL

\* media.go, downloadMessageMediaWithPeer: no post has a file that a broken
\* download was continued in, but for a stream that was restarted.
THEOREM FilesAreWhole == Suite => []FilesWhole
<1>1. PartsInv => FilesWhole
  BY DEF PartsInv, PublishingInv, FilesWhole, Send!PublishInv, Send!BytesInv
<1> QED
  BY <1>1, PartsHold, PTL

\* keep_reply.go: a reply in the target answers the post of what its source
\* answers, whatever was evicted, sent again or not recorded in between; and
\* the top of the thread only if the parent had no post when it was asked for.
THEOREM RepliesAreRight == Suite => []RepliesRight
<1>1. PartsInv => RepliesRight
  BY DEF PartsInv, PublishingInv, RepliesRight, Send!PublishInv, Send!RepliesInv
<1> QED
  BY <1>1, PartsHold, PTL

\* session.go, promotePendingSession: whatever logins, answers and deletions
\* come in between, a login told to be authorised has left a session that
\* works, unless its account was deleted, another login of the phone overlapped
\* or the process ended while one was writing.
THEOREM SessionIsKept == Suite => []SessionKept
<1>1. PartsInv => SessionKept
  BY KeptState!LoginInvImplies DEF PartsInv, LoginInv, SessionKept
<1> QED
  BY <1>1, PartsHold, PTL

\* session.go, cleanupPendingSession: in whatever order logins of one phone
\* end, the last one leaves no pending file; but for those that end without a
\* word, with the process or without being able to move the file.
THEOREM PendingIsGone == Suite => []PendingGone
<1>1. PartsInv => PendingGone
  BY KeptState!LoginInvImplies DEF PartsInv, LoginInv, PendingGone
<1> QED
  BY <1>1, PartsHold, PTL

\* monitor.go, telegramRuntimeManager: two clients of the tasks never work on
\* one session file, but for the one a removal is about to cancel or has
\* overtaken.
THEOREM ClientIsOne == Suite => []OneClient
<1>1. PartsInv => OneClient
  BY KeptState!RuntimeInvImplies DEF PartsInv, RuntimeInv, OneClient
<1> QED
  BY <1>1, PartsHold, PTL

\* monitor.go, ensureStarted: whoever waits for a start that was not told to
\* stop, and did not take a timeout for that, waits for somebody.
THEOREM WaitersAreReleased == Suite => []WaitersReleased
<1>1. PartsInv => WaitersReleased
  BY KeptState!RuntimeInvImplies DEF PartsInv, RuntimeInv, WaitersReleased
<1> QED
  BY <1>1, PartsHold, PTL

\* proxy_runtime.go, HotApplyProxy: a change of the proxy reaches every client,
\* and the file, if that could be read at the start.
THEOREM ProxyIsReaching == Suite => []ProxyReaches
<1>1. PartsInv => ProxyReaches
  BY KeptState!ProxyInvImplies DEF PartsInv, ProxyInv, ProxyReaches
<1> QED
  BY <1>1, PartsHold, PTL

\* bot_store.go: what a handler has answered about a bot is in memory and in
\* the file; after a start that could not read the file, about later changes.
THEOREM BotsStayKept == Suite => []BotsKept
<1>1. PartsInv => BotsKept
  BY KeptState!BotInvImplies DEF PartsInv, BotInv, BotsKept
<1> QED
  BY <1>1, PartsHold, PTL

\* localdb/manager.go: no connection to a task's file is lost sight of, but for
\* the overwritten ones and those of an Open that failed.
THEOREM HandlesStayAccounted == Suite => []HandlesAccounted
<1>1. PartsInv => HandlesAccounted
  BY KeptState!HandleInvImplies DEF PartsInv, DatabaseInv, HandlesAccounted
<1> QED
  BY <1>1, PartsHold, PTL

\* keep_reply.go: a mapping that was recorded is in the file, unless its INSERT
\* failed or its run was robbed of the connection.
THEOREM MappingStaysKept == Suite => []MappingKept
<1>1. PartsInv => MappingKept
  BY DEF PartsInv, DatabaseInv, MappingKept, KeptState!MappingInv
<1> QED
  BY <1>1, PartsHold, PTL

\* quota.go, waitForQuota: the daily limit, for any limit.
THEOREM SuiteLimitHolds == Suite => []DailyLimitKept
<1>1. PartsInv => DailyLimitKept
  BY DEF PartsInv, QuotaInv, DailyLimitKept, KeptState!QuotaIInv
<1> QED
  BY <1>1, PartsHold, PTL

\* quota.go, quotaAdd: the row counts the units of its day.
THEOREM CountStaysHonest == Suite => []CountHonest
<1>1. PartsInv => CountHonest
  BY KeptState!QuotaInvImplies DEF PartsInv, QuotaInv, CountHonest
<1> QED
  BY <1>1, PartsHold, PTL

\* strategy_cache.go: the cached strategy is the row's, but for a handler or a
\* reader that is about to put it right or has put down a replaced one.
THEOREM CacheKeepsFollowing == Suite => []CacheFollows
<1>1. PartsInv => CacheFollows
  BY DEF PartsInv, StrategyInv, CacheFollows
<1> QED
  BY <1>1, PartsHold, PTL

\* stats_persist.go, ensureBizDay: the dashboard never shows more for today
\* than was counted since midnight.
THEOREM TodayStaysHonest == Suite => []TodayHonest
<1>1. PartsInv => TodayHonest
  BY KeptState!StatsInvImplies DEF PartsInv, StatsInv, TodayHonest
<1> QED
  BY <1>1, PartsHold, PTL

\* stats_persist.go, seedDashboardLogsFromDisk: a restart never numbers a line
\* as a recent one is numbered.
THEOREM LogNumbersStayUnique == Suite => []LogNumbersUnique
<1>1. PartsInv => LogNumbersUnique
  BY KeptState!StatsInvImplies DEF PartsInv, StatsInv, LogNumbersUnique
<1> QED
  BY <1>1, PartsHold, PTL

============================================================================
