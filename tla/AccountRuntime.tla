--------------------------- MODULE AccountRuntime ---------------------------
(***************************************************************************)
(* The shared Telegram connection of one account (monitor.go): the map of  *)
(* runtimes by session path, the start that the first task performs and    *)
(* the others wait for (ensureStarted), the loop that connects again       *)
(* (runWithReconnect), and the removal of the account (RemoveTGAccount in  *)
(* accounts.go, stopAndDelete and shutdown).                               *)
(*                                                                         *)
(* Runtimes are numbered in the order they are created.  A login writes    *)
(* the session file again from outside; what Telegram answers and when the *)
(* network fails is nondeterministic.                                      *)
(***************************************************************************)
EXTENDS Naturals, FiniteSets

CONSTANTS Tasks,        \* tasks that run under the account
          MaxRuntimes   \* bound on the runtimes ever created

Runtimes == 1..MaxRuntimes
NoRuntime == 0

VARIABLES
  session,   \* whether the final session file exists
  entry,     \* the runtime the map holds for the path
  created,   \* runtimes created so far
  ready,     \* the ready channel of each runtime: absent, open or closed
  failed,    \* runtimes whose startErr is set
  cancel,    \* runtimes whose cancel function is set
  stopped,   \* runtimes whose run context is cancelled
  loop,      \* where the goroutine of each runtime is
  caller,    \* each task's progress through ensureTelegramForTask
  remover,   \* progress of RemoveTGAccount and the runtime it took
  slipped,   \* runtimes taken off the map before their cancel was set
  stranded   \* runtimes whose loop ended without finishing their start

vars == <<session, entry, created, ready, failed, cancel, stopped, loop, caller,
          remover, slipped, stranded>>

Loops == {"none", "dialing", "up", "backoff", "ended"}
CallerSteps == {"idle", "checked", "holding", "building", "built", "waiting",
                "connected", "refused"}
Idle == [step |-> "idle", runtime |-> NoRuntime]

Init ==
  /\ session = TRUE
  /\ entry = NoRuntime
  /\ created = 0
  /\ ready = [r \in Runtimes |-> "absent"]
  /\ failed = {}
  /\ cancel = {}
  /\ stopped = {}
  /\ loop = [r \in Runtimes |-> "none"]
  /\ caller = [t \in Tasks |-> Idle]
  /\ remover = Idle
  /\ slipped = {}
  /\ stranded = {}

At(t, s) == caller[t].step = s
Goes(t, s) == caller' = [caller EXCEPT ![t].step = s]

----------------------------------------------------------------------------

\* finishStart: the first error stays for ever, the channel is closed once.
FinishStart(r, error) ==
  /\ failed' = IF error THEN failed \cup {r} ELSE failed
  /\ ready' = [ready EXCEPT ![r] = "closed"]

\* pickSessionPathForTask: the file must exist when the task starts.
PickSession(t) ==
  /\ At(t, "idle")
  /\ Goes(t, IF session THEN "checked" ELSE "refused")
  /\ UNCHANGED <<session, entry, created, ready, failed, cancel, stopped, loop,
                 remover, slipped, stranded>>

\* mutant: every task gets a runtime of its own.
AlwaysCreate(t) ==
  /\ At(t, "checked")
  /\ created < MaxRuntimes
  /\ created' = created + 1
  /\ entry' = created + 1
  /\ caller' = [caller EXCEPT ![t] = [step |-> "holding", runtime |-> entry']]
  /\ UNCHANGED <<session, ready, failed, cancel, stopped, loop, remover,
                 slipped, stranded>>

GetOrCreate(t) ==
  /\ At(t, "checked")
  /\ \/ entry # NoRuntime /\ UNCHANGED <<entry, created>>
     \/ /\ entry = NoRuntime /\ created < MaxRuntimes
        /\ created' = created + 1
        /\ entry' = created + 1
  /\ caller' = [caller EXCEPT ![t] = [step |-> "holding", runtime |-> entry']]
  /\ UNCHANGED <<session, ready, failed, cancel, stopped, loop, remover,
                 slipped, stranded>>

\* ensureStarted: under the runtime's lock the first task takes the start on
\* itself, the others wait for the channel.
Claim(t) ==
  LET r == caller[t].runtime
  IN /\ At(t, "holding")
     /\ IF ready[r] = "absent"
        THEN ready' = [ready EXCEPT ![r] = "open"] /\ Goes(t, "building")
        ELSE Goes(t, "waiting") /\ UNCHANGED ready
     /\ UNCHANGED <<session, entry, created, failed, cancel, stopped, loop,
                    remover, slipped, stranded>>

\* newTelegramClient, outside the lock.
Build(t) ==
  LET r == caller[t].runtime
  IN /\ At(t, "building")
     /\ \/ Goes(t, "built") /\ UNCHANGED <<ready, failed>>
        \/ FinishStart(r, TRUE) /\ Goes(t, "refused")
     /\ UNCHANGED <<session, entry, created, cancel, stopped, loop, remover,
                    slipped, stranded>>

\* The client, its api and its cancel are stored, and the loop is started.
Launch(t) ==
  LET r == caller[t].runtime
  IN /\ At(t, "built")
     /\ cancel' = cancel \cup {r}
     /\ loop' = [loop EXCEPT ![r] = "dialing"]
     /\ Goes(t, "waiting")
     /\ UNCHANGED <<session, entry, created, ready, failed, stopped, remover,
                    slipped, stranded>>

\* A waiting task returns when the channel is closed or its run is stopped.
Released(t) ==
  LET r == caller[t].runtime
  IN /\ At(t, "waiting") /\ ready[r] = "closed"
     /\ Goes(t, IF r \in failed THEN "refused" ELSE "connected")
     /\ UNCHANGED <<session, entry, created, ready, failed, cancel, stopped,
                    loop, remover, slipped, stranded>>

StopTask(t) ==
  /\ caller[t].step \in {"waiting", "connected", "refused"}
  /\ caller' = [caller EXCEPT ![t] = Idle]
  /\ UNCHANGED <<session, entry, created, ready, failed, cancel, stopped, loop,
                 remover, slipped, stranded>>

----------------------------------------------------------------------------
(* runWithReconnect.                                                       *)

\* The account is authorised: the channel is closed the first time only.
Authorised(r) ==
  /\ loop[r] = "dialing" /\ session
  /\ loop' = [loop EXCEPT ![r] = "up"]
  /\ IF ready[r] = "open" THEN FinishStart(r, FALSE)
     ELSE UNCHANGED <<ready, failed>>
  /\ UNCHANGED <<session, entry, created, cancel, stopped, caller, remover,
                 slipped, stranded>>

\* A broken connection is tried again after a pause.
Breaks(r) ==
  /\ loop[r] \in {"dialing", "up"} /\ r \notin stopped
  /\ loop' = [loop EXCEPT ![r] = "backoff"]
  /\ UNCHANGED <<session, entry, created, ready, failed, cancel, stopped,
                 caller, remover, slipped, stranded>>

\* mutant: the fatal error of a start is logged and not handed on.
DiesQuietly(r) ==
  /\ loop[r] \in {"dialing", "up"} /\ r \notin stopped
  /\ loop' = [loop EXCEPT ![r] = "ended"]
  /\ UNCHANGED <<session, entry, created, ready, failed, cancel, stopped,
                 caller, remover, slipped, stranded>>

\* Any other error ends the loop, and so does a client that returns none.
\* Before the channel is closed the waiting tasks are told; after it nobody is.
Dies(r) ==
  /\ loop[r] \in {"dialing", "up"} /\ r \notin stopped
  /\ loop' = [loop EXCEPT ![r] = "ended"]
  /\ IF ready[r] = "open" THEN \E error \in BOOLEAN : FinishStart(r, error)
     ELSE UNCHANGED <<ready, failed>>
  /\ UNCHANGED <<session, entry, created, cancel, stopped, caller, remover,
                 slipped, stranded>>

\* An error that wraps the end of a context, as a dial that timed out does, is
\* taken for a shutdown although nobody told the runtime to stop: the loop ends
\* and nothing is handed on.
EndsQuietly(r) ==
  /\ loop[r] \in {"dialing", "up"} /\ r \notin stopped
  /\ loop' = [loop EXCEPT ![r] = "ended"]
  /\ stranded' = IF ready[r] = "open" THEN stranded \cup {r} ELSE stranded
  /\ UNCHANGED <<session, entry, created, ready, failed, cancel, stopped,
                 caller, remover, slipped>>

\* A cancelled client returns at once, and nothing is handed on.
Cancelled(r) ==
  /\ loop[r] \in {"dialing", "up"} /\ r \in stopped
  /\ loop' = [loop EXCEPT ![r] = "ended"]
  /\ UNCHANGED <<session, entry, created, ready, failed, cancel, stopped,
                 caller, remover, slipped, stranded>>

\* The top of the loop: a cancelled context ends the start with an error.
Redial(r) ==
  /\ loop[r] = "backoff"
  /\ \/ /\ r \notin stopped
        /\ loop' = [loop EXCEPT ![r] = "dialing"]
        /\ UNCHANGED <<ready, failed>>
     \/ /\ r \in stopped
        /\ loop' = [loop EXCEPT ![r] = "ended"]
        /\ IF ready[r] = "open" THEN FinishStart(r, TRUE)
           ELSE UNCHANGED <<ready, failed>>
  /\ UNCHANGED <<session, entry, created, cancel, stopped, caller, remover,
                 slipped, stranded>>

----------------------------------------------------------------------------
(* RemoveTGAccount: off the map, shut down, then the file.                 *)

TakeOff ==
  /\ remover.step = "idle" /\ session
  /\ remover' = [step |-> "holding", runtime |-> entry]
  /\ entry' = NoRuntime
  /\ UNCHANGED <<session, created, ready, failed, cancel, stopped, loop,
                 caller, slipped, stranded>>

\* shutdown cancels what it finds: a start that has not stored its cancel
\* function yet is missed, and its client runs on off the map.
Shutdown ==
  LET r == remover.runtime
  IN /\ remover.step = "holding"
     /\ remover' = [remover EXCEPT !.step = "built"]
     /\ \/ /\ r \in cancel
           /\ cancel' = cancel \ {r}
           /\ stopped' = stopped \cup {r}
           /\ UNCHANGED slipped
        \/ /\ r \notin cancel
           /\ slipped' = IF r = NoRuntime THEN slipped ELSE slipped \cup {r}
           /\ UNCHANGED <<cancel, stopped>>
     /\ UNCHANGED <<session, entry, created, ready, failed, loop, caller,
                    stranded>>

RemoveFile ==
  /\ remover.step = "built"
  /\ session' = FALSE
  /\ remover' = Idle
  /\ UNCHANGED <<entry, created, ready, failed, cancel, stopped, loop, caller,
                 slipped, stranded>>

\* A later login moves its session file to the final place (LoginFlow, Promote);
\* a runtime that failed is not told.
LogInAgain ==
  /\ ~session
  /\ session' = TRUE
  /\ UNCHANGED <<entry, created, ready, failed, cancel, stopped, loop, caller,
                 remover, slipped, stranded>>

Next ==
  \/ \E t \in Tasks :
       \/ PickSession(t) \/ GetOrCreate(t) \/ Claim(t) \/ Build(t) \/ Launch(t)
       \/ Released(t) \/ StopTask(t)
  \/ \E r \in Runtimes :
       \/ Authorised(r) \/ Breaks(r) \/ Dies(r) \/ EndsQuietly(r) \/ Cancelled(r)
       \/ Redial(r)
  \/ TakeOff \/ Shutdown \/ RemoveFile \/ LogInAgain

Spec == Init /\ [][Next]_vars

----------------------------------------------------------------------------

TypeOK ==
  /\ session \in BOOLEAN
  /\ entry \in 0..MaxRuntimes
  /\ created \in 0..MaxRuntimes
  /\ ready \in [Runtimes -> {"absent", "open", "closed"}]
  /\ failed \subseteq Runtimes
  /\ cancel \subseteq Runtimes
  /\ stopped \subseteq Runtimes
  /\ loop \in [Runtimes -> Loops]
  /\ caller \in [Tasks -> [step : CallerSteps, runtime : 0..MaxRuntimes]]
  /\ remover \in [step : {"idle", "holding", "built"}, runtime : 0..MaxRuntimes]
  /\ slipped \subseteq Runtimes
  /\ stranded \subseteq Runtimes

\* A runtime whose client is connecting or connected and not told to stop.
Active(r) == loop[r] \in {"dialing", "up", "backoff"} /\ r \notin stopped

\* At most one client of the tasks works on a session file.  Excused: the
\* client of a start that the removal of the account overtook, and the
\* runtime the removal has taken off the map and not yet cancelled.
OneClient ==
  \A r, s \in Runtimes :
    Active(r) /\ Active(s) /\ r # s
      => \/ {r, s} \cap slipped # {}
         \/ remover.step = "holding" /\ remover.runtime \in {r, s}

\* No task waits on a start that nobody will finish: while a runtime has not
\* been told to stop, its channel is closed, or a loop or a starting task is
\* there to close it.  Excused, because they return without finishStart, are the
\* client that is shut down during the first connection and the loop that takes
\* a timeout of that connection for a shutdown: their tasks wait until stopped.
WaitersReleased ==
  \A t \in Tasks :
    LET r == caller[t].runtime
    IN At(t, "waiting") /\ r \notin stopped \cup stranded
         => \/ ready[r] = "closed"
            \/ loop[r] \in {"dialing", "up", "backoff"}
            \/ \E o \in Tasks : caller[o].runtime = r /\ caller[o].step \in {"building", "built"}

=============================================================================
