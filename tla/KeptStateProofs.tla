--------------------------- MODULE KeptStateProofs ---------------------------
(***************************************************************************)
(* What the engine keeps beside the runs, for every value of the           *)
(* constants.  Of the accounts: their logins, the connection that the      *)
(* tasks of an account share, the proxy that the accounts connect through  *)
(* and the bots.  Of a task: its database, its daily quota, the strategy   *)
(* it works with and the counters of the dashboard.  Each component is an  *)
(* instance under its own names.  Every lemma is about one of them, so     *)
(* names that two have in common are declared once.                        *)
(***************************************************************************)
EXTENDS Naturals, FiniteSets, Sequences, FiniteSetTheorems,
        WellFoundedInduction, TLAPS

CONSTANTS
  Handlers,             \* of LoginFlow, ProxyStore and BotStore
  Logins,               \* of LoginFlow
  Tasks, MaxRuntimes,   \* of AccountRuntime
  Clients, MaxChanges,  \* of ProxyStore
  Bots, MaxEdits,       \* of BotStore; MaxEdits of StrategyCache too
  Runs, Messages, MaxHandles,   \* of TaskDatabase
  Limit, LastDay, MaxSent,      \* of DailyQuota
  Editors, Readers,             \* of StrategyCache
  Workers, MaxCalls, MaxCrashes \* of DashboardStats, with LastDay

VARIABLES
  kind, stage, status, listed, usePending, key, pending, final, authKeys, box,
  shared, removed, told, left, broken,
  session, entry, created, ready, failed, cancel, stopped, loop, caller,
  remover, slipped, stranded,
  memory, todo, link, crossed, refused, unread,
  list, lock, copy, issued, promised, dropped,
  file, handler, edits,
  keepReply, mirror, conns, open, opened, step, hand, comments, owner, message,
  rows, orphans, recorded, robbed, lost, unwritten,
  day, start, edit, phase, task, quota, at, sent, wrong,
  row, cache, editor, reader, outdated,
  clock, bizDay, total, today, seq, queue, pc, held, now, rotator, snap, disk,
  calls, crashes, counted, torn

Login   == INSTANCE LoginFlow
Runtime == INSTANCE AccountRuntime
Proxy   == INSTANCE ProxyStore WITH MaxEdits <- MaxChanges
Bot     == INSTANCE BotStore

Db       == INSTANCE TaskDatabase
Quota    == INSTANCE DailyQuota
Strategy == INSTANCE StrategyCache
Stats    == INSTANCE DashboardStats

----------------------------------------------------------------------------
(***************************************************************************)
(* ProxyReaches for any number of handlers, clients and changes.  The two  *)
(* halves of the property are inductive on their own: a change of the      *)
(* memory makes every client awaited, and a client stops being awaited by  *)
(* being told; a change of the file leaves its handler about to assign,    *)
(* and if no other change is under way, what it assigns is what the file   *)
(* holds (OneChange).                                                      *)
(***************************************************************************)

ProxyTyped ==
  /\ handler \in [Handlers -> [at : {"idle", "rename", "assign", "list", "apply"},
                               cfg : Nat]]
  /\ todo \in [Handlers -> SUBSET Clients]
  /\ link \in [Clients -> [at : {"off", "created", "dialling", "connected"},
                           cfg : Nat]]
  /\ edits \in Nat /\ file \in Nat /\ memory \in Nat
  /\ refused \subseteq Clients

\* The two halves of ProxyReaches.
ClientsReached ==
  \A c \in Clients :
    link[c].at \in {"dialling", "connected"} =>
      link[c].cfg = memory \/ Proxy!Awaited(c) \/ c \in refused

FileKept ==
  \/ file = memory \/ crossed \/ unread
  \/ \E h \in Handlers : handler[h].at = "assign"

OneChange ==
  ~crossed => \A h \in Handlers : handler[h].at = "assign" => handler[h].cfg = file

ProxyIInv ==
  /\ ProxyTyped /\ crossed \in BOOLEAN
  /\ ClientsReached /\ FileKept /\ OneChange

----------------------------------------------------------------------------
(* The initial state and the steps *)

LEMMA ProxyInitInv ==
  ASSUME Proxy!Init
  PROVE  ProxyIInv
<1>1. ProxyTyped
  BY DEF Proxy!Init, ProxyTyped, Proxy!Idle, Proxy!Off
<1>2. ClientsReached /\ FileKept /\ OneChange /\ crossed \in BOOLEAN
  BY DEF Proxy!Init, ClientsReached, FileKept, OneChange, Proxy!Off, Proxy!Idle
<1> QED
  BY <1>1, <1>2 DEF ProxyIInv

\* What a handler of the API does with the store.
LEMMA StoreStep ==
  ASSUME ProxyIInv, NEW h \in Handlers,
         Proxy!Begin(h) \/ Proxy!WriteFails(h) \/ Proxy!Rename(h) \/ Proxy!Assign(h)
  PROVE  ProxyIInv'
<1> USE DEF ProxyIInv, ProxyTyped, Proxy!Go, Proxy!Doing, Proxy!Idle,
            Proxy!stores
<1>1. CASE Proxy!Begin(h) \/ Proxy!WriteFails(h)
  <2>1. ProxyTyped'
    <3>1. CASE Proxy!Begin(h)
      BY <3>1 DEF Proxy!Begin
    <3>2. CASE Proxy!WriteFails(h)
      BY <3>2 DEF Proxy!WriteFails
    <3> QED
      BY <1>1, <3>1, <3>2
  <2>2. /\ UNCHANGED <<file, memory, crossed, unread, todo, link, refused>>
        /\ handler[h].at \in {"idle", "rename"}
        /\ handler'[h].at \in {"idle", "rename"}
        /\ \A g \in Handlers : g # h => handler'[g] = handler[g]
    BY <1>1 DEF Proxy!Begin, Proxy!WriteFails
  <2>3. \A c \in Clients : Proxy!Awaited(c) => Proxy!Awaited(c)'
    BY <2>2 DEF Proxy!Awaited
  <2>4. ClientsReached' /\ FileKept' /\ OneChange' /\ crossed' \in BOOLEAN
    BY <2>2, <2>3 DEF ClientsReached, FileKept, OneChange
  <2> QED
    BY <2>1, <2>4
<1>2. CASE Proxy!Rename(h)
  <2>1. ProxyTyped'
    BY <1>2 DEF Proxy!Rename
  <2>2. /\ UNCHANGED <<memory, todo, link, refused>>
        /\ handler[h].at = "rename" /\ handler'[h].at = "assign"
        /\ handler'[h].cfg = file'
        /\ \A g \in Handlers : g # h => handler'[g] = handler[g]
    BY <1>2 DEF Proxy!Rename
  <2>3. \A c \in Clients : Proxy!Awaited(c) => Proxy!Awaited(c)'
    BY <2>2 DEF Proxy!Awaited
  <2>4. ClientsReached' /\ FileKept'
    BY <2>2, <2>3 DEF ClientsReached, FileKept
  <2>5. crossed' \in BOOLEAN
    BY <1>2 DEF Proxy!Rename
  <2>6. ~crossed' => \A g \in Handlers \ {h} : handler[g].at # "assign"
    BY <1>2 DEF Proxy!Rename
  <2>7. OneChange'
    BY <2>2, <2>6 DEF OneChange
  <2> QED
    BY <2>1, <2>4, <2>5, <2>7
<1>3. CASE Proxy!Assign(h)
  <2>1. ProxyTyped'
    BY <1>3 DEF Proxy!Assign
  <2>2. /\ UNCHANGED <<file, crossed>>
        /\ handler[h].at = "assign" /\ handler'[h].at = "list"
        /\ memory' = handler[h].cfg
        /\ \A g \in Handlers : g # h => handler'[g] = handler[g]
    BY <1>3 DEF Proxy!Assign
  <2>3. ClientsReached'
    BY <2>2 DEF ClientsReached, Proxy!Awaited
  <2>4. FileKept' /\ OneChange' /\ crossed' \in BOOLEAN
    BY <2>2 DEF FileKept, OneChange
  <2> QED
    BY <2>1, <2>3, <2>4
<1> QED
  BY <1>1, <1>2, <1>3

\* HotApplyProxy never loses a client that still has to be told.
LEMMA ApplyStep ==
  ASSUME ProxyIInv, NEW h \in Handlers,
         Proxy!List(h) \/ Proxy!Applied(h) \/ \E c \in Clients : Proxy!Restart(h, c)
  PROVE  ProxyIInv'
<1> USE DEF ProxyIInv, ProxyTyped, Proxy!Go, Proxy!Doing, Proxy!Idle,
            Proxy!stores
<1>1. CASE Proxy!List(h)
  <2>1. ProxyTyped'
    BY <1>1 DEF Proxy!List, Proxy!HasClient
  <2>2. /\ UNCHANGED <<file, memory, crossed, unread, link, refused>>
        /\ handler[h].at = "list" /\ handler'[h].at = "apply"
        /\ Proxy!HasClient \subseteq todo'[h]
        /\ \A g \in Handlers : g # h => /\ handler'[g] = handler[g]
                                        /\ todo'[g] = todo[g]
    BY <1>1 DEF Proxy!List
  <2>3. \A c \in Proxy!HasClient : Proxy!Awaited(c)'
    BY <2>2 DEF Proxy!Awaited
  <2>4. ClientsReached'
    BY <2>2, <2>3 DEF ClientsReached, Proxy!HasClient, Proxy!Off
  <2>5. FileKept' /\ OneChange' /\ crossed' \in BOOLEAN
    BY <2>2 DEF FileKept, OneChange
  <2> QED
    BY <2>1, <2>4, <2>5
<1>2. CASE Proxy!Applied(h)
  <2>1. ProxyTyped'
    BY <1>2 DEF Proxy!Applied
  <2>2. /\ UNCHANGED <<file, memory, crossed, unread, todo, link, refused>>
        /\ handler[h].at = "apply" /\ todo[h] = {}
        /\ handler'[h].at = "idle"
        /\ \A g \in Handlers : g # h => handler'[g] = handler[g]
    BY <1>2 DEF Proxy!Applied
  <2>3. \A c \in Clients : Proxy!Awaited(c) => Proxy!Awaited(c)'
    BY <2>2 DEF Proxy!Awaited
  <2>4. ClientsReached' /\ FileKept' /\ OneChange' /\ crossed' \in BOOLEAN
    BY <2>2, <2>3 DEF ClientsReached, FileKept, OneChange
  <2> QED
    BY <2>1, <2>4
<1>3. ASSUME NEW c \in Clients, Proxy!Restart(h, c)
      PROVE  ProxyIInv'
  <2>1. ProxyTyped'
    <3>1. UNCHANGED <<handler, edits, file, memory>>
      BY <1>3 DEF Proxy!Restart
    <3>2. todo' \in [Handlers -> SUBSET Clients] /\ refused' \subseteq Clients
      BY <1>3 DEF Proxy!Restart, Proxy!Answered
    <3>3. link' = link \/ link' = [link EXCEPT ![c] = Proxy!Created]
      BY <1>3 DEF Proxy!Restart, Proxy!Links
    <3>4. link' \in [Clients -> [at : {"off", "created", "dialling", "connected"},
                                 cfg : Nat]]
      BY <3>3 DEF Proxy!Created
    <3> QED
      BY <3>1, <3>2, <3>4
  <2>2. /\ UNCHANGED <<file, memory, crossed, unread, handler>>
        /\ \A g \in Handlers : todo[g] \ {c} \subseteq todo'[g]
    BY <1>3 DEF Proxy!Restart
  <2>3. \A d \in Clients \ {c} : Proxy!Awaited(d) => Proxy!Awaited(d)'
    BY <2>2 DEF Proxy!Awaited
  <2>4. /\ \A d \in Clients \ {c} : /\ link'[d] = link[d]
                                    /\ d \in refused => d \in refused'
        /\ link'[c].at \in {"off", "created"} \/ c \in refused'
    BY <1>3 DEF Proxy!Restart, Proxy!Links, Proxy!Created, Proxy!Off,
       Proxy!Answered
  <2>5. ClientsReached' /\ FileKept' /\ OneChange' /\ crossed' \in BOOLEAN
    BY <2>2, <2>3, <2>4 DEF ClientsReached, FileKept, OneChange
  <2> QED
    BY <2>1, <2>5
<1> QED
  BY <1>1, <1>2, <1>3

LEMMA ClientStep ==
  ASSUME ProxyIInv, NEW c \in Clients,
         \/ Proxy!CreateClient(c) \/ Proxy!Dial(c) \/ Proxy!Connect(c)
         \/ Proxy!Disconnect(c) \/ Proxy!DropClient(c)
  PROVE  ProxyIInv'
<1> USE DEF ProxyIInv, ProxyTyped, Proxy!Links, Proxy!Off, Proxy!Created,
            Proxy!Dialling, Proxy!Connected, Proxy!Answered, Proxy!stores
<1>1. UNCHANGED <<file, memory, crossed, unread, handler, todo, edits>>
  BY DEF Proxy!CreateClient, Proxy!Dial, Proxy!Connect, Proxy!Disconnect,
     Proxy!DropClient
<1>2. /\ refused' \subseteq refused
      /\ \A d \in Clients \ {c} : d \in refused => d \in refused'
  BY DEF Proxy!CreateClient, Proxy!Dial, Proxy!Connect, Proxy!Disconnect,
     Proxy!DropClient
<1>3. link' \in [Clients -> [at : {"off", "created", "dialling", "connected"},
                             cfg : Nat]]
  BY DEF Proxy!CreateClient, Proxy!Dial, Proxy!Connect, Proxy!Disconnect,
     Proxy!DropClient
<1>4. \A d \in Clients \ {c} : link'[d] = link[d]
  BY DEF Proxy!CreateClient, Proxy!Dial, Proxy!Connect, Proxy!Disconnect,
     Proxy!DropClient
<1>5. \/ link'[c].at \in {"off", "created"} \/ link'[c].cfg = memory
      \/ /\ link[c].at = "dialling" /\ link'[c].cfg = link[c].cfg
         /\ refused' = refused
  BY DEF Proxy!CreateClient, Proxy!Dial, Proxy!Connect, Proxy!Disconnect,
     Proxy!DropClient
<1>6. ClientsReached'
  BY <1>1, <1>2, <1>4, <1>5 DEF ClientsReached, Proxy!Awaited
<1> QED
  BY <1>1, <1>2, <1>3, <1>6 DEF FileKept, OneChange

LEMMA ProxyStepInv ==
  ASSUME ProxyIInv, [Proxy!Next]_Proxy!vars
  PROVE  ProxyIInv'
<1>1. CASE Proxy!Reboot
  <2>1. ProxyTyped'
    BY <1>1 DEF ProxyIInv, ProxyTyped, Proxy!Reboot, Proxy!Idle, Proxy!Off
  <2>2. ClientsReached' /\ FileKept' /\ OneChange' /\ crossed' \in BOOLEAN
    BY <1>1 DEF Proxy!Reboot, ClientsReached, FileKept, OneChange, Proxy!Off,
       Proxy!Idle
  <2> QED
    BY <2>1, <2>2 DEF ProxyIInv
<1>2. CASE UNCHANGED Proxy!vars
  BY <1>2 DEF Proxy!vars, ProxyIInv, ProxyTyped, ClientsReached, FileKept,
     OneChange, Proxy!Awaited
<1> QED
  BY <1>1, <1>2, StoreStep, ApplyStep, ClientStep DEF Proxy!Next

----------------------------------------------------------------------------
(* The theorem *)

LEMMA ProxyInvImplies ==
  ASSUME ProxyIInv
  PROVE  Proxy!ProxyReaches
BY DEF ProxyIInv, ClientsReached, FileKept, Proxy!ProxyReaches

\* A client that goes through a replaced proxy is still to be told, or was told
\* and refused; memory and file agree unless the last two changes overlapped or
\* the last start could not read the file (HotApplyProxy, ProxyRuntimeStore.Put).
THEOREM ProxyIsReaching == Proxy!Spec => []Proxy!ProxyReaches
<1>1. Proxy!Init => ProxyIInv
  BY ProxyInitInv
<1>2. ProxyIInv /\ [Proxy!Next]_Proxy!vars => ProxyIInv'
  BY ProxyStepInv
<1>3. ProxyIInv => Proxy!ProxyReaches
  BY ProxyInvImplies
<1> QED
  BY <1>1, <1>2, <1>3, PTL DEF Proxy!Spec

----------------------------------------------------------------------------
(* The types *)

\* The configurations stay within the bound, with what is made of them.
LEMMA ProxyInitTypes ==
  ASSUME MaxChanges \in Nat, Proxy!Init
  PROVE  Proxy!TypeOK
<1>1. file \in Proxy!Configs /\ memory \in Proxy!Configs /\ edits \in Proxy!Configs
  BY DEF Proxy!Init, Proxy!Configs
<1>2. handler \in [Handlers -> [at : {"idle", "rename", "assign", "list", "apply"},
                                cfg : Proxy!Configs]]
  BY DEF Proxy!Init, Proxy!Configs, Proxy!Idle
<1>3. link \in [Clients -> [at : {"off", "created", "dialling", "connected"},
                            cfg : Proxy!Configs]]
  BY DEF Proxy!Init, Proxy!Configs, Proxy!Off
<1>4. /\ todo \in [Handlers -> SUBSET Clients] /\ refused \subseteq Clients
      /\ crossed \in BOOLEAN /\ unread \in BOOLEAN
  BY DEF Proxy!Init
<1> QED
  BY <1>1, <1>2, <1>3, <1>4 DEF Proxy!TypeOK

LEMMA ProxyStepTypes ==
  ASSUME MaxChanges \in Nat, Proxy!TypeOK, [Proxy!Next]_Proxy!vars
  PROVE  Proxy!TypeOK'
<1> DEFINE Doings == [at : {"idle", "rename", "assign", "list", "apply"},
                      cfg : Proxy!Configs]
           Links == [at : {"off", "created", "dialling", "connected"},
                     cfg : Proxy!Configs]
<1> USE DEF Proxy!TypeOK, Proxy!stores
<1>0. 0 \in Proxy!Configs
  BY DEF Proxy!Configs
<1>1. ASSUME NEW h \in Handlers,
             \/ Proxy!Begin(h) \/ Proxy!WriteFails(h) \/ Proxy!Rename(h)
             \/ Proxy!Assign(h) \/ Proxy!Applied(h) \/ Proxy!List(h)
      PROVE  Proxy!TypeOK'
  <2>1. handler[h].cfg \in Proxy!Configs
    OBVIOUS
  <2>2. /\ edits' \in Proxy!Configs /\ file' \in Proxy!Configs
        /\ memory' \in Proxy!Configs
        /\ \E d \in Doings : handler' = [handler EXCEPT ![h] = d]
    <3>1. CASE Proxy!Begin(h)
      <4>1. edits + 1 \in Proxy!Configs
        BY <3>1 DEF Proxy!Begin, Proxy!Configs
      <4> QED
        BY <3>1, <4>1 DEF Proxy!Begin, Proxy!Go, Proxy!Doing
    <3>2. CASE Proxy!WriteFails(h) \/ Proxy!Applied(h)
      BY <1>0, <3>2 DEF Proxy!WriteFails, Proxy!Applied, Proxy!Go, Proxy!Idle
    <3>3. CASE Proxy!Rename(h) \/ Proxy!Assign(h) \/ Proxy!List(h)
      BY <2>1, <3>3 DEF Proxy!Rename, Proxy!Assign, Proxy!List, Proxy!Go,
         Proxy!Doing
    <3> QED
      BY <1>1, <3>1, <3>2, <3>3
  <2>3. todo' \in [Handlers -> SUBSET Clients]
    BY <1>1 DEF Proxy!Begin, Proxy!WriteFails, Proxy!Rename, Proxy!Assign,
       Proxy!Applied, Proxy!List, Proxy!HasClient
  <2>4. UNCHANGED <<link, refused>>
    BY <1>1 DEF Proxy!Begin, Proxy!WriteFails, Proxy!Rename, Proxy!Assign,
       Proxy!Applied, Proxy!List
  <2>5. crossed' \in BOOLEAN /\ unread' \in BOOLEAN
    BY <1>1 DEF Proxy!Begin, Proxy!WriteFails, Proxy!Rename, Proxy!Assign,
       Proxy!Applied, Proxy!List
  <2> QED
    BY <2>2, <2>3, <2>4, <2>5
<1>2. ASSUME NEW c \in Clients,
             \/ \E h \in Handlers : Proxy!Restart(h, c)
             \/ Proxy!CreateClient(c) \/ Proxy!Dial(c) \/ Proxy!Connect(c)
             \/ Proxy!Disconnect(c) \/ Proxy!DropClient(c)
      PROVE  Proxy!TypeOK'
  <2>1. link[c].cfg \in Proxy!Configs
    OBVIOUS
  <2>2. /\ UNCHANGED <<handler, file, memory, edits>>
        /\ \/ UNCHANGED link
           \/ \E l \in Links : link' = [link EXCEPT ![c] = l]
    BY <1>0, <1>2, <2>1 DEF Proxy!Restart, Proxy!CreateClient, Proxy!Dial,
       Proxy!Connect, Proxy!Disconnect, Proxy!DropClient, Proxy!Links,
       Proxy!Off, Proxy!Created, Proxy!Dialling, Proxy!Connected
  <2>3. todo' \in [Handlers -> SUBSET Clients] /\ refused' \subseteq Clients
    BY <1>2 DEF Proxy!Restart, Proxy!CreateClient, Proxy!Dial, Proxy!Connect,
       Proxy!Disconnect, Proxy!DropClient, Proxy!Answered
  <2>4. crossed' = crossed /\ unread' = unread
    BY <1>2 DEF Proxy!Restart, Proxy!CreateClient, Proxy!Dial, Proxy!Connect,
       Proxy!Disconnect, Proxy!DropClient
  <2> QED
    BY <2>2, <2>3, <2>4
<1>3. CASE Proxy!Reboot
  <2>1. crossed' \in BOOLEAN /\ unread' \in BOOLEAN
    BY <1>3 DEF Proxy!Reboot
  <2> QED
    BY <1>0, <1>3, <2>1 DEF Proxy!Reboot, Proxy!Idle, Proxy!Off
<1>4. CASE UNCHANGED Proxy!vars
  BY <1>4 DEF Proxy!vars
<1> QED
  BY <1>1, <1>2, <1>3, <1>4 DEF Proxy!Next

----------------------------------------------------------------------------
(***************************************************************************)
(* BotsKept for any number of handlers, bots and changes.                  *)
(*                                                                         *)
(* What carries it is the lock: only its holder has a changed copy, that   *)
(* copy is the list of now with one entry changed, and the file is the     *)
(* copy once it was written and what was promised before (FileRight).  The *)
(* list of a start that could not read the file is a part of it; the       *)
(* change that writes it leaves nothing unread (ListRight).                *)
(***************************************************************************)

Requests == [at : {"idle", "lock", "save", "assign"},
             op : {"none", "add", "update", "remove"},
             bot : Bots \cup {Bot!Gone}, entry : Bot!Entries]

BotTyped ==
  /\ list \in Bot!Lists /\ file \in Bot!Lists /\ promised \in Bot!Lists
  /\ handler \in [Handlers -> Requests]
  /\ \A h \in Handlers : handler[h].at # "idle" => handler[h].bot \in Bots
  /\ copy \in [Handlers -> Bot!Lists] /\ edits \in Bot!Entries
  /\ lock \subseteq Handlers /\ issued \subseteq Bots
  /\ unread \subseteq Bots /\ dropped \subseteq Bots

\* The handlers that have a copy of the list are inside the lock, which one
\* handler holds.
Locked ==
  /\ \A h \in Handlers : handler[h].at \in {"save", "assign"} <=> h \in lock
  /\ \A g, h \in lock : g = h

CopyRight == \A h \in lock : copy[h] = Bot!Change(h)

FileRight ==
  /\ \A h \in lock : handler[h].at = "assign" => file = copy[h] /\ unread = {}
  /\ (\A h \in lock : handler[h].at # "assign") =>
       \A b \in Bots \ dropped : file[b] = promised[b]

ListRight ==
  \A b \in Bots \ dropped : list[b] = IF b \in unread THEN Bot!Gone ELSE promised[b]

BotIInv == BotTyped /\ Locked /\ CopyRight /\ FileRight /\ ListRight

----------------------------------------------------------------------------
(* The initial state and the steps *)

LEMMA BotInitInv ==
  ASSUME MaxEdits \in Nat, Bot!Init
  PROVE  BotIInv
  BY DEF Bot!Init, BotIInv, BotTyped, Locked, CopyRight, FileRight, ListRight, Requests,
     Bot!Lists, Bot!Entries, Bot!Empty, Bot!Idle, Bot!Gone

LEMMA BotStepTyped ==
  ASSUME MaxEdits \in Nat, BotTyped, Locked, [Bot!Next]_Bot!vars
  PROVE  BotTyped'
<1> USE DEF BotTyped, Bot!Lists, Bot!Entries, Bot!Gone, Requests
<1>1. ASSUME NEW h \in Handlers, Bot!AskAdd(h) \/ Bot!AskUpdate(h) \/ Bot!AskRemove(h)
      PROVE  BotTyped'
  <2>1. CASE Bot!AskAdd(h)
    BY <2>1 DEF Bot!AskAdd, Bot!Asked
  <2>2. CASE Bot!AskUpdate(h)
    BY <2>2 DEF Bot!AskUpdate, Bot!Asked
  <2>3. CASE Bot!AskRemove(h)
    BY <2>3 DEF Bot!AskRemove, Bot!Asked
  <2> QED
    BY <1>1, <2>1, <2>2, <2>3
<1>2. ASSUME NEW h \in Handlers, Bot!TakeLock(h)
      PROVE  BotTyped'
  BY <1>2 DEF Bot!TakeLock, Bot!Change, Bot!At
<1>3. ASSUME NEW h \in Handlers, Bot!NotFound(h) \/ Bot!SaveFails(h)
      PROVE  BotTyped'
  <2>1. CASE Bot!NotFound(h)
    BY <2>1 DEF Bot!NotFound, Bot!Idle
  <2>2. CASE Bot!SaveFails(h)
    BY <2>2 DEF Bot!SaveFails, Bot!Leave, Bot!Idle
  <2> QED
    BY <1>3, <2>1, <2>2
<1>4. ASSUME NEW h \in Handlers, Bot!SaveFile(h)
      PROVE  BotTyped'
  <2>1. handler' = [handler EXCEPT ![h].at = "assign"] /\ handler[h].at = "save"
    BY <1>4 DEF Bot!SaveFile, Bot!At
  <2>2. /\ file' \in Bot!Lists /\ UNCHANGED <<list, lock, copy, issued, edits, promised>>
        /\ unread' \subseteq Bots /\ dropped' \subseteq Bots
    BY <1>4 DEF Bot!SaveFile
  <2>3. [handler[h] EXCEPT !.at = "assign"] \in Requests
    OBVIOUS
  <2>4. handler' \in [Handlers -> Requests]
    BY <2>1, <2>3
  <2>5. \A g \in Handlers : handler'[g].at # "idle" => handler'[g].bot \in Bots
    BY <2>1
  <2> QED
    BY <2>2, <2>4, <2>5
<1>5. ASSUME NEW h \in Handlers, Bot!AssignList(h)
      PROVE  BotTyped'
  BY <1>5 DEF Bot!AssignList, Bot!Leave, Bot!Idle
<1>6. CASE Bot!Restart
  BY <1>6 DEF Bot!Restart, Bot!Idle, Bot!Empty
<1>7. CASE UNCHANGED Bot!vars
  BY <1>7 DEF Bot!vars
<1> QED
  BY <1>1, <1>2, <1>3, <1>4, <1>5, <1>6, <1>7 DEF Bot!Next

\* Outside the lock a handler changes nothing that the others depend on.
LEMMA OutsideLock ==
  ASSUME BotIInv, BotTyped', NEW h \in Handlers, h \notin lock,
         UNCHANGED <<list, file, lock, copy, promised, unread, dropped>>,
         \A g \in Handlers : g # h => handler'[g] = handler[g],
         handler'[h].at \in {"idle", "lock"}
  PROVE  Locked' /\ CopyRight' /\ FileRight' /\ ListRight'
<1> USE DEF BotIInv, BotTyped, Requests, Locked, CopyRight, FileRight,
            ListRight, Bot!Change
<1>1. \A g \in lock : handler'[g] = handler[g]
  OBVIOUS
<1>2. Locked'
  OBVIOUS
<1>3. CopyRight'
  BY <1>1
<1>4. FileRight'
  BY <1>1
<1> QED
  BY <1>2, <1>3, <1>4 DEF ListRight

LEMMA BotStepLocked ==
  ASSUME MaxEdits \in Nat, BotIInv, [Bot!Next]_Bot!vars
  PROVE  Locked' /\ CopyRight' /\ FileRight' /\ ListRight'
<1> USE DEF BotIInv, BotTyped, Requests, Bot!Lists, Bot!Entries, Bot!Gone
<1>1. ASSUME NEW h \in Handlers,
             Bot!AskAdd(h) \/ Bot!AskUpdate(h) \/ Bot!AskRemove(h) \/ Bot!NotFound(h)
      PROVE  Locked' /\ CopyRight' /\ FileRight' /\ ListRight'
  <2>1. h \notin lock /\ UNCHANGED <<list, file, lock, copy, promised, unread, dropped>>
    BY <1>1 DEF Bot!AskAdd, Bot!AskUpdate, Bot!AskRemove, Bot!NotFound, Locked
  <2>2. /\ \A g \in Handlers : g # h => handler'[g] = handler[g]
        /\ handler'[h].at \in {"idle", "lock"}
    BY <1>1 DEF Bot!AskAdd, Bot!AskUpdate, Bot!AskRemove, Bot!NotFound,
       Bot!Asked, Bot!Idle
  <2>3. BotTyped'
    BY BotStepTyped, <1>1
  <2> QED
    BY <2>1, <2>2, <2>3, OutsideLock
<1>2. ASSUME NEW h \in Handlers, Bot!TakeLock(h)
      PROVE  Locked' /\ CopyRight' /\ FileRight' /\ ListRight'
  <2>1. lock = {} /\ lock' = {h} /\ UNCHANGED <<list, file, promised, unread, dropped>>
    BY <1>2 DEF Bot!TakeLock, Bot!Free
  <2>2. /\ handler'[h].at = "save" /\ copy'[h] = Bot!Change(h)
        /\ handler'[h].bot = handler[h].bot /\ handler'[h].entry = handler[h].entry
        /\ \A g \in Handlers : g # h => handler'[g] = handler[g]
    BY <1>2 DEF Bot!TakeLock, Bot!At
  <2>3. Locked'
    BY <2>1, <2>2 DEF Locked
  <2>4. CopyRight'
    BY <2>1, <2>2 DEF CopyRight, Bot!Change
  <2>5. FileRight'
    BY <2>1, <2>2 DEF FileRight
  <2> QED
    BY <2>1, <2>3, <2>4, <2>5 DEF ListRight
<1>3. ASSUME NEW h \in Handlers, Bot!SaveFile(h)
      PROVE  Locked' /\ CopyRight' /\ FileRight' /\ ListRight'
  <2>1. /\ lock = {h} /\ file' = copy[h] /\ UNCHANGED <<list, lock, copy, promised>>
        /\ dropped' = dropped \cup unread /\ unread' = {}
    BY <1>3 DEF Bot!SaveFile, Locked
  <2>2. /\ handler'[h].at = "assign"
        /\ handler'[h].bot = handler[h].bot /\ handler'[h].entry = handler[h].entry
        /\ \A g \in Handlers : g # h => handler'[g] = handler[g]
    BY <1>3 DEF Bot!SaveFile, Bot!At
  <2>3. Locked'
    BY <2>1, <2>2 DEF Locked
  <2>4. CopyRight'
    BY <2>1, <2>2 DEF CopyRight, Bot!Change
  <2>5. FileRight'
    BY <2>1, <2>2 DEF FileRight
  <2>6. ListRight'
    BY <2>1 DEF ListRight
  <2> QED
    BY <2>3, <2>4, <2>5, <2>6
<1>4. ASSUME NEW h \in Handlers, Bot!SaveFails(h)
      PROVE  Locked' /\ CopyRight' /\ FileRight' /\ ListRight'
  <2>1. lock = {h} /\ handler[h].at = "save" /\ lock' = {}
    BY <1>4 DEF Bot!SaveFails, Bot!Leave, Locked
  <2>2. UNCHANGED <<list, file, copy, promised, unread, dropped>>
    BY <1>4 DEF Bot!SaveFails
  <2>3. Locked'
    BY <1>4, <2>1 DEF Bot!SaveFails, Bot!Leave, Bot!Idle, Locked
  <2> QED
    BY <2>1, <2>2, <2>3 DEF CopyRight, FileRight, ListRight
<1>5. ASSUME NEW h \in Handlers, Bot!AssignList(h)
      PROVE  Locked' /\ CopyRight' /\ FileRight' /\ ListRight'
  <2>1. lock = {h} /\ handler[h].at = "assign" /\ lock' = {}
    BY <1>5 DEF Bot!AssignList, Bot!Leave, Locked
  <2>2. /\ list' = Bot!Change(h) /\ file' = Bot!Change(h)
        /\ unread = {} /\ UNCHANGED <<unread, dropped>>
    BY <1>5, <2>1 DEF Bot!AssignList, FileRight, CopyRight
  <2>3. promised' = [promised EXCEPT ![handler[h].bot] = handler[h].entry]
    BY <1>5, <2>1 DEF Bot!AssignList
  <2>4. \A b \in Bots \ dropped : Bot!Change(h)[b] = promised'[b]
    BY <2>1, <2>2, <2>3 DEF ListRight, Bot!Change
  <2>5. Locked'
    BY <1>5, <2>1 DEF Bot!AssignList, Bot!Leave, Bot!Idle, Locked
  <2> QED
    BY <2>1, <2>2, <2>4, <2>5 DEF CopyRight, FileRight, ListRight
<1>6. CASE Bot!Restart
  <2>1. /\ lock' = {} /\ UNCHANGED <<file, dropped>>
        /\ \/ list' = file /\ unread' = {}
           \/ list' = Bot!Empty /\ unread' = {b \in Bots : file[b] # Bot!Gone}
    BY <1>6 DEF Bot!Restart
  <2>2. Locked'
    BY <1>6 DEF Bot!Restart, Bot!Idle, Locked
  <2>3. \A b \in Bots \ dropped : promised'[b] = file[b]
    <3>1. CASE \A h \in lock : handler[h].at # "assign"
      <4>1. \A h \in Handlers : handler[h].at # "assign"
        BY <3>1 DEF Locked
      <4> QED
        BY <1>6, <3>1, <4>1 DEF Bot!Restart, FileRight
    <3>2. CASE \E h \in lock : handler[h].at = "assign"
      <4>1. PICK h \in lock : handler[h].at = "assign"
        BY <3>2
      <4>2. \A g \in Handlers : handler[g].at = "assign" <=> g = h
        BY <4>1 DEF Locked
      <4>3. unread = {} /\ file = [list EXCEPT ![handler[h].bot] = handler[h].entry]
        BY <4>1 DEF FileRight, CopyRight, Bot!Change
      <4>4. \A b \in Bots \ dropped : b # handler[h].bot => file[b] = promised[b]
        BY <4>3 DEF ListRight
      <4>5. promised' = [b \in Bots |-> IF handler[h].bot = b THEN file[b]
                                        ELSE promised[b]]
        BY <1>6, <4>1, <4>2 DEF Bot!Restart
      <4> QED
        BY <4>4, <4>5
    <3> QED
      BY <3>1, <3>2
  <2>4. ListRight'
    BY <2>1, <2>3 DEF ListRight, Bot!Empty
  <2> QED
    BY <2>1, <2>2, <2>3, <2>4 DEF CopyRight, FileRight
<1>7. CASE UNCHANGED Bot!vars
  BY <1>7 DEF Bot!vars, Locked, CopyRight, FileRight, ListRight, Bot!Change
<1> QED
  BY <1>1, <1>2, <1>3, <1>4, <1>5, <1>6, <1>7 DEF Bot!Next

----------------------------------------------------------------------------
(* The theorem *)

LEMMA BotInvImplies ==
  ASSUME BotIInv
  PROVE  Bot!BotsKept
<1> SUFFICES ASSUME NEW b \in Bots \ dropped, file[b] # promised[b]
             PROVE  \E h \in Handlers : handler[h].at = "assign" /\ handler[h].bot = b
  BY DEF BotIInv, ListRight, Bot!BotsKept
<1>1. PICK h \in lock : handler[h].at = "assign"
  BY DEF BotIInv, FileRight
<1>2. unread = {} /\ file = [list EXCEPT ![handler[h].bot] = handler[h].entry]
  BY <1>1 DEF BotIInv, FileRight, CopyRight, Bot!Change
<1> QED
  BY <1>1, <1>2 DEF BotIInv, BotTyped, ListRight, Bot!Lists

LEMMA BotTypesTogether ==
  ASSUME BotTyped
  PROVE  Bot!TypeOK
BY DEF BotTyped, Requests, Bot!TypeOK

\* Memory, file and the answers given agree on every bot, over any changes,
\* failed writes and restarts; a bot is lost only if a start could not read the
\* file and the next change wrote it (TGBotStore.Add, Update, Remove and Load).
THEOREM BotsAreKept ==
  ASSUME MaxEdits \in Nat
  PROVE  Bot!Spec => []Bot!BotsKept
<1>1. Bot!Init => BotIInv
  BY BotInitInv
<1>2. BotIInv /\ [Bot!Next]_Bot!vars => BotIInv'
  BY BotStepTyped, BotStepLocked DEF BotIInv
<1>3. BotIInv => Bot!BotsKept
  BY BotInvImplies
<1> QED
  BY <1>1, <1>2, <1>3, PTL DEF Bot!Spec

----------------------------------------------------------------------------
(***************************************************************************)
(* SessionKept and PendingGone for any number of logins and requests.      *)
(*                                                                         *)
(* A login that works on a path alone finds its own key where it left it   *)
(* (KeyStored), so what it moves or leaves in the final file is the key it *)
(* has authorised; an existing final file only goes with its account       *)
(* (FinalStays), and only a login that wrote it in place can have torn it  *)
(* (TornKnown).  A pending file was left behind, or has a login that will  *)
(* still clean it up or move it (PendingHeld).                             *)
(***************************************************************************)

\* The key of the login is in its file, and the login has not succeeded yet.
Stored(l) == stage[l] \in {"waitScan", "waitCode", "waitPassword", "authorized"}
Loaded(l) == stage[l] = "handshake" \/ Stored(l)
Succeeded(l) == stage[l] = "promoted" \/ l \in told

ToldLast == \A l \in told : stage[l] = "ended"

KeyKnown ==
  \A l \in Logins :
    /\ Loaded(l) => key[l] # Login!None
    /\ Stored(l) => key[l] # Login!Torn
    /\ stage[l] \in {"authorized", "promoted"} => key[l] \in authKeys

FinalStays ==
  \A l \in Logins :
    Login!Running(l) /\ l \notin usePending /\ Login!PathOf(l) \notin removed =>
      final[Login!PathOf(l)] # Login!None

\* What "shared" records.
OneAtATime ==
  \A l, o \in Logins :
    /\ Login!Running(l) /\ Login!Running(o)
    /\ Login!PathOf(l) = Login!PathOf(o) /\ Login!PathOf(l) \notin shared
    => l = o

KeyStored ==
  \A l \in Logins :
    Login!PathOf(l) \notin shared =>
      /\ Stored(l) /\ l \in usePending => pending[Login!PathOf(l)] = key[l]
      /\ /\ Loaded(l) /\ l \notin usePending
         /\ Login!PathOf(l) \notin removed \cup broken
         => final[Login!PathOf(l)] = key[l]

TornKnown ==
  \A p \in Login!Paths : final[p] = Login!Torn => p \in broken \cup shared

Kept ==
  \A l \in Logins :
    Succeeded(l) /\ Login!PathOf(l) \notin removed =>
      /\ final[Login!PathOf(l)] # Login!None
      /\ Login!PathOf(l) \notin shared \cup broken =>
           final[Login!PathOf(l)] \in authKeys

PendingHeld ==
  \A p \in Login!Paths :
    pending[p] # Login!None =>
      p \in left \/ \E l \in usePending : Stored(l) /\ Login!PathOf(l) = p

LoginInv ==
  /\ Login!TypeOK /\ ToldLast /\ KeyKnown /\ FinalStays
  /\ OneAtATime /\ KeyStored /\ TornKnown /\ Kept /\ PendingHeld

\* The null value is not the name of a login.
NamedLogins == Login!None \notin Logins

----------------------------------------------------------------------------
(* The initial state and the steps *)

LEMMA LoginInitInv ==
  ASSUME Login!Init
  PROVE  LoginInv
<1>1. Login!TypeOK
  BY DEF Login!Init, Login!TypeOK, Login!Kinds, Login!Stages, Login!Statuses,
     Login!Keys, Login!Channels, Login!NoHandler, Login!Answers, Login!None
<1>2. /\ ToldLast /\ KeyKnown /\ FinalStays /\ OneAtATime
      /\ KeyStored /\ TornKnown /\ Kept /\ PendingHeld
  BY DEF Login!Init, ToldLast, KeyKnown, FinalStays, OneAtATime,
     KeyStored, TornKnown, Kept, PendingHeld, Login!Running, Loaded, Stored,
     Succeeded, Login!Paths, Login!None, Login!Torn
<1> QED
  BY <1>1, <1>2 DEF LoginInv

LEMMA PathTyped ==
  ASSUME Login!TypeOK, NEW l \in Logins
  PROVE  Login!PathOf(l) \in Login!Paths
BY DEF Login!PathOf, Login!Paths

LEMMA LoginStepTyped ==
  ASSUME Login!TypeOK, KeyKnown, [Login!Next]_Login!vars
  PROVE  Login!TypeOK'
<1> USE DEF Login!TypeOK, Login!Kinds, Login!Stages, Login!Statuses,
            Login!Keys, Login!Channels, Login!Answers, Login!Final, Login!End,
            Login!Publish
<1>1. ASSUME NEW l \in Logins, Login!Open(l) \/ Login!NotConfigured(l) \/ Login!Begin(l) \/ Login!Scanned(l)
      PROVE  Login!TypeOK'
  <2>1. CASE Login!Open(l)
    BY <2>1, PathTyped DEF Login!Open
  <2>2. CASE Login!NotConfigured(l)
    BY <2>2, PathTyped DEF Login!NotConfigured
  <2>3. CASE Login!Begin(l)
    BY <2>3, PathTyped DEF Login!Begin
  <2>4. CASE Login!Scanned(l)
    BY <2>4, PathTyped DEF Login!Scanned
  <2> QED
    BY <1>1, <2>1, <2>2, <2>3, <2>4
<1>2. ASSUME NEW l \in Logins, Login!Load(l)
      PROVE  Login!TypeOK'
  <2>1. Login!PathOf(l) \in Login!Paths
    BY PathTyped
  <2>2. /\ pending[Login!PathOf(l)] \in Login!Keys
        /\ final[Login!PathOf(l)] \in Login!Keys
    BY <2>1
  <2>3. /\ UNCHANGED <<kind, status, listed, usePending, pending, final, authKeys,
                       box, handler, shared, removed, told, left, broken>>
        /\ stage' = [stage EXCEPT ![l] = "handshake"]
        /\ \E k \in Login!Keys : key' = [key EXCEPT ![l] = k]
    BY <1>2, <2>2 DEF Login!Load
  <2> QED
    BY <2>3
<1>3. ASSUME NEW l \in Logins, Login!Connect(l)
      PROVE  Login!TypeOK'
  <2>1. key[l] \in Login!Keys /\ Login!PathOf(l) \in Login!Paths
    BY PathTyped
  <2>2. /\ stage' \in [Logins -> Login!Stages]
        /\ UNCHANGED <<kind, listed, usePending, key, authKeys, box, handler,
                       shared, removed, told, left, broken>>
    BY <1>3 DEF Login!Connect
  <2>3. status' \in [Logins -> Login!Statuses]
    BY <1>3 DEF Login!Connect
  <2>4. pending' \in [Login!Paths -> Login!Keys] /\ final' \in [Login!Paths -> Login!Keys]
    BY <1>3, <2>1, ZenonT(60) DEF Login!Connect
  <2> QED
    BY <2>2, <2>3, <2>4
<1>c. \A l \in Logins : stage[l] \in {"waitScan", "waitCode", "waitPassword"} => key[l] \in Logins
  BY DEF KeyKnown, Loaded, Stored
<1>4. ASSUME NEW l \in Logins, Login!Import(l)
      PROVE  Login!TypeOK'
  <2>1. CASE Login!Authorise(l) /\ UNCHANGED status
    BY <1>4, <1>c, <2>1 DEF Login!Import, Login!Authorise
  <2>2. CASE Login!AskPassword(l)
    BY <1>4, <2>2 DEF Login!Import, Login!AskPassword
  <2> QED
    BY <1>4, <2>1, <2>2 DEF Login!Import
<1>a. ASSUME NEW l \in Logins, NEW c \in Login!Channels
      PROVE  [box EXCEPT ![l][c] = Login!None] \in [Logins -> [Login!Channels -> Login!Answers \cup {Login!None}]]
  OBVIOUS
<1>b. ASSUME NEW l \in Logins, NEW s \in Login!Final, Login!Abandon(l, s)
      PROVE  /\ stage' \in [Logins -> Login!Stages] /\ status' \in [Logins -> Login!Statuses]
             /\ listed' \subseteq Logins /\ pending' \in [Login!Paths -> Login!Keys]
             /\ left' \subseteq Login!Paths
  BY <1>b, PathTyped DEF Login!Abandon, Login!Cleanup
<1>5. ASSUME NEW l \in Logins, Login!TakeCode(l)
      PROVE  Login!TypeOK'
  <2>1. box' \in [Logins -> [Login!Channels -> Login!Answers \cup {Login!None}]]
    BY <1>5, <1>a DEF Login!TakeCode
  <2>2. CASE Login!Abandon(l, "error") /\ UNCHANGED authKeys
    BY <1>5, <1>b, <2>1, <2>2 DEF Login!TakeCode
  <2>3. CASE Login!Authorise(l) /\ UNCHANGED <<status, listed, pending, left>>
    BY <1>5, <1>c, <2>1, <2>3 DEF Login!TakeCode, Login!Authorise
  <2>4. CASE Login!AskPassword(l) /\ UNCHANGED <<listed, pending, left>>
    BY <1>5, <2>1, <2>4 DEF Login!TakeCode, Login!AskPassword
  <2> QED
    BY <1>5, <2>2, <2>3, <2>4 DEF Login!TakeCode
<1>6. ASSUME NEW l \in Logins, Login!TakePassword(l)
      PROVE  Login!TypeOK'
  <2>1. box' \in [Logins -> [Login!Channels -> Login!Answers \cup {Login!None}]]
    BY <1>6, <1>a DEF Login!TakePassword
  <2>2. CASE Login!Abandon(l, "error") /\ UNCHANGED authKeys
    BY <1>6, <1>b, <2>1, <2>2 DEF Login!TakePassword
  <2>3. CASE Login!Authorise(l) /\ UNCHANGED <<status, listed, pending, left>>
    BY <1>6, <1>c, <2>1, <2>3 DEF Login!TakePassword, Login!Authorise
  <2>4. CASE /\ status' = [status EXCEPT ![l] = "need_password"]
             /\ UNCHANGED <<stage, listed, pending, left, authKeys>>
    BY <1>6, <2>1, <2>4 DEF Login!TakePassword
  <2> QED
    BY <1>6, <2>2, <2>3, <2>4 DEF Login!TakePassword
<1>7. ASSUME NEW l \in Logins, Login!GiveUp(l)
      PROVE  Login!TypeOK'
  BY <1>7, <1>b DEF Login!GiveUp
<1>q. ASSUME NEW l \in Logins, Login!EndQuietly(l)
      PROVE  Login!TypeOK'
  BY <1>q, PathTyped DEF Login!EndQuietly
<1>8. ASSUME NEW l \in Logins, Login!Promote(l)
      PROVE  Login!TypeOK'
  <2>1. Login!PathOf(l) \in Login!Paths
    BY PathTyped
  <2>2. /\ pending' \in [Login!Paths -> Login!Keys]
        /\ final' \in [Login!Paths -> Login!Keys]
        /\ left' \subseteq Login!Paths
    <3>1. pending[Login!PathOf(l)] \in Login!Keys /\ Login!None \in Login!Keys
      BY <2>1
    <3>2. \/ UNCHANGED <<pending, final>>
          \/ /\ final' = [final EXCEPT ![Login!PathOf(l)] = pending[Login!PathOf(l)]]
             /\ pending' = [pending EXCEPT ![Login!PathOf(l)] = Login!None]
      BY <1>8 DEF Login!Promote
    <3>3. left' \subseteq left \cup {Login!PathOf(l)}
      BY <1>8 DEF Login!Promote
    <3> QED
      BY <2>1, <3>1, <3>2, <3>3
  <2>3. /\ stage' \in [Logins -> Login!Stages]
        /\ status' \in [Logins -> Login!Statuses]
        /\ listed' \subseteq Logins
    BY <1>8 DEF Login!Promote
  <2>4. UNCHANGED <<kind, usePending, key, authKeys, box, handler, shared,
                    removed, told, broken>>
    BY <1>8 DEF Login!Promote
  <2> QED
    BY <2>2, <2>3, <2>4
<1>9. ASSUME NEW l \in Logins, Login!Announce(l)
      PROVE  Login!TypeOK'
  BY <1>9 DEF Login!Announce
<1>10. ASSUME NEW h \in Handlers, NEW l \in Logins, NEW c \in Login!Channels, NEW a \in Login!Answers,
             Login!Submit(h, l, c, a)
      PROVE  Login!TypeOK'
  BY <1>10 DEF Login!Submit
<1>11. ASSUME NEW h \in Handlers, Login!TrySend(h) \/ Login!Drain(h) \/ Login!BlockingSend(h)
      PROVE  Login!TypeOK'
  <2>1. ASSUME NEW v \in Login!Answers \cup {Login!None}, Login!Put(h, v)
        PROVE  box' \in [Logins -> [Login!Channels -> Login!Answers \cup {Login!None}]]
    <3>1. handler[h].login \in Login!Keys /\ handler[h].channel \in Login!Channels
      OBVIOUS
    <3>2. CASE handler[h].login \in Logins
      BY <2>1, <3>1, <3>2 DEF Login!Put
    <3>3. CASE handler[h].login \notin Logins
      BY <2>1, <3>3 DEF Login!Put
    <3> QED
      BY <3>2, <3>3
  <2>2. handler[h].answer \in Login!Answers
    OBVIOUS
  <2>3. box' \in [Logins -> [Login!Channels -> Login!Answers \cup {Login!None}]]
    BY <1>11, <2>1, <2>2 DEF Login!TrySend, Login!Drain, Login!BlockingSend
  <2>4. handler' \in [Handlers -> [step : {"idle", "try", "drain", "send", "done"},
                               login : Login!Keys, channel : Login!Channels, answer : Login!Answers]]
    <3>1. PICK s \in {"drain", "send", "done"} : handler' = [handler EXCEPT ![h].step = s]
      BY <1>11 DEF Login!TrySend, Login!Drain, Login!BlockingSend, Login!Step
    <3>2. [handler[h] EXCEPT !.step = s] \in [step : {"idle", "try", "drain", "send", "done"},
                               login : Login!Keys, channel : Login!Channels, answer : Login!Answers]
      <4>1. handler[h] \in [step : {"idle", "try", "drain", "send", "done"},
                            login : Login!Keys, channel : Login!Channels, answer : Login!Answers]
        OBVIOUS
      <4> HIDE DEF Login!TypeOK
      <4> QED
        BY <4>1
    <3> QED
      BY <3>1, <3>2
  <2> QED
    BY <1>11, <2>3, <2>4 DEF Login!TrySend, Login!Drain, Login!BlockingSend
<1>12. ASSUME NEW p \in Login!Paths, Login!RemoveAccount(p)
      PROVE  Login!TypeOK'
  BY <1>12 DEF Login!RemoveAccount
<1>13. CASE Login!ProcessEnds
  <2>1. PICK cut \in SUBSET Logins :
          /\ pending' = [p \in Login!Paths |->
               IF \E l \in cut \cap usePending : Login!PathOf(l) = p
               THEN Login!Torn ELSE pending[p]]
          /\ final' = [p \in Login!Paths |->
               IF \E l \in cut \ usePending : Login!PathOf(l) = p
               THEN Login!Torn ELSE final[p]]
          /\ broken' = broken \cup {Login!PathOf(l) : l \in cut \ usePending}
    BY <1>13 DEF Login!ProcessEnds
  <2>2. /\ pending' \in [Login!Paths -> Login!Keys]
        /\ final' \in [Login!Paths -> Login!Keys]
    BY <2>1
  <2>3. broken' \subseteq Login!Paths
    BY <2>1, PathTyped
  <2>4. /\ stage' \in [Logins -> Login!Stages]
        /\ status' \in [Logins -> Login!Statuses]
        /\ listed' \subseteq Logins /\ left' \subseteq Login!Paths
    BY <1>13 DEF Login!ProcessEnds
  <2>5. box' \in [Logins -> [Login!Channels -> Login!Answers \cup {Login!None}]]
    BY <1>13 DEF Login!ProcessEnds
  <2>6. handler' \in [Handlers -> [step : {"idle", "try", "drain", "send", "done"},
                          login : Login!Keys, channel : Login!Channels, answer : Login!Answers]]
    BY <1>13 DEF Login!ProcessEnds, Login!NoHandler
  <2>7. UNCHANGED <<kind, usePending, key, authKeys, shared, removed, told>>
    BY <1>13 DEF Login!ProcessEnds
  <2> QED
    BY <2>2, <2>3, <2>4, <2>5, <2>6, <2>7
<1>14. CASE UNCHANGED Login!vars
  BY <1>14 DEF Login!vars
<1> QED
  BY <1>1, <1>2, <1>3, <1>4, <1>5, <1>6, <1>7, <1>q, <1>8, <1>9, <1>10, <1>11,
     <1>12, <1>13, <1>14 DEF Login!Next

\* The steps of a login.
LEMMA LoginStep ==
  ASSUME NamedLogins, LoginInv, Login!TypeOK', NEW l \in Logins,
         \/ Login!Open(l) \/ Login!NotConfigured(l) \/ Login!Begin(l) \/ Login!Load(l) \/ Login!Connect(l)
         \/ Login!Scanned(l) \/ Login!Import(l) \/ Login!TakeCode(l) \/ Login!TakePassword(l)
         \/ Login!GiveUp(l) \/ Login!EndQuietly(l) \/ Login!Promote(l) \/ Login!Announce(l)
  PROVE  LoginInv'
<1> USE PathTyped DEF NamedLogins, Login!Running, Loaded, Stored, Succeeded
<1>0. /\ Login!TypeOK /\ ToldLast /\ KeyKnown /\ FinalStays
      /\ OneAtATime /\ KeyStored /\ TornKnown /\ Kept /\ PendingHeld
  BY DEF LoginInv
<1> USE <1>0
<1>t. /\ stage \in [Logins -> Login!Stages] /\ status \in [Logins -> Login!Statuses]
      /\ usePending \subseteq Logins /\ told \subseteq Logins
      /\ key \in [Logins -> Login!Keys]
      /\ pending \in [Login!Paths -> Login!Keys] /\ final \in [Login!Paths -> Login!Keys]
  BY DEF Login!TypeOK
<1> USE <1>t
<1>1. UNCHANGED kind /\ \A o \in Logins : Login!PathOf(o)' = Login!PathOf(o) /\ Login!PathOf(o) \in Login!Paths
  BY DEF Login!Open, Login!NotConfigured, Login!Begin, Login!Load,
     Login!Connect, Login!Scanned, Login!Import, Login!TakeCode,
     Login!TakePassword, Login!GiveUp, Login!EndQuietly, Login!Promote, Login!Announce,
     Login!PathOf
<1> USE <1>1
<1>2. ToldLast'
  BY DEF ToldLast, Login!Open, Login!NotConfigured, Login!Begin,
     Login!Load, Login!Connect, Login!Scanned, Login!Import, Login!TakeCode,
     Login!TakePassword, Login!GiveUp, Login!EndQuietly, Login!Promote, Login!Announce,
     Login!End, Login!Publish, Login!Authorise, Login!AskPassword,
     Login!Abandon
<1>3. KeyKnown'
  BY DEF KeyKnown, Login!Open, Login!NotConfigured, Login!Begin, Login!Load,
     Login!Connect, Login!Scanned, Login!Import, Login!TakeCode,
     Login!TakePassword, Login!GiveUp, Login!EndQuietly, Login!Promote, Login!Announce,
     Login!End, Login!Publish, Login!Authorise, Login!AskPassword,
     Login!Abandon
<1>4. FinalStays'
  BY DEF FinalStays, KeyKnown, Login!Open, Login!NotConfigured, Login!Begin,
     Login!Load, Login!Connect, Login!Scanned, Login!Import, Login!TakeCode,
     Login!TakePassword, Login!GiveUp, Login!EndQuietly, Login!Promote, Login!Announce,
     Login!End, Login!Publish, Login!Authorise, Login!AskPassword,
     Login!Abandon, Login!Cleanup
<1>5. OneAtATime'
  <2>1. CASE Login!Open(l) \/ Login!NotConfigured(l)
    BY <2>1 DEF OneAtATime, Login!Open, Login!NotConfigured, Login!End,
       Login!Publish
  <2>2. CASE Login!Begin(l)
    BY <2>2 DEF OneAtATime, Login!Begin, Login!Publish
  <2>3. CASE Login!Load(l)
    BY <2>3 DEF OneAtATime, Login!Load
  <2>4. CASE Login!Connect(l)
    BY <2>4 DEF OneAtATime, Login!Connect, Login!Publish
  <2>5. CASE Login!Scanned(l) \/ Login!Import(l)
    BY <2>5 DEF OneAtATime, Login!Scanned, Login!Import, Login!Publish,
       Login!Authorise, Login!AskPassword
  <2>6. CASE Login!TakeCode(l)
    BY <2>6 DEF OneAtATime, Login!TakeCode, Login!Publish, Login!Authorise,
       Login!AskPassword, Login!Abandon, Login!Cleanup, Login!End
  <2>7. CASE Login!TakePassword(l)
    BY <2>7 DEF OneAtATime, Login!TakePassword, Login!Publish, Login!Authorise,
       Login!AskPassword, Login!Abandon, Login!Cleanup, Login!End
  <2>8. CASE Login!GiveUp(l)
    BY <2>8 DEF OneAtATime, Login!GiveUp, Login!Waiting, Login!Abandon,
       Login!Cleanup, Login!End, Login!Publish
  <2>9. CASE Login!Promote(l)
    BY <2>9 DEF OneAtATime, Login!Promote, Login!End, Login!Publish
  <2>10. CASE Login!Announce(l)
    BY <2>10 DEF OneAtATime, Login!Announce, Login!End, Login!Publish
  <2>11. CASE Login!EndQuietly(l)
    BY <2>11 DEF OneAtATime, Login!EndQuietly,
       Login!Waiting
  <2> QED
    BY <2>1, <2>2, <2>3, <2>4, <2>5, <2>6, <2>7, <2>8, <2>9, <2>10, <2>11
<1>6. KeyStored'
  <2>1. CASE Login!Open(l) \/ Login!NotConfigured(l)
    BY <2>1 DEF KeyStored, KeyKnown, OneAtATime, Login!Open,
       Login!NotConfigured, Login!End, Login!Publish
  <2>2. CASE Login!Begin(l)
    BY <2>2 DEF KeyStored, KeyKnown, OneAtATime, Login!Begin, Login!Publish
  <2>3. CASE Login!Load(l)
    BY <2>3 DEF KeyStored, KeyKnown, OneAtATime, FinalStays, TornKnown,
       Login!Load
  <2>4. CASE Login!Connect(l)
    BY <2>4 DEF KeyStored, KeyKnown, OneAtATime, Login!Connect, Login!Publish
  <2>5. CASE Login!Scanned(l) \/ Login!Import(l)
    BY <2>5 DEF KeyStored, KeyKnown, OneAtATime, Login!Scanned, Login!Import,
       Login!Publish, Login!Authorise, Login!AskPassword
  <2>6. CASE Login!TakeCode(l)
    BY <2>6 DEF KeyStored, KeyKnown, OneAtATime, Login!TakeCode, Login!Publish,
       Login!Authorise, Login!AskPassword, Login!Abandon, Login!Cleanup,
       Login!End
  <2>7. CASE Login!TakePassword(l)
    BY <2>7 DEF KeyStored, KeyKnown, OneAtATime, Login!TakePassword,
       Login!Publish, Login!Authorise, Login!AskPassword, Login!Abandon,
       Login!Cleanup, Login!End
  <2>8. CASE Login!GiveUp(l)
    BY <2>8 DEF KeyStored, KeyKnown, OneAtATime, Login!GiveUp, Login!Waiting,
       Login!Abandon, Login!Cleanup, Login!End, Login!Publish
  <2>9. CASE Login!Promote(l)
    BY <2>9 DEF KeyStored, KeyKnown, OneAtATime, Login!Promote, Login!End,
       Login!Publish
  <2>10. CASE Login!Announce(l)
    BY <2>10 DEF KeyStored, KeyKnown, OneAtATime, Login!Announce, Login!End,
       Login!Publish
  <2>11. CASE Login!EndQuietly(l)
    BY <2>11 DEF KeyStored, KeyKnown, OneAtATime, Login!EndQuietly,
       Login!Waiting
  <2> QED
    BY <2>1, <2>2, <2>3, <2>4, <2>5, <2>6, <2>7, <2>8, <2>9, <2>10, <2>11
<1>7. Kept'
  <2>1. CASE Login!Open(l) \/ Login!NotConfigured(l)
    BY <2>1 DEF OneAtATime, KeyStored, Kept, KeyKnown, FinalStays,
       ToldLast, Login!Open, Login!NotConfigured, Login!End,
       Login!Publish
  <2>2. CASE Login!Begin(l)
    BY <2>2 DEF OneAtATime, KeyStored, Kept, KeyKnown, FinalStays,
       ToldLast, Login!Begin, Login!Publish
  <2>3. CASE Login!Load(l)
    BY <2>3 DEF OneAtATime, KeyStored, Kept, KeyKnown, FinalStays,
       ToldLast, Login!Load
  <2>4. CASE Login!Connect(l)
    BY <2>4 DEF OneAtATime, KeyStored, Kept, KeyKnown, FinalStays,
       ToldLast, Login!Connect, Login!Publish
  <2>5. CASE Login!Scanned(l) \/ Login!Import(l)
    BY <2>5 DEF OneAtATime, KeyStored, Kept, KeyKnown, FinalStays,
       ToldLast, Login!Scanned, Login!Import, Login!Publish,
       Login!Authorise, Login!AskPassword
  <2>6. CASE Login!TakeCode(l)
    BY <2>6 DEF OneAtATime, KeyStored, Kept, KeyKnown, FinalStays,
       ToldLast, Login!TakeCode, Login!Publish, Login!Authorise,
       Login!AskPassword, Login!Abandon, Login!Cleanup, Login!End
  <2>7. CASE Login!TakePassword(l)
    BY <2>7 DEF OneAtATime, KeyStored, Kept, KeyKnown, FinalStays,
       ToldLast, Login!TakePassword, Login!Publish, Login!Authorise,
       Login!AskPassword, Login!Abandon, Login!Cleanup, Login!End
  <2>8. CASE Login!GiveUp(l)
    BY <2>8 DEF OneAtATime, KeyStored, Kept, KeyKnown, FinalStays,
       ToldLast, Login!GiveUp, Login!Waiting, Login!Abandon,
       Login!Cleanup, Login!End, Login!Publish
  <2>9. CASE Login!Promote(l)
    BY <2>9 DEF OneAtATime, KeyStored, Kept, KeyKnown, FinalStays,
       ToldLast, Login!Promote, Login!End, Login!Publish
  <2>10. CASE Login!Announce(l)
    BY <2>10 DEF OneAtATime, KeyStored, Kept, KeyKnown, FinalStays,
       ToldLast, Login!Announce, Login!End, Login!Publish
  <2>11. CASE Login!EndQuietly(l)
    BY <2>11 DEF OneAtATime, KeyStored, Kept, KeyKnown, FinalStays, ToldLast, Login!EndQuietly,
       Login!Waiting
  <2> QED
    BY <2>1, <2>2, <2>3, <2>4, <2>5, <2>6, <2>7, <2>8, <2>9, <2>10, <2>11
<1>w. TornKnown'
  <2>1. CASE Login!Connect(l)
    BY <2>1 DEF TornKnown, KeyKnown, Login!Connect
  <2>2. CASE Login!Promote(l)
    BY <2>2 DEF TornKnown, KeyKnown, KeyStored, Login!Promote
  <2>3. CASE ~Login!Connect(l) /\ ~Login!Promote(l)
    <3>1. final' = final /\ broken' = broken /\ shared \subseteq shared'
      BY <2>3 DEF Login!Open, Login!NotConfigured, Login!Begin, Login!Load,
         Login!Scanned, Login!Import, Login!TakeCode, Login!TakePassword,
         Login!GiveUp, Login!EndQuietly, Login!Announce
    <3> QED
      BY <3>1 DEF TornKnown
  <2> QED
    BY <2>1, <2>2, <2>3
<1>8. PendingHeld'
  <2> SUFFICES ASSUME NEW p \in Login!Paths, pending'[p] # Login!None
               PROVE  \/ p \in left'
                      \/ \E o \in usePending' : Stored(o)' /\ Login!PathOf(o)' = p
    BY DEF PendingHeld, Login!Paths
  <2>1. CASE Login!Connect(l) /\ l \in usePending /\ Login!PathOf(l) = p
    <3>1. usePending' = usePending
      BY <2>1 DEF Login!Connect
    <3>2. \/ stage' = [stage EXCEPT ![l] = "authorized"]
          \/ stage' = [stage EXCEPT ![l] = "waitCode"]
          \/ stage' = [stage EXCEPT ![l] = "waitScan"]
      BY <2>1 DEF Login!Connect
    <3> QED
      BY <2>1, <3>1, <3>2
  <2>2. CASE ~(Login!Connect(l) /\ l \in usePending /\ Login!PathOf(l) = p)
    <3>1. pending[p] # Login!None
      BY <2>2 DEF Login!Open, Login!NotConfigured, Login!Begin, Login!Load,
         Login!Connect, Login!Scanned, Login!Import, Login!TakeCode,
         Login!TakePassword, Login!GiveUp, Login!EndQuietly, Login!Promote, Login!Announce,
         Login!Abandon, Login!Cleanup
    <3>5. CASE p \in left
      BY <2>2, <3>1, <3>5 DEF Login!Open, Login!NotConfigured, Login!Begin,
         Login!Load, Login!Connect, Login!Scanned, Login!Import,
         Login!TakeCode, Login!TakePassword, Login!GiveUp, Login!EndQuietly,
         Login!Promote, Login!Announce, Login!Abandon, Login!Cleanup
    <3>a. SUFFICES ASSUME p \notin left
                   PROVE  \/ p \in left'
                          \/ \E o \in usePending' : Stored(o)' /\ Login!PathOf(o)' = p
      BY <3>5
    <3>2. PICK o \in usePending : Stored(o) /\ Login!PathOf(o) = p
      BY <3>1, <3>a DEF PendingHeld
    <3>3. CASE o # l
      BY <3>2, <3>3 DEF Login!Open, Login!NotConfigured, Login!Begin,
         Login!Load, Login!Connect, Login!Scanned, Login!Import,
         Login!TakeCode, Login!TakePassword, Login!GiveUp, Login!EndQuietly, Login!Promote,
         Login!Announce, Login!Abandon, Login!Cleanup, Login!End,
         Login!Authorise, Login!AskPassword
    <3>4. CASE o = l
      BY <3>2, <3>4 DEF Login!Open, Login!NotConfigured, Login!Begin,
         Login!Load, Login!Connect, Login!Scanned, Login!Import,
         Login!TakeCode, Login!TakePassword, Login!GiveUp, Login!EndQuietly, Login!Promote,
         Login!Announce, Login!Abandon, Login!Cleanup, Login!End,
         Login!Authorise, Login!AskPassword
    <3> QED
      BY <3>3, <3>4
  <2> QED
    BY <2>1, <2>2
<1> QED
  BY <1>2, <1>3, <1>4, <1>5, <1>6, <1>7, <1>w, <1>8 DEF LoginInv

\* The requests and the deletion of an account leave the logins as they are.
LEMMA LoginRests ==
  ASSUME LoginInv, Login!TypeOK',
         \/ \E h \in Handlers :
              \/ \E l \in Logins, c \in Login!Channels, a \in Login!Answers : Login!Submit(h, l, c, a)
              \/ Login!TrySend(h) \/ Login!Drain(h) \/ Login!BlockingSend(h)
         \/ \E p \in Login!Paths : Login!RemoveAccount(p)
         \/ UNCHANGED Login!vars
  PROVE  LoginInv'
<1>1. /\ UNCHANGED <<kind, stage, usePending, key, pending, authKeys, shared,
                     told, left, broken>>
      /\ removed \subseteq removed'
      /\ \A p \in Login!Paths : final'[p] = final[p]
                                \/ (p \in removed' /\ final'[p] # Login!Torn)
  BY DEF Login!Submit, Login!TrySend, Login!Drain, Login!BlockingSend,
     Login!RemoveAccount, Login!vars, LoginInv, Login!TypeOK, Login!None,
     Login!Torn
<1>2. \A l \in Logins : Login!PathOf(l)' = Login!PathOf(l) /\ Login!PathOf(l) \in Login!Paths
  BY <1>1, PathTyped DEF Login!PathOf, LoginInv
<1> QED
  <2>1. ToldLast' /\ KeyKnown' /\ OneAtATime' /\ TornKnown' /\ PendingHeld'
    BY <1>1, <1>2 DEF LoginInv, ToldLast, KeyKnown, OneAtATime, TornKnown,
       PendingHeld, Login!Running, Loaded, Stored, Login!TypeOK, Login!Paths
  <2>2. FinalStays' /\ KeyStored' /\ Kept'
    BY <1>1, <1>2 DEF LoginInv, FinalStays, KeyStored, Kept, Login!Running,
       Loaded, Stored, Succeeded
  <2> QED
    BY <2>1, <2>2 DEF LoginInv

\* The end of the process ends every login and leaves every file.
LEMMA LoginsEnd ==
  ASSUME LoginInv, Login!TypeOK', Login!ProcessEnds
  PROVE  LoginInv'
<1> USE DEF Login!None, Login!Torn
<1>0. /\ Login!TypeOK /\ ToldLast /\ TornKnown /\ Kept
  BY DEF LoginInv
<1>1. PICK cut \in SUBSET Logins :
        /\ final' = [p \in Login!Paths |->
             IF \E l \in cut \ usePending : Login!PathOf(l) = p
             THEN Login!Torn ELSE final[p]]
        /\ broken' = broken \cup {Login!PathOf(l) : l \in cut \ usePending}
  BY DEF Login!ProcessEnds
<1>2. /\ UNCHANGED <<kind, usePending, key, authKeys, shared, removed, told>>
      /\ stage' = [l \in Logins |-> IF stage[l] = "unopened" THEN "unopened" ELSE "ended"]
      /\ left' = {p \in Login!Paths : pending'[p] # Login!None}
  BY DEF Login!ProcessEnds
<1>3. \A l \in Logins : stage'[l] \in {"unopened", "ended"}
  BY <1>2
<1>4. ToldLast'
  BY <1>0, <1>2 DEF ToldLast, Login!TypeOK
<1>5. KeyKnown' /\ FinalStays' /\ OneAtATime' /\ KeyStored'
  BY <1>3 DEF KeyKnown, FinalStays, OneAtATime, KeyStored, Login!Running,
     Loaded, Stored
<1>6. \A p \in Login!Paths : final'[p] = final[p] \/ (final'[p] = Login!Torn /\ p \in broken')
  BY <1>1
<1>7. TornKnown'
  BY <1>0, <1>1, <1>2, <1>6 DEF TornKnown
<1>8. Kept'
  <2> SUFFICES ASSUME NEW l \in Logins, Succeeded(l)', Login!PathOf(l)' \notin removed'
               PROVE  /\ final'[Login!PathOf(l)'] # Login!None
                      /\ Login!PathOf(l)' \notin shared' \cup broken' =>
                           final'[Login!PathOf(l)'] \in authKeys'
    BY DEF Kept
  <2>1. Login!PathOf(l)' = Login!PathOf(l) /\ Login!PathOf(l) \in Login!Paths
    BY <1>0, <1>2, PathTyped DEF Login!PathOf
  <2>2. l \in told
    BY <1>2, <1>3 DEF Succeeded
  <2>3. /\ final[Login!PathOf(l)] # Login!None
        /\ Login!PathOf(l) \notin shared \cup broken => final[Login!PathOf(l)] \in authKeys
    BY <1>0, <1>2, <2>1, <2>2 DEF Kept, Succeeded
  <2>4. broken \subseteq broken'
    BY <1>1
  <2> QED
    BY <1>2, <1>6, <2>1, <2>3, <2>4
<1>9. PendingHeld'
  BY <1>2 DEF PendingHeld
<1> QED
  BY <1>4, <1>5, <1>7, <1>8, <1>9 DEF LoginInv

LEMMA LoginStepInv ==
  ASSUME NamedLogins, LoginInv, [Login!Next]_Login!vars
  PROVE  LoginInv'
<1>1. Login!TypeOK'
  BY LoginStepTyped DEF LoginInv
<1> QED
  BY <1>1, LoginStep, LoginRests, LoginsEnd DEF Login!Next

----------------------------------------------------------------------------
(* The theorems *)

LEMMA LoginInvImplies ==
  ASSUME LoginInv
  PROVE  Login!SessionKept /\ Login!PendingGone
<1>1. Login!SessionKept
  BY DEF LoginInv, Login!TypeOK, Kept, Succeeded, Login!SessionKept
<1>2. Login!PendingGone
  BY DEF LoginInv, Login!TypeOK, PendingHeld, Stored, Login!Running,
     Login!PendingGone
<1> QED
  BY <1>1, <1>2

\* session.go, promotePendingSession: whatever logins, answers, deletions and
\* crashes come in between, a login told to be authorised has left a session that
\* works, unless its account was deleted, another login of the phone overlapped,
\* or the process ended while a later one was writing the file.
THEOREM SessionIsKept ==
  ASSUME NamedLogins
  PROVE  Login!Spec => []Login!SessionKept
<1>1. Login!Init => LoginInv
  BY LoginInitInv
<1>2. LoginInv /\ [Login!Next]_Login!vars => LoginInv'
  BY LoginStepInv
<1>3. LoginInv => Login!SessionKept
  BY LoginInvImplies
<1> QED
  BY <1>1, <1>2, <1>3, PTL DEF Login!Spec

\* session.go, cleanupPendingSession: in whatever order logins of one phone end,
\* the last one leaves no pending file, unless the process or a client without
\* an error ended, or the file could not be moved.
THEOREM PendingIsGone ==
  ASSUME NamedLogins
  PROVE  Login!Spec => []Login!PendingGone
<1>1. Login!Init => LoginInv
  BY LoginInitInv
<1>2. LoginInv /\ [Login!Next]_Login!vars => LoginInv'
  BY LoginStepInv
<1>3. LoginInv => Login!PendingGone
  BY LoginInvImplies
<1> QED
  BY <1>1, <1>2, <1>3, PTL DEF Login!Spec

----------------------------------------------------------------------------
(***************************************************************************)
(* OneClient and WaitersReleased for any number of tasks and runtimes.     *)
(*                                                                         *)
(* A runtime that was created is in the map, in the hands of the removal,  *)
(* or was dealt with by it (OnTheMap); so two clients that work are both   *)
(* the map's.  A start that has begun has a task or a loop that finishes   *)
(* it (StartsFinish).                                                      *)
(***************************************************************************)

\* A task that has a runtime has one that was created.
Owned ==
  \A t \in Tasks :
    caller[t].step \notin {"idle", "checked", "refused"} =>
      caller[t].runtime \in 1..created

OnTheMap ==
  /\ entry <= created
  /\ \A r \in Runtime!Runtimes : loop[r] # "none" => r <= created
  /\ \A r \in 1..created :
       \/ r = entry
       \/ remover.step = "holding" /\ remover.runtime = r
       \/ r \in slipped \cup stopped

\* What runs or is waited for was claimed.
StartsClaimed ==
  /\ \A r \in Runtime!Runtimes : loop[r] # "none" => ready[r] # "absent"
  /\ \A t \in Tasks :
       caller[t].step \in {"building", "built", "waiting"} =>
         ready[caller[t].runtime] # "absent"

Starting(r) ==
  \E t \in Tasks : caller[t].runtime = r /\ caller[t].step \in {"building", "built"}

StartsFinish ==
  \A r \in Runtime!Runtimes :
    /\ ready[r] = "open" /\ loop[r] = "none" => Starting(r)
    /\ loop[r] = "ended" /\ r \notin stopped \cup stranded => ready[r] = "closed"

RuntimeInv == Runtime!TypeOK /\ Owned /\ OnTheMap /\ StartsClaimed /\ StartsFinish

RuntimeBound == MaxRuntimes \in Nat

----------------------------------------------------------------------------
(* The initial state and the steps *)

LEMMA RuntimeInitInv ==
  ASSUME RuntimeBound, Runtime!Init
  PROVE  RuntimeInv
BY DEF RuntimeBound, Runtime!Init, RuntimeInv, Runtime!TypeOK, Owned, OnTheMap,
   StartsClaimed, StartsFinish, Runtime!Runtimes, Runtime!Loops,
   Runtime!CallerSteps, Runtime!Idle, Runtime!NoRuntime

\* A task that goes on keeps its runtime.
LEMMA Walks ==
  ASSUME Runtime!TypeOK, NEW t \in Tasks, NEW s \in Runtime!CallerSteps, Runtime!Goes(t, s)
  PROVE  /\ caller'[t].step = s /\ caller'[t].runtime = caller[t].runtime
         /\ \A o \in Tasks : o # t => caller'[o] = caller[o]
         /\ caller' \in [Tasks -> [step : Runtime!CallerSteps, runtime : 0..MaxRuntimes]]
<1>1. caller[t] \in [step : Runtime!CallerSteps, runtime : 0..MaxRuntimes]
  BY DEF Runtime!TypeOK
<1>2. [caller[t] EXCEPT !.step = s] \in [step : Runtime!CallerSteps, runtime : 0..MaxRuntimes]
  BY <1>1
<1> QED
  BY <1>1, <1>2 DEF Runtime!TypeOK, Runtime!Goes

LEMMA OwnedRuntime ==
  ASSUME Runtime!TypeOK, Owned, NEW t \in Tasks,
         caller[t].step \notin {"idle", "checked", "refused"}
  PROVE  caller[t].runtime \in 1..created /\ caller[t].runtime \in Runtime!Runtimes
BY DEF Runtime!TypeOK, Owned, Runtime!Runtimes

\* What a task does while its run starts.
LEMMA CallerStep ==
  ASSUME RuntimeBound, RuntimeInv, NEW t \in Tasks,
         \/ Runtime!PickSession(t) \/ Runtime!GetOrCreate(t) \/ Runtime!Claim(t) \/ Runtime!Build(t)
         \/ Runtime!Launch(t) \/ Runtime!Released(t) \/ Runtime!StopTask(t)
  PROVE  RuntimeInv'
<1> USE DEF RuntimeBound, Runtime!At, Runtime!FinishStart, Runtime!CallerSteps,
            Runtime!Loops, Runtime!Idle, Runtime!NoRuntime, Runtime!Runtimes
<1>0. Runtime!TypeOK /\ Owned /\ OnTheMap /\ StartsClaimed /\ StartsFinish
  BY DEF RuntimeInv
<1>1. ASSUME Runtime!PickSession(t) \/ Runtime!Released(t) \/ Runtime!StopTask(t)
      PROVE  RuntimeInv'
  <2>1. /\ UNCHANGED <<session, entry, created, ready, failed, cancel, stopped,
                       loop, remover, slipped, stranded>>
        /\ caller[t].step \in {"idle", "waiting", "connected", "refused"}
        /\ \A o \in Tasks : o # t => caller'[o] = caller[o]
    BY <1>0, <1>1 DEF Runtime!PickSession, Runtime!Released, Runtime!StopTask,
       Runtime!Goes, Runtime!TypeOK
  <2>2. /\ caller' \in [Tasks -> [step : Runtime!CallerSteps, runtime : 0..MaxRuntimes]]
        /\ \/ caller'[t].step \in {"idle", "checked", "refused"}
           \/ /\ caller'[t].step = "connected" /\ caller'[t].runtime = caller[t].runtime
              /\ caller[t].step = "waiting"
    <3>1. CASE Runtime!PickSession(t)
      BY <1>0, <3>1 DEF Runtime!PickSession, Runtime!Goes, Runtime!TypeOK
    <3>2. CASE Runtime!Released(t)
      BY <1>0, <3>2 DEF Runtime!Released, Runtime!Goes, Runtime!TypeOK
    <3>3. CASE Runtime!StopTask(t)
      BY <1>0, <3>3 DEF Runtime!StopTask, Runtime!TypeOK
    <3> QED
      BY <1>1, <3>1, <3>2, <3>3
  <2>3. Runtime!TypeOK'
    BY <1>0, <2>1, <2>2 DEF Runtime!TypeOK
  <2>4. Owned' /\ OnTheMap' /\ StartsClaimed'
    BY <1>0, <2>1, <2>2 DEF Owned, OnTheMap, StartsClaimed
  <2>5. StartsFinish'
    BY <1>0, <2>1, <2>2 DEF StartsFinish, Starting
  <2> QED
    BY <2>3, <2>4, <2>5 DEF RuntimeInv
<1>2. ASSUME Runtime!GetOrCreate(t)
      PROVE  RuntimeInv'
  <2>1. /\ UNCHANGED <<session, ready, failed, cancel, stopped, loop, remover,
                       slipped, stranded>>
        /\ caller' = [caller EXCEPT ![t] = [step |-> "holding", runtime |-> entry']]
        /\ \/ entry # Runtime!NoRuntime /\ UNCHANGED <<entry, created>>
           \/ entry = Runtime!NoRuntime /\ entry' = created + 1 /\ created' = entry' /\ created < MaxRuntimes
    BY <1>2 DEF Runtime!GetOrCreate
  <2>2. entry' \in 1..created' /\ created' \in created..MaxRuntimes
    BY <1>0, <2>1 DEF Runtime!TypeOK, OnTheMap
  <2>3. /\ caller'[t].step = "holding" /\ caller'[t].runtime = entry'
        /\ \A o \in Tasks : o # t => caller'[o] = caller[o]
        /\ caller' \in [Tasks -> [step : Runtime!CallerSteps, runtime : 0..MaxRuntimes]]
    BY <1>0, <2>1, <2>2 DEF Runtime!TypeOK
  <2>4. Runtime!TypeOK'
    BY <1>0, <2>1, <2>2, <2>3 DEF Runtime!TypeOK
  <2>5. Owned'
    BY <1>0, <2>2, <2>3 DEF Runtime!TypeOK, Owned
  <2>6. OnTheMap'
    BY <1>0, <2>1, <2>2 DEF Runtime!TypeOK, OnTheMap
  <2>7. StartsClaimed'
    BY <1>0, <2>1, <2>3 DEF StartsClaimed
  <2>8. StartsFinish'
    <3>1. Runtime!At(t, "checked")
      BY <1>2 DEF Runtime!GetOrCreate
    <3> QED
      BY <1>0, <2>1, <2>3, <3>1 DEF StartsFinish, Starting
  <2> QED
    BY <2>4, <2>5, <2>6, <2>7, <2>8 DEF RuntimeInv
<1>3. ASSUME Runtime!Claim(t)
      PROVE  RuntimeInv'
  <2> DEFINE r == caller[t].runtime
             Now(s) == caller'[t].step = s
  <2>1. r \in 1..created /\ r \in Runtime!Runtimes /\ Runtime!At(t, "holding")
    BY <1>0, <1>3, OwnedRuntime DEF Runtime!Claim
  <2> HIDE DEF Runtime!Runtimes
  <2>2. /\ caller'[t].runtime = r
        /\ \A o \in Tasks : o # t => caller'[o] = caller[o]
        /\ caller' \in [Tasks -> [step : Runtime!CallerSteps, runtime : 0..MaxRuntimes]]
        /\ \/ /\ ready[r] = "absent" /\ ready' = [ready EXCEPT ![r] = "open"]
              /\ Now("building") /\ loop' = loop
           \/ ready[r] # "absent" /\ Now("waiting") /\ UNCHANGED <<ready,
                                                                   loop>>
    <3>1. {"building", "waiting"} \subseteq Runtime!CallerSteps
      OBVIOUS
    <3> HIDE DEF Runtime!CallerSteps
    <3> QED
      BY <1>0, <1>3, <3>1, Walks DEF Runtime!Claim
  <2>3. UNCHANGED <<session, entry, created, stopped, remover, slipped,
                    stranded>>
    BY <1>3 DEF Runtime!Claim
  <2>4. Runtime!TypeOK'
    BY <1>0, <1>3, <2>1, <2>2, <2>3 DEF Runtime!Claim, Runtime!TypeOK
  <2>5. Owned'
    BY <1>0, <2>1, <2>2, <2>3 DEF Owned
  <2>6. OnTheMap'
    BY <1>0, <2>1, <2>2, <2>3 DEF Runtime!TypeOK, OnTheMap
  <2>7. StartsClaimed'
    BY <1>0, <2>1, <2>2, OwnedRuntime, SMTT(30) DEF Runtime!TypeOK, StartsClaimed
  <2>8. StartsFinish'
    <3>1. \A q \in Runtime!Runtimes : q # r => (Starting(q) => Starting(q)')
      BY <2>2 DEF Starting
    <3>2. r \in Runtime!Runtimes => (Now("building") \/ Now("built") => Starting(r)')
      BY <2>2 DEF Starting
    <3>3. ready'[r] = "open" /\ loop'[r] = "none" => Starting(r)'
      BY <1>0, <2>1, <2>2, <3>2 DEF Runtime!TypeOK, StartsFinish, Starting,
         Runtime!At
    <3>4. loop'[r] = "ended" /\ r \notin stopped' \cup stranded' => ready'[r] = "closed"
      BY <1>0, <2>1, <2>2, <2>3 DEF Runtime!TypeOK, StartsClaimed, StartsFinish
    <3>5. \A q \in Runtime!Runtimes : q # r => ready'[q] = ready[q] /\ loop'[q] = loop[q]
      BY <1>0, <2>2 DEF Runtime!TypeOK
    <3> QED
      BY <1>0, <2>2, <2>3, <3>1, <3>3, <3>4, <3>5 DEF StartsFinish, Starting
  <2> QED
    BY <2>4, <2>5, <2>6, <2>7, <2>8 DEF RuntimeInv
<1>4. ASSUME Runtime!Build(t)
      PROVE  RuntimeInv'
  <2> DEFINE r == caller[t].runtime
             Now(s) == caller'[t].step = s
  <2>1. r \in 1..created /\ r \in Runtime!Runtimes /\ Runtime!At(t, "building")
    BY <1>0, <1>4, OwnedRuntime DEF Runtime!Build
  <2> HIDE DEF Runtime!Runtimes
  <2>2. /\ caller'[t].runtime = r
        /\ \A o \in Tasks : o # t => caller'[o] = caller[o]
        /\ caller' \in [Tasks -> [step : Runtime!CallerSteps, runtime : 0..MaxRuntimes]]
        /\ \/ Now("built") /\ UNCHANGED <<ready, loop>>
           \/ /\ Now("refused") /\ ready' = [ready EXCEPT ![r] = "closed"]
              /\ loop' = loop
    <3>1. {"built", "refused"} \subseteq Runtime!CallerSteps
      OBVIOUS
    <3> HIDE DEF Runtime!CallerSteps
    <3> QED
      BY <1>0, <1>4, <3>1, Walks DEF Runtime!Build
  <2>3. UNCHANGED <<session, entry, created, stopped, remover, slipped,
                    stranded>>
    BY <1>4 DEF Runtime!Build
  <2>4. Runtime!TypeOK'
    BY <1>0, <1>4, <2>1, <2>2, <2>3 DEF Runtime!Build, Runtime!TypeOK
  <2>5. Owned'
    BY <1>0, <2>1, <2>2, <2>3 DEF Owned
  <2>6. OnTheMap'
    BY <1>0, <2>1, <2>2, <2>3 DEF Runtime!TypeOK, OnTheMap
  <2>7. StartsClaimed'
    BY <1>0, <2>1, <2>2, OwnedRuntime, SMTT(30) DEF Runtime!TypeOK, StartsClaimed
  <2>8. StartsFinish'
    <3>1. \A q \in Runtime!Runtimes : q # r => (Starting(q) => Starting(q)')
      BY <2>2 DEF Starting
    <3>2. r \in Runtime!Runtimes => (Now("building") \/ Now("built") => Starting(r)')
      BY <2>2 DEF Starting
    <3> QED
      BY <1>0, <2>1, <2>2, <2>3, <3>1, <3>2 DEF Runtime!TypeOK, StartsFinish
  <2> QED
    BY <2>4, <2>5, <2>6, <2>7, <2>8 DEF RuntimeInv
<1>5. ASSUME Runtime!Launch(t)
      PROVE  RuntimeInv'
  <2> DEFINE r == caller[t].runtime
             Now(s) == caller'[t].step = s
  <2>1. r \in 1..created /\ r \in Runtime!Runtimes /\ Runtime!At(t, "built")
    BY <1>0, <1>5, OwnedRuntime DEF Runtime!Launch
  <2> HIDE DEF Runtime!Runtimes
  <2>2. /\ caller'[t].runtime = r
        /\ \A o \in Tasks : o # t => caller'[o] = caller[o]
        /\ caller' \in [Tasks -> [step : Runtime!CallerSteps, runtime : 0..MaxRuntimes]]
        /\ Now("waiting") /\ ready' = ready /\ loop' = [loop EXCEPT ![r] = "dialing"]
    <3>1. {"waiting"} \subseteq Runtime!CallerSteps
      OBVIOUS
    <3> HIDE DEF Runtime!CallerSteps
    <3> QED
      BY <1>0, <1>5, <3>1, Walks DEF Runtime!Launch
  <2>3. UNCHANGED <<session, entry, created, stopped, remover, slipped,
                    stranded>>
    BY <1>5 DEF Runtime!Launch
  <2>4. Runtime!TypeOK'
    BY <1>0, <1>5, <2>1, <2>2, <2>3 DEF Runtime!Launch, Runtime!TypeOK
  <2>5. Owned'
    BY <1>0, <2>1, <2>2, <2>3 DEF Owned
  <2>6. OnTheMap'
    BY <1>0, <2>1, <2>2, <2>3 DEF Runtime!TypeOK, OnTheMap
  <2>7. StartsClaimed'
    BY <1>0, <2>1, <2>2, OwnedRuntime, SMTT(30) DEF Runtime!TypeOK, StartsClaimed
  <2>8. StartsFinish'
    <3>1. \A q \in Runtime!Runtimes : q # r => (Starting(q) => Starting(q)')
      BY <2>2 DEF Starting
    <3>2. r \in Runtime!Runtimes => (Now("building") \/ Now("built") => Starting(r)')
      BY <2>2 DEF Starting
    <3> QED
      BY <1>0, <2>1, <2>2, <2>3, <3>1, <3>2 DEF Runtime!TypeOK, StartsFinish
  <2> QED
    BY <2>4, <2>5, <2>6, <2>7, <2>8 DEF RuntimeInv
<1> QED
  BY <1>1, <1>2, <1>3, <1>4, <1>5

\* The loop of a runtime.
LEMMA LoopStep ==
  ASSUME RuntimeInv, NEW r \in Runtime!Runtimes,
         Runtime!Authorised(r) \/ Runtime!Breaks(r) \/ Runtime!Dies(r)
         \/ Runtime!EndsQuietly(r) \/ Runtime!Cancelled(r) \/ Runtime!Redial(r)
  PROVE  RuntimeInv'
<1> USE DEF Runtime!FinishStart, Runtime!Loops
<1>0. Runtime!TypeOK /\ Owned /\ OnTheMap /\ StartsClaimed /\ StartsFinish
  BY DEF RuntimeInv
<1>1. /\ UNCHANGED <<session, entry, created, cancel, stopped, caller, remover,
                     slipped>>
      /\ loop[r] # "none"
      /\ \E l \in Runtime!Loops \ {"none"} :
           /\ loop' = [loop EXCEPT ![r] = l]
           /\ l = "ended" /\ r \notin stopped \cup stranded' => ready'[r] = "closed"
      /\ failed' \in {failed, failed \cup {r}}
      /\ ready' = ready \/ ready' = [ready EXCEPT ![r] = "closed"]
      /\ stranded' \in {stranded, stranded \cup {r}}
  <2>1. CASE Runtime!Authorised(r) \/ Runtime!Breaks(r)
    BY <1>0, <2>1 DEF Runtime!Authorised, Runtime!Breaks
  <2>2. CASE Runtime!Dies(r)
    BY <1>0, <2>2 DEF Runtime!Dies, Runtime!TypeOK, StartsClaimed
  <2>3. CASE Runtime!EndsQuietly(r)
    BY <1>0, <2>3 DEF Runtime!EndsQuietly, Runtime!TypeOK, StartsClaimed
  <2>4. CASE Runtime!Cancelled(r)
    BY <1>0, <2>4 DEF Runtime!Cancelled
  <2>5. CASE Runtime!Redial(r)
    BY <1>0, <2>5 DEF Runtime!Redial, Runtime!TypeOK, StartsClaimed
  <2> QED
    BY <2>1, <2>2, <2>3, <2>4, <2>5
<1>2. Runtime!TypeOK'
  BY <1>0, <1>1 DEF Runtime!TypeOK
<1>3. Owned' /\ OnTheMap'
  BY <1>0, <1>1 DEF Runtime!TypeOK, Owned, OnTheMap
<1>4. StartsClaimed'
  BY <1>0, <1>1, OwnedRuntime DEF Runtime!TypeOK, StartsClaimed
<1>5. StartsFinish'
  BY <1>0, <1>1 DEF Runtime!TypeOK, StartsFinish, Starting
<1> QED
  BY <1>2, <1>3, <1>4, <1>5 DEF RuntimeInv

\* The removal of the account, and a login after it.
LEMMA RemovalStep ==
  ASSUME RuntimeBound, RuntimeInv, Runtime!TakeOff \/ Runtime!Shutdown \/ Runtime!RemoveFile \/ Runtime!LogInAgain \/ UNCHANGED Runtime!vars
  PROVE  RuntimeInv'
<1> USE DEF RuntimeBound, Runtime!Idle, Runtime!NoRuntime, Runtime!Runtimes
<1>0. Runtime!TypeOK /\ Owned /\ OnTheMap /\ StartsClaimed /\ StartsFinish
  BY DEF RuntimeInv
<1>1. /\ UNCHANGED <<created, ready, failed, loop, caller, stranded>>
      /\ stopped \subseteq stopped'
  BY DEF Runtime!TakeOff, Runtime!Shutdown, Runtime!RemoveFile,
     Runtime!LogInAgain, Runtime!vars
<1>2. Runtime!TypeOK'
  <2>1. CASE Runtime!TakeOff
    BY <1>0, <1>1, <2>1 DEF Runtime!TypeOK, Runtime!TakeOff
  <2>2. CASE Runtime!Shutdown
    <3>1. remover' \in [step : {"idle", "holding", "built"}, runtime : 0..MaxRuntimes]
      BY <1>0, <2>2 DEF Runtime!TypeOK, Runtime!Shutdown
    <3>2. remover.runtime = Runtime!NoRuntime \/ remover.runtime \in Runtime!Runtimes
      BY <1>0 DEF Runtime!TypeOK
    <3> HIDE DEF Runtime!Runtimes
    <3> QED
      BY <1>0, <1>1, <2>2, <3>1, <3>2 DEF Runtime!TypeOK, Runtime!Shutdown
  <2>3. CASE Runtime!RemoveFile
    <3>1. session' \in BOOLEAN /\ UNCHANGED <<entry, cancel, stopped, slipped>>
      BY <2>3 DEF Runtime!RemoveFile
    <3>2. remover' \in [step : {"idle", "holding", "built"}, runtime : 0..MaxRuntimes]
      BY <2>3 DEF Runtime!RemoveFile
    <3> QED
      BY <1>0, <1>1, <3>1, <3>2 DEF Runtime!TypeOK
  <2>4. CASE Runtime!LogInAgain \/ UNCHANGED Runtime!vars
    BY <1>0, <1>1, <2>4 DEF Runtime!TypeOK, Runtime!LogInAgain, Runtime!vars
  <2> QED
    BY <2>1, <2>2, <2>3, <2>4
<1>3. Owned' /\ StartsClaimed' /\ StartsFinish'
  BY <1>0, <1>1 DEF Owned, StartsClaimed, StartsFinish, Starting
<1>4. OnTheMap'
  BY <1>0, <1>1 DEF Runtime!TypeOK, OnTheMap, Runtime!TakeOff,
     Runtime!Shutdown, Runtime!RemoveFile, Runtime!LogInAgain, Runtime!vars
<1> QED
  BY <1>2, <1>3, <1>4 DEF RuntimeInv

LEMMA RuntimeStepInv ==
  ASSUME RuntimeBound, RuntimeInv, [Runtime!Next]_Runtime!vars
  PROVE  RuntimeInv'
BY CallerStep, LoopStep, RemovalStep DEF Runtime!Next

LEMMA RuntimeInvImplies ==
  ASSUME RuntimeInv
  PROVE  Runtime!OneClient /\ Runtime!WaitersReleased
<1> USE DEF RuntimeInv, Runtime!Runtimes
<1>1. Runtime!OneClient
  <2> SUFFICES ASSUME NEW r \in Runtime!Runtimes, NEW s \in Runtime!Runtimes, Runtime!Active(r), Runtime!Active(s), r # s,
                      {r, s} \cap slipped = {},
                      ~(remover.step = "holding" /\ remover.runtime \in {r, s})
               PROVE  FALSE
    BY DEF Runtime!OneClient
  <2>1. r \in 1..created /\ s \in 1..created
    BY DEF Runtime!Active, OnTheMap, Runtime!TypeOK
  <2>2. r = entry /\ s = entry
    BY <2>1 DEF Runtime!Active, OnTheMap
  <2> QED
    BY <2>2
<1>2. Runtime!WaitersReleased
  BY DEF Runtime!WaitersReleased, Runtime!At, Runtime!TypeOK, Owned,
     StartsClaimed, StartsFinish, Starting, Runtime!Loops
<1> QED
  BY <1>1, <1>2

\* monitor.go: clients of the tasks never share a session file, and whoever waits
\* for a start waits for somebody, in every order of starts, failures, removals
\* and logins (telegramRuntimeManager, ensureStarted, runWithReconnect).
THEOREM RuntimeIsShared ==
  ASSUME RuntimeBound
  PROVE  Runtime!Spec => [](Runtime!OneClient /\ Runtime!WaitersReleased)
<1>1. Runtime!Init => RuntimeInv
  BY RuntimeInitInv
<1>2. RuntimeInv /\ [Runtime!Next]_Runtime!vars => RuntimeInv'
  BY RuntimeStepInv
<1>3. RuntimeInv => Runtime!OneClient /\ Runtime!WaitersReleased
  BY RuntimeInvImplies
<1> QED
  BY <1>1, <1>2, <1>3, PTL DEF Runtime!Spec

----------------------------------------------------------------------------
(***************************************************************************)
(* HandlesAccounted and MappingKept for any number of runs, messages and   *)
(* connections.                                                            *)
(*                                                                         *)
(* An actor that installs or closes has a connection of its own: it is not *)
(* in the table, and no other such actor has it (OwnConnection).  A run    *)
(* that records mappings and has not been robbed finds a connection in the *)
(* table (StillThere), and the one it writes through stays open, since     *)
(* whoever closes it has robbed the run first (WritesLand).                *)
(***************************************************************************)

DbTyped ==
  /\ conns \in Nat /\ opened \in Nat
  /\ open \subseteq 1..opened /\ conns <= opened
  /\ step \in [Db!Actors -> Db!Steps]
  /\ hand \in [Db!Actors -> 0..opened]
  /\ recorded \in [Runs -> SUBSET (Messages \cup {Db!NoMessage})]
  /\ unwritten \in [Runs -> SUBSET (Messages \cup {Db!NoMessage})]
  /\ message \in [Runs -> Messages \cup {Db!NoMessage}]

Carrying(a) == step[a] \in {"installing", "closing"}

TableOpen == conns # Db!NoHandle => conns \in open

OwnConnection ==
  \A a \in Db!Actors : Carrying(a) =>
    /\ hand[a] # Db!NoHandle => hand[a] # conns
    /\ step[a] = "installing" => hand[a] \in open
    /\ \A b \in Db!Actors \ {a} : Carrying(b) /\ hand[a] # Db!NoHandle => hand[a] # hand[b]

Accounted ==
  \A h \in open \ lost :
    h = conns \/ \E a \in Db!Actors : hand[a] = h /\ Carrying(a)

HandleInv == DbTyped /\ TableOpen /\ OwnConnection /\ Accounted

DeleterWay == step[Db!Deleter] \in {"idle", "closing", "removing", "ended"}

\* A run past its first opening owns what it opened, if it records mappings.
Opened(r) == step[r] \in {"comments", "taking", "running", "writing"}
OwnsReplies == \A r \in keepReply : r \in Runs /\ (Opened(r) => r \in owner)

OwnersBusy == \A r \in Runs : r \in owner => step[r] # "idle"

StillThere ==
  \A r \in Runs : r \in owner /\ step[r] \notin {"closing", "ended"} =>
    r \in robbed \/ conns # Db!NoHandle

WritesLand ==
  \A r \in Runs : step[r] = "writing" /\ r \notin robbed =>
    /\ hand[r] \in open
    /\ \A a \in Db!Actors : Carrying(a) => hand[a] # hand[r]

NoOrphans == step[Db!Deleter] # "ended" => orphans = {}

MappingInv ==
  /\ DeleterWay /\ OwnsReplies /\ OwnersBusy /\ StillThere
  /\ WritesLand /\ NoOrphans /\ Db!MappingKept

\* The runs and the handler that deletes the task are different goroutines.
Apart == Db!Deleter \notin Runs

----------------------------------------------------------------------------
(* HandlesAccounted *)

LEMMA InitHandles ==
  ASSUME Apart, Db!Init
  PROVE  HandleInv
<1>1. DbTyped
  BY DEF Db!Init, DbTyped, Db!Steps, Db!NoHandle
<1>2. TableOpen /\ OwnConnection /\ Accounted
  BY DEF Db!Init, TableOpen, OwnConnection, Accounted, Carrying, Db!NoHandle
<1> QED
  BY <1>1, <1>2 DEF HandleInv

LEMMA StepHandles ==
  ASSUME Apart, HandleInv, [Db!Next]_Db!vars
  PROVE  HandleInv'
<1> USE DEF HandleInv, Db!Actors, Db!At, Db!Goes, Db!NoHandle, Db!Steps
<1>1. ASSUME NEW r \in Runs,
             \/ Db!Start(r) \/ Db!OpenForReplies(r) \/ Db!OpenForComments(r) \/ Db!OpenFails(r)
             \/ Db!TakeConnection(r)
      PROVE  HandleInv'
  <2>1. /\ UNCHANGED <<conns, hand, message, recorded, unwritten>>
        /\ ~Carrying(r) /\ ~Carrying(r)'
        /\ \A a \in Db!Actors \ {r} : step'[a] = step[a]
        /\ step' \in [Db!Actors -> Db!Steps]
    BY <1>1 DEF Db!Start, Db!OpenForReplies, Db!OpenForComments, Db!OpenFails,
       Db!TakeConnection, Carrying, Db!AfterOpen, DbTyped
  <2>2. \/ UNCHANGED <<open, opened, lost>>
        \/ /\ opened' = opened + 1
           /\ open' = open \cup {opened + 1} /\ lost' = lost \cup {opened + 1}
    BY <1>1 DEF Db!Start, Db!OpenForReplies, Db!OpenForComments, Db!OpenFails,
       Db!TakeConnection
  <2>3. DbTyped'
    <3>1. opened' \in Nat /\ opened <= opened' /\ open' \subseteq 1..opened'
      <4>1. CASE UNCHANGED <<open, opened, lost>>
        BY <4>1 DEF DbTyped
      <4>2. CASE opened' = opened + 1 /\ open' = open \cup {opened + 1}
        BY <4>2 DEF DbTyped
      <4> QED
        BY <2>2, <4>1, <4>2
    <3>2. conns' \in Nat /\ conns' <= opened'
      BY <2>1, <3>1 DEF DbTyped
    <3>3. 0..opened \subseteq 0..opened'
      BY <3>1 DEF DbTyped
    <3>4. hand' \in [Db!Actors -> 0..opened']
      BY <2>1, <3>3 DEF DbTyped
    <3> QED
      BY <2>1, <3>1, <3>2, <3>4 DEF DbTyped
  <2>4. \A a \in Db!Actors : Carrying(a)' <=> Carrying(a)
    BY <2>1 DEF Carrying
  <2>5. TableOpen' /\ Accounted'
    BY <2>1, <2>2, <2>4 DEF TableOpen, Accounted
  <2>6. OwnConnection'
    BY <2>1, <2>2, <2>4 DEF OwnConnection, Carrying
  <2> QED
    BY <2>3, <2>5, <2>6
<1>2. ASSUME NEW r \in Runs, Db!OpenFile(r)
      PROVE  HandleInv'
  <2>1. opened + 1 \notin open /\ \A a \in Db!Actors : hand[a] # opened + 1
    BY DEF DbTyped
  <2>2. DbTyped'
    BY <1>2 DEF Db!OpenFile, DbTyped
  <2>3. TableOpen'
    BY <1>2 DEF Db!OpenFile, TableOpen
  <2>4. OwnConnection'
    BY <1>2, <2>1 DEF Db!OpenFile, OwnConnection, Carrying, DbTyped
  <2>5. Accounted'
    BY <1>2, <2>1 DEF Db!OpenFile, Accounted, Carrying, DbTyped
  <2> QED
    BY <2>2, <2>3, <2>4, <2>5
<1>3. ASSUME NEW r \in Runs, Db!Install(r)
      PROVE  HandleInv'
  <2>1. hand[r] \in open /\ hand[r] # 0
    BY <1>3 DEF Db!Install, OwnConnection, Carrying, DbTyped
  <2>2. DbTyped'
    BY <1>3, <2>1 DEF Db!Install, DbTyped, Db!AfterOpen
  <2>3. TableOpen'
    BY <1>3, <2>1 DEF Db!Install, TableOpen
  <2>4. OwnConnection'
    BY <1>3, <2>1 DEF Db!Install, OwnConnection, Carrying, Db!AfterOpen,
       DbTyped
  <2>5. Accounted'
    BY <1>3, <2>1 DEF Db!Install, Accounted, Carrying, Db!AfterOpen, DbTyped
  <2> QED
    BY <2>2, <2>3, <2>4, <2>5
<1>4. ASSUME NEW r \in Runs,
             Db!WriteRow(r) \/ (\E m \in Messages : Db!Record(r, m) \/ Db!Lookup(r, m))
      PROVE  HandleInv'
  <2>1. /\ UNCHANGED <<conns, open, opened, lost>>
        /\ ~Carrying(r) /\ ~Carrying(r)'
        /\ \A a \in Db!Actors \ {r} : step'[a] = step[a] /\ hand'[a] = hand[a]
    BY <1>4 DEF Db!WriteRow, Db!Record, Db!Lookup, Carrying, DbTyped
  <2>2. DbTyped'
    <3>1. CASE Db!WriteRow(r)
      <4>1. /\ recorded' = [recorded EXCEPT ![r] = @ \cup {message[r]}]
            /\ message' = [message EXCEPT ![r] = Db!NoMessage]
            /\ hand' = [hand EXCEPT ![r] = 0] /\ step' = [step EXCEPT ![r] = "running"]
        BY <3>1 DEF Db!WriteRow
      <4>2. recorded' \in [Runs -> SUBSET (Messages \cup {Db!NoMessage})]
        BY <4>1 DEF DbTyped
      <4>3. unwritten' \in [Runs -> SUBSET (Messages \cup {Db!NoMessage})]
        BY <3>1 DEF Db!WriteRow, DbTyped
      <4> QED
        BY <2>1, <4>1, <4>2, <4>3 DEF DbTyped
    <3>2. CASE \E m \in Messages : Db!Record(r, m)
      BY <3>2 DEF Db!Record, DbTyped
    <3>3. CASE \E m \in Messages : Db!Lookup(r, m)
      BY <3>3 DEF Db!Lookup, DbTyped
    <3> QED
      BY <1>4, <3>1, <3>2, <3>3
  <2>3. TableOpen'
    BY <2>1 DEF TableOpen
  <2>4. OwnConnection'
    BY <2>1 DEF OwnConnection, Carrying
  <2>5. Accounted'
    BY <2>1 DEF Accounted, Carrying
  <2> QED
    BY <2>2, <2>3, <2>4, <2>5
<1>5. ASSUME NEW a \in Db!Actors, Db!TakeOff(a), ~Carrying(a),
             UNCHANGED <<open, opened, message, recorded, unwritten, lost>>
      PROVE  HandleInv'
  <2>1. DbTyped'
    BY <1>5 DEF Db!TakeOff, DbTyped
  <2>2. TableOpen'
    BY <1>5 DEF Db!TakeOff, TableOpen
  <2>3. OwnConnection'
    BY <1>5 DEF Db!TakeOff, OwnConnection, Carrying, DbTyped
  <2>4. Accounted'
    BY <1>5 DEF Db!TakeOff, Accounted, Carrying, DbTyped
  <2> QED
    BY <2>1, <2>2, <2>3, <2>4
<1>6. ASSUME NEW r \in Runs, Db!Finish(r)
      PROVE  HandleInv'
  <2>1. CASE r \in owner
    BY <1>5, <1>6, <2>1 DEF Db!Finish, Carrying
  <2>2. CASE r \notin owner
    <3>1. /\ UNCHANGED <<conns, open, opened, hand, message, recorded,
                         unwritten, lost>>
          /\ ~Carrying(r) /\ ~Carrying(r)'
          /\ \A a \in Db!Actors \ {r} : step'[a] = step[a]
      BY <1>6, <2>2 DEF Db!Finish, Carrying, DbTyped
    <3>2. DbTyped'
      BY <1>6, <2>2 DEF Db!Finish, DbTyped
    <3>3. TableOpen' /\ Accounted' /\ OwnConnection'
      BY <3>1 DEF TableOpen, Accounted, OwnConnection, Carrying
    <3> QED
      BY <3>2, <3>3
  <2> QED
    BY <2>1, <2>2
<1>7. ASSUME Db!Destroy
      PROVE  HandleInv'
  BY <1>5, <1>7 DEF Db!Destroy, Carrying
<1>8. ASSUME NEW a \in Db!Actors, Db!CloseConnection(a)
      PROVE  HandleInv'
  <2>1. Carrying(a) /\ 0 \notin open
    BY <1>8 DEF Db!CloseConnection, Carrying, DbTyped
  <2>2. DbTyped'
    <3>1. /\ open' \subseteq open /\ UNCHANGED <<conns, opened, message, recorded,
                                                 unwritten>>
          /\ hand' = [hand EXCEPT ![a] = 0]
      BY <1>8 DEF Db!CloseConnection
    <3>2. step' \in [Db!Actors -> Db!Steps]
      BY <1>8 DEF Db!CloseConnection, DbTyped
    <3>3. hand' \in [Db!Actors -> 0..opened]
      BY <3>1 DEF DbTyped
    <3> QED
      BY <3>1, <3>2, <3>3 DEF DbTyped
  <2>3. TableOpen'
    BY <1>8, <2>1 DEF Db!CloseConnection, TableOpen, OwnConnection
  <2>4. OwnConnection'
    BY <1>8, <2>1 DEF Db!CloseConnection, OwnConnection, Carrying, DbTyped
  <2>5. Accounted'
    BY <1>8, <2>1 DEF Db!CloseConnection, Accounted, Carrying, DbTyped
  <2> QED
    BY <2>2, <2>3, <2>4, <2>5
<1>9. ASSUME Db!RemoveFile
      PROVE  HandleInv'
  <2>1. DbTyped'
    BY <1>9 DEF Db!RemoveFile, DbTyped
  <2>2. TableOpen' /\ Accounted' /\ OwnConnection'
    BY <1>9 DEF Db!RemoveFile, TableOpen, Accounted, OwnConnection, Carrying,
       DbTyped
  <2> QED
    BY <2>1, <2>2
<1>10. ASSUME UNCHANGED Db!vars
       PROVE  HandleInv'
  BY <1>10 DEF Db!vars, DbTyped, TableOpen, OwnConnection, Accounted, Carrying
<1> QED
  BY <1>1, <1>2, <1>3, <1>4, <1>6, <1>7, <1>8, <1>9, <1>10 DEF Db!Next

LEMMA HandleInvImplies ==
  ASSUME HandleInv
  PROVE  Db!HandlesAccounted
BY DEF HandleInv, TableOpen, Accounted, Carrying, Db!HandlesAccounted

\* manager.go, Open, Close and Destroy: every open connection is in the table or
\* in the hands of the actor that will install or close it, and the table holds
\* no closed one, for any number of runs.
THEOREM HandlesAreAccounted ==
  ASSUME Apart
  PROVE  Db!Spec => []Db!HandlesAccounted
<1>1. HandleInv => Db!HandlesAccounted
  BY HandleInvImplies
<1> QED
  BY InitHandles, StepHandles, <1>1, PTL DEF Db!Spec

----------------------------------------------------------------------------
(* MappingKept *)

LEMMA InitMappings ==
  ASSUME Apart, Db!Init
  PROVE  MappingInv
  BY DEF Db!Init, MappingInv, Apart, Db!Actors, DeleterWay, OwnsReplies,
     OwnersBusy, StillThere, WritesLand, NoOrphans, Db!MappingKept, Opened,
     Carrying, Db!At, Db!NoHandle

LEMMA StepMappings ==
  ASSUME Apart, HandleInv, HandleInv', MappingInv, [Db!Next]_Db!vars
  PROVE  MappingInv'
<1> USE DEF Db!Actors, Db!At, Db!Goes, Db!NoHandle
<1>a. DbTyped /\ DbTyped' /\ TableOpen /\ OwnConnection /\ Db!Deleter \in Db!Actors /\ Db!Deleter \notin Runs
  BY DEF HandleInv, Apart
<1> USE <1>a DEF DbTyped
<1>1. ASSUME NEW r \in Runs, Db!Start(r)
      PROVE  MappingInv'
  BY <1>1 DEF Db!Start, MappingInv, DeleterWay, OwnsReplies, OwnersBusy,
     StillThere, WritesLand, NoOrphans, Db!MappingKept, Opened, Carrying
<1>2. ASSUME NEW r \in Runs, Db!OpenForReplies(r)
      PROVE  MappingInv'
  BY <1>2 DEF Db!OpenForReplies, MappingInv, DeleterWay, OwnsReplies,
     OwnersBusy, StillThere, WritesLand, NoOrphans, Db!MappingKept, Opened,
     Carrying
<1>3. ASSUME NEW r \in Runs, Db!OpenForComments(r)
      PROVE  MappingInv'
  BY <1>3 DEF Db!OpenForComments, MappingInv, DeleterWay, OwnsReplies,
     OwnersBusy, StillThere, WritesLand, NoOrphans, Db!MappingKept, Opened,
     Carrying
<1>4. ASSUME NEW r \in Runs, Db!OpenFile(r)
      PROVE  MappingInv'
  BY <1>4 DEF Db!OpenFile, MappingInv, DeleterWay, OwnsReplies, OwnersBusy,
     StillThere, WritesLand, NoOrphans, Db!MappingKept, Opened, Carrying
<1>5. ASSUME NEW r \in Runs, Db!OpenFails(r)
      PROVE  MappingInv'
  BY <1>5 DEF Db!OpenFails, Db!AfterOpen, MappingInv, DeleterWay, OwnsReplies,
     OwnersBusy, StillThere, WritesLand, NoOrphans, Db!MappingKept, Opened,
     Carrying
<1>6. ASSUME NEW r \in Runs, Db!Install(r)
      PROVE  MappingInv'
  BY <1>6 DEF Db!Install, Db!AfterOpen, MappingInv, DeleterWay, OwnsReplies,
     OwnersBusy, StillThere, WritesLand, NoOrphans, Db!MappingKept, Opened,
     Carrying, OwnConnection
<1>7. ASSUME NEW r \in Runs, Db!TakeConnection(r)
      PROVE  MappingInv'
  BY <1>7 DEF Db!TakeConnection, MappingInv, DeleterWay, OwnsReplies,
     OwnersBusy, StillThere, WritesLand, NoOrphans, Db!MappingKept, Opened,
     Carrying
<1>8. ASSUME NEW r \in Runs, NEW m \in Messages, Db!Record(r, m)
      PROVE  MappingInv'
  BY <1>8 DEF Db!Record, MappingInv, DeleterWay, OwnsReplies, OwnersBusy,
     StillThere, WritesLand, NoOrphans, Db!MappingKept, Opened, Carrying,
     TableOpen, OwnConnection
<1>9. ASSUME NEW r \in Runs, NEW m \in Messages, Db!Lookup(r, m)
      PROVE  MappingInv'
  BY <1>9 DEF Db!Lookup, MappingInv, DeleterWay, OwnsReplies, OwnersBusy,
     StillThere, WritesLand, NoOrphans, Db!MappingKept, Opened, Carrying
<1>10. ASSUME NEW r \in Runs, Db!WriteRow(r)
       PROVE  MappingInv'
  <2>1. /\ UNCHANGED <<keepReply, owner, robbed, orphans, open, conns>>
        /\ step' = [step EXCEPT ![r] = "running"]
        /\ hand' = [hand EXCEPT ![r] = 0]
        /\ step[r] = "writing"
    BY <1>10 DEF Db!WriteRow
  <2>2. DeleterWay' /\ OwnsReplies' /\ OwnersBusy' /\ StillThere'
    BY <2>1 DEF MappingInv, DeleterWay, OwnsReplies, OwnersBusy, StillThere, Opened
  <2>3. WritesLand' /\ NoOrphans'
    BY <2>1 DEF MappingInv, WritesLand, NoOrphans, Carrying
  <2>4. Db!MappingKept'
    <3>1. recorded' = [recorded EXCEPT ![r] = @ \cup {message[r]}]
      BY <1>10 DEF Db!WriteRow
    <3>2. \A o \in Runs \ {r} : recorded'[o] = recorded[o] /\ unwritten'[o] = unwritten[o]
      BY <1>10, <3>1 DEF Db!WriteRow
    <3>3. rows \subseteq rows' /\ unwritten[r] \subseteq unwritten'[r]
      BY <1>10 DEF Db!WriteRow
    <3>4. r \notin robbed /\ step[Db!Deleter] # "ended" =>
            message[r] \in rows' \cup unwritten'[r]
      BY <1>10, <2>1 DEF Db!WriteRow, MappingInv, WritesLand, NoOrphans
    <3>5. recorded'[r] = recorded[r] \cup {message[r]}
      BY <3>1
    <3> QED
      BY <2>1, <3>2, <3>3, <3>4, <3>5 DEF MappingInv, Db!MappingKept
  <2> QED
    BY <2>2, <2>3, <2>4 DEF MappingInv
<1>11. ASSUME NEW r \in Runs, Db!Finish(r)
       PROVE  MappingInv'
  BY <1>11 DEF Db!Finish, Db!TakeOff, Db!Alive, MappingInv, DeleterWay,
     OwnsReplies, OwnersBusy, StillThere, WritesLand, NoOrphans,
     Db!MappingKept, Opened, Carrying
<1>12. ASSUME Db!Destroy
       PROVE  MappingInv'
  BY <1>12 DEF Db!Destroy, Db!TakeOff, Db!Alive, MappingInv, DeleterWay,
     OwnsReplies, OwnersBusy, StillThere, WritesLand, NoOrphans,
     Db!MappingKept, Opened, Carrying
<1>13. ASSUME NEW a \in Db!Actors, Db!CloseConnection(a)
       PROVE  MappingInv'
  BY <1>13 DEF Db!CloseConnection, MappingInv, DeleterWay, OwnsReplies,
     OwnersBusy, StillThere, WritesLand, NoOrphans, Db!MappingKept, Opened,
     Carrying
<1>14. ASSUME Db!RemoveFile
       PROVE  MappingInv'
  BY <1>14 DEF Db!RemoveFile, MappingInv, DeleterWay, OwnsReplies, OwnersBusy,
     StillThere, WritesLand, NoOrphans, Db!MappingKept, Opened, Carrying
<1>15. ASSUME UNCHANGED Db!vars
       PROVE  MappingInv'
  BY <1>15 DEF Db!vars, MappingInv, DeleterWay, OwnsReplies, OwnersBusy,
     StillThere, WritesLand, NoOrphans, Db!MappingKept, Opened, Carrying
<1> QED
  BY <1>1, <1>2, <1>3, <1>4, <1>5, <1>6, <1>7, <1>8, <1>9, <1>10, <1>11, <1>12,
     <1>13,
     <1>14, <1>15 DEF Db!Next

\* keep_reply.go, storeMsgMapping: while the task is not deleted, a mapping that a
\* run has recorded is in the file, unless another actor took its connection off
\* the table under it, for any number of runs and messages.
THEOREM MappingsAreKept ==
  ASSUME Apart
  PROVE  Db!Spec => []Db!MappingKept
<1>1. MappingInv => Db!MappingKept
  BY DEF MappingInv
<1> QED
  BY InitHandles, StepHandles, InitMappings, StepMappings, <1>1, PTL DEF
     Db!Spec

----------------------------------------------------------------------------
(* The types *)

\* What is written is a message, not the name of none.
MessageInHand == \A r \in Runs : step[r] = "writing" => message[r] \in Messages
DbTypes == Db!TypeOK /\ MessageInHand

LEMMA DbInitTypes ==
  ASSUME MaxHandles \in Nat, Db!Init
  PROVE  DbTypes
<1>1. mirror \in BOOLEAN
  BY DEF Db!Init
<1>2. MessageInHand
  BY DEF Db!Init, MessageInHand, Db!Actors
<1> QED
  BY <1>1, <1>2 DEF Db!Init, DbTypes, Db!TypeOK, Db!Steps, Db!NoHandle

LEMMA DbStepTypes ==
  ASSUME MaxHandles \in Nat, DbTypes, [Db!Next]_Db!vars
  PROVE  DbTypes'
<1> USE DEF DbTypes, Db!TypeOK, Db!Actors, Db!At, Db!Goes, Db!Handles,
        Db!NoHandle
<1>0. ASSUME NEW a \in Db!Actors, NEW s \in Db!Steps \ {"writing"},
             step' = [step EXCEPT ![a] = s],
             \A r \in Runs : r # a => message'[r] = message[r]
      PROVE  step' \in [Db!Actors -> Db!Steps] /\ MessageInHand'
  BY <1>0 DEF MessageInHand
<1>1. ASSUME NEW r \in Runs,
             \/ Db!Start(r) \/ Db!OpenForReplies(r) \/ Db!OpenForComments(r)
             \/ Db!OpenFails(r) \/ Db!TakeConnection(r) \/ Db!Install(r)
             \/ Db!OpenFile(r)
      PROVE  DbTypes'
  <2>1. \E s \in Db!Steps \ {"writing"} : step' = [step EXCEPT ![r] = s]
    BY <1>1 DEF Db!Start, Db!OpenForReplies, Db!OpenForComments, Db!OpenFails,
       Db!TakeConnection, Db!Install, Db!OpenFile, Db!AfterOpen, Db!Steps
  <2>2. UNCHANGED <<mirror, message, cache, rows, orphans, recorded, robbed,
                    unwritten>>
    BY <1>1 DEF Db!Start, Db!OpenForReplies, Db!OpenForComments, Db!OpenFails,
       Db!TakeConnection, Db!Install, Db!OpenFile
  <2>3. step' \in [Db!Actors -> Db!Steps] /\ MessageInHand'
    BY <1>0, <2>1, <2>2
  <2>4. keepReply' \subseteq Runs /\ owner' \subseteq Runs
    BY <1>1 DEF Db!Start, Db!OpenForReplies, Db!OpenForComments, Db!OpenFails,
       Db!TakeConnection, Db!Install, Db!OpenFile
  <2>5. conns' \in 0..MaxHandles
    BY <1>1 DEF Db!Start, Db!OpenForReplies, Db!OpenForComments, Db!OpenFails,
       Db!TakeConnection, Db!Install, Db!OpenFile
  <2>6. opened' \in 0..MaxHandles /\ open' \subseteq Db!Handles
    <3>1. \/ UNCHANGED <<opened, open>>
          \/ /\ opened < MaxHandles /\ opened' = opened + 1
             /\ open' = open \cup {opened + 1}
      BY <1>1 DEF Db!Start, Db!OpenForReplies, Db!OpenForComments, Db!OpenFails,
         Db!TakeConnection, Db!Install, Db!OpenFile
    <3>2. opened \in 0..MaxHandles /\ open \subseteq 1..MaxHandles
      OBVIOUS
    <3>3. opened < MaxHandles => opened + 1 \in 1..MaxHandles
      BY <3>2
    <3>4. opened' \in 0..MaxHandles
      BY <3>1, <3>2
    <3>5. open' \subseteq 1..MaxHandles
      BY <3>1, <3>2, <3>3
    <3> QED
      BY <3>4, <3>5
  <2>7. lost' \subseteq Db!Handles
    <3>1. \/ lost' = lost
          \/ conns # Db!NoHandle /\ lost' = lost \cup {conns}
          \/ opened < MaxHandles /\ lost' = lost \cup {opened + 1}
      BY <1>1 DEF Db!Start, Db!OpenForReplies, Db!OpenForComments, Db!OpenFails,
         Db!TakeConnection, Db!Install, Db!OpenFile
    <3>2. /\ lost \subseteq 1..MaxHandles
          /\ conns # 0 => conns \in 1..MaxHandles
          /\ opened < MaxHandles => opened + 1 \in 1..MaxHandles
      OBVIOUS
    <3> QED
      BY <3>1, <3>2
  <2>8. /\ hand' \in [Db!Actors -> 0..MaxHandles]
        /\ comments' \in [Runs -> 0..MaxHandles]
    BY <1>1 DEF Db!Start, Db!OpenForReplies, Db!OpenForComments, Db!OpenFails,
       Db!TakeConnection, Db!Install, Db!OpenFile
  <2> QED
    BY <2>2, <2>3, <2>4, <2>5, <2>6, <2>7, <2>8
<1>2. ASSUME NEW r \in Runs, NEW m \in Messages, Db!Record(r, m) \/ Db!Lookup(r, m)
      PROVE  DbTypes'
  <2>1. UNCHANGED <<keepReply, mirror, conns, open, opened, comments, owner,
                    rows, orphans, robbed, lost, unwritten>>
    BY <1>2 DEF Db!Record, Db!Lookup
  <2>2. cache' \subseteq Messages
    BY <1>2 DEF Db!Record, Db!Lookup
  <2>3. recorded' \in [Runs -> SUBSET Messages]
    BY <1>2 DEF Db!Record, Db!Lookup
  <2>4. /\ step' \in [Db!Actors -> Db!Steps]
        /\ hand' \in [Db!Actors -> 0..MaxHandles]
        /\ message' \in [Runs -> Messages \cup {Db!NoMessage}]
    BY <1>2 DEF Db!Record, Db!Lookup, Db!Steps
  <2>5. MessageInHand'
    BY <1>2 DEF Db!Record, Db!Lookup, MessageInHand
  <2> QED
    BY <2>1, <2>2, <2>3, <2>4, <2>5
<1>3. ASSUME NEW r \in Runs, Db!WriteRow(r)
      PROVE  DbTypes'
  <2>1. message[r] \in Messages
    BY <1>3 DEF Db!WriteRow, MessageInHand
  <2>2. UNCHANGED <<keepReply, mirror, conns, open, opened, comments, owner,
                    cache, orphans, robbed, lost>>
    BY <1>3 DEF Db!WriteRow
  <2>3. rows' \subseteq Messages
    BY <1>3, <2>1 DEF Db!WriteRow
  <2>4. /\ recorded' \in [Runs -> SUBSET Messages]
        /\ unwritten' \in [Runs -> SUBSET Messages]
    BY <1>3, <2>1 DEF Db!WriteRow
  <2>5. /\ hand' \in [Db!Actors -> 0..MaxHandles]
        /\ message' \in [Runs -> Messages \cup {Db!NoMessage}]
    BY <1>3 DEF Db!WriteRow
  <2>6. step' \in [Db!Actors -> Db!Steps] /\ MessageInHand'
    <3>1. "running" \in Db!Steps \ {"writing"}
      BY DEF Db!Steps
    <3> QED
      BY <1>0, <1>3, <3>1 DEF Db!WriteRow
  <2> QED
    BY <2>2, <2>3, <2>4, <2>5, <2>6
<1>4. ASSUME (\E r \in Runs : Db!Finish(r)) \/ Db!Destroy \/ Db!RemoveFile
             \/ \E a \in Db!Actors : Db!CloseConnection(a)
      PROVE  DbTypes'
  <2>1. UNCHANGED <<keepReply, mirror, opened, comments, owner, message,
                    recorded, lost, unwritten>>
    BY <1>4 DEF Db!Finish, Db!Destroy, Db!RemoveFile, Db!CloseConnection
  <2>2. \E a \in Db!Actors, s \in Db!Steps \ {"writing"} : step' = [step EXCEPT ![a] = s]
    BY <1>4 DEF Db!Finish, Db!Destroy, Db!RemoveFile, Db!CloseConnection,
       Db!TakeOff, Db!Steps
  <2>3. step' \in [Db!Actors -> Db!Steps] /\ MessageInHand'
    BY <1>0, <2>1, <2>2
  <2>4. conns' \in 0..MaxHandles /\ open' \subseteq open
    BY <1>4 DEF Db!Finish, Db!Destroy, Db!RemoveFile, Db!CloseConnection,
       Db!TakeOff
  <2>5. hand' \in [Db!Actors -> 0..MaxHandles]
    BY <1>4 DEF Db!Finish, Db!Destroy, Db!RemoveFile, Db!CloseConnection,
       Db!TakeOff
  <2>6. cache' \subseteq Messages /\ rows' \subseteq Messages
    BY <1>4 DEF Db!Finish, Db!Destroy, Db!RemoveFile, Db!CloseConnection
  <2>7. orphans' \subseteq Db!Handles /\ robbed' \subseteq Runs
    BY <1>4 DEF Db!Finish, Db!Destroy, Db!RemoveFile, Db!CloseConnection,
       Db!TakeOff
  <2> QED
    BY <2>1, <2>3, <2>4, <2>5, <2>6, <2>7
<1>5. CASE UNCHANGED Db!vars
  BY <1>5 DEF Db!vars, MessageInHand
<1> QED
  BY <1>1, <1>2, <1>3, <1>4, <1>5 DEF Db!Next

----------------------------------------------------------------------------
(***************************************************************************)
(* DailyLimitKept and CountHonest for every limit and any number of days.  *)
(*                                                                         *)
(* Neither is inductive.  That the limit holds rests on the gate, which    *)
(* looks at the counter of the goroutine, so the counter must know every   *)
(* unit of the day (QuotaKnows) except the one on its way to be counted;   *)
(* a reset may only happen when there is nothing to forget, which follows  *)
(* from what row and counter know together; and a unit that has passed     *)
(* the gate must still fit when it is sent (RoomToSend).                   *)
(***************************************************************************)

\* No counter is dated ahead of the calendar.
DatesPast ==
  /\ row.date <= day /\ quota.date <= day /\ task.date <= day
  /\ \A old \in start \cup edit : old.date <= day

OffIsIdle == phase = "off" => at = "gate"

\* A unit under way has seen the counter at its gate, so nothing that the row
\* is or will be saved as is dated after it; and a unit that is counted on the
\* day after it was sent is the only one under way.
CounterLeads ==
  /\ at # "gate" => /\ row.date <= quota.date
                    /\ \A old \in edit : old.date <= quota.date
  /\ at = "count" /\ quota.date # day => sent = 0

RowKnows == "lost" \notin wrong => sent <= Quota!Today(row) + Quota!Pending

QuotaKnows ==
  (phase # "off" /\ wrong \cap {"blind", "lost"} = {}) =>
    sent <= Quota!Today(quota) + Quota!Pending

RoomToSend ==
  at = "send" => /\ 1 <= Limit
                 /\ wrong \cap {"blind", "lost"} = {} => sent + 1 <= Limit

\* The unit that is not counted yet belongs to the day of the counter.
RowHonest ==
  "inflated" \notin wrong =>
    Quota!Today(row) + (IF Quota!Uncounted /\ quota.date = day THEN 1 ELSE 0) <= sent

QuotaIInv ==
  /\ Quota!TypeOK /\ DatesPast /\ OffIsIdle /\ CounterLeads
  /\ RowKnows /\ QuotaKnows /\ RoomToSend /\ Quota!DailyLimitKept /\ RowHonest

----------------------------------------------------------------------------
(* The initial state and the steps *)

LEMMA QuotaInitInv ==
  ASSUME Limit \in Nat, LastDay \in Nat, Quota!Init
  PROVE  QuotaIInv
<1>1. Quota!TypeOK
  BY DEF Quota!Init, Quota!TypeOK, Quota!Counter, Quota!Zero
<1>2. DatesPast /\ OffIsIdle /\ CounterLeads
  BY DEF Quota!Init, DatesPast, OffIsIdle, CounterLeads, Quota!Zero
<1>3. RowKnows /\ QuotaKnows /\ RoomToSend /\ Quota!DailyLimitKept /\ RowHonest
  BY DEF Quota!Init, RowKnows, QuotaKnows, RoomToSend, Quota!DailyLimitKept,
     RowHonest, Quota!Zero, Quota!Today, Quota!Pending, Quota!Uncounted
<1> QED
  BY <1>1, <1>2, <1>3 DEF QuotaIInv

\* What a step of the gate or of quotaAdd does at the first look at a new day.
LEMMA RollKeeps ==
  ASSUME Limit \in Nat, LastDay \in Nat, QuotaIInv, phase # "off",
         NEW next \in {"gate", "count"},
         \/ at = "gate" /\ next = "gate"
         \/ at = "roll" /\ next = "count",
         Quota!RollDate(next), UNCHANGED <<day, start, edit, task, sent>>
  PROVE  QuotaIInv'
<1>1. Quota!TypeOK'
  <2>1. Quota!Zero(day) \in Quota!Counter
    BY DEF QuotaIInv, Quota!TypeOK, Quota!Counter, Quota!Zero
  <2> QED
    BY <2>1 DEF QuotaIInv, Quota!TypeOK, Quota!RollDate, Quota!Flaws, Quota!If
<1>2. DatesPast' /\ OffIsIdle' /\ CounterLeads'
  BY DEF QuotaIInv, Quota!TypeOK, DatesPast, OffIsIdle, CounterLeads,
     Quota!RollDate, Quota!Zero, Quota!Counter
<1>3. RowKnows' /\ RowHonest'
  BY DEF QuotaIInv, Quota!TypeOK, RowKnows, RowHonest, QuotaKnows, DatesPast,
     Quota!RollDate, Quota!Outdated, Quota!Zero, Quota!Counter, Quota!Today,
     Quota!Pending, Quota!Uncounted, Quota!Flaws, Quota!If
<1>4. QuotaKnows' /\ RoomToSend' /\ Quota!DailyLimitKept'
  BY DEF QuotaIInv, Quota!TypeOK, RowKnows, QuotaKnows, RoomToSend,
     Quota!DailyLimitKept, Quota!RollDate, Quota!Outdated, Quota!Zero,
     Quota!Counter, Quota!Today, Quota!Pending, Quota!Uncounted, Quota!Flaws,
     Quota!If
<1> QED
  BY <1>1, <1>2, <1>3, <1>4 DEF QuotaIInv

LEMMA QuotaStepInv ==
  ASSUME Limit \in Nat, LastDay \in Nat, QuotaIInv, [Quota!Next]_Quota!vars
  PROVE  QuotaIInv'
<1> USE DEF QuotaIInv, Quota!TypeOK, DatesPast, OffIsIdle, CounterLeads,
            RowKnows, QuotaKnows, RoomToSend, Quota!DailyLimitKept, RowHonest,
            Quota!Counter, Quota!Today, Quota!Pending, Quota!Uncounted,
            Quota!memory, Quota!Flaws, Quota!If
<1>1. CASE Quota!LoadTask
  BY <1>1 DEF Quota!LoadTask
<1>2. CASE Quota!StartTask
  BY <1>2 DEF Quota!StartTask, Quota!NewQuota
<1>3. CASE Quota!StopRun
  <2>1. /\ phase' = "off" /\ at' = "gate"
        /\ UNCHANGED <<day, row, start, edit, task, quota>>
    BY <1>3 DEF Quota!StopRun
  <2>2. wrong' \subseteq Quota!Flaws
    BY <1>3 DEF Quota!StopRun
  <2>3. sent' \in Nat
    BY <1>3 DEF Quota!StopRun
  <2>4. Quota!TypeOK' /\ DatesPast' /\ OffIsIdle' /\ CounterLeads'
    BY <2>1, <2>2, <2>3
  <2>5. RowKnows' /\ QuotaKnows' /\ RoomToSend' /\ Quota!DailyLimitKept'
    BY <1>3 DEF Quota!StopRun
  <2>6. RowHonest'
    BY <1>3 DEF Quota!StopRun
  <2> QED
    BY <2>4, <2>5, <2>6
<1>4. CASE Quota!LoadForEdit
  BY <1>4 DEF Quota!LoadForEdit
<1>5. CASE Quota!SaveEdit
  <2>1. PICK old \in edit :
          /\ row' = old
          /\ wrong' = wrong \cup Quota!If(Quota!Today(old) + Quota!Pending < sent, "lost")
                            \cup Quota!If(Quota!Today(old) + Quota!Pending > sent, "inflated")
    BY <1>5 DEF Quota!SaveEdit
  <2>2. /\ old \in Quota!Counter /\ old.date <= day
        /\ edit' = {} /\ UNCHANGED <<day, start, Quota!memory, sent>>
    BY <1>5, <2>1 DEF Quota!SaveEdit
  <2>3. Quota!TypeOK' /\ DatesPast' /\ OffIsIdle' /\ CounterLeads'
    BY <2>1, <2>2
  <2>4. RowKnows' /\ QuotaKnows' /\ RoomToSend' /\ Quota!DailyLimitKept'
    BY <2>1, <2>2
  <2>5. RowHonest'
    BY <2>1, <2>2
  <2> QED
    BY <2>3, <2>4, <2>5
<1>6. CASE Quota!RollAtGate
  BY <1>6, RollKeeps DEF Quota!RollAtGate
<1>7. CASE Quota!PassGate
  BY <1>7 DEF Quota!PassGate, Quota!HasRoom, Quota!Outdated
<1>8. CASE Quota!SendUnit
  BY <1>8 DEF Quota!SendUnit
<1>9. CASE Quota!AnswerLost
  BY <1>9 DEF Quota!AnswerLost
<1>10. CASE Quota!SendFails
  BY <1>10 DEF Quota!SendFails
<1>11. CASE Quota!RollAtAdd
  BY <1>11, RollKeeps DEF Quota!RollAtAdd
<1>12. CASE Quota!SameDay
  BY <1>12 DEF Quota!SameDay, Quota!Outdated
<1>13. CASE Quota!AddUnit
  <2>1. Quota!Increment(row) \in Quota!Counter /\ Quota!Increment(quota) \in Quota!Counter
    BY DEF Quota!Increment
  <2>2. Quota!TypeOK' /\ DatesPast' /\ OffIsIdle' /\ CounterLeads'
    BY <1>13, <2>1 DEF Quota!AddUnit, Quota!Increment
  <2>3. RowKnows' /\ QuotaKnows' /\ RoomToSend' /\ Quota!DailyLimitKept'
    BY <1>13 DEF Quota!AddUnit, Quota!Increment
  <2>4. RowHonest'
    BY <1>13 DEF Quota!AddUnit, Quota!Increment
  <2> QED
    BY <2>2, <2>3, <2>4
<1>14. CASE Quota!AddFails
  BY <1>14 DEF Quota!AddFails
<1>15. CASE Quota!BeginRelay
  BY <1>15 DEF Quota!BeginRelay, Quota!NewQuota
<1>16. CASE Quota!Midnight
  BY <1>16 DEF Quota!Midnight
<1>17. CASE UNCHANGED Quota!vars
  BY <1>17 DEF Quota!vars
<1> QED
  BY <1>1, <1>2, <1>3, <1>4, <1>5, <1>6, <1>7, <1>8, <1>9, <1>10, <1>11, <1>12,
     <1>13, <1>14, <1>15, <1>16, <1>17 DEF Quota!Next

----------------------------------------------------------------------------
(* The theorems *)

LEMMA QuotaInvImplies ==
  ASSUME QuotaIInv
  PROVE  Quota!DailyLimitKept /\ Quota!CountHonest
BY DEF QuotaIInv, Quota!TypeOK, RowKnows, RowHonest, Quota!CountHonest,
       Quota!Counter, Quota!Today, Quota!Pending

LEMMA QuotaInvariantHolds ==
  ASSUME Limit \in Nat, LastDay \in Nat
  PROVE  Quota!Spec => []QuotaIInv
<1>1. Quota!Init => QuotaIInv
  BY QuotaInitInv
<1>2. QuotaIInv /\ [Quota!Next]_Quota!vars => QuotaIInv'
  BY QuotaStepInv
<1> QED
  BY <1>1, <1>2, PTL DEF Quota!Spec

\* The daily limit holds over all stops, starts, edits, phases and midnights of
\* any number of days, as long as no counter was made from an outdated copy of
\* the row and no unit was sent that could not be counted (waitForQuota).
THEOREM LimitHolds ==
  ASSUME Limit \in Nat, LastDay \in Nat
  PROVE  Quota!Spec => []Quota!DailyLimitKept
<1>1. QuotaIInv => Quota!DailyLimitKept
  BY DEF QuotaIInv
<1> QED
  BY <1>1, QuotaInvariantHolds, PTL

\* The row counts the units of the day, no less and no more (quotaAdd).
THEOREM CountIsHonest ==
  ASSUME Limit \in Nat, LastDay \in Nat
  PROVE  Quota!Spec => []Quota!CountHonest
<1>1. QuotaIInv => Quota!CountHonest
  BY QuotaInvImplies
<1> QED
  BY <1>1, QuotaInvariantHolds, PTL

----------------------------------------------------------------------------
(***************************************************************************)
(* CacheFollows for any number of handlers, runs and versions.  Whoever    *)
(* changes the row is underway until the cache has been changed, and a     *)
(* copy that is put down is the row's version or marked as outdated, so    *)
(* the property is inductive together with the types.                      *)
(***************************************************************************)

LEMMA StrategyInitInv ==
  ASSUME MaxEdits \in Nat \ {0}, Strategy!Init
  PROVE  Strategy!TypeOK /\ Strategy!CacheFollows
<1>1. Strategy!TypeOK
  <2>1. /\ row \in Strategy!Versions \cup {Strategy!Gone} /\ cache \in Strategy!Versions \cup {Strategy!Gone}
        /\ editor \in [Editors -> [at : {"idle", "save", "set", "drop"},
                                   ver : Strategy!Versions \cup {Strategy!Gone}]]
        /\ reader \in [Readers -> Strategy!Versions \cup {Strategy!Gone}]
        /\ edits \in 0..MaxEdits
    BY DEF Strategy!Init, Strategy!Idle, Strategy!Gone, Strategy!Versions
  <2>2. outdated \in BOOLEAN
    BY DEF Strategy!Init
  <2> QED
    BY <2>1, <2>2 DEF Strategy!TypeOK
<1>2. Strategy!CacheFollows
  BY DEF Strategy!Init, Strategy!CacheFollows, Strategy!Gone
<1> QED
  BY <1>1, <1>2

LEMMA StrategyStepTyped ==
  ASSUME MaxEdits \in Nat \ {0}, Strategy!TypeOK, [Strategy!Next]_Strategy!vars
  PROVE  Strategy!TypeOK'
<1> USE DEF Strategy!TypeOK, Strategy!Go, Strategy!Doing, Strategy!Idle,
            Strategy!Gone, Strategy!Versions, Strategy!Put
<1>1. ASSUME NEW e \in Editors, Strategy!Edit(e)
      PROVE  Strategy!TypeOK'
  <2>1. CASE Strategy!Create(e)
    BY <2>1 DEF Strategy!Create
  <2>2. CASE Strategy!FindForUpdate(e)
    BY <2>2 DEF Strategy!FindForUpdate
  <2>3. CASE Strategy!SaveRow(e)
    BY <2>3 DEF Strategy!SaveRow
  <2>4. CASE Strategy!SaveFails(e)
    BY <2>4 DEF Strategy!SaveFails
  <2>5. CASE Strategy!SetCache(e)
    BY <2>5 DEF Strategy!SetCache
  <2>6. CASE Strategy!DeleteRow(e)
    BY <2>6 DEF Strategy!DeleteRow
  <2>7. CASE Strategy!Invalidate(e)
    BY <2>7 DEF Strategy!Invalidate
  <2> QED
    BY <1>1, <2>1, <2>2, <2>3, <2>4, <2>5, <2>6, <2>7 DEF Strategy!Edit
<1>2. ASSUME NEW r \in Readers, Strategy!ReadRow(r) \/ Strategy!FillCache(r)
      PROVE  Strategy!TypeOK'
  BY <1>2 DEF Strategy!ReadRow, Strategy!FillCache
<1>3. CASE Strategy!Restart
  BY <1>3 DEF Strategy!Restart
<1>4. CASE UNCHANGED Strategy!vars
  BY <1>4 DEF Strategy!vars
<1> QED
  BY <1>1, <1>2, <1>3, <1>4 DEF Strategy!Next

LEMMA StrategyStepFollows ==
  ASSUME MaxEdits \in Nat \ {0}, Strategy!TypeOK, Strategy!CacheFollows, [Strategy!Next]_Strategy!vars
  PROVE  Strategy!CacheFollows'
<1> USE DEF Strategy!CacheFollows, Strategy!Underway, Strategy!Go,
            Strategy!Doing, Strategy!Idle, Strategy!Gone
<1>1. ASSUME NEW e \in Editors, Strategy!Create(e) \/ Strategy!SaveRow(e) \/ Strategy!DeleteRow(e)
      PROVE  Strategy!CacheFollows'
  <2>1. editor'[e].at \in {"set", "drop"}
    BY <1>1 DEF Strategy!TypeOK, Strategy!Create, Strategy!SaveRow,
       Strategy!DeleteRow
  <2> QED
    BY <2>1
<1>2. ASSUME NEW e \in Editors, Strategy!FindForUpdate(e) \/ Strategy!SaveFails(e)
      PROVE  Strategy!CacheFollows'
  <2>1. /\ UNCHANGED <<row, cache, outdated>>
        /\ \A x \in Editors : editor[x].at \in {"set", "drop"} => editor'[x] = editor[x]
    BY <1>2 DEF Strategy!TypeOK, Strategy!FindForUpdate, Strategy!SaveFails
  <2> QED
    BY <2>1
<1>3. ASSUME NEW e \in Editors, Strategy!SetCache(e)
      PROVE  Strategy!CacheFollows'
  BY <1>3 DEF Strategy!SetCache, Strategy!Put
<1>4. ASSUME NEW e \in Editors, Strategy!Invalidate(e)
      PROVE  Strategy!CacheFollows'
  BY <1>4 DEF Strategy!Invalidate
<1>5. ASSUME NEW r \in Readers, Strategy!ReadRow(r)
      PROVE  Strategy!CacheFollows'
  BY <1>5 DEF Strategy!ReadRow
<1>6. ASSUME NEW r \in Readers, Strategy!FillCache(r)
      PROVE  Strategy!CacheFollows'
  BY <1>6 DEF Strategy!FillCache, Strategy!Put
<1>7. CASE Strategy!Restart
  BY <1>7 DEF Strategy!Restart
<1>8. CASE UNCHANGED Strategy!vars
  BY <1>8 DEF Strategy!vars
<1> QED
  BY <1>1, <1>2, <1>3, <1>4, <1>5, <1>6, <1>7, <1>8 DEF Strategy!Next,
     Strategy!Edit

\* A run works with another version than the row's only while a handler is
\* between the row and the cache, or after an outdated copy was put down last
\* (StrategyCache.Get and Set, the handlers of api/v1/strategy.go).
THEOREM CacheIsFollowing ==
  ASSUME MaxEdits \in Nat \ {0}
  PROVE  Strategy!Spec => []Strategy!CacheFollows
<1> DEFINE IInv == Strategy!TypeOK /\ Strategy!CacheFollows
<1>1. Strategy!Init => IInv
  BY StrategyInitInv
<1>2. IInv /\ [Strategy!Next]_Strategy!vars => IInv'
  BY StrategyStepTyped, StrategyStepFollows
<1>3. IInv => Strategy!CacheFollows
  OBVIOUS
<1> QED
  BY <1>1, <1>2, <1>3, PTL DEF Strategy!Spec

----------------------------------------------------------------------------
(***************************************************************************)
(* TodayHonest and LogNumbersUnique for any number of workers, days, calls *)
(* and restarts.                                                           *)
(*                                                                         *)
(* The counter of the day is fresh when it counts nothing from before      *)
(* midnight: it is made so by zeroing and stays so until midnight.  Once   *)
(* the counters' day is the calendar's, it is fresh or somebody is about   *)
(* to zero it (DayTurned), and so for the flusher, which read the day      *)
(* before the counter.  For the numbers: the events on their way are newer *)
(* than any line a restart has seen.                                       *)
(***************************************************************************)

NamedWorkers == {Stats!Flusher, Stats!Nobody} \cap Workers = {}

Numbered == [id : Nat, day : Nat]
Counts == [day : Nat, total : Nat, today : Nat, seq : Nat, mixed : BOOLEAN]

StatsTyped ==
  /\ clock \in Nat /\ bizDay \in Nat /\ total \in Nat /\ today \in Nat
  /\ counted \in Nat /\ seq \in Nat
  /\ pc \in [Stats!Procs -> Stats!Steps]
  /\ now \in [Stats!Procs -> Nat]
  /\ queue \in Seq(Numbered) /\ file \in Seq(Numbered)
  /\ held \in [Workers -> Numbered]
  /\ snap \in Counts /\ disk \in Counts

\* Nobody is ahead of the calendar.
NoneAhead ==
  /\ bizDay <= clock /\ disk.day <= clock
  /\ \A p \in Stats!Procs : now[p] <= clock

Fresh == today <= counted \/ rotator # Stats!Nobody \/ torn

DayTurned ==
  /\ bizDay = clock => Fresh
  /\ Stats!At(Stats!Flusher, "counts") /\ now[Stats!Flusher] = clock => Fresh

DiskHonest ==
  disk.day = clock /\ ~disk.mixed => disk.today <= counted \/ torn

CountersInv == StatsTyped /\ NoneAhead /\ DayTurned /\ DiskHonest

----------------------------------------------------------------------------
(* The counters *)

LEMMA CountersStart ==
  ASSUME Stats!Init
  PROVE  CountersInv
BY DEF Stats!Init, CountersInv, StatsTyped, NoneAhead, DayTurned, DiskHonest,
   Fresh, Stats!Steps, Stats!Empty, Stats!NoEvent, Stats!Procs, Numbered,
   Counts, Stats!At

\* The greatest of the numbers up to a bound.
LEMMA BoundedMax ==
  ASSUME NEW b \in Nat, NEW S \in SUBSET (0..b), S # {}
  PROVE  Stats!Max(S) \in S /\ \A x \in S : x <= Stats!Max(S)
<1> DEFINE R == {p \in Nat \X Nat : p[1] < p[2]}
           T == {b - x : x \in S}
<1>1. IsWellFoundedOn(R, Nat)
  BY NatLessThanWellFounded, Zenon DEF OpToRel
<1>0. \A x \in S : x \in Nat /\ x <= b
  OBVIOUS
<1>2. T \subseteq Nat /\ T # {}
  <2>1. \A x \in S : b - x \in Nat
    BY <1>0
  <2> QED
    BY <2>1
<1>3. PICK n \in T : \A k \in T : <<k, n>> \notin R
  <2> HIDE DEF R, T
  <2> QED
    BY <1>1, <1>2, WFMin
<1>4. PICK m \in S : n = b - m
  BY <1>3
<1>5. \A x \in S : m >= x
  <2> SUFFICES ASSUME NEW x \in S PROVE m >= x
    OBVIOUS
  <2>1. b - x \in T /\ b - x \in Nat /\ b - m \in Nat
    BY <1>2, <1>4
  <2>2. ~(b - x < b - m)
    BY <1>3, <1>4, <2>1
  <2>3. x \in Nat /\ m \in Nat
    BY <1>0
  <2> HIDE DEF T, R
  <2> QED
    BY <2>2, <2>3
<1>6. Stats!Max(S) \in S /\ \A x \in S : Stats!Max(S) >= x
  BY <1>5, Zenon DEF Stats!Max
<1>7. \A x \in S : Stats!Max(S) \in Nat /\ x \in Nat
  BY <1>0, <1>6
<1> QED
  BY <1>6, <1>7

\* The lines and the events have numbers and days.
LEMMA EventsNumbered ==
  ASSUME StatsTyped
  PROVE  /\ Len(file) \in Nat /\ Len(queue) \in Nat
         /\ \A i \in 1..Len(file) : file[i].id \in Nat /\ file[i].day \in Nat
         /\ \A i \in 1..Len(queue) : queue[i].id \in Nat /\ queue[i].day \in Nat
         /\ \A w \in Workers : held[w].id \in Nat /\ held[w].day \in Nat
<1>1. \A i \in 1..Len(file) : file[i] \in Numbered
  BY DEF StatsTyped
<1>2. \A i \in 1..Len(queue) : queue[i] \in Numbered
  BY DEF StatsTyped
<1>3. \A w \in Workers : held[w] \in Numbered
  BY DEF StatsTyped
<1>4. Len(file) \in Nat /\ Len(queue) \in Nat
  BY DEF StatsTyped
<1> QED
  BY <1>1, <1>2, <1>3, <1>4 DEF Numbered

\* A restart numbers on from above the saved number and every recent line.
LEMMA NextNumber ==
  ASSUME StatsTyped, \A i \in Stats!Recent : file[i].id <= seq
  PROVE  /\ Stats!NextSeq \in Nat
         /\ \A i \in Stats!Recent : file[i].id <= Stats!NextSeq
<1> DEFINE S == {0} \cup { file[i].id : i \in Stats!Recent }
<1>0. seq \in Nat /\ disk.seq \in Nat /\ \A i \in Stats!Recent : file[i].id \in Nat
  <2>1. seq \in Nat /\ disk.seq \in Nat
    BY DEF StatsTyped, Counts
  <2> QED
    BY <2>1, EventsNumbered DEF Stats!Recent
<1>1. S \in SUBSET (0..seq) /\ S # {}
  BY <1>0
<1>2. Stats!SeededSeq \in S /\ \A x \in S : x <= Stats!SeededSeq
  <2>1. Stats!SeededSeq = Stats!Max(S)
    BY DEF Stats!SeededSeq
  <2> HIDE DEF S
  <2> QED
    BY <1>0, <1>1, <2>1, BoundedMax
<1>3. Stats!SeededSeq \in Nat
  BY <1>0, <1>2
<1> DEFINE b == disk.seq + Stats!SeededSeq
           P == {disk.seq, Stats!SeededSeq}
<1>4. b \in Nat /\ P \in SUBSET (0..b) /\ P # {}
  BY <1>0, <1>3
<1>5. Stats!Max(P) \in P /\ \A x \in P : x <= Stats!Max(P)
  <2> HIDE DEF P, b
  <2> QED
    BY <1>4, BoundedMax
<1>6. Stats!NextSeq = Stats!Max(P)
  BY DEF Stats!NextSeq
<1>7. \A i \in Stats!Recent : file[i].id \in S
  OBVIOUS
<1>8. Stats!NextSeq \in Nat /\ Stats!SeededSeq <= Stats!NextSeq
  <2> HIDE DEF S
  <2> QED
    BY <1>0, <1>3, <1>5, <1>6
<1>9. ASSUME NEW i \in Stats!Recent
      PROVE  file[i].id <= Stats!NextSeq
  <2>1. file[i].id <= Stats!SeededSeq /\ file[i].id \in Nat
    BY <1>0, <1>2, <1>7
  <2> HIDE DEF S, P, b
  <2> QED
    BY <1>3, <1>8, <2>1
<1> QED
  BY <1>8, <1>9

\* The steps that only count: they leave the log alone.
LEMMA CountingStep ==
  ASSUME NamedWorkers, CountersInv, NEW p \in Stats!Procs,
         \/ Stats!CheckDay(p) \/ Stats!TurnDay(p) \/ Stats!ZeroCounters(p)
         \/ p \in Workers /\ (Stats!Count(p) \/ Stats!AddTotal(p) \/ Stats!AddToday(p))
         \/ p = Stats!Flusher /\ (Stats!ReadTotals \/ Stats!WriteStats)
  PROVE  /\ CountersInv'
         /\ UNCHANGED <<clock, seq, queue, held, file>>
         /\ \A w \in Workers : Stats!At(w, "publish")' => Stats!At(w, "publish")
<1> USE DEF CountersInv, Stats!At, Stats!Goes, Stats!AfterDay
<1>1. /\ UNCHANGED <<clock, seq, queue, held, file>>
      /\ \A w \in Workers : Stats!At(w, "publish")' => Stats!At(w, "publish")
  BY DEF Stats!CheckDay, Stats!TurnDay, Stats!ZeroCounters, Stats!Count,
     Stats!AddTotal, Stats!AddToday, Stats!ReadTotals, Stats!WriteStats,
     StatsTyped, Stats!Procs
<1>a. /\ clock \in Nat /\ bizDay \in Nat /\ today \in Nat /\ counted \in Nat
      /\ disk.day \in Nat /\ disk.today \in Nat
      /\ \A q \in Stats!Procs : now[q] \in Nat
      /\ Stats!Flusher \in Stats!Procs /\ Stats!Nobody \notin Stats!Procs /\ Stats!Flusher \notin Workers
  BY DEF StatsTyped, Counts, Stats!Procs, NamedWorkers, Stats!Flusher,
     Stats!Nobody
<1>b. ASSUME NEW s \in Stats!Steps, Stats!Goes(p, s)
      PROVE  /\ pc' \in [Stats!Procs -> Stats!Steps] /\ Stats!At(p, s)'
             /\ \A q \in Stats!Procs : q # p => pc'[q] = pc[q]
  BY <1>b DEF StatsTyped
<1>2. CASE Stats!CheckDay(p)
  <2>1. /\ UNCHANGED <<clock, bizDay, total, today, seq, queue, held, rotator,
                       snap, disk, file, counted, torn, now>>
        /\ \E s \in Stats!Steps : Stats!Goes(p, s) /\ (s = "counts" => bizDay = now[p])
    BY <1>2 DEF Stats!CheckDay, Stats!Steps
  <2>2. /\ pc' \in [Stats!Procs -> Stats!Steps]
        /\ Stats!At(p, "counts")' => bizDay = now[p]
        /\ \A q \in Stats!Procs : q # p => pc'[q] = pc[q]
    BY <1>b, <2>1
  <2>3. StatsTyped' /\ NoneAhead' /\ DiskHonest'
    BY <2>1, <2>2 DEF StatsTyped, NoneAhead, DiskHonest
  <2>4. DayTurned'
    BY <1>a, <2>1, <2>2 DEF DayTurned, Fresh
  <2> QED
    BY <1>1, <2>3, <2>4
<1>3. CASE Stats!TurnDay(p)
  <2>1. /\ UNCHANGED <<clock, total, today, seq, queue, held, snap, disk, file,
                       counted, torn, now>>
        /\ \E s \in Stats!Steps : Stats!Goes(p, s)
        /\ \/ UNCHANGED <<bizDay, rotator>> /\ bizDay = now[p]
           \/ bizDay' = now[p] /\ rotator' = p
    BY <1>3 DEF Stats!TurnDay, Stats!Steps
  <2>2. /\ pc' \in [Stats!Procs -> Stats!Steps]
        /\ \A q \in Stats!Procs : q # p => pc'[q] = pc[q]
    BY <1>b, <2>1
  <2>3. StatsTyped'
    BY <1>a, <2>1, <2>2 DEF StatsTyped
  <2>4. NoneAhead' /\ DiskHonest'
    BY <1>a, <2>1 DEF NoneAhead, DiskHonest
  <2>5. DayTurned'
    BY <1>a, <2>1, <2>2 DEF DayTurned, Fresh
  <2> QED
    BY <1>1, <2>3, <2>4, <2>5
<1>4. CASE Stats!ZeroCounters(p)
  <2>1. /\ UNCHANGED <<clock, bizDay, total, seq, queue, held, snap, disk,
                       file, counted, torn, now>>
        /\ \E s \in Stats!Steps : Stats!Goes(p, s)
        /\ today' = 0
    BY <1>4 DEF Stats!ZeroCounters, Stats!Steps
  <2>2. pc' \in [Stats!Procs -> Stats!Steps]
    BY <1>b, <2>1
  <2>3. StatsTyped' /\ NoneAhead' /\ DiskHonest'
    BY <2>1, <2>2 DEF StatsTyped, NoneAhead, DiskHonest
  <2>4. DayTurned'
    BY <1>a, <2>1 DEF DayTurned, Fresh
  <2> QED
    BY <1>1, <2>3, <2>4
<1>5. CASE p \in Workers /\ (Stats!Count(p) \/ Stats!AddTotal(p) \/ Stats!AddToday(p))
  <2>1. /\ UNCHANGED <<clock, bizDay, seq, queue, held, rotator, snap, disk,
                       file, torn>>
        /\ \E s \in Stats!Steps : Stats!Goes(p, s)
        /\ now' \in {now, [now EXCEPT ![p] = clock]}
        /\ total' \in {total, total + 1}
        /\ \/ UNCHANGED <<today, counted>>
           \/ today' = today + 1 /\ counted' = counted + 1
    BY <1>5 DEF Stats!Count, Stats!AddTotal, Stats!AddToday, Stats!Steps
  <2>2. /\ pc' \in [Stats!Procs -> Stats!Steps]
        /\ \A q \in Stats!Procs : q # p => pc'[q] = pc[q] /\ now'[q] = now[q]
        /\ \A q \in Stats!Procs : now'[q] \in {now[q], clock}
        /\ now' \in [Stats!Procs -> Nat]
    <3>1. now \in [Stats!Procs -> Nat]
      BY DEF StatsTyped
    <3>2. /\ \A q \in Stats!Procs : q # p => now'[q] = now[q]
          /\ \A q \in Stats!Procs : now'[q] \in {now[q], clock}
          /\ now' \in [Stats!Procs -> Nat]
      BY <1>a, <2>1, <3>1
    <3>3. /\ pc' \in [Stats!Procs -> Stats!Steps]
          /\ \A q \in Stats!Procs : q # p => pc'[q] = pc[q]
      BY <1>b, <2>1
    <3> QED
      BY <3>2, <3>3
  <2>3. StatsTyped'
    BY <1>a, <2>1, <2>2 DEF StatsTyped
  <2>4. NoneAhead'
    BY <1>a, <2>1, <2>2 DEF NoneAhead
  <2>5. DiskHonest'
    BY <1>a, <2>1 DEF DiskHonest
  <2>6. DayTurned'
    BY <1>5, <1>a, <2>1, <2>2 DEF DayTurned, Fresh
  <2> QED
    BY <1>1, <2>3, <2>4, <2>5, <2>6
<1>6. CASE p = Stats!Flusher /\ Stats!ReadTotals
  <2>1. /\ UNCHANGED <<clock, bizDay, total, today, seq, queue, held, rotator,
                       disk, file, counted, torn>>
        /\ Stats!Goes(Stats!Flusher, "enter")
        /\ now' = [now EXCEPT ![Stats!Flusher] = clock]
        /\ snap' = [day |-> 0, total |-> total, today |-> 0, seq |-> seq, mixed |-> FALSE]
    BY <1>6 DEF Stats!ReadTotals, Stats!Empty
  <2>2. /\ pc' \in [Stats!Procs -> Stats!Steps] /\ ~Stats!At(Stats!Flusher, "counts")'
        /\ \A q \in Stats!Procs : now'[q] \in {now[q], clock}
        /\ now' \in [Stats!Procs -> Nat]
    BY <1>a, <2>1 DEF StatsTyped, Stats!Steps
  <2>3. StatsTyped'
    <3>1. snap' \in Counts
      BY <2>1 DEF StatsTyped, Counts
    <3> QED
      BY <2>1, <2>2, <3>1 DEF StatsTyped
  <2>4. NoneAhead'
    BY <1>a, <2>1, <2>2 DEF NoneAhead
  <2>5. DiskHonest' /\ DayTurned'
    BY <2>1, <2>2 DEF DiskHonest, DayTurned, Fresh
  <2> QED
    BY <1>1, <2>3, <2>4, <2>5
<1>7. CASE p = Stats!Flusher /\ Stats!WriteStats
  <2>1. /\ UNCHANGED <<clock, bizDay, total, today, seq, queue, held, rotator,
                       file, counted, torn, now>>
        /\ Stats!At(Stats!Flusher, "counts") /\ Stats!Goes(Stats!Flusher, "idle")
        /\ disk' = [snap EXCEPT !.day = now[Stats!Flusher], !.today = today,
                                !.mixed = rotator # Stats!Nobody]
        /\ snap' = Stats!Empty
    BY <1>7 DEF Stats!WriteStats
  <2>2. /\ pc' \in [Stats!Procs -> Stats!Steps] /\ ~Stats!At(Stats!Flusher, "counts")'
    BY <1>a, <2>1 DEF StatsTyped, Stats!Steps
  <2>3. /\ disk' \in Counts /\ disk'.day = now[Stats!Flusher] /\ disk'.today = today
        /\ disk'.mixed = (rotator # Stats!Nobody)
    <3>1. snap \in Counts /\ (rotator # Stats!Nobody) \in BOOLEAN
      BY DEF StatsTyped
    <3> QED
      BY <1>a, <2>1, <3>1 DEF Counts
  <2>4. StatsTyped'
    BY <2>1, <2>2, <2>3 DEF StatsTyped, Stats!Empty, Counts
  <2>5. NoneAhead'
    BY <1>a, <2>1, <2>3 DEF NoneAhead
  <2>6. DiskHonest' /\ DayTurned'
    BY <1>a, <2>1, <2>2, <2>3 DEF DiskHonest, DayTurned, Fresh
  <2> QED
    BY <1>1, <2>4, <2>5, <2>6
<1> QED
  BY <1>2, <1>3, <1>4, <1>5, <1>6, <1>7

\* The other steps.
LEMMA OtherStep ==
  ASSUME NamedWorkers, CountersInv, \A i \in Stats!Recent : file[i].id <= seq,
         \/ \E w \in Workers : Stats!NumberEvent(w) \/ Stats!PublishEvent(w)
         \/ Stats!WriteEvent \/ Stats!Midnight \/ Stats!Restart \/ UNCHANGED Stats!vars
  PROVE  CountersInv'
<1> USE DEF CountersInv, Stats!At, Stats!Goes
<1>a. /\ clock \in Nat /\ bizDay \in Nat /\ today \in Nat /\ counted \in Nat
      /\ seq \in Nat /\ disk \in Counts
      /\ disk.day \in Nat /\ disk.today \in Nat
      /\ \A q \in Stats!Procs : now[q] \in Nat
      /\ Stats!Flusher \in Stats!Procs /\ Stats!Flusher \notin Workers
      /\ \A w \in Workers : w \in Stats!Procs
  BY DEF StatsTyped, Counts, Stats!Procs, NamedWorkers, Stats!Flusher,
     Stats!Nobody
<1>1. ASSUME NEW w \in Workers, Stats!NumberEvent(w) \/ Stats!PublishEvent(w)
      PROVE  CountersInv'
  <2>1. /\ UNCHANGED <<clock, bizDay, total, today, file, rotator, snap, disk,
                       counted, torn, now>>
        /\ seq' \in {seq, seq + 1}
        /\ \E s \in Stats!Steps : Stats!Goes(w, s)
        /\ \E e \in Numbered : held' = [held EXCEPT ![w] = e]
        /\ queue' \in {queue, Append(queue, held[w])}
    <3>1. CASE Stats!NumberEvent(w)
      <4>1. [id |-> seq + 1, day |-> clock] \in Numbered
        BY <1>a DEF Numbered
      <4> QED
        BY <3>1, <4>1 DEF Stats!NumberEvent, Stats!Steps
    <3>2. CASE Stats!PublishEvent(w)
      <4>1. Stats!NoEvent \in Numbered
        BY DEF Stats!NoEvent, Numbered
      <4> QED
        BY <3>2, <4>1 DEF Stats!PublishEvent, Stats!Steps
    <3> QED
      BY <1>1, <3>1, <3>2
  <2>2. /\ pc' \in [Stats!Procs -> Stats!Steps] /\ pc'[Stats!Flusher] = pc[Stats!Flusher]
        /\ held' \in [Workers -> Numbered]
        /\ queue' \in Seq(Numbered)
    <3>1. queue \in Seq(Numbered) /\ held[w] \in Numbered
      BY DEF StatsTyped
    <3>2. queue' \in Seq(Numbered)
      <4>1. CASE queue' = queue
        BY <3>1, <4>1
      <4>2. CASE queue' = Append(queue, held[w])
        BY <3>1, <4>2
      <4> QED
        BY <2>1, <4>1, <4>2
    <3>3. pc' \in [Stats!Procs -> Stats!Steps] /\ pc'[Stats!Flusher] = pc[Stats!Flusher]
      BY <1>a, <2>1 DEF StatsTyped
    <3>4. held' \in [Workers -> Numbered]
      BY <2>1 DEF StatsTyped
    <3> QED
      BY <3>2, <3>3, <3>4
  <2>3. StatsTyped'
    BY <1>a, <2>1, <2>2 DEF StatsTyped
  <2>4. NoneAhead' /\ DayTurned' /\ DiskHonest'
    BY <2>1, <2>2 DEF NoneAhead, DayTurned, DiskHonest, Fresh
  <2> QED
    BY <2>3, <2>4
<1>3. CASE Stats!WriteEvent
  <2>1. StatsTyped'
    BY <1>3 DEF Stats!WriteEvent, StatsTyped
  <2> QED
    BY <1>3, <2>1 DEF Stats!WriteEvent, NoneAhead, DayTurned, DiskHonest, Fresh
<1>4. CASE Stats!Midnight
  <2>1. /\ clock' = clock + 1 /\ counted' = 0
        /\ UNCHANGED <<bizDay, total, today, seq, queue, pc, held, rotator,
                       snap, disk, file, torn, now>>
    BY <1>4 DEF Stats!Midnight
  <2>2. StatsTyped'
    BY <1>a, <2>1 DEF StatsTyped
  <2>3. NoneAhead'
    BY <1>a, <2>1 DEF NoneAhead
  <2>4. bizDay' # clock' /\ now'[Stats!Flusher] # clock' /\ disk'.day # clock'
    BY <1>a, <2>1 DEF NoneAhead
  <2> QED
    BY <2>2, <2>3, <2>4 DEF DayTurned, DiskHonest
<1>5. CASE Stats!Restart
  <2>1. Stats!NextSeq \in Nat
    BY NextNumber
  <2>2. /\ total' = disk.total /\ seq' = Stats!NextSeq /\ bizDay' = clock
        /\ today' = IF disk.day = clock THEN disk.today ELSE 0
        /\ torn' = (torn \/ (disk.mixed /\ disk.day = clock))
        /\ queue' = <<>> /\ pc' = [p \in Stats!Procs |-> "idle"]
        /\ held' = [w \in Workers |-> Stats!NoEvent] /\ now' = [p \in Stats!Procs |-> clock]
        /\ snap' = Stats!Empty
        /\ UNCHANGED <<clock, disk, file, counted>>
    BY <1>5 DEF Stats!Restart
  <2>3. StatsTyped'
    <3>1. held' \in [Workers -> Numbered] /\ snap' \in Counts /\ total' \in Nat
      BY <1>a, <2>2 DEF Stats!NoEvent, Stats!Empty, Numbered, Counts
    <3>2. pc' \in [Stats!Procs -> Stats!Steps] /\ now' \in [Stats!Procs -> Nat] /\ today' \in Nat
      BY <1>a, <2>2 DEF Stats!Steps
    <3> QED
      BY <1>a, <2>1, <2>2, <3>1, <3>2 DEF StatsTyped
  <2>4. NoneAhead'
    BY <1>a, <2>2 DEF NoneAhead
  <2>5. DiskHonest' /\ DayTurned'
    <3>1. ~Stats!At(Stats!Flusher, "counts")'
      BY <1>a, <2>2
    <3>2. DiskHonest'
      BY <1>a, <2>2 DEF DiskHonest
    <3>3. today' <= counted' \/ torn'
      <4>1. CASE disk.mixed /\ disk.day = clock
        BY <2>2, <4>1, Zenon
      <4>2. CASE ~(disk.mixed /\ disk.day = clock)
        <5>1. today' <= counted \/ torn
          BY <1>a, <2>2, <4>2 DEF DiskHonest
        <5>2. torn => torn'
          BY <2>2, Zenon
        <5> QED
          BY <2>2, <5>1, <5>2
      <4> QED
        BY <4>1, <4>2
    <3>4. DayTurned'
      BY <3>1, <3>3 DEF DayTurned, Fresh
    <3> QED
      BY <3>2, <3>4
  <2> QED
    BY <2>3, <2>4, <2>5
<1>6. CASE UNCHANGED Stats!vars
  BY <1>6 DEF Stats!vars, StatsTyped, NoneAhead, DayTurned, DiskHonest, Fresh
<1> QED
  BY <1>1, <1>3, <1>4, <1>5, <1>6

----------------------------------------------------------------------------
(* The numbers of the log *)

Queued == 1..Len(queue)
Publishing(w) == w \in Workers /\ Stats!At(w, "publish")

LinesNumbered ==
  /\ \A i \in Stats!Recent : file[i].id <= seq
  /\ Stats!LogNumbersUnique

QueueNumbered ==
  \A i \in Queued :
    /\ queue[i].id <= seq
    /\ \A j \in Queued : queue[i].id = queue[j].id => i = j
    /\ \A k \in Stats!Recent : file[k].id # queue[i].id

HeldNumbered ==
  \A w \in Workers : Stats!At(w, "publish") =>
    /\ held[w].id <= seq
    /\ \A v \in Workers : Stats!At(v, "publish") /\ held[v].id = held[w].id => v = w
    /\ \A i \in Queued : queue[i].id # held[w].id
    /\ \A k \in Stats!Recent : file[k].id # held[w].id

NumbersInv == LinesNumbered /\ QueueNumbered /\ HeldNumbered

StatsInv == CountersInv /\ NumbersInv

LEMMA NumbersStart ==
  ASSUME Stats!Init
  PROVE  NumbersInv
BY DEF Stats!Init, NumbersInv, LinesNumbered, Stats!LogNumbersUnique,
   QueueNumbered, HeldNumbered, Stats!Recent, Queued, Stats!At, Stats!Procs

LEMMA NumberStep ==
  ASSUME StatsTyped, NumbersInv, NEW w \in Workers, Stats!NumberEvent(w)
  PROVE  NumbersInv'
<1> USE DEF NumbersInv, Stats!At
<1>1. /\ seq' = seq + 1 /\ held'[w].id = seq + 1
      /\ \A v \in Workers : v # w => held'[v] = held[v] /\ pc'[v] = pc[v]
      /\ UNCHANGED <<queue, file, clock>>
  BY DEF Stats!NumberEvent, StatsTyped, Stats!Procs, Stats!Goes
<1>2. Stats!Recent' = Stats!Recent /\ Queued' = Queued
  BY <1>1 DEF Stats!Recent, Queued
<1>3. /\ seq \in Nat
      /\ \A k \in Stats!Recent : file[k].id \in Nat
      /\ \A k \in Queued : queue[k].id \in Nat
      /\ \A v \in Workers : held[v].id \in Nat
  <2>1. seq \in Nat
    BY DEF StatsTyped
  <2> QED
    BY <2>1, EventsNumbered DEF Stats!Recent, Queued
<1>6. LinesNumbered'
  BY <1>1, <1>2, <1>3 DEF LinesNumbered, Stats!LogNumbersUnique
<1>7. QueueNumbered'
  BY <1>1, <1>2, <1>3 DEF QueueNumbered
<1>8. HeldNumbered'
  <2> SUFFICES ASSUME NEW v \in Workers, Stats!At(v, "publish")'
               PROVE  /\ held'[v].id <= seq'
                      /\ \A u \in Workers : Stats!At(u, "publish")' /\ held'[u].id = held'[v].id => u = v
                      /\ \A i \in Queued' : queue'[i].id # held'[v].id
                      /\ \A k \in Stats!Recent' : file'[k].id # held'[v].id
    BY DEF HeldNumbered
  <2>1. CASE v = w
    BY <1>1, <1>2, <1>3, <2>1 DEF LinesNumbered, QueueNumbered, HeldNumbered
  <2>2. CASE v # w
    BY <1>1, <1>2, <1>3, <2>2 DEF HeldNumbered
  <2> QED
    BY <2>1, <2>2
<1> QED
  BY <1>6, <1>7, <1>8

LEMMA PublishStep ==
  ASSUME StatsTyped, NumbersInv, NEW w \in Workers, Stats!PublishEvent(w)
  PROVE  NumbersInv'
<1> USE DEF NumbersInv, Stats!At
<1>1. /\ Stats!At(w, "publish") /\ ~Stats!At(w, "publish")'
      /\ \A v \in Workers : v # w => held'[v] = held[v] /\ pc'[v] = pc[v]
      /\ UNCHANGED <<seq, file, clock>>
      /\ queue' \in {queue, Append(queue, held[w])}
  BY DEF Stats!PublishEvent, StatsTyped, Stats!Goes, Stats!Procs
<1>2. Stats!Recent' = Stats!Recent
  BY <1>1 DEF Stats!Recent
<1>3. LinesNumbered'
  BY <1>1, <1>2 DEF LinesNumbered, Stats!LogNumbersUnique
<1>4. CASE queue' = queue
  <2>1. Queued' = Queued
    BY <1>4 DEF Queued
  <2>2. QueueNumbered'
    BY <1>1, <1>2, <1>4, <2>1 DEF QueueNumbered
  <2>3. HeldNumbered'
    BY <1>1, <1>2, <1>4, <2>1 DEF HeldNumbered
  <2> QED
    BY <1>3, <2>2, <2>3
<1>5. CASE queue' = Append(queue, held[w])
  <2>1. /\ Queued' = Queued \cup {Len(queue) + 1} /\ Len(queue) + 1 \notin Queued
        /\ queue'[Len(queue) + 1] = held[w]
        /\ \A i \in Queued : queue'[i] = queue[i]
    BY <1>5 DEF Queued, StatsTyped
  <2>2. QueueNumbered'
    BY <1>1, <1>2, <2>1 DEF QueueNumbered, HeldNumbered
  <2>3. HeldNumbered'
    <3> SUFFICES ASSUME NEW v \in Workers, Stats!At(v, "publish")'
                 PROVE  /\ held'[v].id <= seq'
                        /\ \A u \in Workers : Stats!At(u, "publish")' /\ held'[u].id = held'[v].id => u = v
                        /\ \A i \in Queued' : queue'[i].id # held'[v].id
                        /\ \A k \in Stats!Recent' : file'[k].id # held'[v].id
      BY DEF HeldNumbered
    <3>1. v # w /\ held'[v] = held[v] /\ Stats!At(v, "publish")
      BY <1>1
    <3>2. held[w].id # held[v].id
      BY <1>1, <3>1 DEF HeldNumbered
    <3> QED
      BY <1>1, <1>2, <2>1, <3>1, <3>2 DEF HeldNumbered
  <2> QED
    BY <1>3, <2>2, <2>3
<1> QED
  BY <1>1, <1>4, <1>5

LEMMA WriteStep ==
  ASSUME StatsTyped, NumbersInv, Stats!WriteEvent
  PROVE  NumbersInv'
<1> USE DEF NumbersInv, Stats!At
<1>1. /\ queue # <<>> /\ UNCHANGED <<clock, seq, pc, held>>
      /\ file' = Append(file, Head(queue)) /\ queue' = Tail(queue)
  BY DEF Stats!WriteEvent
<1>2. /\ 1 \in Queued /\ Head(queue) = queue[1]
      /\ \A i \in Queued' : i + 1 \in Queued /\ queue'[i] = queue[i + 1]
      /\ \A i \in Queued' : i \in Nat /\ i # 0
  BY <1>1 DEF Queued, StatsTyped
<1>3. /\ Stats!Recent' \subseteq Stats!Recent \cup {Len(file) + 1}
      /\ Len(file) + 1 \notin Stats!Recent
      /\ file'[Len(file) + 1] = queue[1]
      /\ \A k \in Stats!Recent : file'[k] = file[k]
  BY <1>1, <1>2 DEF Stats!Recent, StatsTyped
<1> DEFINE last == Len(file) + 1
<1>a. \A k \in Stats!Recent' : 
            \/ k \in Stats!Recent /\ file'[k] = file[k]
            \/ k = last /\ file'[k] = queue[1]
  BY <1>3
<1> HIDE DEF last
<1>4. LinesNumbered'
  <2>1. \A k \in Stats!Recent' : file'[k].id <= seq'
    BY <1>1, <1>2, <1>a DEF LinesNumbered, QueueNumbered
  <2>2. ASSUME NEW i \in Stats!Recent', NEW j \in Stats!Recent', file'[i].id = file'[j].id
        PROVE  i = j
    <3>1. CASE i \in Stats!Recent /\ file'[i] = file[i] /\ j \in Stats!Recent /\ file'[j] = file[j]
      BY <2>2, <3>1 DEF LinesNumbered, Stats!LogNumbersUnique
    <3>2. \A k \in Stats!Recent : file[k].id # queue[1].id
      BY <1>2 DEF QueueNumbered
    <3> QED
      BY <1>a, <2>2, <3>1, <3>2
  <2> QED
    BY <2>1, <2>2 DEF LinesNumbered, Stats!LogNumbersUnique
<1>5. QueueNumbered'
  <2> SUFFICES ASSUME NEW i \in Queued'
               PROVE  /\ queue'[i].id <= seq'
                      /\ \A j \in Queued' : queue'[i].id = queue'[j].id => i = j
                      /\ \A k \in Stats!Recent' : file'[k].id # queue'[i].id
    BY DEF QueueNumbered
  <2>1. queue'[i].id <= seq'
    BY <1>1, <1>2 DEF QueueNumbered
  <2>2. ASSUME NEW j \in Queued', queue'[i].id = queue'[j].id
        PROVE  i = j
    <3>1. i + 1 = j + 1
      BY <1>2, <2>2 DEF QueueNumbered
    <3> QED
      BY <1>2, <3>1
  <2>3. \A k \in Stats!Recent' : file'[k].id # queue'[i].id
    <3>1. queue[1].id # queue[i + 1].id
      <4>1. 1 # i + 1
        BY <1>2
      <4> QED
        BY <1>2, <4>1 DEF QueueNumbered
    <3> QED
      BY <1>2, <1>a, <3>1 DEF QueueNumbered
  <2> QED
    BY <2>1, <2>2, <2>3
<1>6. HeldNumbered'
  <2> SUFFICES ASSUME NEW v \in Workers, Stats!At(v, "publish")'
               PROVE  /\ held'[v].id <= seq'
                      /\ \A u \in Workers : Stats!At(u, "publish")' /\ held'[u].id = held'[v].id => u = v
                      /\ \A i \in Queued' : queue'[i].id # held'[v].id
                      /\ \A k \in Stats!Recent' : file'[k].id # held'[v].id
    BY DEF HeldNumbered
  <2>1. Stats!At(v, "publish")
    BY <1>1
  <2>2. \A i \in Queued : queue[i].id # held[v].id
    BY <2>1 DEF HeldNumbered
  <2>3. \A k \in Stats!Recent' : file'[k].id # held'[v].id
    BY <1>1, <1>2, <1>a, <2>1, <2>2 DEF HeldNumbered
  <2> QED
    BY <1>1, <1>2, <2>1, <2>2, <2>3 DEF HeldNumbered
<1> QED
  BY <1>4, <1>5, <1>6

LEMMA RestartStep ==
  ASSUME StatsTyped, NumbersInv, Stats!Restart
  PROVE  NumbersInv'
<1> USE DEF NumbersInv
<1>1. /\ seq' = Stats!NextSeq /\ UNCHANGED <<clock, file>> /\ queue' = <<>>
      /\ \A w \in Workers : ~Stats!At(w, "publish")'
  BY DEF Stats!Restart, Stats!At, Stats!Procs
<1>2. Stats!Recent' = Stats!Recent /\ Queued' = {}
  BY <1>1 DEF Stats!Recent, Queued
<1>3. \A i \in Stats!Recent : file[i].id <= Stats!NextSeq
  BY NextNumber DEF LinesNumbered
<1> QED
  BY <1>1, <1>2, <1>3 DEF LinesNumbered, Stats!LogNumbersUnique, QueueNumbered,
     HeldNumbered

\* Midnight only takes lines out of what a restart would read.
LEMMA QuietStep ==
  ASSUME StatsTyped, NumbersInv, clock \in Nat, clock' \in Nat, clock <= clock',
         UNCHANGED <<seq, queue, held, file>>,
         \A w \in Workers : Stats!At(w, "publish")' => Stats!At(w, "publish")
  PROVE  NumbersInv'
<1>1. Stats!Recent' \subseteq Stats!Recent /\ Queued' = Queued
  BY EventsNumbered DEF Stats!Recent, Queued
<1> QED
  BY <1>1 DEF NumbersInv, LinesNumbered, Stats!LogNumbersUnique, QueueNumbered,
     HeldNumbered

----------------------------------------------------------------------------

LEMMA StatsInitInv ==
  ASSUME Stats!Init
  PROVE  StatsInv
BY CountersStart, NumbersStart DEF StatsInv

LEMMA StatsStepInv ==
  ASSUME NamedWorkers, StatsInv, [Stats!Next]_Stats!vars
  PROVE  StatsInv'
<1> USE DEF StatsInv
<1>0. StatsTyped /\ clock \in Nat /\ \A i \in Stats!Recent : file[i].id <= seq
  BY DEF CountersInv, StatsTyped, NumbersInv, LinesNumbered
<1>1. ASSUME NEW p \in Stats!Procs,
             \/ Stats!CheckDay(p) \/ Stats!TurnDay(p) \/ Stats!ZeroCounters(p)
             \/ p \in Workers /\ (Stats!Count(p) \/ Stats!AddTotal(p) \/ Stats!AddToday(p))
             \/ p = Stats!Flusher /\ (Stats!ReadTotals \/ Stats!WriteStats)
      PROVE  StatsInv'
  BY <1>0, <1>1, CountingStep, QuietStep
<1>2. ASSUME NEW w \in Workers, Stats!NumberEvent(w)
      PROVE  StatsInv'
  BY <1>0, <1>2, OtherStep, NumberStep
<1>3. ASSUME NEW w \in Workers, Stats!PublishEvent(w)
      PROVE  StatsInv'
  BY <1>0, <1>3, OtherStep, PublishStep
<1>4. CASE Stats!WriteEvent
  BY <1>0, <1>4, OtherStep, WriteStep
<1>5. CASE Stats!Restart
  BY <1>0, <1>5, OtherStep, RestartStep
<1>6. CASE Stats!Midnight \/ UNCHANGED Stats!vars
  <2>1. /\ clock' \in Nat /\ clock <= clock' /\ UNCHANGED <<seq, queue, held,
                                                            file>>
        /\ \A w \in Workers : Stats!At(w, "publish")' => Stats!At(w, "publish")
    BY <1>0, <1>6 DEF Stats!Midnight, Stats!vars, Stats!At
  <2> QED
    BY <1>0, <1>6, <2>1, OtherStep, QuietStep
<1>7. \A w \in Workers : w \in Stats!Procs
  BY DEF Stats!Procs
<1>8. Stats!Flusher \in Stats!Procs
  BY DEF Stats!Procs
<1> QED
  BY <1>1, <1>2, <1>3, <1>4, <1>5, <1>6, <1>7, <1>8 DEF Stats!Next

LEMMA StatsInvImplies ==
  ASSUME StatsInv
  PROVE  Stats!TodayHonest /\ Stats!LogNumbersUnique
BY DEF StatsInv, CountersInv, NumbersInv, DayTurned, Fresh, Stats!TodayHonest,
   LinesNumbered

\* stats_persist.go: through changes of the day, flushes and restarts, the count
\* of today never exceeds what was counted since midnight (ensureBizDay), and a
\* restart gives no line the number of a recent one (seedDashboardLogsFromDisk).
THEOREM StatsAreHonest ==
  ASSUME NamedWorkers
  PROVE  Stats!Spec => [](Stats!TodayHonest /\ Stats!LogNumbersUnique)
<1>1. Stats!Init => StatsInv
  BY StatsInitInv
<1>2. StatsInv /\ [Stats!Next]_Stats!vars => StatsInv'
  BY StatsStepInv
<1>3. StatsInv => Stats!TodayHonest /\ Stats!LogNumbersUnique
  BY StatsInvImplies
<1> QED
  BY <1>1, <1>2, <1>3, PTL DEF Stats!Spec

----------------------------------------------------------------------------
(***************************************************************************)
(* The types of the counters.  That a counter stays within the calls ever  *)
(* made is a matter of counting: it has grown at most once for each call,  *)
(* and every worker under way will make it grow once more (CallsCounted).  *)
(* The numbers of the log are those of calls, also after a restart.        *)
(***************************************************************************)

\* The workers that are counting, and those that have not added to the total.
Adding == {w \in Workers : pc[w] \in {"enter", "locked", "zero", "total", "today"}}
Totalling == {w \in Workers : pc[w] \in {"enter", "locked", "zero", "total"}}

\* Every counter has grown at most once for each call, and will for those under
\* way.
CallsCounted ==
  /\ calls \in Nat /\ IsFiniteSet(Adding)
  /\ total + Cardinality(Totalling) <= calls
  /\ today + Cardinality(Adding) <= calls
  /\ counted + Cardinality(Adding) <= calls

Within(c) == c.total <= calls /\ c.today <= calls /\ c.seq <= calls
SavedWithin == Within(snap) /\ Within(disk)

NumbersWithin ==
  /\ seq <= calls
  /\ \A i \in 1..Len(file) : file[i].id <= calls
  /\ \A i \in 1..Len(queue) : queue[i].id <= calls
  /\ \A w \in Workers : held[w].id <= calls

Dated ==
  /\ \A i \in 1..Len(file) : file[i].day \in Stats!Days
  /\ \A i \in 1..Len(queue) : queue[i].day \in Stats!Days
  /\ \A w \in Workers : held[w].day \in Stats!Days

OnCalendar ==
  /\ calls \in 0..MaxCalls
  /\ clock \in Stats!Days /\ bizDay \in Stats!Days
  /\ now \in [Stats!Procs -> Stats!Days]
  /\ snap.day \in Stats!Days /\ disk.day \in Stats!Days /\ Dated
  /\ rotator \in Stats!Procs \cup {Stats!Nobody}
  /\ crashes \in 0..MaxCrashes /\ torn \in BOOLEAN

StatsBounded == CallsCounted /\ SavedWithin /\ NumbersWithin /\ OnCalendar

LEMMA StatsTypesTogether ==
  ASSUME MaxCalls \in Nat, LastDay \in Nat, StatsTyped, StatsBounded
  PROVE  Stats!TypeOK
<1> USE DEF StatsBounded
<1>1. calls \in Nat /\ calls <= MaxCalls
  BY DEF OnCalendar
<1>2. /\ total \in Nat /\ today \in Nat /\ counted \in Nat /\ seq \in Nat
      /\ snap \in Counts /\ disk \in Counts
      /\ pc \in [Stats!Procs -> Stats!Steps]
  BY DEF StatsTyped
<1>3. Totalling \subseteq Adding
  BY DEF Totalling, Adding
<1>4. Cardinality(Adding) \in Nat /\ Cardinality(Totalling) \in Nat
  BY <1>3, FS_CardinalityType, FS_Subset DEF CallsCounted
<1>5. {total, today, seq, calls, counted} \subseteq Stats!Ids
  <2>1. total <= calls /\ today <= calls /\ counted <= calls /\ seq <= calls
    BY <1>1, <1>2, <1>4 DEF CallsCounted, NumbersWithin
  <2> QED
    BY <1>1, <1>2, <2>1 DEF Stats!Ids
<1>6. {snap, disk} \subseteq [day : Stats!Days, total : Stats!Ids, today : Stats!Ids,
                              seq : Stats!Ids, mixed : BOOLEAN]
  <2>1. ASSUME NEW c \in Counts, Within(c), c.day \in Stats!Days
        PROVE  c \in [day : Stats!Days, total : Stats!Ids, today : Stats!Ids,
                      seq : Stats!Ids, mixed : BOOLEAN]
    <3>1. c.total \in Stats!Ids /\ c.today \in Stats!Ids /\ c.seq \in Stats!Ids
      BY <1>1, <2>1 DEF Within, Counts, Stats!Ids
    <3>2. c = [day |-> c.day, total |-> c.total, today |-> c.today, seq |-> c.seq,
               mixed |-> c.mixed] /\ c.mixed \in BOOLEAN
      BY DEF Counts
    <3> QED
      BY <2>1, <3>1, <3>2
  <2> QED
    BY <1>2, <2>1 DEF SavedWithin, OnCalendar
<1>7. ASSUME NEW e \in Numbered, e.id <= calls, e.day \in Stats!Days
      PROVE  e \in Stats!Event
  <2>1. e.id \in Stats!Ids
    BY <1>1, <1>7 DEF Numbered, Stats!Ids
  <2>2. e = [id |-> e.id, day |-> e.day]
    BY DEF Numbered
  <2> QED
    BY <1>7, <2>1, <2>2 DEF Stats!Event
<1>8. ASSUME NEW q \in Seq(Numbered),
             \A i \in 1..Len(q) : q[i].id <= calls /\ q[i].day \in Stats!Days
      PROVE  q \in Seq(Stats!Event)
  <2>1. \A i \in 1..Len(q) : q[i] \in Numbered
    OBVIOUS
  <2>2. \A i \in 1..Len(q) : q[i] \in Stats!Event
    BY <1>7, <1>8, <2>1
  <2> QED
    BY <2>2
<1>9. queue \in Seq(Stats!Event) /\ file \in Seq(Stats!Event)
  <2>1. queue \in Seq(Numbered) /\ file \in Seq(Numbered)
    BY DEF StatsTyped
  <2> QED
    BY <1>8, <2>1 DEF NumbersWithin, OnCalendar, Dated
<1>10. held \in [Workers -> Stats!Event]
  <2>1. held \in [Workers -> Numbered]
    BY DEF StatsTyped
  <2>2. \A w \in Workers : held[w] \in Stats!Event
    BY <1>7, <2>1 DEF NumbersWithin, OnCalendar, Dated
  <2> QED
    BY <2>1, <2>2
<1>11. /\ {clock, bizDay} \subseteq Stats!Days /\ now \in [Stats!Procs -> Stats!Days]
       /\ rotator \in Stats!Procs \cup {Stats!Nobody}
       /\ crashes \in 0..MaxCrashes /\ torn \in BOOLEAN
  BY DEF OnCalendar
<1> QED
  BY <1>2, <1>5, <1>6, <1>9, <1>10, <1>11 DEF Stats!TypeOK

LEMMA BoundsStart ==
  ASSUME MaxCalls \in Nat, LastDay \in Nat, MaxCrashes \in Nat, Stats!Init
  PROVE  StatsBounded
<1>1. Adding = {} /\ Totalling = {}
  BY DEF Stats!Init, Adding, Totalling, Stats!Procs
<1>2. CallsCounted
  BY <1>1, FS_EmptySet DEF Stats!Init, CallsCounted
<1>3. SavedWithin /\ NumbersWithin
  BY DEF Stats!Init, SavedWithin, Within, NumbersWithin, Stats!Empty,
     Stats!NoEvent
<1>4. OnCalendar
  <2>1. torn \in BOOLEAN
    BY DEF Stats!Init
  <2> QED
    BY <2>1 DEF Stats!Init, OnCalendar, Dated, Stats!Days, Stats!Empty, Stats!NoEvent
<1> QED
  BY <1>2, <1>3, <1>4 DEF StatsBounded

LEMMA CountersFinite ==
  ASSUME CallsCounted
  PROVE  /\ IsFiniteSet(Adding) /\ IsFiniteSet(Totalling)
         /\ Cardinality(Adding) \in Nat /\ Cardinality(Totalling) \in Nat
<1>1. Totalling \subseteq Adding
  BY DEF Totalling, Adding
<1> QED
  BY <1>1, FS_CardinalityType, FS_Subset DEF CallsCounted

\* The steps of a worker's call, each with what it adds.
LEMMA CallStep ==
  ASSUME StatsTyped, CallsCounted, NEW w \in Workers,
         Stats!Count(w) \/ Stats!AddTotal(w) \/ Stats!AddToday(w)
  PROVE  CallsCounted'
<1>0. /\ total \in Nat /\ today \in Nat /\ counted \in Nat /\ calls \in Nat
      /\ pc \in [Stats!Procs -> Stats!Steps] /\ w \in Stats!Procs
  BY DEF StatsTyped, CallsCounted, Stats!Procs
<1>1. /\ IsFiniteSet(Adding) /\ IsFiniteSet(Totalling)
      /\ Cardinality(Adding) \in Nat /\ Cardinality(Totalling) \in Nat
  BY CountersFinite
<1>2. \A v \in Workers : v # w => pc'[v] = pc[v]
  BY <1>0 DEF Stats!Count, Stats!AddTotal, Stats!AddToday, Stats!Goes,
     Stats!Procs
<1>3. CASE Stats!Count(w)
  <2>1. /\ pc[w] = "idle" /\ pc'[w] = "enter" /\ calls' = calls + 1
        /\ UNCHANGED <<total, today, counted>>
    BY <1>0, <1>3 DEF Stats!Count, Stats!At, Stats!Goes
  <2>2. /\ Adding' = Adding \cup {w} /\ w \notin Adding
        /\ Totalling' = Totalling \cup {w} /\ w \notin Totalling
    BY <1>2, <2>1 DEF Adding, Totalling
  <2>3. /\ IsFiniteSet(Adding')
        /\ Cardinality(Adding') = Cardinality(Adding) + 1
        /\ Cardinality(Totalling') = Cardinality(Totalling) + 1
    BY <1>1, <2>2, FS_AddElement
  <2> QED
    BY <1>0, <1>1, <2>1, <2>3 DEF CallsCounted
<1>4. CASE Stats!AddTotal(w)
  <2>1. /\ pc[w] = "total" /\ pc'[w] = "today" /\ total' = total + 1
        /\ UNCHANGED <<calls, today, counted>>
    BY <1>0, <1>4 DEF Stats!AddTotal, Stats!At, Stats!Goes
  <2>2. /\ Adding' = Adding
        /\ Totalling' = Totalling \ {w} /\ w \in Totalling
    BY <1>2, <2>1 DEF Adding, Totalling
  <2>3. Cardinality(Totalling') = Cardinality(Totalling) - 1
    BY <1>1, <2>2, FS_RemoveElement
  <2> QED
    BY <1>0, <1>1, <2>1, <2>2, <2>3 DEF CallsCounted
<1>5. CASE Stats!AddToday(w)
  <2>1. /\ pc[w] = "today" /\ pc'[w] = "idle" /\ today' = today + 1
        /\ counted' = counted + 1 /\ UNCHANGED <<calls, total>>
    BY <1>0, <1>5 DEF Stats!AddToday, Stats!At, Stats!Goes
  <2>2. /\ Totalling' = Totalling
        /\ Adding' = Adding \ {w} /\ w \in Adding
    BY <1>2, <2>1 DEF Adding, Totalling
  <2>3. /\ IsFiniteSet(Adding')
        /\ Cardinality(Adding') = Cardinality(Adding) - 1
    BY <1>1, <2>2, FS_RemoveElement
  <2> QED
    BY <1>0, <1>1, <2>1, <2>2, <2>3 DEF CallsCounted
<1> QED
  BY <1>3, <1>4, <1>5

\* The other steps leave who is counting alone, but for a restart.
LEMMA OtherCalls ==
  ASSUME NamedWorkers, StatsTyped, CallsCounted, SavedWithin,
         \/ \E p \in Stats!Procs :
              Stats!CheckDay(p) \/ Stats!TurnDay(p) \/ Stats!ZeroCounters(p)
         \/ \E w \in Workers : Stats!NumberEvent(w) \/ Stats!PublishEvent(w)
         \/ Stats!WriteEvent \/ Stats!ReadTotals \/ Stats!WriteStats
         \/ Stats!Midnight \/ Stats!Restart \/ UNCHANGED Stats!vars
  PROVE  CallsCounted'
<1>0. /\ total \in Nat /\ today \in Nat /\ counted \in Nat /\ calls \in Nat
      /\ disk.total \in Nat /\ disk.today \in Nat
      /\ pc \in [Stats!Procs -> Stats!Steps]
      /\ \A w \in Workers : w \in Stats!Procs /\ w # Stats!Flusher
  BY DEF StatsTyped, CallsCounted, Stats!Procs, Counts, NamedWorkers
<1>1. /\ Cardinality(Adding) \in Nat /\ Cardinality(Totalling) \in Nat
  BY CountersFinite
<1>2. CASE Stats!Restart
  <2>1. Adding' = {} /\ Totalling' = {}
    BY <1>2 DEF Stats!Restart, Adding, Totalling, Stats!Procs
  <2>2. /\ total' <= calls /\ today' <= calls /\ counted' <= calls
        /\ calls' = calls /\ counted' = counted /\ total' \in Nat /\ today' \in Nat
    BY <1>0, <1>1, <1>2 DEF Stats!Restart, SavedWithin, Within, CallsCounted
  <2> QED
    BY <1>0, <2>1, <2>2, FS_EmptySet DEF CallsCounted
<1>3. ASSUME Adding' = Adding, Totalling' = Totalling, total' = total,
             today' \in {today, 0}, counted' \in {counted, 0},
             calls' \in {calls, calls + 1}
      PROVE  CallsCounted'
  BY <1>0, <1>1, <1>3 DEF CallsCounted
<1>4. ASSUME NEW p \in Stats!Procs,
             Stats!CheckDay(p) \/ Stats!TurnDay(p) \/ Stats!ZeroCounters(p)
      PROVE  CallsCounted'
  <2>1. /\ pc[p] \in {"enter", "locked", "zero"}
        /\ p \in Workers => pc'[p] \in {"locked", "zero", "total"}
        /\ \A v \in Workers : v # p => pc'[v] = pc[v]
    BY <1>0, <1>4 DEF Stats!CheckDay, Stats!TurnDay, Stats!ZeroCounters,
       Stats!At, Stats!Goes, Stats!AfterDay
  <2>2. Adding' = Adding /\ Totalling' = Totalling
    BY <2>1 DEF Adding, Totalling
  <2>3. /\ UNCHANGED <<total, counted, calls>> /\ today' \in {today, 0}
    BY <1>4 DEF Stats!CheckDay, Stats!TurnDay, Stats!ZeroCounters
  <2> QED
    BY <1>3, <2>2, <2>3
<1>5. ASSUME NEW w \in Workers, Stats!NumberEvent(w) \/ Stats!PublishEvent(w)
      PROVE  CallsCounted'
  <2>1. /\ pc[w] \in {"idle", "publish"} /\ pc'[w] \in {"idle", "publish"}
        /\ \A v \in Workers : v # w => pc'[v] = pc[v]
    BY <1>0, <1>5 DEF Stats!NumberEvent, Stats!PublishEvent, Stats!At,
       Stats!Goes
  <2>2. Adding' = Adding /\ Totalling' = Totalling
    BY <2>1 DEF Adding, Totalling
  <2>3. UNCHANGED <<total, today, counted>> /\ calls' \in {calls, calls + 1}
    BY <1>5 DEF Stats!NumberEvent, Stats!PublishEvent
  <2> QED
    BY <1>3, <2>2, <2>3
<1>6. CASE \/ Stats!WriteEvent \/ Stats!ReadTotals \/ Stats!WriteStats
           \/ Stats!Midnight \/ UNCHANGED Stats!vars
  <2>1. \A v \in Workers : pc'[v] = pc[v]
    BY <1>0, <1>6 DEF Stats!WriteEvent, Stats!ReadTotals, Stats!WriteStats,
       Stats!Midnight, Stats!vars, Stats!Goes
  <2>2. Adding' = Adding /\ Totalling' = Totalling
    BY <2>1 DEF Adding, Totalling
  <2>3. UNCHANGED <<total, today, calls>> /\ counted' \in {counted, 0}
    BY <1>6 DEF Stats!WriteEvent, Stats!ReadTotals, Stats!WriteStats,
       Stats!Midnight, Stats!vars
  <2> QED
    BY <1>3, <2>2, <2>3
<1> QED
  BY <1>2, <1>4, <1>5, <1>6

\* What is saved, and the numbers of the log.
LEMMA SavedStep ==
  ASSUME MaxCalls \in Nat, StatsTyped, StatsBounded, [Stats!Next]_Stats!vars
  PROVE  SavedWithin'
<1>0. /\ total \in Nat /\ today \in Nat /\ seq \in Nat /\ calls \in Nat
      /\ snap \in Counts /\ disk \in Counts
      /\ total <= calls /\ today <= calls /\ seq <= calls
  BY CountersFinite DEF StatsTyped, StatsBounded, CallsCounted, NumbersWithin
<1>1. calls' \in {calls, calls + 1}
  BY DEF Stats!Next, Stats!vars, Stats!CheckDay, Stats!TurnDay,
     Stats!ZeroCounters, Stats!Count, Stats!AddTotal, Stats!AddToday,
     Stats!NumberEvent, Stats!PublishEvent, Stats!WriteEvent,
     Stats!ReadTotals, Stats!WriteStats, Stats!Midnight, Stats!Restart
<1>2. \/ snap' = snap \/ snap' = Stats!Empty
      \/ snap' = [Stats!Empty EXCEPT !.seq = seq, !.total = total]
  BY DEF Stats!Next, Stats!vars, Stats!CheckDay, Stats!TurnDay,
     Stats!ZeroCounters, Stats!Count, Stats!AddTotal, Stats!AddToday,
     Stats!NumberEvent, Stats!PublishEvent, Stats!WriteEvent,
     Stats!ReadTotals, Stats!WriteStats, Stats!Midnight, Stats!Restart
<1>3. disk' = disk \/ Stats!WriteStats
  BY DEF Stats!Next, Stats!vars, Stats!CheckDay, Stats!TurnDay,
     Stats!ZeroCounters, Stats!Count, Stats!AddTotal, Stats!AddToday,
     Stats!NumberEvent, Stats!PublishEvent, Stats!WriteEvent,
     Stats!ReadTotals, Stats!Midnight, Stats!Restart
<1>4. Within(snap) /\ Within(disk)
  BY DEF StatsBounded, SavedWithin
<1>5. Within(snap)'
  <2>1. CASE snap' = snap
    BY <1>0, <1>1, <1>4, <2>1 DEF Within, Counts
  <2>2. CASE snap' = Stats!Empty
    BY <1>0, <1>1, <2>2 DEF Within, Stats!Empty
  <2>3. CASE snap' = [Stats!Empty EXCEPT !.seq = seq, !.total = total]
    <3>1. snap'.total = total /\ snap'.seq = seq /\ snap'.today = 0
      BY <2>3 DEF Stats!Empty
    <3> QED
      BY <1>0, <1>1, <3>1 DEF Within
  <2> QED
    BY <1>2, <2>1, <2>2, <2>3
<1>6. Within(disk)'
  <2>1. CASE disk' = disk
    BY <1>0, <1>1, <1>4, <2>1 DEF Within, Counts
  <2>2. CASE Stats!WriteStats
    <3>1. /\ disk'.total = snap.total /\ disk'.seq = snap.seq
          /\ disk'.today = today /\ calls' = calls
      BY <1>0, <2>2 DEF Stats!WriteStats, Counts
    <3> QED
      BY <1>0, <1>4, <3>1 DEF Within
  <2> QED
    BY <1>3, <2>1, <2>2
<1> QED
  BY <1>5, <1>6 DEF SavedWithin

\* A restart goes on from a number that was given to a call.
LEMMA NextWithin ==
  ASSUME StatsTyped, calls \in Nat, disk.seq <= calls,
         \A i \in 1..Len(file) : file[i].id <= calls
  PROVE  Stats!NextSeq \in Nat /\ Stats!NextSeq <= calls
<1> DEFINE S == {0} \cup { file[i].id : i \in Stats!Recent }
<1>0. disk.seq \in Nat /\ \A i \in Stats!Recent : file[i].id \in Nat /\ file[i].id <= calls
  BY EventsNumbered DEF StatsTyped, Counts, Stats!Recent
<1>1. S \in SUBSET (0..calls) /\ S # {}
  BY <1>0
<1>2. Stats!SeededSeq \in S
  <2>1. Stats!SeededSeq = Stats!Max(S)
    BY DEF Stats!SeededSeq
  <2> HIDE DEF S
  <2> QED
    BY <1>1, <2>1, BoundedMax
<1>3. Stats!SeededSeq \in 0..calls
  BY <1>1, <1>2
<1> DEFINE P == {disk.seq, Stats!SeededSeq}
<1>4. P \in SUBSET (0..calls) /\ P # {}
  BY <1>0, <1>3
<1>5. Stats!Max(P) \in P
  <2> HIDE DEF P
  <2> QED
    BY <1>4, BoundedMax
<1>6. Stats!NextSeq = Stats!Max(P)
  BY DEF Stats!NextSeq
<1> QED
  BY <1>4, <1>5, <1>6

LEMMA NumbersStep ==
  ASSUME NamedWorkers, StatsTyped, StatsBounded, [Stats!Next]_Stats!vars
  PROVE  NumbersWithin'
<1>0. /\ seq \in Nat /\ calls \in Nat /\ seq <= calls /\ disk.seq <= calls
      /\ disk.seq \in Nat /\ Len(file) \in Nat /\ Len(queue) \in Nat
      /\ queue \in Seq(Numbered) /\ file \in Seq(Numbered)
      /\ held \in [Workers -> Numbered]
  BY DEF StatsTyped, StatsBounded, CallsCounted, NumbersWithin, SavedWithin,
     Within, Counts
<1>a. /\ \A i \in 1..Len(file) : file[i].id \in Nat /\ file[i].id <= calls
      /\ \A i \in 1..Len(queue) : queue[i].id \in Nat /\ queue[i].id <= calls
      /\ \A w \in Workers : held[w].id \in Nat /\ held[w].id <= calls
  BY EventsNumbered DEF StatsBounded, NumbersWithin
<1>1. ASSUME calls' \in {calls, calls + 1}, UNCHANGED <<seq, file, queue,
                                                        held>>
      PROVE  NumbersWithin'
  BY <1>0, <1>1, <1>a DEF NumbersWithin
<1>2. ASSUME NEW w \in Workers, Stats!NumberEvent(w)
      PROVE  NumbersWithin'
  <2>1. /\ calls' = calls + 1 /\ seq' = seq + 1 /\ held'[w].id = seq + 1
        /\ \A v \in Workers : v # w => held'[v] = held[v]
        /\ UNCHANGED <<file, queue>>
    BY <1>0, <1>2 DEF Stats!NumberEvent
  <2>2. seq' <= calls' /\ \A n \in Nat : n <= calls => n <= calls'
    BY <1>0, <2>1
  <2>3. \A v \in Workers : held'[v].id <= calls'
    BY <1>a, <2>1, <2>2
  <2>4. /\ \A i \in 1..Len(file) : file[i].id <= calls'
        /\ \A i \in 1..Len(queue) : queue[i].id <= calls'
    BY <1>a, <2>2
  <2> QED
    BY <2>1, <2>2, <2>3, <2>4 DEF NumbersWithin
<1>3. ASSUME NEW w \in Workers, Stats!PublishEvent(w)
      PROVE  NumbersWithin'
  <2>1. /\ UNCHANGED <<calls, seq, file>> /\ queue' \in {queue, Append(queue, held[w])}
        /\ \A v \in Workers : held'[v] \in {held[v], Stats!NoEvent}
    BY <1>0, <1>3 DEF Stats!PublishEvent
  <2>2. \A i \in 1..Len(queue)' : queue'[i].id <= calls
    <3>1. CASE queue' = queue
      BY <1>a, <3>1
    <3>2. CASE queue' = Append(queue, held[w])
      <4>1. /\ Len(queue') = Len(queue) + 1 /\ queue'[Len(queue) + 1] = held[w]
            /\ \A i \in 1..Len(queue) : queue'[i] = queue[i]
        BY <1>0, <3>2
      <4>2. \A i \in 1..Len(queue)' :
              queue'[i] = held[w] \/ (i \in 1..Len(queue) /\ queue'[i] = queue[i])
        BY <1>0, <4>1
      <4> QED
        BY <1>a, <4>2
    <3> QED
      BY <2>1, <3>1, <3>2
  <2>3. \A v \in Workers : held'[v].id <= calls
    BY <1>0, <1>a, <2>1 DEF Stats!NoEvent
  <2> QED
    BY <1>0, <1>a, <2>1, <2>2, <2>3 DEF NumbersWithin
<1>4. CASE Stats!WriteEvent
  <2>1. /\ UNCHANGED <<calls, seq, held>> /\ queue # <<>>
        /\ file' = Append(file, Head(queue)) /\ queue' = Tail(queue)
    BY <1>4 DEF Stats!WriteEvent
  <2>2. /\ 1 \in 1..Len(queue) /\ Head(queue) = queue[1]
        /\ \A i \in 1..Len(queue)' : i + 1 \in 1..Len(queue) /\ queue'[i] = queue[i + 1]
    BY <1>0, <2>1
  <2>3. /\ Len(file)' = Len(file) + 1 /\ file'[Len(file) + 1] = queue[1]
        /\ \A i \in 1..Len(file) : file'[i] = file[i]
    BY <1>0, <2>1, <2>2
  <2>4. \A i \in 1..Len(file)' : file'[i].id <= calls
    <3>1. \A i \in 1..Len(file)' :
            file'[i] = queue[1] \/ (i \in 1..Len(file) /\ file'[i] = file[i])
      BY <1>0, <2>3
    <3> QED
      BY <1>a, <2>2, <3>1
  <2>5. \A i \in 1..Len(queue)' : queue'[i].id <= calls
    BY <1>a, <2>2
  <2> QED
    BY <1>0, <1>a, <2>1, <2>4, <2>5 DEF NumbersWithin
<1>5. CASE Stats!Restart
  <2>1. /\ calls' = calls /\ file' = file /\ queue' = <<>> /\ seq' = Stats!NextSeq
        /\ held' = [w \in Workers |-> Stats!NoEvent]
    BY <1>5 DEF Stats!Restart
  <2>2. Stats!NextSeq \in Nat /\ Stats!NextSeq <= calls
    BY <1>0, <1>a, NextWithin
  <2> QED
    BY <1>0, <1>a, <2>1, <2>2 DEF NumbersWithin, Stats!NoEvent
<1>6. ASSUME NEW p \in Stats!Procs,
             Stats!CheckDay(p) \/ Stats!TurnDay(p) \/ Stats!ZeroCounters(p)
      PROVE  NumbersWithin'
  BY <1>1, <1>6 DEF Stats!CheckDay, Stats!TurnDay, Stats!ZeroCounters
<1>7. ASSUME NEW w \in Workers,
             Stats!Count(w) \/ Stats!AddTotal(w) \/ Stats!AddToday(w)
      PROVE  NumbersWithin'
  BY <1>1, <1>7 DEF Stats!Count, Stats!AddTotal, Stats!AddToday
<1>8. CASE \/ Stats!ReadTotals \/ Stats!WriteStats \/ Stats!Midnight
           \/ UNCHANGED Stats!vars
  BY <1>1, <1>8 DEF Stats!ReadTotals, Stats!WriteStats, Stats!Midnight,
     Stats!vars
<1> QED
  BY <1>2, <1>3, <1>4, <1>5, <1>6, <1>7, <1>8 DEF Stats!Next

LEMMA OneMore ==
  ASSUME NEW b \in Nat, NEW n \in 0..b, n < b
  PROVE  n + 1 \in 0..b
OBVIOUS

\* What is dated, and the bounds.
LEMMA CalendarStep ==
  ASSUME MaxCalls \in Nat, LastDay \in Nat, MaxCrashes \in Nat,
         StatsTyped, StatsBounded, [Stats!Next]_Stats!vars
  PROVE  OnCalendar'
<1> USE DEF StatsBounded, Stats!Days
<1>0. /\ clock \in 0..LastDay /\ bizDay \in 0..LastDay
      /\ now \in [Stats!Procs -> 0..LastDay]
      /\ snap.day \in 0..LastDay /\ disk.day \in 0..LastDay
      /\ calls \in 0..MaxCalls /\ crashes \in 0..MaxCrashes
      /\ snap \in Counts /\ Stats!Flusher \in Stats!Procs
      /\ queue \in Seq(Numbered) /\ file \in Seq(Numbered)
      /\ held \in [Workers -> Numbered]
      /\ Len(file) \in Nat /\ Len(queue) \in Nat
      /\ \A w \in Workers : w \in Stats!Procs
  BY DEF OnCalendar, StatsTyped, Stats!Procs
<1>1. calls' \in 0..MaxCalls /\ crashes' \in 0..MaxCrashes /\ clock' \in 0..LastDay
  <2>1. /\ calls' = calls \/ (calls < MaxCalls /\ calls' = calls + 1)
        /\ crashes' = crashes \/ (crashes < MaxCrashes /\ crashes' = crashes + 1)
        /\ clock' = clock \/ (clock < LastDay /\ clock' = clock + 1)
    BY DEF Stats!Next, Stats!vars, Stats!CheckDay, Stats!TurnDay,
       Stats!ZeroCounters, Stats!Count, Stats!AddTotal, Stats!AddToday,
       Stats!NumberEvent, Stats!PublishEvent, Stats!WriteEvent,
       Stats!ReadTotals, Stats!WriteStats, Stats!Midnight, Stats!Restart
  <2> QED
    BY <1>0, <2>1, OneMore
<1>2. bizDay' \in 0..LastDay /\ rotator' \in Stats!Procs \cup {Stats!Nobody}
  <2>1. \/ UNCHANGED <<bizDay, rotator>>
        \/ bizDay' = bizDay /\ rotator' = Stats!Nobody
        \/ \E p \in Stats!Procs : bizDay' = now[p] /\ rotator' = p
        \/ bizDay' = clock /\ rotator' = Stats!Nobody
    BY DEF Stats!Next, Stats!vars, Stats!CheckDay, Stats!TurnDay,
       Stats!ZeroCounters, Stats!Count, Stats!AddTotal, Stats!AddToday,
       Stats!NumberEvent, Stats!PublishEvent, Stats!WriteEvent,
       Stats!ReadTotals, Stats!WriteStats, Stats!Midnight, Stats!Restart
  <2>2. rotator \in Stats!Procs \cup {Stats!Nobody}
    BY DEF OnCalendar
  <2> QED
    BY <1>0, <2>1, <2>2
<1>3. now' \in [Stats!Procs -> 0..LastDay]
  <2>1. \/ now' = now
        \/ \E p \in Stats!Procs : now' = [now EXCEPT ![p] = clock]
        \/ now' = [p \in Stats!Procs |-> clock]
    BY <1>0 DEF Stats!Next, Stats!vars, Stats!CheckDay, Stats!TurnDay,
       Stats!ZeroCounters, Stats!Count, Stats!AddTotal, Stats!AddToday,
       Stats!NumberEvent, Stats!PublishEvent, Stats!WriteEvent,
       Stats!ReadTotals, Stats!WriteStats, Stats!Midnight, Stats!Restart
  <2> QED
    BY <1>0, <2>1
<1>4. snap'.day \in 0..LastDay /\ disk'.day \in 0..LastDay
  <2>1. \/ UNCHANGED <<snap, disk>>
        \/ snap' = Stats!Empty /\ disk' = disk
        \/ Stats!ReadTotals
        \/ Stats!WriteStats
    BY DEF Stats!Next, Stats!vars, Stats!CheckDay, Stats!TurnDay,
       Stats!ZeroCounters, Stats!Count, Stats!AddTotal, Stats!AddToday,
       Stats!NumberEvent, Stats!PublishEvent, Stats!WriteEvent,
       Stats!Midnight, Stats!Restart
  <2>2. CASE Stats!ReadTotals
    BY <1>0, <2>2 DEF Stats!ReadTotals, Stats!Empty
  <2>3. CASE Stats!WriteStats
    BY <1>0, <2>3 DEF Stats!WriteStats, Stats!Empty, Counts
  <2> QED
    BY <1>0, <2>1, <2>2, <2>3 DEF Stats!Empty
<1>5. Dated'
  <2>0. /\ \A i \in 1..Len(file) : file[i].day \in 0..LastDay
        /\ \A i \in 1..Len(queue) : queue[i].day \in 0..LastDay
        /\ \A w \in Workers : held[w].day \in 0..LastDay
    BY DEF OnCalendar, Dated
  <2>1. CASE UNCHANGED <<file, queue, held>>
    BY <2>0, <2>1 DEF Dated
  <2>2. ASSUME NEW w \in Workers, Stats!NumberEvent(w)
        PROVE  Dated'
    <3>1. /\ UNCHANGED <<file, queue>> /\ held'[w].day = clock
          /\ \A v \in Workers : v # w => held'[v] = held[v]
      BY <1>0, <2>2 DEF Stats!NumberEvent
    <3> QED
      BY <1>0, <2>0, <3>1 DEF Dated
  <2>3. ASSUME NEW w \in Workers, Stats!PublishEvent(w)
        PROVE  Dated'
    <3>1. /\ file' = file /\ queue' \in {queue, Append(queue, held[w])}
          /\ \A v \in Workers : held'[v] \in {held[v], Stats!NoEvent}
      BY <1>0, <2>3 DEF Stats!PublishEvent
    <3>2. \A i \in 1..Len(queue)' : queue'[i].day \in 0..LastDay
      <4>1. CASE queue' = queue
        BY <2>0, <4>1
      <4>2. CASE queue' = Append(queue, held[w])
        <5>1. /\ Len(queue') = Len(queue) + 1 /\ queue'[Len(queue) + 1] = held[w]
              /\ \A i \in 1..Len(queue) : queue'[i] = queue[i]
          BY <1>0, <4>2
        <5>2. \A i \in 1..Len(queue)' :
                queue'[i] = held[w] \/ (i \in 1..Len(queue) /\ queue'[i] = queue[i])
          BY <1>0, <5>1
        <5> QED
          BY <2>0, <5>2
      <4> QED
        BY <3>1, <4>1, <4>2
    <3>3. \A v \in Workers : held'[v].day \in 0..LastDay
      BY <2>0, <3>1 DEF Stats!NoEvent
    <3> QED
      BY <2>0, <3>1, <3>2, <3>3 DEF Dated
  <2>4. CASE Stats!WriteEvent
    <3>1. /\ held' = held /\ queue # <<>>
          /\ file' = Append(file, Head(queue)) /\ queue' = Tail(queue)
      BY <2>4 DEF Stats!WriteEvent
    <3>2. /\ 1 \in 1..Len(queue) /\ Head(queue) = queue[1]
          /\ \A i \in 1..Len(queue)' : i + 1 \in 1..Len(queue) /\ queue'[i] = queue[i + 1]
      BY <1>0, <3>1
    <3>3. /\ Len(file)' = Len(file) + 1 /\ file'[Len(file) + 1] = queue[1]
          /\ \A i \in 1..Len(file) : file'[i] = file[i]
      BY <1>0, <3>1, <3>2
    <3>4. \A i \in 1..Len(file)' : file'[i].day \in 0..LastDay
      <4>1. \A i \in 1..Len(file)' :
              file'[i] = queue[1] \/ (i \in 1..Len(file) /\ file'[i] = file[i])
        BY <1>0, <3>3
      <4> QED
        BY <2>0, <3>2, <4>1
    <3>5. \A i \in 1..Len(queue)' : queue'[i].day \in 0..LastDay
      BY <2>0, <3>2
    <3> QED
      BY <2>0, <3>1, <3>4, <3>5 DEF Dated
  <2>5. CASE Stats!Restart
    <3>1. file' = file /\ queue' = <<>> /\ held' = [w \in Workers |-> Stats!NoEvent]
      BY <2>5 DEF Stats!Restart
    <3> QED
      BY <2>0, <3>1 DEF Stats!NoEvent, Dated
  <2>6. \/ UNCHANGED <<file, queue, held>>
        \/ \E w \in Workers : Stats!NumberEvent(w) \/ Stats!PublishEvent(w)
        \/ Stats!WriteEvent \/ Stats!Restart
    BY DEF Stats!Next, Stats!vars, Stats!CheckDay, Stats!TurnDay,
       Stats!ZeroCounters, Stats!Count, Stats!AddTotal, Stats!AddToday,
       Stats!ReadTotals, Stats!WriteStats, Stats!Midnight
  <2> QED
    BY <2>1, <2>2, <2>3, <2>4, <2>5, <2>6
<1>6. torn' \in BOOLEAN
  <2>1. torn' = torn \/ Stats!Restart
    BY DEF Stats!Next, Stats!vars, Stats!CheckDay, Stats!TurnDay,
       Stats!ZeroCounters, Stats!Count, Stats!AddTotal, Stats!AddToday,
       Stats!NumberEvent, Stats!PublishEvent, Stats!WriteEvent,
       Stats!ReadTotals, Stats!WriteStats, Stats!Midnight
  <2>2. CASE Stats!Restart
    BY <2>2 DEF Stats!Restart
  <2>3. CASE torn' = torn
    BY <2>3 DEF OnCalendar
  <2> QED
    BY <2>1, <2>2, <2>3
<1> QED
  BY <1>1, <1>2, <1>3, <1>4, <1>5, <1>6 DEF OnCalendar

LEMMA BoundsStep ==
  ASSUME MaxCalls \in Nat, LastDay \in Nat, MaxCrashes \in Nat, NamedWorkers,
         StatsTyped, StatsBounded, [Stats!Next]_Stats!vars
  PROVE  StatsBounded'
<1>1. CallsCounted /\ SavedWithin
  BY DEF StatsBounded
<1>2. CallsCounted'
  BY <1>1, CallStep, OtherCalls DEF Stats!Next
<1>3. SavedWithin'
  BY SavedStep
<1>4. NumbersWithin'
  BY NumbersStep
<1>5. OnCalendar'
  BY CalendarStep
<1> QED
  BY <1>2, <1>3, <1>4, <1>5 DEF StatsBounded

=============================================================================
