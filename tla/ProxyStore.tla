----------------------------- MODULE ProxyStore -----------------------------
(***************************************************************************)
(* The proxy of the server: global/proxy_runtime.go keeps it in a file and *)
(* in memory, engine/proxy_runtime.go makes the running Telegram clients   *)
(* connect again after a change, api/v1/proxy.go does both.                *)
(*                                                                         *)
(* The lock covers the memory only: the file is renamed before it is       *)
(* taken.  A client takes the proxy from memory whenever it dials, which   *)
(* it does on its own after every loss of its connection.                  *)
(***************************************************************************)
EXTENDS Naturals

CONSTANTS
  Handlers,   \* handlers of the proxy API, each with its HotApplyProxy
  Clients,    \* Telegram runtimes of the task manager
  MaxEdits    \* bound: the configurations after the one of the config file

VARIABLES
  file,     \* the configuration in proxy.runtime.json, or that of config.yaml
  memory,   \* s.cfg
  handler,  \* what each handler does: put down its file, its copy, or apply
  todo,     \* the runtimes HotApplyProxy has still to look at
  link,     \* each client: not created, created, dialling or connected
  edits,    \* configurations that exist
  refused,  \* clients that HotApplyProxy failed to restart
  \* auxiliary
  crossed,  \* the last file was renamed in the middle of another change
  unread    \* the last start failed to read the file that is still there

vars == <<file, memory, handler, todo, link, edits, refused, crossed,
          unread>>
stores == <<file, memory, crossed, unread>>

----------------------------------------------------------------------------
(* Types and helpers *)

Configs == 0..MaxEdits
Idle == [at |-> "idle", cfg |-> 0]
Doing(at, c) == [at |-> at, cfg |-> c]
Off == [at |-> "off", cfg |-> 0]
Created == [at |-> "created", cfg |-> 0]
Dialling(c) == [at |-> "dialling", cfg |-> c]
Connected(c) == [at |-> "connected", cfg |-> c]

TypeOK ==
  /\ file \in Configs /\ memory \in Configs /\ edits \in Configs
  /\ handler \in [Handlers -> [at : {"idle", "rename", "assign", "list", "apply"},
                               cfg : Configs]]
  /\ todo \in [Handlers -> SUBSET Clients]
  /\ link \in [Clients -> [at : {"off", "created", "dialling", "connected"},
                           cfg : Configs]]
  /\ crossed \in BOOLEAN /\ unread \in BOOLEAN /\ refused \subseteq Clients

Init ==
  /\ file = 0 /\ memory = 0 /\ edits = 0 /\ crossed = FALSE /\ refused = {}
  /\ unread = FALSE
  /\ handler = [h \in Handlers |-> Idle]
  /\ todo = [h \in Handlers |-> {}]
  /\ link = [c \in Clients |-> Off]

Go(h, step) == handler' = [handler EXCEPT ![h] = step]
Links(c, l) == link' = [link EXCEPT ![c] = l]
Answered(c) == refused' = refused \ {c}

----------------------------------------------------------------------------
(* Update of the API and Put of the store *)

\* The request is valid and its configuration is written to a temporary file.
Begin(h) ==
  /\ handler[h] = Idle /\ edits < MaxEdits
  /\ edits' = edits + 1
  /\ Go(h, Doing("rename", edits + 1))
  /\ UNCHANGED <<stores, todo, link, refused>>

WriteFails(h) ==
  /\ handler[h].at = "rename"
  /\ Go(h, Idle)
  /\ UNCHANGED <<stores, todo, link, edits, refused>>

Rename(h) ==
  /\ handler[h].at = "rename"
  /\ file' = handler[h].cfg /\ unread' = FALSE
  /\ crossed' = (\E g \in Handlers \ {h} : handler[g].at = "assign")
  /\ Go(h, Doing("assign", handler[h].cfg))
  /\ UNCHANGED <<memory, todo, link, edits, refused>>

\* The assignment under the lock, and the start of HotApplyProxy.
Assign(h) ==
  /\ handler[h].at = "assign"
  /\ memory' = handler[h].cfg
  /\ Go(h, Doing("list", handler[h].cfg))
  /\ UNCHANGED <<file, crossed, unread, todo, link, edits, refused>>

----------------------------------------------------------------------------
(* HotApplyProxy *)

\* Mutation: a client that is still dialling is not told.
HasConnection == {c \in Clients : link[c].at = "connected"}

\* The runtimes of the manager: all that have a client, and some that have
\* none yet.
HasClient == {c \in Clients : link[c] # Off}

List(h) ==
  /\ handler[h].at = "list"
  /\ \E new \in SUBSET (Clients \ HasClient) :
       todo' = [todo EXCEPT ![h] = HasClient \cup new]
  /\ Go(h, Doing("apply", handler[h].cfg))
  /\ UNCHANGED <<stores, link, edits, refused>>

\* One of them: without a client it is passed over, else its client is told to
\* connect again, and gives its connection or its dial up, or refuses.
Restart(h, c) ==
  /\ handler[h].at = "apply" /\ c \in todo[h]
  /\ todo' = [todo EXCEPT ![h] = @ \ {c}]
  /\ \/ link[c] = Off /\ UNCHANGED <<link, refused>>
     \/ link[c] # Off /\ Links(c, Created) /\ Answered(c)
     \/ link[c] # Off /\ refused' = refused \cup {c} /\ UNCHANGED link
  /\ UNCHANGED <<stores, handler, edits>>

Applied(h) ==
  /\ handler[h].at = "apply" /\ todo[h] = {}
  /\ Go(h, Idle)
  /\ UNCHANGED <<stores, todo, link, edits, refused>>

----------------------------------------------------------------------------
(* The clients: newTelegramClient, dialMTProtoWithRuntimeProxy *)

CreateClient(c) ==
  /\ link[c] = Off
  /\ Links(c, Created)
  /\ UNCHANGED <<stores, handler, todo, edits, refused>>

\* The dialler reads the memory.
Dial(c) ==
  /\ link[c] = Created
  /\ Links(c, Dialling(memory)) /\ Answered(c)
  /\ UNCHANGED <<stores, handler, todo, edits>>

Connect(c) ==
  /\ link[c].at = "dialling"
  /\ Links(c, Connected(link[c].cfg))
  /\ UNCHANGED <<stores, handler, todo, edits, refused>>

\* A failed dial, a connection that broke: the client will dial again.
Disconnect(c) ==
  /\ link[c].at \in {"dialling", "connected"}
  /\ Links(c, Created)
  /\ UNCHANGED <<stores, handler, todo, edits, refused>>

\* The runtime is dropped with its account.
DropClient(c) ==
  /\ link[c] # Off
  /\ Links(c, Off) /\ Answered(c)
  /\ UNCHANGED <<stores, handler, todo, edits>>

\* The process ends; Init of the store reads the file, and ignores the error of
\* a file it cannot read, parse or validate: the proxy is that of config.yaml.
Reboot ==
  /\ \/ memory' = file /\ unread' = FALSE
     \/ memory' = 0 /\ unread' = TRUE
  /\ crossed' = FALSE /\ refused' = {}
  /\ handler' = [h \in Handlers |-> Idle]
  /\ todo' = [h \in Handlers |-> {}]
  /\ link' = [c \in Clients |-> Off]
  /\ UNCHANGED <<file, edits>>

Next ==
  \/ \E h \in Handlers :
       \/ Begin(h) \/ WriteFails(h) \/ Rename(h) \/ Assign(h)
       \/ List(h) \/ Applied(h)
       \/ \E c \in Clients : Restart(h, c)
  \/ \E c \in Clients :
       CreateClient(c) \/ Dial(c) \/ Connect(c) \/ Disconnect(c) \/ DropClient(c)
  \/ Reboot

Spec == Init /\ [][Next]_vars

----------------------------------------------------------------------------
(* Properties *)

\* Client c is still to be looked at by some HotApplyProxy.
Awaited(c) ==
  \E h \in Handlers : \/ handler[h].at = "list"
                      \/ handler[h].at = "apply" /\ c \in todo[h]

\* engine/proxy_runtime.go, HotApplyProxy: a client whose connection goes, or
\* is about to go, through a proxy that has been replaced will be told to
\* connect again, unless it has been told and refused; and what is in memory
\* is what a restart will find, unless the last two changes overlapped or the
\* last start could not read the file and nobody has changed the proxy since.
ProxyReaches ==
  /\ \A c \in Clients :
       link[c].at \in {"dialling", "connected"} =>
         link[c].cfg = memory \/ Awaited(c) \/ c \in refused
  /\ \/ file = memory \/ crossed \/ unread
     \/ \E h \in Handlers : handler[h].at = "assign"

============================================================================
