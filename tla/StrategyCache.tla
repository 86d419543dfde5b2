--------------------------- MODULE StrategyCache ---------------------------
(***************************************************************************)
(* One strategy: its row, and the copy that engine/strategy_cache.go keeps *)
(* in memory for the runs, without expiry.                                 *)
(*                                                                         *)
(* A handler changes the row first and the cache after it; a run that      *)
(* finds no copy reads the row and puts down what it has read.  Only the   *)
(* map of the cache has a lock, so between the two steps of one anything   *)
(* may happen that the others do.                                          *)
(***************************************************************************)
EXTENDS Naturals

CONSTANTS
  Editors,   \* handlers of the strategy API
  Readers,   \* goroutines of runs
  MaxEdits   \* bound: the versions of the strategy

VARIABLES
  row,      \* the version in the strategy's row, 0 when it is deleted
  cache,    \* the version in GlobalStrategyCache, 0 when it has none
  editor,   \* what each handler will do next, with which version
  reader,   \* the version each run has read and will put down, if any
  edits,    \* versions that exist
  outdated  \* the cache was last given a version the row did not have

vars == <<row, cache, editor, reader, edits, outdated>>

----------------------------------------------------------------------------
(* Types and helpers *)

Gone == 0
Versions == 1..MaxEdits
Idle == [at |-> "idle", ver |-> Gone]
Doing(at, v) == [at |-> at, ver |-> v]

TypeOK ==
  /\ row \in Versions \cup {Gone} /\ cache \in Versions \cup {Gone}
  /\ editor \in [Editors -> [at : {"idle", "save", "set", "drop"},
                             ver : Versions \cup {Gone}]]
  /\ reader \in [Readers -> Versions \cup {Gone}]
  /\ edits \in 0..MaxEdits /\ outdated \in BOOLEAN

Init ==
  /\ row = Gone /\ cache = Gone /\ edits = 0 /\ outdated = FALSE
  /\ editor = [e \in Editors |-> Idle]
  /\ reader = [r \in Readers |-> Gone]

Go(e, step) == editor' = [editor EXCEPT ![e] = step]

\* StrategyCache.Set.
Put(v) == cache' = v /\ outdated' = (v # row)

----------------------------------------------------------------------------
(* Handlers *)

\* CreateStrategy: the row gets an id of its own.
Create(e) ==
  /\ editor[e] = Idle /\ edits = 0
  /\ edits' = 1 /\ row' = 1
  /\ Go(e, Doing("set", 1))
  /\ UNCHANGED <<cache, reader, outdated>>

\* UpdateStrategy finds the row and fills in all its fields from the request.
FindForUpdate(e) ==
  /\ editor[e] = Idle /\ row # Gone /\ edits < MaxEdits
  /\ edits' = edits + 1
  /\ Go(e, Doing("save", edits + 1))
  /\ UNCHANGED <<row, cache, reader, outdated>>

\* Mutation: the handler leaves the cache as it is.
SaveRowOnly(e) ==
  /\ editor[e].at = "save"
  /\ row' = editor[e].ver
  /\ Go(e, Idle)
  /\ UNCHANGED <<cache, reader, edits, outdated>>

\* Save writes the whole row, and inserts it again if it was deleted meanwhile.
SaveRow(e) ==
  /\ editor[e].at = "save"
  /\ row' = editor[e].ver
  /\ Go(e, Doing("set", editor[e].ver))
  /\ UNCHANGED <<cache, reader, edits, outdated>>

SaveFails(e) ==
  /\ editor[e].at = "save"
  /\ Go(e, Idle)
  /\ UNCHANGED <<row, cache, reader, edits, outdated>>

\* The handlers that created or updated the row hand it to the cache.
SetCache(e) ==
  /\ editor[e].at = "set"
  /\ Put(editor[e].ver)
  /\ Go(e, Idle)
  /\ UNCHANGED <<row, reader, edits>>

\* DeleteStrategy, which does not mind a row that is gone.
DeleteRow(e) ==
  /\ editor[e] = Idle
  /\ row' = Gone
  /\ Go(e, Doing("drop", Gone))
  /\ UNCHANGED <<cache, reader, edits, outdated>>

Invalidate(e) ==
  /\ editor[e].at = "drop"
  /\ cache' = Gone /\ outdated' = FALSE
  /\ Go(e, Idle)
  /\ UNCHANGED <<row, reader, edits>>

----------------------------------------------------------------------------
(* Runs: ResolveRuntimeStrategy *)

\* Get finds no copy and reads the row.
ReadRow(r) ==
  /\ reader[r] = Gone /\ cache = Gone /\ row # Gone
  /\ reader' = [reader EXCEPT ![r] = row]
  /\ UNCHANGED <<row, cache, editor, edits, outdated>>

\* It puts down what it has read.
FillCache(r) ==
  /\ reader[r] # Gone
  /\ Put(reader[r])
  /\ reader' = [reader EXCEPT ![r] = Gone]
  /\ UNCHANGED <<row, editor, edits>>

\* The process ends and starts again.
Restart ==
  /\ cache' = Gone /\ outdated' = FALSE
  /\ editor' = [e \in Editors |-> Idle]
  /\ reader' = [r \in Readers |-> Gone]
  /\ UNCHANGED <<row, edits>>

Edit(e) ==
  \/ Create(e) \/ FindForUpdate(e) \/ SaveRow(e) \/ SaveFails(e)
  \/ SetCache(e) \/ DeleteRow(e) \/ Invalidate(e)

Next ==
  \/ \E e \in Editors : Edit(e)
  \/ \E r \in Readers : ReadRow(r) \/ FillCache(r)
  \/ Restart

Spec == Init /\ [][Next]_vars

----------------------------------------------------------------------------
(* Properties *)

\* Somebody has changed the row and is about to change the cache.
Underway == \E e \in Editors : editor[e].at \in {"set", "drop"}

\* strategy_cache.go, api/v1/strategy.go: runs work with a version of the
\* strategy that is not the row's only while a handler is between its two
\* steps, or after somebody put down a version that had been replaced by then.
\* No failed, repeated or abandoned request leaves the cache behind.
CacheFollows == cache \in {Gone, row} \/ Underway \/ outdated

============================================================================
