----------------------------- MODULE LoginFlow -----------------------------
(***************************************************************************)
(* Logging a Telegram account in: by QR code (qr_auth.go) or by phone code *)
(* (code_auth.go), with the session file that both write under ".pending"  *)
(* and move to its final place once authorised (session.go), and the HTTP  *)
(* handlers that submit the code and the password (api/v1/tg_account.go).  *)
(*                                                                         *)
(* A login runs in a goroutine of its own.  Logins of one phone share one  *)
(* pending file; the key of a QR login is made from its session id, so QR  *)
(* logins never share.  What a session file holds is abstracted to the     *)
(* authorisation key it stores, named after the login that created it.     *)
(*                                                                         *)
(* The process may end at any time.  A file that is to be removed is       *)
(* removed: the errors of os.Remove are not modelled.                      *)
(***************************************************************************)
EXTENDS Naturals, FiniteSets

CONSTANTS Logins,      \* the login sessions opened over HTTP
          Handlers     \* requests that submit a code or a password

None == "none"
Torn == "torn"   \* what is left of a file if the process ends while writing it
Phone == "phone"
Kinds == {"qr", "code"}
Final == {"authorized", "expired", "error"}
Statuses == {"absent", "created", "pending", "scanned", "need_code",
             "need_password"} \cup Final
Stages == {"unopened", "opened", "starting", "handshake", "waitScan",
           "waitCode", "waitPassword", "authorized", "promoted", "ended"}
Channels == {"code", "password"}
Answers == {"right", "wrong"}
NoHandler == [step |-> "idle", login |-> None, channel |-> "code", answer |-> "right"]

VARIABLES
  kind,        \* how each login identifies the user
  stage,       \* where the login's goroutine is
  status,      \* the state the hub publishes for the browser
  listed,      \* logins whose session the hub knows: they accept answers
  usePending,  \* logins that write the pending file rather than the final one
  key,         \* the authorisation key a login's client works with
  pending,     \* content of the pending session file of each path
  final,       \* content of the final session file of each path
  authKeys,    \* keys Telegram considers logged in
  box,         \* the one-place channels of each login
  handler,     \* progress of each submitting request
  \* auxiliary
  shared,      \* paths on which two logins have been active at once
  removed,     \* paths whose account has been deleted at some time
  told,        \* logins whose browser was told that they are authorised
  left,        \* paths whose pending file was left behind and is still there
  broken       \* paths whose final file the end of a process has torn

vars == <<kind, stage, status, listed, usePending, key, pending, final, authKeys,
          box, handler, shared, removed, told, left, broken>>

Paths == Logins \cup {Phone}
Keys == Logins \cup {None, Torn}

PathOf(l) == IF kind[l] = "qr" THEN l ELSE Phone
Running(l) == stage[l] \notin {"unopened", "opened", "ended"}
Waiting(l) == stage[l] \in {"starting", "handshake", "waitScan", "waitCode", "waitPassword"}

Init ==
  /\ kind \in [Logins -> Kinds]
  /\ stage = [l \in Logins |-> "unopened"]
  /\ status = [l \in Logins |-> "absent"]
  /\ listed = {}
  /\ usePending = {}
  /\ key = [l \in Logins |-> None]
  /\ pending = [p \in Paths |-> None]
  /\ final = [p \in Paths |-> None]
  /\ authKeys = {}
  /\ box = [l \in Logins |-> [c \in Channels |-> None]]
  /\ handler = [h \in Handlers |-> NoHandler]
  /\ shared = {} /\ removed = {}
  /\ told = {} /\ left = {} /\ broken = {}

----------------------------------------------------------------------------
(* What the goroutine of a login does to the hub and to the files.         *)

Publish(l, s) == status' = [status EXCEPT ![l] = s]

\* The hub forgets a code login when a final status is published, and a QR
\* login when its goroutine returns.
End(l, s) ==
  /\ stage' = [stage EXCEPT ![l] = "ended"]
  /\ Publish(l, s)
  /\ listed' = listed \ {l}

\* mutant: the pending file survives a failed login.
NoCleanup(l) == UNCHANGED <<pending, left>>

\* cleanupPendingSession: taken on every failing return of a login that
\* wrote the pending file.
Cleanup(l) ==
  IF l \in usePending
  THEN pending' = [pending EXCEPT ![PathOf(l)] = None] /\ left' = left \ {PathOf(l)}
  ELSE UNCHANGED <<pending, left>>

Abandon(l, s) == Cleanup(l) /\ End(l, s)

----------------------------------------------------------------------------
(* The login.                                                              *)

\* StartCodeLogin, StartAccountQR and GetQRCode: a new session id, and a
\* goroutine with a deadline of its own.
Open(l) ==
  /\ stage[l] = "unopened"
  /\ stage' = [stage EXCEPT ![l] = "opened"]
  /\ Publish(l, "created")
  /\ listed' = listed \cup {l}
  /\ UNCHANGED <<kind, usePending, key, pending, final, authKeys, box, handler,
                 shared, removed, told, left, broken>>

\* No API id is configured.  A code login publishes the error; a QR login
\* returns without publishing, and its status stays "created" for ever.
NotConfigured(l) ==
  /\ stage[l] = "opened"
  /\ End(l, IF kind[l] = "qr" THEN "created" ELSE "error")
  /\ UNCHANGED <<kind, usePending, key, pending, final, authKeys, box, handler,
                 shared, removed, told, left, broken>>

\* The file to use is chosen once, by whether the final one exists now.
Begin(l) ==
  /\ stage[l] = "opened"
  /\ stage' = [stage EXCEPT ![l] = "starting"]
  /\ usePending' = IF final[PathOf(l)] = None THEN usePending \cup {l} ELSE usePending
  /\ IF kind[l] = "qr" THEN Publish(l, "pending") ELSE UNCHANGED status
  /\ shared' = IF \E o \in Logins \ {l} : PathOf(o) = PathOf(l) /\ Running(o)
               THEN shared \cup {PathOf(l)} ELSE shared
  /\ UNCHANGED <<kind, listed, key, pending, final, authKeys, box, handler,
                 removed, told, left, broken>>

\* The client loads the session (LoadSession), and makes a key of its own if
\* there is none; of a torn file either is true: it is empty or cannot be read.
Load(l) ==
  LET stored == (IF l \in usePending THEN pending ELSE final)[PathOf(l)]
  IN /\ stage[l] = "starting"
     /\ stage' = [stage EXCEPT ![l] = "handshake"]
     /\ \/ stored # None /\ key' = [key EXCEPT ![l] = stored]
        \/ stored \in {None, Torn} /\ key' = [key EXCEPT ![l] = l]
     /\ UNCHANGED <<kind, status, listed, usePending, pending, final, authKeys,
                    box, handler, shared, removed, told, left, broken>>

\* ... and stores it once connected (StoreSession).  An authorised key needs
\* no further question.
Connect(l) ==
  /\ stage[l] = "handshake" /\ key[l] # Torn
  /\ IF l \in usePending
     THEN pending' = [pending EXCEPT ![PathOf(l)] = key[l]] /\ UNCHANGED final
     ELSE final' = [final EXCEPT ![PathOf(l)] = key[l]] /\ UNCHANGED pending
  /\ \/ /\ key[l] \in authKeys
        /\ stage' = [stage EXCEPT ![l] = "authorized"]
        /\ UNCHANGED status
     \/ /\ key[l] \notin authKeys /\ kind[l] = "code"
        /\ stage' = [stage EXCEPT ![l] = "waitCode"]
        /\ Publish(l, "need_code")
     \/ /\ key[l] \notin authKeys /\ kind[l] = "qr"
        /\ stage' = [stage EXCEPT ![l] = "waitScan"]
        /\ Publish(l, "pending")
  /\ UNCHANGED <<kind, listed, usePending, key, authKeys, box, handler, shared,
                 removed, told, left, broken>>

Authorise(l) ==
  /\ stage' = [stage EXCEPT ![l] = "authorized"]
  /\ authKeys' = authKeys \cup {key[l]}

AskPassword(l) ==
  /\ stage' = [stage EXCEPT ![l] = "waitPassword"]
  /\ Publish(l, "need_password")
  /\ UNCHANGED authKeys

\* OnLoginToken: the phone has scanned the code.  A token update that comes
\* while the password is awaited puts the status back to "scanned".
Scanned(l) ==
  /\ stage[l] \in {"waitScan", "waitPassword"} /\ kind[l] = "qr"
  /\ Publish(l, "scanned")
  /\ UNCHANGED <<kind, stage, listed, usePending, key, pending, final,
                 authKeys, box, handler, shared, removed, told, left, broken>>

\* The import of the accepted token ends the scan.
Import(l) ==
  /\ stage[l] = "waitScan" /\ status[l] = "scanned"
  /\ \/ Authorise(l) /\ UNCHANGED status
     \/ AskPassword(l)
  /\ UNCHANGED <<kind, listed, usePending, key, pending, final, box, handler,
                 shared, removed, told, left, broken>>

\* A wrong code ends the login with an error; a right one may not be enough.
TakeCode(l) ==
  /\ stage[l] = "waitCode" /\ box[l]["code"] # None
  /\ box' = [box EXCEPT ![l]["code"] = None]
  /\ \/ /\ box[l]["code"] = "wrong"
        /\ Abandon(l, "error")
        /\ UNCHANGED authKeys
     \/ /\ box[l]["code"] = "right"
        /\ \/ Authorise(l) /\ UNCHANGED status
           \/ AskPassword(l)
        /\ UNCHANGED <<listed, pending, left>>
  /\ UNCHANGED <<kind, usePending, key, final, handler, shared, removed, told,
                 broken>>

\* A QR login lets the user try another password; a code login does not.
TakePassword(l) ==
  /\ stage[l] = "waitPassword" /\ box[l]["password"] # None
  /\ box' = [box EXCEPT ![l]["password"] = None]
  /\ \/ /\ box[l]["password"] = "right"
        /\ Authorise(l)
        /\ UNCHANGED <<status, listed, pending, left>>
     \/ /\ box[l]["password"] = "wrong" /\ kind[l] = "qr"
        /\ Publish(l, "need_password")
        /\ UNCHANGED <<stage, listed, pending, left, authKeys>>
     \/ /\ box[l]["password"] = "wrong" /\ kind[l] = "code"
        /\ Abandon(l, "error")
        /\ UNCHANGED authKeys
  /\ UNCHANGED <<kind, usePending, key, final, handler, shared, removed, told,
                 broken>>

\* The client cannot be built, the connection breaks, or the deadline passes;
\* client.Run may still fail after the user was authorised.
GiveUp(l) ==
  /\ Waiting(l) \/ stage[l] = "authorized"
  /\ \E s \in {"error", "expired"} : Abandon(l, s)
  /\ UNCHANGED <<kind, usePending, key, final, authKeys, box, handler, shared,
                 removed, told, broken>>

\* client.Run returns no error and the user is not authorised, as when it finds
\* its own context cancelled: the login ends without a word and its file stays.
\* A code login goes on taking answers that nobody reads.
EndQuietly(l) ==
  /\ Waiting(l)
  /\ stage' = [stage EXCEPT ![l] = "ended"]
  /\ listed' = IF kind[l] = "qr" THEN listed \ {l} ELSE listed
  /\ left' = IF l \in usePending /\ pending[PathOf(l)] # None
             THEN left \cup {PathOf(l)} ELSE left
  /\ UNCHANGED <<kind, status, usePending, key, pending, final, authKeys, box,
                 handler, shared, removed, told, broken>>

\* mutant: a missing pending file is not noticed.
PromoteBlindly(l) ==
  LET p == PathOf(l)
  IN /\ stage[l] = "authorized"
     /\ stage' = [stage EXCEPT ![l] = "promoted"]
     /\ IF l \in usePending
        THEN /\ final' = [final EXCEPT ![p] = pending[p]]
             /\ pending' = [pending EXCEPT ![p] = None] /\ left' = left \ {p}
        ELSE UNCHANGED <<pending, left, final>>
     /\ UNCHANGED <<kind, status, listed, usePending, key, authKeys, box,
                    handler, shared, removed, told, broken>>

\* promotePendingSession: the pending file becomes the final one.  Without a
\* pending file, or if it can neither be moved nor copied, the login ends with
\* an error, which does not clean up.
Promote(l) ==
  LET p == PathOf(l)
  IN /\ stage[l] = "authorized"
     /\ \/ /\ l \notin usePending
           /\ stage' = [stage EXCEPT ![l] = "promoted"]
           /\ UNCHANGED <<status, listed, pending, left, final>>
        \/ /\ l \in usePending /\ pending[p] # None
           /\ final' = [final EXCEPT ![p] = pending[p]]
           /\ pending' = [pending EXCEPT ![p] = None] /\ left' = left \ {p}
           /\ stage' = [stage EXCEPT ![l] = "promoted"]
           /\ UNCHANGED <<status, listed>>
        \/ /\ l \in usePending
           /\ End(l, "error")
           /\ left' = IF pending[p] = None THEN left ELSE left \cup {p}
           /\ UNCHANGED <<pending, final>>
     /\ UNCHANGED <<kind, usePending, key, authKeys, box, handler, shared,
                    removed, told, broken>>

Announce(l) ==
  /\ stage[l] = "promoted"
  /\ End(l, "authorized")
  /\ told' = told \cup {l}
  /\ UNCHANGED <<kind, usePending, key, pending, final, authKeys, box, handler,
                 shared, removed, left, broken>>

----------------------------------------------------------------------------
(* Submitting an answer: ProvideCode, ProvidePassword, ProvideQRPassword.  *)

\* The channel is looked up under the lock and used after it.
Submit(h, l, c, a) ==
  /\ handler[h].step = "idle"
  /\ l \in listed
  /\ kind[l] = "qr" => c = "password"
  /\ handler' = [handler EXCEPT ![h] =
                   [step |-> "try", login |-> l, channel |-> c, answer |-> a]]
  /\ UNCHANGED <<kind, stage, status, listed, usePending, key, pending, final,
                 authKeys, box, shared, removed, told, left, broken>>

Slot(h) == box[handler[h].login][handler[h].channel]
Put(h, v) == box' = [box EXCEPT ![handler[h].login][handler[h].channel] = v]
Step(h, s) == handler' = [handler EXCEPT ![h].step = s]

\* A free channel takes the answer at once; a full one is emptied first ...
TrySend(h) ==
  /\ handler[h].step = "try"
  /\ \/ Slot(h) = None /\ Put(h, handler[h].answer) /\ Step(h, "done")
     \/ Slot(h) # None /\ Step(h, "drain") /\ UNCHANGED box
  /\ UNCHANGED <<kind, stage, status, listed, usePending, key, pending, final,
                 authKeys, shared, removed, told, left, broken>>

Drain(h) ==
  /\ handler[h].step = "drain"
  /\ Put(h, None)
  /\ Step(h, "send")
  /\ UNCHANGED <<kind, stage, status, listed, usePending, key, pending, final,
                 authKeys, shared, removed, told, left, broken>>

\* ... and the second send blocks while another request has filled it again.
BlockingSend(h) ==
  /\ handler[h].step = "send" /\ Slot(h) = None
  /\ Put(h, handler[h].answer)
  /\ Step(h, "done")
  /\ UNCHANGED <<kind, stage, status, listed, usePending, key, pending, final,
                 authKeys, shared, removed, told, left, broken>>

\* RemoveTGAccount: the final file goes; logins under way are not told.
RemoveAccount(p) ==
  /\ final[p] # None
  /\ final' = [final EXCEPT ![p] = None]
  /\ removed' = removed \cup {p}
  /\ UNCHANGED <<kind, stage, status, listed, usePending, key, pending,
                 authKeys, box, handler, shared, told, left, broken>>

----------------------------------------------------------------------------
(* The end of the process.                                                 *)

\* What the logins and the hub know is gone, the files stay.  StoreSession
\* writes in place: a file may be torn that one of them was writing.
ProcessEnds ==
  \E torn \in SUBSET {l \in Logins : stage[l] = "handshake"} :
    /\ stage' = [l \in Logins |-> IF stage[l] = "unopened" THEN "unopened" ELSE "ended"]
    /\ status' = [l \in Logins |-> "absent"]
    /\ listed' = {}
    /\ pending' = [p \in Paths |->
         IF \E l \in torn \cap usePending : PathOf(l) = p THEN Torn ELSE pending[p]]
    /\ final' = [p \in Paths |->
         IF \E l \in torn \ usePending : PathOf(l) = p THEN Torn ELSE final[p]]
    /\ left' = {p \in Paths : pending'[p] # None}
    /\ broken' = broken \cup {PathOf(l) : l \in torn \ usePending}
    /\ box' = [l \in Logins |-> [c \in Channels |-> None]]
    /\ handler' = [h \in Handlers |-> NoHandler]
    /\ UNCHANGED <<kind, usePending, key, authKeys, shared, removed, told>>

Next ==
  \/ \E l \in Logins :
       \/ Open(l) \/ NotConfigured(l) \/ Begin(l) \/ Load(l) \/ Connect(l)
       \/ Scanned(l) \/ Import(l) \/ TakeCode(l) \/ TakePassword(l)
       \/ GiveUp(l) \/ EndQuietly(l) \/ Promote(l) \/ Announce(l)
  \/ \E h \in Handlers :
       \/ \E l \in Logins, c \in Channels, a \in Answers : Submit(h, l, c, a)
       \/ TrySend(h) \/ Drain(h) \/ BlockingSend(h)
  \/ \E p \in Paths : RemoveAccount(p)
  \/ ProcessEnds

Spec == Init /\ [][Next]_vars

----------------------------------------------------------------------------

TypeOK ==
  /\ kind \in [Logins -> Kinds]
  /\ stage \in [Logins -> Stages]
  /\ status \in [Logins -> Statuses]
  /\ listed \subseteq Logins
  /\ usePending \subseteq Logins
  /\ key \in [Logins -> Keys]
  /\ pending \in [Paths -> Keys]
  /\ final \in [Paths -> Keys]
  /\ authKeys \subseteq Logins
  /\ box \in [Logins -> [Channels -> Answers \cup {None}]]
  /\ handler \in [Handlers -> [step : {"idle", "try", "drain", "send", "done"},
                               login : Keys, channel : Channels, answer : Answers]]
  /\ {shared, removed, left, broken} \subseteq SUBSET Paths
  /\ told \subseteq Logins

\* A login the browser was told is authorised has left a session file, and the
\* file holds a key Telegram knows (promotePendingSession), whatever ended the
\* process or the logins after it.  Excused: the account was deleted since; two
\* overlapping logins of one phone, which write the same file, may leave the
\* key of the one that failed; and the process may have ended while a later
\* login was writing the file in place.
SessionKept ==
  \A l \in told :
    PathOf(l) \notin removed
      => /\ final[PathOf(l)] # None
         /\ PathOf(l) \notin shared \cup broken => final[PathOf(l)] \in authKeys

\* No pending session file outlives the logins that write it, in whatever order
\* two logins of one phone end, by success, failure or deadline.  Excused is a
\* file left behind, until a later login of the phone cleans it up or moves it:
\* by the end of the process, by a client that ended without an error and
\* without authorisation, or because it could not be moved.
PendingGone ==
  \A p \in Paths \ left :
    (\A l \in Logins : PathOf(l) = p => ~Running(l)) => pending[p] = None

=============================================================================
