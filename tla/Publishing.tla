----------------------------- MODULE Publishing -----------------------------
(***************************************************************************)
(* How one unit, a message or an album, gets from the source to the target *)
(* (engine/pipeline.go, send_result.go, media.go, media_separated.go,      *)
(* bot_publish.go, stream_transfer.go, keep_reply.go), under the retries   *)
(* of processWithRetry.  A task forwards (mode 1), sends by reference (2)  *)
(* or downloads and uploads (3), the first two falling back to the third;  *)
(* a publisher, another account or a bot, always downloads and uploads.    *)
(*                                                                         *)
(* The feed of a task is sequential, so one call is under way at a time;   *)
(* every request to Telegram and every local file is a step of it.  A send *)
(* may arrive although its answer does not.  KeepReply is on.  Captions,   *)
(* names, formats and the looks of an edit are left out.                   *)
(***************************************************************************)
EXTENDS Integers, FiniteSets, Sequences, FiniteSetsExt

CONSTANTS
  Units,      \* the feed: a sequence of sets of messages, by their ids
  Replies,    \* message -> what it replies to: <<>>, or its parent, then its thread
  Retries,    \* defaultProcessRetries
  ChunkSize,  \* maxGroup of the bot's albums
  Locations,  \* how many sizes of a photo may be tried
  Faults      \* bound: lost answers, evictions and comments with a used id

Messages == UNION {Units[u] : u \in DOMAIN Units}

\* What the feed is: every message has an id and comes once; what it replies to
\* may be out of the feed.
FeedAssumption ==
  /\ Units \in Seq(SUBSET (Nat \ {0}))
  /\ \A u \in DOMAIN Units : Units[u] # {} /\ IsFiniteSet(Units[u])
  /\ \A u, v \in DOMAIN Units : Units[u] \cap Units[v] # {} => u = v
  /\ Replies \in [Messages -> Seq(Nat \ {0})]
  /\ Retries \in Nat \ {0} /\ ChunkSize \in Nat \ {0}
  /\ Locations \in Nat /\ Faults \in Nat

VARIABLES
  setup,   \* the task: its mode, its publisher, whether files are edited
  kind,    \* message -> text, media, or media that cannot be sent as such
  job,     \* the call under way
  files,   \* temporary files on disk, which of them a defer removes, and which
           \* are torn: their write failed halfway and nothing removes them
  target,  \* the posts of the target, in order: a message or the parts of an album
  cache, db,       \* msgMappingCache and the LocalMsgMapping table
  history  \* lost answers, files spliced by the stream, media found to hold
           \* nothing to download, ids used by comments
vars == <<setup, kind, job, files, target, cache, db, history>>
-----------------------------------------------------------------------------
Errors == {"again", "final"}    \* what processWithRetry retries, and the rest
IsAlbum(u) == Cardinality(Units[u]) > 1
Idle == [at |-> "idle", unit |-> 0, attempt |-> 0, parts |-> {}, reply |-> 0,
         todo |-> {}, chunk |-> {}, try |-> 0, loc |-> 0, content |-> "none", bad |-> {}]

Jobs == [at : {"idle", "text", "forward", "reference", "stream", "streamed",
               "download", "fetch", "rescue", "edit", "marked", "upload", "send"},
         unit : 0..Len(Units), attempt : 0..Retries, parts : SUBSET Messages,
         reply : Nat, todo : SUBSET Messages, chunk : SUBSET Messages, try : Nat,
         loc : Nat, content : {"none", "part", "whole", "mixed"}, bad : SUBSET Messages]
Posts == [src : SUBSET Messages, reply : Nat, spoiled : SUBSET Messages]
Files == Messages \X {"media", "edit", "mark"}
Histories == [lost : [Messages -> Nat], done : SUBSET (1..Len(Units)),
              spliced : SUBSET Messages, void : SUBSET Messages,
              comments : SUBSET Messages, faults : 0..Faults]

TypeOK ==
  /\ setup \in [mode : 1..3, pub : {"self", "account", "bot"}, edit : BOOLEAN]
  /\ kind \in [Messages -> {"text", "media", "other"}]
  /\ job \in Jobs /\ job.reply <= Len(target)
  /\ files \in [disk : SUBSET Files, cleanup : SUBSET Files, torn : SUBSET Files]
  /\ target \in Seq(Posts)
  /\ cache \in [Messages -> 0..Len(target)] /\ db \in [Messages -> 0..Len(target)]
  /\ history \in Histories

Init ==
  /\ setup \in [mode : 1..3, pub : {"self", "account", "bot"}, edit : BOOLEAN]
  /\ setup.pub # "self" => setup.mode = 3
  /\ kind \in [Messages -> {"text", "media", "other"}]
  /\ \A u \in DOMAIN Units : IsAlbum(u) => \A m \in Units[u] : kind[m] # "text"
  /\ job = Idle /\ files = [disk |-> {}, cleanup |-> {}, torn |-> {}] /\ target = <<>>
  /\ cache = [m \in Messages |-> 0] /\ db = [m \in Messages |-> 0]
  /\ history = [lost |-> [m \in Messages |-> 0], done |-> {}, spliced |-> {},
                void |-> {}, comments |-> {}, faults |-> 0]
-----------------------------------------------------------------------------
(* The replies: lookupTargetMsgID, buildKeepReplyInput, storeMsgMapping *)

\* (That a hit in the table is put into the cache changes no later lookup.)
Lookup(m) == IF m \notin Messages THEN 0 ELSE IF cache[m] # 0 THEN cache[m] ELSE db[m]

\* The part of an album that carries its reply is the first that has one.
Carrier(ms) == LET some == {m \in ms : Replies[m] # <<>>}
               IN Min(IF some = {} THEN ms ELSE some)

Found(ids) == {k \in DOMAIN ids : Lookup(ids[k]) # 0}

\* Mutant: the top of the thread comes before the parent.
KeptReplyTop(ms) == LET ids == Replies[Carrier(ms)]
                    IN IF Found(ids) = {} THEN 0 ELSE Lookup(ids[Max(Found(ids))])

\* The parent's copy or, when it has none, that of the top of its thread.  (The
\* up to 8 tries find what a call that starts a moment later finds.)
KeptReply(ms) == LET ids == Replies[Carrier(ms)]
                 IN IF Found(ids) = {} THEN 0 ELSE Lookup(ids[Min(Found(ids))])

\* Every part of an album is mapped to its post (the first copy); a failed write
\* to the table is only logged.
StoreMapping(ms) ==
  LET stored(map) == [m \in Messages |-> IF m \in ms THEN Len(target) + 1 ELSE map[m]]
  IN cache' = stored(cache) /\ (db' = stored(db) \/ UNCHANGED db)

\* msgMappingCache.Put evicts beyond its capacity; a new run starts it empty.
Evict(m) ==
  /\ cache[m] # 0 /\ history.faults < Faults
  /\ cache' = [cache EXCEPT ![m] = 0]
  /\ history' = [history EXCEPT !.faults = @ + 1]
  /\ UNCHANGED <<setup, kind, job, files, target, db>>

\* A media comment the bot sends is stored under its id in the discussion group.
BotComment(m) ==
  /\ setup.pub = "bot" /\ m \notin history.comments /\ history.faults < Faults
  /\ target' = Append(target, [src |-> {}, reply |-> 0, spoiled |-> {}])
  /\ StoreMapping({m})
  /\ history' = [history EXCEPT !.comments = @ \cup {m}, !.faults = @ + 1]
  /\ UNCHANGED <<setup, kind, job, files>>
-----------------------------------------------------------------------------
(* processSingleMessage and processAlbumBatch, with and without publisher *)

Self == setup.pub = "self"
Bot  == setup.pub = "bot"

\* What of a unit is published: an album's parts that can be sent as media.
Sendable(u) == IF IsAlbum(u) THEN {m \in Units[u] : kind[m] = "media"} ELSE Units[u]

\* The first method tried for a unit; an album of which one part is left is a
\* single message, and media that cannot be sent go as their text.
Alone(ms)  == Cardinality(ms) = 1
Forwarding == Self /\ setup.mode = 1
AsText(ms) == ~Forwarding /\ \A m \in ms : kind[m] # "media"
Upload(ms) == IF Self /\ Alone(ms) /\ ~setup.edit THEN "stream" ELSE "download"
Method(ms) == CASE AsText(ms) -> "text"
                [] Forwarding -> "forward"
                [] Self /\ setup.mode = 2 -> "reference"
                [] OTHER -> Upload(ms)

Start(u, n) == [at |-> Method(Sendable(u)), unit |-> u, attempt |-> n,
                parts |-> Sendable(u), reply |-> KeptReply(Sendable(u)),
                todo |-> Sendable(u), chunk |-> {}, try |-> 1, loc |-> 0,
                content |-> "none", bad |-> {}]

\* The deferred removals, of all files the call has registered.
Cleanup(fs) == [disk |-> fs.disk \ fs.cleanup, cleanup |-> {}, torn |-> fs.torn \ fs.cleanup]

\* processWithRetry returns nil, and the feed goes on.
Finish(void) ==
  /\ job' = [Idle EXCEPT !.unit = job.unit]
  /\ history' = [history EXCEPT !.done = @ \cup {job.unit}, !.void = @ \cup void]
  /\ files' = Cleanup(files)
Succeed == Finish({})

\* The attempt returns an error: another one, or the feed goes on without it.
Fail(e, fs) ==
  /\ job' = IF e = "again" /\ job.attempt < Retries
            THEN Start(job.unit, job.attempt + 1) ELSE [Idle EXCEPT !.unit = job.unit]
  /\ files' = Cleanup(fs)

ProcessUnit ==
  /\ job.at = "idle" /\ job.unit < Len(Units)
  /\ job' = IF Sendable(job.unit + 1) = {} THEN [job EXCEPT !.unit = @ + 1]
                                             ELSE Start(job.unit + 1, 1)
  /\ UNCHANGED <<setup, kind, files, target, cache, db, history>>
-----------------------------------------------------------------------------
(* Requests that publish: they arrive or not, and are answered or not. *)

\* Only the first request of an album carries its reply.
First == job.parts \subseteq job.todo \cup job.chunk
Arrive(ms) == target' = Append(target, [src |-> ms, reply |-> IF First THEN job.reply ELSE 0,
                                        spoiled |-> ms \cap job.bad])
Answered(ms)   == Arrive(ms) /\ StoreMapping(ms)
Unanswered(ms) == /\ history.faults < Faults
                  /\ Arrive(ms)
                  /\ history' = [history EXCEPT !.faults = @ + 1, !.lost =
                       [m \in Messages |-> IF m \in ms THEN @[m] + 1 ELSE @[m]]]
                  /\ UNCHANGED <<cache, db>>
Refused == UNCHANGED <<target, cache, db, history>>

Publish(ms) == \/ Answered(ms) /\ Succeed
               \/ (Refused \/ Unanswered(ms)) /\ \E e \in Errors : Fail(e, files)

\* Media without a text that cannot be sent leave nothing to send.
Unsupported == \E m \in job.parts : kind[m] = "other"
SendText ==
  /\ job.at = "text"
  /\ \/ Publish(job.parts)
     \/ Unsupported /\ Succeed /\ UNCHANGED <<target, cache, db>>
  /\ UNCHANGED <<setup, kind>>

\* Mutant: a restricted source counts as done.
RestrictedDone == Succeed /\ UNCHANGED <<target, cache, db>>

\* isForwardOrCopyRestricted: the unit is uploaded, or sent as a text, instead;
\* ErrUnsupportedMedia ends it as if it were done.
Restricted ==
  /\ UNCHANGED <<target, cache, db>>
  /\ \/ Unsupported /\ Succeed
     \/ /\ ~Unsupported
        /\ job' = [job EXCEPT !.at = IF \E m \in job.parts : kind[m] = "text" THEN "text"
                                     ELSE Upload(job.parts),
                              !.reply = KeptReply(job.parts)]
        /\ UNCHANGED <<files, history>>

\* Forwarding and sending by reference
SendWithFallback ==
  /\ job.at \in {"forward", "reference"} /\ (Publish(job.parts) \/ Restricted)
  /\ UNCHANGED <<setup, kind>>
-----------------------------------------------------------------------------
(* TransferMediaStream: one pipe from the download to the upload *)

Part == Min(job.todo)
Goes(at) == job' = [job EXCEPT !.at = at, !.try = 1, !.content = "none", !.bad = @ \ {Part}]

\* The stream breaks, maybe past its first bytes.  It is tried with hashes,
\* without (2), with a fresh reference (3) and again without hashes (4), each
\* time into the same pipe; then the file is downloaded to disk.
StreamBreaks ==
  /\ job.at = "stream"
  /\ \/ Goes("download")
     \/ \E to \in (job.try + 1)..4, content \in {job.content, "part"} :
          /\ to \in {2, 4} => job.try = to - 1
          /\ job' = [job EXCEPT !.try = to, !.content = content]
  /\ UNCHANGED <<setup, kind, files, target, cache, db, history>>
StreamEnds ==
  /\ job.at = "stream"
  /\ IF job.content = "none" THEN Goes("streamed") /\ UNCHANGED history
     ELSE /\ job' = [job EXCEPT !.at = "streamed", !.bad = {Part}]
          /\ history' = [history EXCEPT !.spliced = @ \cup {Part}]
  /\ UNCHANGED <<setup, kind, files, target, cache, db>>

\* The media is wrapped and sent; only a failed wrapping goes on from disk.
SendStreamed ==
  /\ job.at = "streamed"
  /\ Publish(job.parts) \/ (Goes("download") /\ Refused /\ UNCHANGED files)
  /\ UNCHANGED <<setup, kind>>
-----------------------------------------------------------------------------
(* downloadMessageMediaWithPeer: a file, tried again with fresh references *)

\* buildMediaDownloadSpec finds nothing to download: a photo without a size, or
\* a refreshed message with another medium.  processWithRetry takes its
\* ErrUnsupportedMedia for the end of the unit, whatever of it is left to send.
NothingToDownload ==
  /\ job.at = "download" /\ Finish({Part})
  /\ UNCHANGED <<setup, kind, target, cache, db>>

Downloaded == <<Part, "media">>
CreateFile ==
  /\ job.at = "download"
  /\ \/ /\ files' = [files EXCEPT !.disk = @ \cup {Downloaded}]
        /\ job' = [job EXCEPT !.at = "fetch", !.loc = 1, !.content = "none"]
     \/ Fail("final", files)
  /\ UNCHANGED <<setup, kind, target, cache, db, history>>

ResetNothing(content) == content      \* mutant: the bytes so far stay in the file
Reset(content) == "none"

\* The file breaks off; it is emptied for a try without hashes, then for the
\* next location: 2 tries for each.
FetchBreaks ==
  /\ job.at = "fetch" /\ job.loc < 2 * Locations
  /\ \E content \in {job.content, "part"}, loc \in (job.loc + 1)..(2 * Locations) :
       /\ loc % 2 = 0 => loc = job.loc + 1
       /\ job' = [job EXCEPT !.loc = loc, !.content = Reset(content)]
  /\ UNCHANGED <<setup, kind, files, target, cache, db, history>>
FetchEnds ==
  /\ job.at = "fetch"
  /\ job' = [job EXCEPT !.at = "edit", !.content = IF @ = "none" THEN "whole" ELSE "mixed"]
  /\ files' = [files EXCEPT !.cleanup = @ \cup {Downloaded}]
  /\ UNCHANGED <<setup, kind, target, cache, db, history>>

\* The last location fails and the file is removed.
KeepPartial == files                  \* mutant: the broken file stays on disk
RemovePartial == [files EXCEPT !.disk = @ \ {Downloaded}]
FetchFails ==
  /\ job.at = "fetch"
  /\ \E e \in Errors : Fail(e, RemovePartial)
  /\ UNCHANGED <<setup, kind, target, cache, db, history>>

\* An outdated reference is refreshed from the message (2) and, for the part of
\* an album, from the messages around it (3).
RefreshReference ==
  /\ job.at = "fetch" /\ job.try < (IF IsAlbum(job.unit) THEN 3 ELSE 2)
  /\ job' = [job EXCEPT !.at = "download", !.try = @ + 1]
  /\ files' = RemovePartial
  /\ UNCHANGED <<setup, kind, target, cache, db, history>>

\* In the end the account that reads the source sends the unit by reference;
\* the error of the download, not that of this send, is returned.
GiveUpDownload ==
  /\ job.at = "fetch" /\ Self
  /\ Goes("rescue") /\ files' = RemovePartial
  /\ UNCHANGED <<setup, kind, target, cache, db, history>>
SendByReference ==
  /\ job.at = "rescue"
  /\ \/ Answered(job.parts) /\ Succeed
     \/ Refused /\ Fail("final", files)
     \/ Unanswered(job.parts) /\ Fail("final", files)
  /\ UNCHANGED <<setup, kind>>
-----------------------------------------------------------------------------
(* sendUploadedMediaUpdates, sendUploadedAlbumUpdates, their separated forms *)
(* and botSendUploaded...: edit, upload, send                                *)

\* The part is ready: the next one, or the chunk (the whole unit, but for the
\* bot) is sent.
ChunkEnds == job.todo = {Part} \/ (Bot /\ Cardinality(job.chunk) + 1 = ChunkSize)
PartReady(bad) ==
  LET ready == [job EXCEPT !.todo = @ \ {Part}, !.chunk = @ \cup {Part}, !.bad = bad] IN
  job' = IF ChunkEnds THEN [ready EXCEPT !.at = "send"]
         ELSE [ready EXCEPT !.at = "download", !.try = 1, !.content = "none"]
Bad == IF job.content = "mixed" THEN job.bad \cup {Part} ELSE job.bad

\* Watermarks on videos, image processing, covers and MD5: a failed edit is
\* skipped, a failed change of the MD5 ends the call.
Written(fs, f) == [fs EXCEPT !.disk = @ \cup {f}, !.cleanup = @ \cup {f}]
EditedFiles == IF setup.edit THEN {files, Written(files, <<Part, "edit">>)} ELSE {files}
Edit ==
  /\ job.at = "edit" /\ ~Bot
  /\ \E fs \in EditedFiles :
       \/ setup.edit /\ Fail("final", fs)
       \/ job' = [job EXCEPT !.at = "upload"] /\ files' = fs
       \/ setup.edit /\ job' = [job EXCEPT !.at = "marked"] /\ files' = fs
  /\ UNCHANGED <<setup, kind, target, cache, db, history>>

\* The bot uploads a part with its chunk; a watermarked picture is a file, too.
\* Its removal is registered when os.WriteFile returns nil: what a failing write
\* has left stays, until another try writes the file of that name.
Mark == <<Part, "mark">>
Torn(fs, f) == [fs EXCEPT !.disk = @ \cup {f}, !.torn = @ \cup {f}]
MarkedFiles == EditedFiles \cup
  (IF setup.edit THEN UNION {{Written(fs, Mark), Torn(fs, Mark)} : fs \in EditedFiles} ELSE {})
EditForBot ==
  /\ job.at = "edit" /\ Bot
  /\ \E fs \in MarkedFiles :
       \/ setup.edit /\ Fail("final", fs)
       \/ PartReady(Bad) /\ files' = fs
  /\ UNCHANGED <<setup, kind, target, cache, db, history>>

\* Mutant: the watermarked picture is sent and the call goes on.
SendWatermarkedToo ==
  /\ job.at = "marked"
  /\ job' = [job EXCEPT !.at = "upload"] /\ UNCHANGED <<files, history>>
  /\ Answered(job.parts)
  /\ UNCHANGED <<setup, kind>>

\* A watermarked picture is uploaded from memory and, if it is alone, sent; when
\* that fails the file is uploaded as if there were no watermark.
SendWatermarked ==
  /\ job.at = "marked"
  /\ \/ job' = [job EXCEPT !.at = "upload"] /\ UNCHANGED files
        /\ (Refused \/ (Alone(job.parts) /\ Unanswered(job.parts)))
     \/ Alone(job.parts) /\ Answered(job.parts) /\ Succeed
     \/ ~Alone(job.parts) /\ PartReady(Bad) /\ Refused /\ UNCHANGED files
  /\ UNCHANGED <<setup, kind>>

\* UploadFile, WrapUploadedMedia and, for an album, uploadMediaForAlbum
UploadFile ==
  /\ job.at = "upload"
  /\ \/ PartReady(Bad) /\ UNCHANGED files
     \/ \E e \in Errors : Fail(e, files)
  /\ UNCHANGED <<setup, kind, target, cache, db, history>>

SendUploaded ==
  /\ job.at = "send" /\ job.todo = {}
  /\ Publish(job.chunk)
  /\ UNCHANGED <<setup, kind>>

\* A chunk of a bot's album that is not the last: what is sent stays sent.
SendChunk ==
  /\ job.at = "send" /\ job.todo # {}
  /\ \/ /\ Answered(job.chunk) /\ UNCHANGED history
        /\ job' = [job EXCEPT !.at = "download", !.chunk = {}, !.try = 1, !.content = "none"]
        /\ files' = Cleanup(files)
     \/ (Refused \/ Unanswered(job.chunk)) /\ \E e \in Errors : Fail(e, files)
  /\ UNCHANGED <<setup, kind>>
-----------------------------------------------------------------------------
Next ==
  \/ ProcessUnit \/ SendText \/ SendWithFallback
  \/ StreamBreaks \/ StreamEnds \/ SendStreamed
  \/ NothingToDownload \/ CreateFile \/ FetchBreaks \/ FetchEnds \/ FetchFails
  \/ RefreshReference \/ GiveUpDownload \/ SendByReference
  \/ Edit \/ EditForBot \/ SendWatermarked \/ UploadFile \/ SendUploaded \/ SendChunk
  \/ \E m \in Messages : Evict(m) \/ BotComment(m)

Spec == Init /\ [][Next]_vars
-----------------------------------------------------------------------------
Copies(m) == {i \in DOMAIN target : m \in target[i].src}

\* A call leaves no temporary file behind, whichever of its many returns it takes
\* (the defers of media.go, cleanUp of bot_publish.go, os.Remove after a failed
\* download), but for a watermarked picture whose write failed halfway.
TempFilesGone == job.at = "idle" => files.disk \subseteq files.torn

\* processWithRetry and the fallbacks, which try up to four ways to send the same
\* message, put one copy into the target, and another one only for an answer that
\* was lost; a bot's album, whose first chunks are sent again when a later one
\* fails, is the exception.
InChunks(m) == setup.pub = "bot" /\ \E u \in DOMAIN Units :
                 m \in Units[u] /\ Cardinality(Units[u]) > ChunkSize
SentOnce == \A m \in Messages : InChunks(m) \/ Cardinality(Copies(m)) <= 1 + history.lost[m]

\* A unit whose call returned nil is in the target with every part that can be
\* sent, so that the cursor may pass it, unless one of its media turned out to
\* hold nothing to download, which ends the whole unit.
Delivered ==
  \A u \in history.done : Units[u] \cap history.void = {} =>
    \A m \in Sendable(u) : kind[m] # "other" => Copies(m) # {}

\* A copy holds the bytes of its source: no retry of a download writes behind what
\* an earlier try left, but for a stream that was restarted past its first bytes.
FilesWhole == \A i \in DOMAIN target : target[i].spoiled \subseteq history.spliced

\* The post answers what was asked for, and nothing asked for before had a copy.
SameUnit(m, n) == \E u \in DOMAIN Units : {m, n} \subseteq Units[u]
Answers(i, asked) == asked \in target[i].src \cup history.comments
Unmapped(asked, i) == asked \in Messages =>
                        db[asked] = 0 \/ db[asked] >= i \/ asked \in history.comments
Chosen(ids, reply, i) ==
  \E k \in DOMAIN ids : /\ Answers(reply, ids[k])
                         /\ \A j \in 1..(k - 1) : Unmapped(ids[j], i)

\* A reply in the target (an album's is that of one of its parts) answers a copy
\* of its message's parent, however copies, retries and evictions interleave; it
\* answers the top of the thread instead only if the table had no copy of the
\* parent before it.  The bot's comments, which use the same ids, are excused.
RepliesRight ==
  \A i \in DOMAIN target : target[i].reply # 0 =>
    \E m \in target[i].src : \E n \in Messages :
      SameUnit(m, n) /\ Chosen(Replies[n], target[i].reply, i)
=============================================================================
