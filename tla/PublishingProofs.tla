-------------------------- MODULE PublishingProofs --------------------------
(***************************************************************************)
(* The properties of Publishing, for every feed.                           *)
(***************************************************************************)
EXTENDS Publishing, FiniteSetTheorems, WellFoundedInduction, TLAPS
-----------------------------------------------------------------------------
(* The inductive invariant *)

\* Of the parts of the unit under way some wait, some are ready to be sent, and
\* for a bot's album that is sent in chunks, some have been sent.
Rest == job.todo \cup job.chunk
InParts == Bot /\ Cardinality(Units[job.unit]) > ChunkSize
JobInv == job.at # "idle" =>
  /\ job.unit \in DOMAIN Units
  /\ job.parts = Sendable(job.unit) /\ job.parts # {}
  /\ Rest \subseteq job.parts /\ job.todo \cap job.chunk = {}
  /\ First \/ InParts
  /\ job.at # "send" => job.todo # {}
  /\ job.at = "send" => /\ job.chunk # {}
                        /\ job.todo # {} => Bot /\ Cardinality(job.chunk) = ChunkSize
  /\ job.at \in {"forward", "reference", "stream", "streamed", "rescue", "marked", "upload"}
       => ~Bot
  /\ job.at \in {"text", "forward", "reference"} => job.todo = job.parts

\* A message still ahead has no more copies than answers were lost.
Ahead(m) == \E u \in DOMAIN Units :
  m \in Units[u] /\ (u > job.unit \/ (u = job.unit /\ job.at # "idle"))
CopiesInv == \A m \in Messages :
  InChunks(m) \/ Cardinality(Copies(m)) <= history.lost[m] + (IF Ahead(m) THEN 0 ELSE 1)

\* The chunks sent so far are in the target.
ChunksInv == job.at # "idle" => \A m \in job.parts \ Rest : Copies(m) # {}

\* Every file has its deferred removal, but for a torn one and the one being
\* downloaded.
FilesInv ==
  /\ job.at # "idle" => files.disk \subseteq
       files.cleanup \cup files.torn \cup (IF job.at = "fetch" THEN {Downloaded} ELSE {})
  /\ TempFilesGone

\* Nothing is left behind in the file when a download starts again.
PartInv ==
  /\ job.bad \subseteq history.spliced
  /\ job.at = "fetch" => job.content = "none"
  /\ job.at \in {"edit", "marked", "upload"} => job.content # "mixed"
BytesInv == PartInv /\ FilesWhole

\* What a mapping, and the reply of the call under way until its first post,
\* stand for.
Maps(map) == \A m \in Messages : map[m] # 0 => Answers(map[m], m)
Missing(asked) == asked \in Messages => db[asked] = 0 \/ asked \in history.comments
Picked(ids, reply) ==
  \E k \in DOMAIN ids : Answers(reply, ids[k]) /\ \A j \in 1..(k - 1) : Missing(ids[j])
ReplyInv == job.at # "idle" /\ job.reply # 0 /\ First =>
  \E m \in job.parts : Picked(Replies[m], job.reply)
RepliesInv == /\ Maps(cache) /\ Maps(db) /\ ReplyInv
              /\ \A i \in DOMAIN target : target[i].reply <= Len(target)
              /\ RepliesRight

PublishInv == /\ TypeOK /\ JobInv
              /\ CopiesInv /\ ChunksInv /\ Delivered
              /\ FilesInv /\ BytesInv /\ RepliesInv
-----------------------------------------------------------------------------
(* Facts about the operators *)

LEMMA MinIn ==
  ASSUME NEW S \in SUBSET Nat, S # {}
  PROVE  Min(S) \in S /\ \A y \in S : Min(S) <= y
<1>1. PICK x \in S : \A y \in S : ~(<<y, x>> \in OpToRel(<, Nat))
  <2>1. IsWellFoundedOn(OpToRel(<, Nat), Nat)
    BY NatLessThanWellFounded, Zenon DEF OpToRel
  <2> QED
    BY <2>1, WFMin
<1>2. \A y \in S : ~(y < x)
  BY <1>1, Zenon DEF OpToRel
<1>3. \A y \in S : x <= y
  BY <1>2
<1> QED
  BY <1>3 DEF Min

LEMMA FeedTyped ==
  ASSUME FeedAssumption
  PROVE  /\ Messages \subseteq Nat \ {0}
         /\ \A u \in DOMAIN Units : /\ u \in 1..Len(Units)
                                    /\ Units[u] \subseteq Messages
                                    /\ IsFiniteSet(Units[u])
                                    /\ Sendable(u) \subseteq Units[u]
         /\ DOMAIN Units = 1..Len(Units) /\ Len(Units) \in Nat
         /\ \A m \in Messages : Replies[m] \in Seq(Nat \ {0})
         /\ Retries \in Nat \ {0} /\ ChunkSize \in Nat \ {0}
         /\ Locations \in Nat /\ Faults \in Nat
<1>1. \A u \in DOMAIN Units : Units[u] \subseteq Messages
  BY DEF Messages
<1>2. DOMAIN Units = 1..Len(Units) /\ Len(Units) \in Nat
  BY DEF FeedAssumption
<1>3. \A u \in DOMAIN Units : Units[u] \subseteq Nat \ {0}
  BY DEF FeedAssumption
<1>4. Messages \subseteq Nat \ {0}
  BY <1>3 DEF Messages
<1>5. \A u \in DOMAIN Units : Sendable(u) \subseteq Units[u]
  BY DEF Sendable
<1> QED
  BY <1>1, <1>2, <1>4, <1>5 DEF FeedAssumption

\* The part of an album that carries its reply is one of its parts.
LEMMA CarrierIn ==
  ASSUME FeedAssumption, NEW ms \in SUBSET Messages, ms # {}
  PROVE  Carrier(ms) \in ms
<1> DEFINE some == {m \in ms : Replies[m] # <<>>}
           from == IF some = {} THEN ms ELSE some
<1>1. from \subseteq ms /\ from # {} /\ from \in SUBSET Nat
  BY FeedTyped
<1>2. Carrier(ms) = Min(from)
  BY DEF Carrier
<1>3. Carrier(ms) \in from
  BY <1>1, <1>2, MinIn
<1> QED
  BY <1>1, <1>3

LEMMA PartIn ==
  ASSUME FeedAssumption, job \in Jobs, job.todo # {}
  PROVE  Part \in job.todo
<1>1. job.todo \in SUBSET Nat
  BY FeedTyped DEF Jobs
<1> QED
  BY <1>1, MinIn DEF Part

\* Two messages of a unit are no message alone.
LEMMA SameIfAlone ==
  ASSUME NEW S, IsFiniteSet(S), ~(Cardinality(S) > 1), NEW m \in S, NEW n \in S
  PROVE  m = n
<1> SUFFICES ASSUME m # n PROVE FALSE
  OBVIOUS
<1> DEFINE T == {m}
<1>1. IsFiniteSet(T) /\ Cardinality(T) = 1 /\ n \notin T /\ T \cup {n} \in SUBSET S
  BY FS_Singleton
<1> HIDE DEF T
<1>2. Cardinality(T \cup {n}) = 2
  BY <1>1, FS_AddElement
<1>3. Cardinality(T \cup {n}) <= Cardinality(S)
  BY <1>1, FS_Subset
<1>4. Cardinality(S) \in Nat
  BY FS_CardinalityType
<1> QED
  BY <1>2, <1>3, <1>4
-----------------------------------------------------------------------------
(* What a step can be, of all the ways a call has *)

\* The call goes on with the same parts, and has sent none of them for good.
Quiet == /\ UNCHANGED <<target, cache, db>>
         /\ history' \in {history, [history EXCEPT !.spliced = @ \cup {Part}]}
Onward == /\ job.at # "idle" /\ job'.at # "idle"
          /\ job'.unit = job.unit /\ job'.parts = job.parts
GoesOn == /\ Onward /\ job.at # "send" /\ Rest' = Rest
          /\ job'.reply \in {job.reply, KeptReply(job.parts)}
          /\ Quiet \/ Unanswered(job.parts)

\* A chunk that is not the last has been sent.
ChunkSent == /\ Onward /\ job.at = "send" /\ Bot /\ job.chunk # {}
             /\ job.todo # {} /\ job'.todo = job.todo /\ job'.chunk = {}
             /\ job'.reply = job.reply
             /\ Answered(job.chunk) /\ UNCHANGED history

\* It ends with all parts sent, or with nothing to send; or it fails.
AllSent == \E ms \in SUBSET job.parts : Rest \subseteq ms /\ ms # {} /\ Answered(ms)
Succeeds == \E void \in {{}, {Part}} :
  /\ job.at # "idle" /\ Finish(void) /\ (void # {} => job.todo # {})
  /\ \/ AllSent
     \/ (Unsupported \/ void # {}) /\ UNCHANGED <<target, cache, db>>
Lost == \E ms \in SUBSET job.parts : ms # {} /\ Unanswered(ms)
Fails == /\ job.at # "idle"
         /\ \E again \in BOOLEAN :
              job' = IF again /\ job.attempt < Retries
                     THEN Start(job.unit, job.attempt + 1) ELSE [Idle EXCEPT !.unit = job.unit]
         /\ Refused \/ Lost

Outside == ProcessUnit \/ \E m \in Messages : Evict(m) \/ BotComment(m)

Shapes == GoesOn \/ ChunkSent \/ Succeeds \/ Fails \/ Outside

LEMMA FailShape ==
  ASSUME job.at # "idle", NEW e, NEW fs, Fail(e, fs), Refused \/ Lost
  PROVE  Fails
<1>1. CASE e = "again"
  <2>1. job' = IF TRUE /\ job.attempt < Retries
               THEN Start(job.unit, job.attempt + 1) ELSE [Idle EXCEPT !.unit = job.unit]
    BY <1>1 DEF Fail
  <2> QED
    BY <2>1, Zenon DEF Fails
<1>2. CASE e # "again"
  <2>1. job' = IF FALSE /\ job.attempt < Retries
               THEN Start(job.unit, job.attempt + 1) ELSE [Idle EXCEPT !.unit = job.unit]
    BY <1>2 DEF Fail
  <2> QED
    BY <2>1, Zenon DEF Fails
<1> QED
  BY <1>1, <1>2

LEMMA PublishShape ==
  ASSUME job.at # "idle", NEW ms \in SUBSET job.parts, ms # {}, Rest \subseteq ms,
         Publish(ms)
  PROVE  Succeeds \/ Fails
<1>1. CASE Answered(ms) /\ Succeed
  BY <1>1, Zenon DEF Succeeds, AllSent, Succeed
<1>2. CASE (Refused \/ Unanswered(ms)) /\ \E e \in Errors : Fail(e, files)
  <2>1. Refused \/ Lost
    BY <1>2, Zenon DEF Lost
  <2> QED
    BY <1>2, <2>1, FailShape, Zenon
<1> QED
  BY <1>1, <1>2, Zenon DEF Publish

LEMMA GoesShape ==
  ASSUME job \in Jobs, job.at \notin {"idle", "send"}, NEW at, at # "idle", Goes(at), Quiet
  PROVE  GoesOn
BY DEF Goes, Jobs, GoesOn, Onward, Rest

LEMMA ReadyShape ==
  ASSUME FeedAssumption, job \in Jobs, JobInv, job.at \notin {"idle", "send"},
         PartReady(Bad), Quiet
  PROVE  GoesOn
<1>1. Part \in job.todo
  BY PartIn DEF JobInv
<1> QED
  BY <1>1 DEF PartReady, Jobs, GoesOn, Onward, Rest

LEMMA StepShape ==
  ASSUME FeedAssumption, TypeOK, JobInv, Next
  PROVE  Shapes /\ UNCHANGED <<setup, kind>>
<1>0. job \in Jobs
  BY DEF TypeOK
<1>1. CASE ProcessUnit
  BY <1>1, Zenon DEF ProcessUnit, Shapes, Outside
<1>2. CASE SendText
  <2>1. job.at \notin {"idle", "send"} /\ job.parts # {} /\ Rest \subseteq job.parts
    BY <1>2 DEF SendText, JobInv
  <2>2. CASE Publish(job.parts)
    BY <1>2, <2>1, <2>2, PublishShape, Zenon DEF Shapes, SendText
  <2>3. CASE Unsupported /\ Succeed /\ UNCHANGED <<target, cache, db>>
    BY <1>2, <2>1, <2>3, Zenon DEF Shapes, SendText, Succeeds, Succeed
  <2> QED
    BY <1>2, <2>2, <2>3, Zenon DEF SendText
<1>3. CASE SendWithFallback
  <2>1. job.at \notin {"idle", "send"} /\ job.parts # {} /\ Rest \subseteq job.parts
    BY <1>3 DEF SendWithFallback, JobInv
  <2>2. CASE Publish(job.parts)
    BY <1>3, <2>1, <2>2, PublishShape, Zenon DEF Shapes, SendWithFallback
  <2>3. CASE Unsupported /\ Succeed /\ UNCHANGED <<target, cache, db>>
    BY <1>3, <2>1, <2>3, Zenon DEF Shapes, SendWithFallback, Succeeds, Succeed
  <2>4. CASE /\ UNCHANGED <<target, cache, db, files, history>>
             /\ job' = [job EXCEPT !.at = IF \E m \in job.parts : kind[m] = "text"
                                          THEN "text" ELSE Upload(job.parts),
                                   !.reply = KeptReply(job.parts)]
    BY <1>3, <2>1, <2>4
       DEF Jobs, Shapes, GoesOn, Onward, Quiet, Rest, Upload, SendWithFallback
  <2> QED
    BY <1>3, <2>2, <2>3, <2>4, Zenon DEF SendWithFallback, Restricted
<1>4. CASE StreamBreaks
  <2>0. Quiet /\ job.at \notin {"idle", "send"}
    BY <1>4 DEF StreamBreaks, Quiet
  <2>1. CASE Goes("download")
    BY <1>0, <1>4, <2>0, <2>1, GoesShape DEF StreamBreaks, Shapes
  <2>2. ASSUME NEW to, NEW content,
               job' = [job EXCEPT !.try = to, !.content = content]
        PROVE  GoesOn
    BY <1>0, <2>0, <2>2 DEF Jobs, GoesOn, Onward, Rest
  <2> QED
    BY <1>4, <2>1, <2>2 DEF StreamBreaks, Shapes
<1>5. CASE StreamEnds
  <2>0. Quiet /\ job.at \notin {"idle", "send"}
    BY <1>5 DEF StreamEnds, Quiet, TypeOK
  <2>1. CASE Goes("streamed")
    BY <1>0, <1>5, <2>0, <2>1, GoesShape DEF StreamEnds, Shapes
  <2>2. CASE job' = [job EXCEPT !.at = "streamed", !.bad = {Part}]
    BY <1>0, <1>5, <2>0, <2>2 DEF Jobs, GoesOn, Onward, Rest, StreamEnds, Shapes
  <2> QED
    BY <1>5, <2>1, <2>2 DEF StreamEnds
<1>6. CASE SendStreamed
  <2>1. job.at \notin {"idle", "send"} /\ job.parts # {} /\ Rest \subseteq job.parts
    BY <1>6 DEF SendStreamed, JobInv
  <2>2. CASE Publish(job.parts)
    BY <1>6, <2>1, <2>2, PublishShape, Zenon DEF Shapes, SendStreamed
  <2>3. CASE Goes("download") /\ Refused
    BY <1>0, <1>6, <2>1, <2>3, GoesShape DEF Refused, Quiet, Shapes, SendStreamed
  <2> QED
    BY <1>6, <2>2, <2>3, Zenon DEF SendStreamed
<1>7. CASE CreateFile
  <2>0. Quiet /\ Refused /\ job.at \notin {"idle", "send"}
    BY <1>7 DEF CreateFile, Quiet, Refused
  <2>1. CASE Fail("final", files)
    BY <1>7, <2>0, <2>1, FailShape DEF CreateFile, Shapes
  <2>2. CASE job' = [job EXCEPT !.at = "fetch", !.loc = 1, !.content = "none"]
    BY <1>0, <1>7, <2>0, <2>2 DEF Jobs, GoesOn, Onward, Rest, CreateFile, Shapes
  <2> QED
    BY <1>7, <2>1, <2>2 DEF CreateFile
<1>8. CASE FetchBreaks
  <2>0. Quiet /\ job.at \notin {"idle", "send"}
    BY <1>8 DEF FetchBreaks, Quiet
  <2>1. ASSUME NEW loc, NEW content,
               job' = [job EXCEPT !.loc = loc, !.content = content]
        PROVE  GoesOn
    BY <1>0, <2>0, <2>1 DEF Jobs, GoesOn, Onward, Rest
  <2> QED
    BY <1>8, <2>1 DEF FetchBreaks, Shapes
<1>9. CASE FetchEnds
  BY <1>0, <1>9 DEF FetchEnds, Quiet, Jobs, GoesOn, Onward, Rest, Shapes
<1>10. CASE FetchFails
  BY <1>10, FailShape DEF FetchFails, Refused, Shapes
<1>11. CASE RefreshReference
  BY <1>0, <1>11 DEF RefreshReference, Quiet, Jobs, GoesOn, Onward, Rest, Shapes
<1>12. CASE GiveUpDownload
  BY <1>0, <1>12, GoesShape DEF GiveUpDownload, Quiet, Shapes
<1>13. CASE SendByReference
  <2>1. job.at \notin {"idle", "send"} /\ job.parts # {} /\ Rest \subseteq job.parts
    BY <1>13 DEF SendByReference, JobInv
  <2>2. CASE Answered(job.parts) /\ Succeed
    BY <1>13, <2>1, <2>2, Zenon DEF Shapes, SendByReference, Succeeds, AllSent, Succeed
  <2>3. CASE Refused /\ Fail("final", files)
    BY <1>13, <2>1, <2>3, FailShape, Zenon DEF Shapes, SendByReference
  <2>4. CASE Unanswered(job.parts) /\ Fail("final", files)
    <3>1. Lost
      BY <2>1, <2>4, Zenon DEF Lost
    <3> QED
      BY <1>13, <2>1, <2>4, <3>1, FailShape, Zenon DEF Shapes, SendByReference
  <2> QED
    BY <1>13, <2>2, <2>3, <2>4, Zenon DEF SendByReference
<1>14. CASE Edit
  <2>0. Quiet /\ Refused /\ job.at \notin {"idle", "send"}
    BY <1>14 DEF Edit, Quiet, Refused
  <2>1. ASSUME NEW fs, Fail("final", fs) PROVE Fails
    BY <2>0, <2>1, FailShape
  <2>2. CASE job' = [job EXCEPT !.at = "upload"] \/ job' = [job EXCEPT !.at = "marked"]
    BY <1>0, <1>14, <2>0, <2>2 DEF Jobs, GoesOn, Onward, Rest, Edit, Shapes
  <2> QED
    BY <1>14, <2>1, <2>2, Zenon DEF Edit, Shapes
<1>15. CASE EditForBot
  <2>0. Quiet /\ Refused /\ job.at \notin {"idle", "send"}
    BY <1>15 DEF EditForBot, Quiet, Refused
  <2>1. ASSUME NEW fs, Fail("final", fs) PROVE Fails
    BY <2>0, <2>1, FailShape
  <2>2. CASE PartReady(Bad)
    BY <1>0, <1>15, <2>0, <2>2, ReadyShape DEF EditForBot, Shapes
  <2> QED
    BY <1>15, <2>1, <2>2, Zenon DEF EditForBot, Shapes
<1>16. CASE SendWatermarked
  <2>1. job.at \notin {"idle", "send"} /\ job.parts # {} /\ Rest \subseteq job.parts
    BY <1>16 DEF SendWatermarked, JobInv
  <2>2. CASE job' = [job EXCEPT !.at = "upload"] /\ (Refused \/ Unanswered(job.parts))
    BY <1>0, <1>16, <2>1, <2>2
       DEF Jobs, GoesOn, Onward, Rest, Refused, Quiet, SendWatermarked, Shapes
  <2>3. CASE Answered(job.parts) /\ Succeed
    BY <1>16, <2>1, <2>3, Zenon DEF Shapes, SendWatermarked, Succeeds, AllSent, Succeed
  <2>4. CASE PartReady(Bad) /\ Refused
    BY <1>0, <1>16, <2>1, <2>4, ReadyShape DEF SendWatermarked, Refused, Quiet, Shapes
  <2> QED
    BY <1>16, <2>2, <2>3, <2>4, Zenon DEF SendWatermarked
<1>17. CASE UploadFile
  <2>0. Quiet /\ Refused /\ job.at \notin {"idle", "send"}
    BY <1>17 DEF UploadFile, Quiet, Refused
  <2>1. ASSUME NEW e, Fail(e, files) PROVE Fails
    BY <2>0, <2>1, FailShape
  <2>2. CASE PartReady(Bad)
    BY <1>0, <1>17, <2>0, <2>2, ReadyShape DEF UploadFile, Shapes
  <2> QED
    BY <1>17, <2>1, <2>2, Zenon DEF UploadFile, Shapes
<1>18. CASE SendUploaded
  <2>1. /\ job.at # "idle" /\ job.chunk # {} /\ job.chunk \in SUBSET job.parts
        /\ Rest \subseteq job.chunk
    BY <1>18 DEF SendUploaded, JobInv, Rest
  <2> QED
    BY <1>18, <2>1, PublishShape, Zenon DEF Shapes, SendUploaded
<1>19. CASE SendChunk
  <2>1. /\ job.at = "send" /\ job.chunk # {} /\ job.chunk \in SUBSET job.parts
        /\ Bot /\ job.todo # {}
    BY <1>19 DEF SendChunk, JobInv, Rest
  <2>2. CASE /\ Answered(job.chunk) /\ UNCHANGED history
             /\ job' = [job EXCEPT !.at = "download", !.chunk = {}, !.try = 1,
                                   !.content = "none"]
    BY <1>0, <1>19, <2>1, <2>2 DEF Jobs, ChunkSent, Onward, SendChunk, Shapes
  <2>3. CASE (Refused \/ Unanswered(job.chunk)) /\ \E e \in Errors : Fail(e, files)
    <3>1. (Refused \/ Lost) /\ job.at # "idle"
      BY <2>1, <2>3 DEF Lost
    <3> QED
      BY <1>19, <2>3, <3>1, FailShape, Zenon DEF Shapes, SendChunk
  <2> QED
    BY <1>19, <2>2, <2>3, Zenon DEF SendChunk
<1>20. CASE \E m \in Messages : Evict(m) \/ BotComment(m)
  BY <1>20, Zenon DEF Evict, BotComment, Shapes, Outside
<1>21. CASE NothingToDownload
  BY <1>21, Zenon DEF NothingToDownload, Shapes, Succeeds, JobInv
<1> QED
  BY <1>1, <1>2, <1>3, <1>4, <1>5, <1>6, <1>7, <1>8, <1>9, <1>10, <1>11, <1>12,
     <1>13, <1>14, <1>15, <1>16, <1>17, <1>18, <1>19, <1>20, <1>21, Zenon DEF Next
-----------------------------------------------------------------------------
(* The call under way *)

LEMMA KeptTyped ==
  ASSUME FeedAssumption, TypeOK, NEW ms \in SUBSET Messages, ms # {}
  PROVE  KeptReply(ms) \in 0..Len(target) /\ KeptReply(ms) \in Nat
<1>1. Len(target) \in Nat /\ 0 \in 0..Len(target)
  BY DEF TypeOK
<1>2. \A m : Lookup(m) \in 0..Len(target)
  BY <1>1 DEF Lookup, TypeOK
<1>3. KeptReply(ms) \in 0..Len(target)
  BY <1>1, <1>2 DEF KeptReply
<1> QED
  BY <1>1, <1>3

LEMMA StartJob ==
  ASSUME FeedAssumption, TypeOK, UNCHANGED <<setup, kind>>, NEW u \in DOMAIN Units,
         NEW n \in 0..Retries, Sendable(u) # {}, job' = Start(u, n)
  PROVE  job' \in Jobs /\ JobInv' /\ job'.reply \in 0..Len(target)
<1>1. Sendable(u) \in SUBSET Messages /\ u \in 0..Len(Units)
  BY FeedTyped
<1>2. KeptReply(Sendable(u)) \in 0..Len(target) /\ KeptReply(Sendable(u)) \in Nat
  BY <1>1, KeptTyped
<1>3. /\ Method(Sendable(u)) \in {"text", "forward", "reference", "stream", "download"}
      /\ Method(Sendable(u)) \in {"forward", "reference", "stream"} => ~Bot
  BY DEF Method, Upload, Bot, Self, Forwarding
<1>4. job' \in Jobs
  BY <1>1, <1>2, <1>3 DEF Start, Jobs
<1>5. JobInv'
  BY <1>1, <1>3 DEF Start, JobInv, Rest, First, Bot, Sendable
<1> QED
  BY <1>2, <1>4, <1>5 DEF Start

LEMMA IdleJob ==
  ASSUME FeedAssumption, NEW u \in 0..Len(Units), job' = [Idle EXCEPT !.unit = u]
  PROVE  job' \in Jobs /\ JobInv' /\ job'.reply = 0
BY FeedTyped DEF Idle, Jobs, JobInv

LEMMA FailJob ==
  ASSUME FeedAssumption, TypeOK, UNCHANGED <<setup, kind>>, job.at # "idle", JobInv,
         NEW e, NEW fs, Fail(e, fs)
  PROVE  job' \in Jobs /\ JobInv' /\ job'.reply \in 0..Len(target)
<1>1. /\ job.unit \in DOMAIN Units /\ job.unit \in 0..Len(Units)
      /\ Sendable(job.unit) # {} /\ job.attempt \in 0..Retries /\ Len(target) \in Nat
  BY DEF JobInv, TypeOK, Jobs
<1>2. CASE e = "again" /\ job.attempt < Retries
  <2>1. job.attempt + 1 \in 0..Retries
    BY <1>1, <1>2, FeedTyped
  <2> QED
    BY <1>1, <1>2, <2>1, StartJob DEF Fail
<1>3. CASE ~(e = "again" /\ job.attempt < Retries)
  BY <1>1, <1>3, IdleJob DEF Fail
<1> QED
  BY <1>2, <1>3

LEMMA SucceedJob ==
  ASSUME FeedAssumption, TypeOK, NEW void, Finish(void)
  PROVE  job' \in Jobs /\ JobInv' /\ job'.reply = 0
<1>1. job.unit \in 0..Len(Units)
  BY DEF TypeOK, Jobs
<1> QED
  BY <1>1, IdleJob DEF Finish

\* A call that takes its first part, and has sent none.
LEMMA GoesJob ==
  ASSUME FeedAssumption, job \in Jobs, JobInv, UNCHANGED <<setup, kind>>,
         job.at \in {"stream", "streamed", "fetch"},
         NEW at \in {"download", "streamed", "rescue"},
         at = "download" \/ ~Bot, Goes(at)
  PROVE  job' \in Jobs /\ JobInv' /\ job'.reply = job.reply
<1>1. /\ job'.at = at /\ job'.unit = job.unit /\ job'.parts = job.parts
      /\ job'.reply = job.reply /\ job'.todo = job.todo /\ job'.chunk = job.chunk
      /\ job' \in Jobs
  BY DEF Goes, Jobs
<1> QED
  BY <1>1 DEF JobInv, Rest, First, Bot, InParts, Sendable

LEMMA ReadyJob ==
  ASSUME FeedAssumption, job \in Jobs, JobInv, UNCHANGED <<setup, kind>>,
         job.at \in {"edit", "marked", "upload"}, PartReady(Bad)
  PROVE  job' \in Jobs /\ JobInv' /\ job'.reply = job.reply
<1>1. Part \in job.todo /\ Part \in Messages /\ Part \notin job.chunk
  BY PartIn DEF JobInv, Jobs
<1>2. IsFiniteSet(job.chunk)
  <2>1. job.unit \in DOMAIN Units /\ job.chunk \in SUBSET Units[job.unit]
    BY FeedTyped DEF JobInv, Rest
  <2> QED
    BY <2>1, FeedTyped, FS_Subset
<1>3. Cardinality(job.chunk \cup {Part}) = Cardinality(job.chunk) + 1
  BY <1>1, <1>2, FS_AddElement
<1>4. Bad \in SUBSET Messages
  BY <1>1 DEF Bad, Jobs
<1>5. /\ job'.unit = job.unit /\ job'.parts = job.parts /\ job'.reply = job.reply
      /\ job'.todo = job.todo \ {Part} /\ job'.chunk = job.chunk \cup {Part}
      /\ job'.at = IF ChunkEnds THEN "send" ELSE "download"
  BY DEF PartReady, Jobs
<1>6. job' \in Jobs
  BY <1>1, <1>4 DEF PartReady, Jobs
<1>7. JobInv'
  <2> HIDE DEF PartReady
  <2>1. Rest' = Rest
    BY <1>1, <1>5 DEF Rest
  <2>2. ~ChunkEnds => job.todo \ {Part} # {}
    BY <1>1 DEF ChunkEnds
  <2>3. ChunkEnds /\ job.todo \ {Part} # {}
          => Bot /\ Cardinality(job.chunk \cup {Part}) = ChunkSize
    BY <1>3 DEF ChunkEnds
  <2> QED
    BY <1>5, <2>1, <2>2, <2>3 DEF JobInv, Rest, First, Bot, InParts, Sendable
<1> QED
  BY <1>5, <1>6, <1>7

\* The first chunks are of a bot's album that has more parts than a chunk.
LEMMA SentInParts ==
  ASSUME FeedAssumption, JobInv, job.at = "send", job.todo # {}
  PROVE  InParts
<1>1. /\ job.unit \in DOMAIN Units /\ Rest \in SUBSET Units[job.unit]
      /\ IsFiniteSet(Units[job.unit])
  BY FeedTyped DEF JobInv
<1>2. IsFiniteSet(job.chunk) /\ Cardinality(Rest) <= Cardinality(Units[job.unit])
  BY <1>1, FS_Subset DEF Rest
<1>3. PICK m \in job.todo : m \notin job.chunk /\ job.chunk \cup {m} \in SUBSET Rest
  BY DEF JobInv, Rest
<1>4. Cardinality(job.chunk \cup {m}) = Cardinality(job.chunk) + 1
  BY <1>2, <1>3, FS_AddElement
<1>5. Cardinality(job.chunk \cup {m}) <= Cardinality(Rest) /\ IsFiniteSet(Rest)
  BY <1>1, <1>3, FS_Subset
<1>6. Cardinality(job.chunk) = ChunkSize /\ Bot
  BY DEF JobInv
<1>7. Cardinality(Rest) \in Nat /\ Cardinality(Units[job.unit]) \in Nat
  BY <1>1, <1>5, FS_CardinalityType
<1> QED
  BY <1>2, <1>4, <1>5, <1>6, <1>7, FeedTyped DEF InParts

LEMMA ChunkJob ==
  ASSUME FeedAssumption, job \in Jobs, JobInv, UNCHANGED <<setup, kind>>,
         job.at = "send", job.todo # {},
         job' = [job EXCEPT !.at = "download", !.chunk = {}, !.try = 1, !.content = "none"]
  PROVE  job' \in Jobs /\ JobInv' /\ job'.reply = job.reply
<1>1. /\ job'.at = "download" /\ job'.unit = job.unit /\ job'.parts = job.parts
      /\ job'.reply = job.reply /\ job'.todo = job.todo /\ job'.chunk = {}
      /\ job' \in Jobs
  BY DEF Jobs
<1> QED
  BY <1>1, SentInParts DEF JobInv, Rest, First, Bot, InParts, Sendable

LEMMA PublishJob ==
  ASSUME FeedAssumption, TypeOK, UNCHANGED <<setup, kind>>, job.at # "idle", JobInv,
         NEW ms, Publish(ms)
  PROVE  job' \in Jobs /\ JobInv' /\ job'.reply \in 0..Len(target)
<1>1. Len(target) \in Nat
  BY DEF TypeOK
<1> QED
  BY <1>1, SucceedJob, FailJob DEF Publish, Succeed

\* A call that goes on with the same part.
Moves(at) == /\ job'.unit = job.unit /\ job'.parts = job.parts /\ job'.todo = job.todo
             /\ job'.chunk = job.chunk /\ job'.reply = job.reply /\ job'.at = at
LEMMA MoveJob ==
  ASSUME JobInv, UNCHANGED <<setup, kind>>, job.at \notin {"idle", "send"},
         NEW at \in {"stream", "streamed", "download", "fetch", "edit", "marked", "upload"},
         at \in {"download", "fetch", "edit"} \/ ~Bot, Moves(at)
  PROVE  JobInv'
BY DEF Moves, JobInv, Rest, First, Bot, InParts, Sendable

LEMMA StepJob ==
  ASSUME FeedAssumption, TypeOK, JobInv, Next
  PROVE  job' \in Jobs /\ JobInv' /\ job'.reply \in 0..Len(target)
<1> DEFINE JobOK == job' \in Jobs /\ JobInv' /\ job'.reply \in 0..Len(target)
<1>a. job \in Jobs /\ Len(target) \in Nat /\ job.reply \in 0..Len(target)
  BY DEF TypeOK, Jobs
<1>b. UNCHANGED <<setup, kind>>
  BY StepShape
<1> SUFFICES JobOK
  OBVIOUS
<1>1. CASE ProcessUnit
  <2>1. job.unit + 1 \in DOMAIN Units /\ 1 \in 0..Retries
    BY <1>1, <1>a, FeedTyped, SMTT(30) DEF ProcessUnit, Jobs
  <2>2. CASE Sendable(job.unit + 1) = {}
    <3>1. job' = [job EXCEPT !.unit = @ + 1] /\ job.unit + 1 \in 0..Len(Units)
      BY <1>1, <2>1, <2>2, FeedTyped DEF ProcessUnit
    <3>2. job' \in Jobs /\ job'.at = "idle" /\ job'.reply = job.reply
      BY <1>1, <1>a, <3>1 DEF ProcessUnit, Jobs
    <3> QED
      BY <1>a, <3>2 DEF JobInv
  <2>3. CASE Sendable(job.unit + 1) # {}
    BY <1>1, <1>b, <2>1, <2>3, StartJob DEF ProcessUnit
  <2> QED
    BY <2>2, <2>3
<1>2. CASE SendText
  BY <1>2, <1>a, <1>b, PublishJob, SucceedJob DEF SendText, Succeed
<1>3. CASE SendWithFallback
  <2>0. job.at \in {"forward", "reference"}
    BY <1>3 DEF SendWithFallback
  <2>1. CASE Publish(job.parts)
    BY <2>0, <2>1, <1>b, PublishJob
  <2>2. CASE Unsupported /\ Succeed
    BY <1>a, <2>2, SucceedJob DEF Succeed
  <2>3. CASE job' = [job EXCEPT !.at = IF \E m \in job.parts : kind[m] = "text"
                                       THEN "text" ELSE Upload(job.parts),
                                !.reply = KeptReply(job.parts)]
    <3>1. KeptReply(job.parts) \in 0..Len(target) /\ KeptReply(job.parts) \in Nat
      BY <1>a, <2>0, KeptTyped DEF JobInv, Jobs
    <3>2. job'.at \in {"text", "stream", "download"} /\ (job'.at = "stream" => ~Bot)
      BY <1>a, <2>3 DEF Jobs, Upload, Self, Bot
    <3>3. /\ job'.unit = job.unit /\ job'.parts = job.parts /\ job'.todo = job.todo
          /\ job'.chunk = job.chunk /\ job'.reply = KeptReply(job.parts)
      BY <1>a, <2>3 DEF Jobs
    <3>4. job' \in Jobs
      BY <1>a, <2>3, <3>1 DEF Jobs, Upload
    <3> QED
      BY <2>0, <1>b, <3>1, <3>2, <3>3, <3>4
         DEF JobInv, Rest, First, Bot, InParts, Sendable
  <2> QED
    BY <1>3, <2>1, <2>2, <2>3 DEF SendWithFallback, Restricted
<1>4. CASE StreamBreaks
  <2>1. CASE Goes("download")
    BY <1>4, <1>a, <1>b, <2>1, GoesJob DEF StreamBreaks
  <2>2. ASSUME NEW to \in (job.try + 1)..4, NEW content \in {job.content, "part"},
               job' = [job EXCEPT !.try = to, !.content = content]
        PROVE  JobOK
    <3>1. to \in Nat
      BY <1>a DEF Jobs
    <3>2. Moves("stream") /\ job.at = "stream" /\ job' \in Jobs
      BY <1>4, <1>a, <2>2, <3>1 DEF StreamBreaks, Jobs, Moves
    <3>3. JobInv'
      BY <1>b, <3>2, MoveJob DEF JobInv
    <3> QED
      BY <1>a, <3>2, <3>3 DEF Moves
  <2> QED
    BY <1>4, <2>1, <2>2 DEF StreamBreaks
<1>5. CASE StreamEnds
  <2>0. job.at = "stream" /\ ~Bot /\ Part \in Messages
    BY <1>5, <1>a, PartIn DEF StreamEnds, JobInv, Jobs
  <2>1. CASE Goes("streamed")
    BY <2>0, <1>a, <1>b, <2>1, GoesJob
  <2>2. CASE job' = [job EXCEPT !.at = "streamed", !.bad = {Part}]
    <3>1. Moves("streamed") /\ job' \in Jobs
      BY <1>a, <2>0, <2>2 DEF Jobs, Moves
    <3> QED
      BY <1>a, <1>b, <2>0, <3>1, MoveJob DEF Moves
  <2> QED
    BY <1>5, <2>1, <2>2 DEF StreamEnds
<1>6. CASE SendStreamed
  BY <1>6, <1>a, <1>b, PublishJob, GoesJob DEF SendStreamed
<1>7. CASE CreateFile
  <2>1. CASE Fail("final", files)
    BY <1>7, <1>b, <2>1, FailJob DEF CreateFile
  <2>2. CASE job' = [job EXCEPT !.at = "fetch", !.loc = 1, !.content = "none"]
    <3>1. Moves("fetch") /\ job.at = "download" /\ job' \in Jobs
      BY <1>7, <1>a, <2>2 DEF CreateFile, Jobs, Moves
    <3> QED
      BY <1>a, <1>b, <3>1, MoveJob DEF Moves
  <2> QED
    BY <1>7, <2>1, <2>2 DEF CreateFile
<1>8. CASE FetchBreaks
  <2>1. ASSUME NEW loc \in (job.loc + 1)..(2 * Locations),
               NEW content \in {job.content, "part"},
               job' = [job EXCEPT !.loc = loc, !.content = Reset(content)]
        PROVE  JobOK
    <3>1. loc \in Nat
      BY <1>a, FeedTyped, SMTT(30) DEF Jobs
    <3>2. Moves("fetch") /\ job.at = "fetch" /\ job' \in Jobs
      BY <1>8, <1>a, <2>1, <3>1 DEF FetchBreaks, Reset, Jobs, Moves
    <3> QED
      BY <1>a, <1>b, <3>2, MoveJob DEF Moves
  <2> QED
    BY <1>8, <2>1 DEF FetchBreaks
<1>9. CASE FetchEnds
  <2>1. Moves("edit") /\ job.at = "fetch" /\ job' \in Jobs
    BY <1>9, <1>a DEF FetchEnds, Jobs, Moves
  <2> QED
    BY <1>a, <1>b, <2>1, MoveJob DEF Moves
<1>10. CASE FetchFails
  BY <1>10, <1>b, FailJob DEF FetchFails
<1>11. CASE RefreshReference
  <2>0. job.at = "fetch" /\ job' = [job EXCEPT !.at = "download", !.try = @ + 1]
    BY <1>11 DEF RefreshReference
  <2>2. job.try + 1 \in Nat
    BY <1>a DEF Jobs
  <2>1. Moves("download") /\ job' \in Jobs
    BY <1>a, <2>0, <2>2 DEF Jobs, Moves
  <2> QED
    BY <1>a, <1>b, <2>0, <2>1, MoveJob DEF Moves
<1>12. CASE GiveUpDownload
  BY <1>12, <1>a, <1>b, GoesJob DEF GiveUpDownload, Self, Bot
<1>13. CASE SendByReference
  BY <1>13, <1>a, <1>b, SucceedJob, FailJob DEF SendByReference, Succeed
<1>14. CASE Edit
  <2>1. ASSUME NEW fs, Fail("final", fs) PROVE JobOK
    BY <1>14, <1>b, <2>1, FailJob DEF Edit
  <2>2. CASE job' = [job EXCEPT !.at = "upload"] \/ job' = [job EXCEPT !.at = "marked"]
    <3>1. job.at = "edit" /\ ~Bot /\ job' \in Jobs /\ (Moves("upload") \/ Moves("marked"))
      BY <1>14, <1>a, <2>2 DEF Edit, Jobs, Moves
    <3> QED
      BY <1>a, <1>b, <3>1, MoveJob DEF Moves
  <2> QED
    BY <1>14, <2>1, <2>2 DEF Edit
<1>15. CASE EditForBot
  <2>1. ASSUME NEW fs, Fail("final", fs) PROVE JobOK
    BY <1>15, <1>b, <2>1, FailJob DEF EditForBot
  <2> QED
    BY <1>15, <1>a, <1>b, <2>1, ReadyJob DEF EditForBot
<1>16. CASE SendWatermarked
  <2>1. CASE job' = [job EXCEPT !.at = "upload"]
    <3>1. job.at = "marked" /\ ~Bot /\ job' \in Jobs /\ Moves("upload")
      BY <1>16, <1>a, <2>1 DEF SendWatermarked, JobInv, Jobs, Moves
    <3> QED
      BY <1>a, <1>b, <3>1, MoveJob DEF Moves
  <2> QED
    BY <1>16, <1>a, <1>b, <2>1, ReadyJob, SucceedJob DEF SendWatermarked, Succeed
<1>17. CASE UploadFile
  BY <1>17, <1>a, <1>b, ReadyJob, FailJob DEF UploadFile
<1>18. CASE SendUploaded
  BY <1>18, <1>b, PublishJob DEF SendUploaded
<1>19. CASE SendChunk
  BY <1>19, <1>a, <1>b, ChunkJob, FailJob DEF SendChunk
<1>20. CASE \E m \in Messages : Evict(m) \/ BotComment(m)
  BY <1>20, <1>a, <1>b
     DEF Evict, BotComment, JobInv, Rest, First, Bot, InParts, Sendable
<1>21. CASE NothingToDownload
  BY <1>21, <1>a, SucceedJob DEF NothingToDownload
<1> QED
  BY <1>1, <1>2, <1>3, <1>4, <1>5, <1>6, <1>7, <1>8, <1>9, <1>10, <1>11, <1>12,
     <1>13, <1>14, <1>15, <1>16, <1>17, <1>18, <1>19, <1>20, <1>21, Zenon DEF Next
-----------------------------------------------------------------------------
(* The target and what is recorded of it *)

\* A request that arrives appends one post.
LEMMA ArriveTyped ==
  ASSUME TypeOK, NEW ms \in SUBSET Messages, Arrive(ms)
  PROVE  \E post \in Posts :
           /\ target' = Append(target, post) /\ post.src = ms
           /\ post.reply \in {0, job.reply} /\ (post.reply # 0 => First)
           /\ post.spoiled = ms \cap job.bad
<1> DEFINE post == [src |-> ms, reply |-> IF First THEN job.reply ELSE 0,
                    spoiled |-> ms \cap job.bad]
<1>1. job.reply \in Nat
  BY DEF TypeOK, Jobs
<1>2. post \in Posts
  BY <1>1 DEF Posts
<1>3. target' = Append(target, post)
  BY DEF Arrive
<1>4. /\ post.src = ms /\ post.reply \in {0, job.reply} /\ (post.reply # 0 => First)
      /\ post.spoiled = ms \cap job.bad
  OBVIOUS
<1> HIDE DEF post
<1> QED
  BY <1>2, <1>3, <1>4

Mapping(n) == [Messages -> 0..n]
LEMMA StoreTyped ==
  ASSUME TypeOK, NEW ms \in SUBSET Messages, StoreMapping(ms)
  PROVE  /\ cache' \in Mapping(Len(target) + 1) /\ db' \in Mapping(Len(target) + 1)
         /\ \A m \in Messages : /\ cache'[m] = IF m \in ms THEN Len(target) + 1 ELSE cache[m]
                                /\ db'[m] \in {db[m], IF m \in ms THEN Len(target) + 1 ELSE db[m]}
<1> DEFINE n == Len(target) + 1
           stored(map) == [m \in Messages |-> IF m \in ms THEN n ELSE map[m]]
<1>1. Len(target) \in Nat /\ n \in Nat /\ n \in 0..n /\ 0..Len(target) \subseteq 0..n
  BY DEF TypeOK
<1>2. cache \in Mapping(Len(target)) /\ db \in Mapping(Len(target))
  BY DEF TypeOK, Mapping
<1>3. cache' = stored(cache) /\ (db' = stored(db) \/ db' = db)
  BY DEF StoreMapping
<1> HIDE DEF n
<1>4. ASSUME NEW map \in Mapping(Len(target))
      PROVE  stored(map) \in Mapping(n) /\ map \in Mapping(n)
  BY <1>1 DEF Mapping
<1>5. cache' \in Mapping(n) /\ db' \in Mapping(n)
  BY <1>2, <1>3, <1>4, Zenon
<1>6. \A m \in Messages : /\ cache'[m] = IF m \in ms THEN n ELSE cache[m]
                          /\ db'[m] \in {db[m], IF m \in ms THEN n ELSE db[m]}
  BY <1>3
<1> QED
  BY <1>5, <1>6 DEF n

\* What a request does, whether it is answered or not.
Requested(ms) == Arrive(ms) /\ (StoreMapping(ms) \/ UNCHANGED <<cache, db>>)

LEMMA StepRequest ==
  ASSUME FeedAssumption, TypeOK, JobInv, Next
  PROVE  \/ UNCHANGED <<target, cache, db>>
         \/ job.at # "idle" /\ \E ms \in SUBSET job.parts : ms # {} /\ Requested(ms)
         \/ \E m \in Messages : Evict(m) \/ BotComment(m)
<1>1. Shapes
  BY StepShape
<1>2. CASE GoesOn
  <2>1. job.at # "idle" /\ job.parts # {}
    BY <1>2 DEF GoesOn, Onward, JobInv
  <2> QED
    BY <1>2, <2>1 DEF GoesOn, Quiet, Unanswered, Requested
<1>3. CASE ChunkSent
  <2>1. job.at # "idle" /\ job.chunk # {} /\ job.chunk \in SUBSET job.parts
    BY <1>3 DEF ChunkSent, JobInv, Rest
  <2> QED
    BY <1>3, <2>1 DEF ChunkSent, Answered, Requested
<1>4. CASE Succeeds
  BY <1>4 DEF Succeeds, AllSent, Answered, Requested
<1>5. CASE Fails
  BY <1>5 DEF Fails, Lost, Refused, Unanswered, Requested
<1>6. CASE Outside
  BY <1>6 DEF Outside, ProcessUnit
<1> QED
  BY <1>1, <1>2, <1>3, <1>4, <1>5, <1>6 DEF Shapes

LEMMA StepTarget ==
  ASSUME FeedAssumption, TypeOK, JobInv, Next
  PROVE  /\ target' = target \/ \E post \in Posts : target' = Append(target, post)
         /\ target' \in Seq(Posts) /\ Len(target') >= Len(target)
         /\ Len(target) \in Nat /\ Len(target') \in Nat
         /\ \A i \in DOMAIN target : i \in DOMAIN target' /\ target'[i] = target[i]
<1>1. target' = target \/ \E post \in Posts : target' = Append(target, post)
  <2>1. ASSUME NEW ms \in SUBSET job.parts, Requested(ms)
        PROVE  \E post \in Posts : target' = Append(target, post)
    <3>1. ms \in SUBSET Messages
      BY DEF TypeOK, Jobs
    <3> QED
      BY <2>1, <3>1, ArriveTyped DEF Requested
  <2>2. ASSUME NEW m \in Messages, BotComment(m)
        PROVE  \E post \in Posts : target' = Append(target, post)
    <3>1. [src |-> {}, reply |-> 0, spoiled |-> {}] \in Posts
      BY DEF Posts
    <3> QED
      BY <2>2, <3>1 DEF BotComment
  <2>3. ASSUME NEW m \in Messages, Evict(m)
        PROVE  target' = target
    BY <2>3 DEF Evict
  <2> QED
    BY <2>1, <2>2, <2>3, StepRequest
<1>2. target \in Seq(Posts)
  BY DEF TypeOK
<1> QED
  BY <1>1, <1>2

LEMMA LostTyped ==
  ASSUME FeedAssumption, TypeOK, NEW ms, Unanswered(ms)
  PROVE  /\ history' \in Histories
         /\ \A m \in Messages :
              history'.lost[m] = IF m \in ms THEN history.lost[m] + 1 ELSE history.lost[m]
         /\ history'.done = history.done /\ history'.spliced = history.spliced
         /\ history'.void = history.void /\ history'.comments = history.comments
<1> DEFINE lost == [m \in Messages |-> IF m \in ms THEN history.lost[m] + 1
                                                    ELSE history.lost[m]]
<1>1. lost \in [Messages -> Nat]
  BY DEF TypeOK, Histories
<1>2. history.faults + 1 \in 0..Faults
  BY FeedTyped DEF TypeOK, Histories, Unanswered
<1>3. history' = [history EXCEPT !.faults = history.faults + 1, !.lost = lost]
  BY DEF Unanswered
<1>4. history'.lost = lost
  BY <1>3 DEF TypeOK, Histories
<1>5. \A m \in Messages :
        lost[m] = IF m \in ms THEN history.lost[m] + 1 ELSE history.lost[m]
  OBVIOUS
<1> HIDE DEF lost
<1> QED
  BY <1>1, <1>2, <1>3, <1>4, <1>5 DEF TypeOK, Histories

LEMMA StepHistory ==
  ASSUME FeedAssumption, TypeOK, JobInv, Next
  PROVE  history' \in Histories
<1>0. history \in Histories
  BY DEF TypeOK
<1>1. Shapes
  BY StepShape
<1>2. CASE GoesOn
  <2>1. Part \in Messages
    BY <1>2, PartIn DEF GoesOn, Onward, JobInv, TypeOK, Jobs
  <2>2. [history EXCEPT !.spliced = @ \cup {Part}] \in Histories
    BY <1>0, <2>1 DEF Histories
  <2> QED
    BY <1>0, <1>2, <2>2, LostTyped DEF GoesOn, Quiet
<1>3. CASE ChunkSent
  BY <1>0, <1>3 DEF ChunkSent
<1>4. CASE Succeeds
  <2>1. job.unit \in 1..Len(Units)
    BY <1>4, FeedTyped DEF Succeeds, JobInv
  <2>2. ASSUME NEW void \in SUBSET Messages
        PROVE  [history EXCEPT !.done = @ \cup {job.unit}, !.void = @ \cup void] \in Histories
    BY <1>0, <2>1 DEF Histories
  <2>3. CASE job.todo # {}
    <3>1. Part \in Messages
      BY <2>3, PartIn DEF TypeOK, Jobs
    <3>2. \E void \in SUBSET Messages :
            history' = [history EXCEPT !.done = @ \cup {job.unit}, !.void = @ \cup void]
      BY <1>4, <3>1 DEF Succeeds, Finish
    <3> QED
      BY <2>2, <3>2
  <2>4. CASE job.todo = {}
    <3>1. Finish({})
      BY <1>4, <2>4 DEF Succeeds
    <3> QED
      BY <2>2, <3>1 DEF Finish
  <2> QED
    BY <2>3, <2>4
<1>5. CASE Fails
  BY <1>0, <1>5, LostTyped DEF Fails, Lost, Refused
<1>6. CASE Outside
  <2>1. history.faults < Faults => history.faults + 1 \in 0..Faults
    BY <1>0, FeedTyped DEF Histories
  <2>2. CASE ProcessUnit
    BY <1>0, <2>2 DEF ProcessUnit
  <2>3. ASSUME NEW m \in Messages, Evict(m) PROVE history' \in Histories
    BY <1>0, <2>1, <2>3 DEF Evict, Histories
  <2>4. ASSUME NEW m \in Messages, BotComment(m) PROVE history' \in Histories
    BY <1>0, <2>1, <2>4 DEF BotComment, Histories
  <2> QED
    BY <1>6, <2>2, <2>3, <2>4 DEF Outside
<1> QED
  BY <1>1, <1>2, <1>3, <1>4, <1>5, <1>6 DEF Shapes

LEMMA StepMaps ==
  ASSUME FeedAssumption, TypeOK, JobInv, Next
  PROVE  cache' \in Mapping(Len(target')) /\ db' \in Mapping(Len(target'))
<1>0. /\ cache \in Mapping(Len(target)) /\ db \in Mapping(Len(target))
      /\ target \in Seq(Posts) /\ Len(target) \in Nat
  BY DEF TypeOK, Mapping
<1>1. CASE UNCHANGED <<target, cache, db>>
  BY <1>0, <1>1
<1>2. ASSUME NEW ms \in SUBSET Messages, Requested(ms)
      PROVE  cache' \in Mapping(Len(target')) /\ db' \in Mapping(Len(target'))
  <2>1. PICK post \in Posts : target' = Append(target, post)
    BY <1>2, ArriveTyped DEF Requested
  <2>2. Len(target') = Len(target) + 1
    BY <1>0, <2>1
  <2>3. Mapping(Len(target)) \subseteq Mapping(Len(target) + 1)
    BY <1>0 DEF Mapping
  <2> QED
    BY <1>0, <1>2, <2>2, <2>3, StoreTyped DEF Requested
<1>3. ASSUME NEW m \in Messages, Evict(m)
      PROVE  cache' \in Mapping(Len(target')) /\ db' \in Mapping(Len(target'))
  BY <1>0, <1>3 DEF Evict, Mapping
<1>4. ASSUME NEW m \in Messages, BotComment(m)
      PROVE  cache' \in Mapping(Len(target')) /\ db' \in Mapping(Len(target'))
  <2>1. Len(target') = Len(target) + 1
    BY <1>0, <1>4 DEF BotComment
  <2> QED
    BY <1>4, <2>1, StoreTyped DEF BotComment
<1>5. job.parts \in SUBSET Messages
  BY DEF TypeOK, Jobs
<1> QED
  BY <1>1, <1>2, <1>3, <1>4, <1>5, StepRequest
-----------------------------------------------------------------------------
(* The files *)

Disks == [disk : SUBSET Files, cleanup : SUBSET Files, torn : SUBSET Files]
Kept(fs) == fs.disk \subseteq fs.cleanup \cup fs.torn
FilesOK == files \in Disks /\ FilesInv

LEMMA NoFiles ==
  ASSUME NEW fs \in Disks, Kept(fs), files' = Cleanup(fs)
  PROVE  FilesOK'
BY DEF Kept, Cleanup, Disks, FilesOK, FilesInv, TempFilesGone

\* A step of a call that is not downloading, and does not begin to.
LEMMA SameFiles ==
  ASSUME FilesOK, job.at \notin {"idle", "fetch"}, job'.at # "idle",
         files' = files \/ (files' \in Disks /\ Kept(files'))
  PROVE  FilesOK'
BY DEF Disks, Kept, FilesOK, FilesInv, TempFilesGone

LEMMA StartedAt ==
  ASSUME NEW u, NEW n
  PROVE  Start(u, n).at \in {"text", "forward", "reference", "stream", "download"}
BY DEF Start, Method, Upload

LEMMA EditFiles ==
  ASSUME FeedAssumption, TypeOK, JobInv, job.at = "edit", files \in Disks, Kept(files),
         NEW fs \in MarkedFiles
  PROVE  fs \in Disks /\ Kept(fs)
<1>1. <<Part, "edit">> \in Files /\ Mark \in Files
  BY PartIn DEF Mark, Files, JobInv, TypeOK, Jobs
<1>2. ASSUME NEW gs \in Disks, Kept(gs), NEW f \in Files
      PROVE  /\ Written(gs, f) \in Disks /\ Kept(Written(gs, f))
             /\ Torn(gs, f) \in Disks /\ Kept(Torn(gs, f))
  BY <1>2 DEF Written, Torn, Kept, Disks
<1>3. \A gs \in EditedFiles : gs \in Disks /\ Kept(gs)
  BY <1>1, <1>2 DEF EditedFiles
<1>4. CASE fs \in EditedFiles
  BY <1>3, <1>4
<1>5. CASE \E gs \in EditedFiles : fs \in {Written(gs, Mark), Torn(gs, Mark)}
  BY <1>1, <1>2, <1>3, <1>5
<1> QED
  BY <1>4, <1>5 DEF MarkedFiles

LEMMA StepFiles ==
  ASSUME FeedAssumption, TypeOK, JobInv, FilesOK, Next
  PROVE  FilesOK'
<1>a. job \in Jobs /\ files \in Disks
  BY DEF TypeOK, FilesOK
<1>b. job.at \notin {"idle", "fetch"} => Kept(files)
  BY DEF FilesOK, FilesInv, Kept
<1>c. job.at \in {"download", "fetch"} => Downloaded \in Files
  BY <1>a, PartIn DEF JobInv, Jobs, Files, Downloaded
<1>d. job.at = "fetch" => /\ RemovePartial \in Disks
                          /\ Kept(RemovePartial)
  BY <1>a DEF FilesOK, FilesInv, RemovePartial, Disks, Kept
<1>e. ASSUME job.at \notin {"idle", "fetch"}, files' = Cleanup(files) PROVE FilesOK'
  BY <1>a, <1>b, <1>e, NoFiles
<1>1. CASE ProcessUnit
  BY <1>1 DEF ProcessUnit, FilesOK, FilesInv, TempFilesGone
<1>2. CASE SendText
  BY <1>2, <1>e DEF SendText, Publish, Succeed, Finish, Fail
<1>3. CASE SendWithFallback
  <2>1. CASE Publish(job.parts) \/ Succeed
    BY <1>3, <2>1, <1>e DEF SendWithFallback, Publish, Succeed, Finish, Fail
  <2>2. CASE /\ job' = [job EXCEPT !.at = IF \E m \in job.parts : kind[m] = "text"
                                          THEN "text" ELSE Upload(job.parts),
                                   !.reply = KeptReply(job.parts)]
             /\ UNCHANGED files
    <3>1. job'.at \in {"text", "stream", "download"}
      BY <1>a, <2>2 DEF Jobs, Upload
    <3> QED
      BY <1>3, <2>2, <3>1, SameFiles DEF SendWithFallback
  <2> QED
    BY <1>3, <2>1, <2>2 DEF SendWithFallback, Restricted
<1>4. CASE StreamBreaks \/ StreamEnds
  <2>1. UNCHANGED files /\ job.at = "stream" /\ job'.at \in {"stream", "streamed", "download"}
    BY <1>4, <1>a DEF StreamBreaks, StreamEnds, Goes, Jobs
  <2> QED
    BY <2>1, SameFiles
<1>6. CASE SendStreamed
  <2>1. CASE Publish(job.parts)
    BY <1>6, <2>1, <1>e DEF SendStreamed, Publish, Succeed, Finish, Fail
  <2>2. CASE Goes("download") /\ UNCHANGED files
    <3>1. job'.at = "download"
      BY <1>a, <2>2 DEF Goes, Jobs
    <3> QED
      BY <1>6, <2>2, <3>1, SameFiles DEF SendStreamed
  <2> QED
    BY <1>6, <2>1, <2>2 DEF SendStreamed
<1>7. CASE CreateFile
  <2>1. CASE Fail("final", files)
    BY <1>7, <2>1, <1>e DEF CreateFile, Fail
  <2>2. CASE /\ files' = [files EXCEPT !.disk = @ \cup {Downloaded}]
             /\ job' = [job EXCEPT !.at = "fetch", !.loc = 1, !.content = "none"]
    <3>1. job'.at = "fetch" /\ Downloaded' = Downloaded
      BY <1>a, <2>2 DEF Jobs, Downloaded, Part
    <3>2. /\ files' \in Disks
          /\ files'.disk \subseteq files'.cleanup \cup files'.torn \cup {Downloaded}
      BY <1>7, <1>a, <1>b, <1>c, <2>2 DEF CreateFile, Disks, Kept
    <3> QED
      BY <3>1, <3>2 DEF FilesOK, FilesInv, TempFilesGone
  <2> QED
    BY <1>7, <2>1, <2>2 DEF CreateFile
<1>8. CASE FetchBreaks
  <2>1. job'.at = "fetch" /\ job.at = "fetch" /\ Downloaded' = Downloaded /\ files' = files
    BY <1>8, <1>a DEF FetchBreaks, Jobs, Downloaded, Part
  <2> QED
    BY <1>a, <2>1 DEF FilesOK, FilesInv, TempFilesGone
<1>9. CASE FetchEnds
  <2>1. job'.at = "edit" /\ job.at = "fetch"
    BY <1>9, <1>a DEF FetchEnds, Jobs
  <2>2. files' \in Disks /\ Kept(files')
    BY <1>9, <1>a, <1>c, <2>1 DEF FetchEnds, FilesOK, FilesInv, Disks, Kept
  <2> QED
    BY <2>1, <2>2 DEF FilesOK, FilesInv, TempFilesGone, Kept
<1>10. CASE FetchFails
  BY <1>10, <1>d, NoFiles DEF FetchFails, Fail
<1>11. CASE RefreshReference \/ GiveUpDownload
  <2>1. job'.at \in {"download", "rescue"} /\ job.at = "fetch" /\ files' = RemovePartial
    BY <1>11, <1>a DEF RefreshReference, GiveUpDownload, Goes, Jobs
  <2> QED
    BY <1>d, <2>1 DEF FilesOK, FilesInv, TempFilesGone, Kept
<1>13. CASE SendByReference
  BY <1>13, <1>e DEF SendByReference, Succeed, Finish, Fail
<1>14. CASE Edit \/ EditForBot
  <2>0. job.at = "edit"
    BY <1>14 DEF Edit, EditForBot
  <2>a. \A fs \in MarkedFiles : fs \in Disks /\ Kept(fs)
    BY <1>a, <1>b, <2>0, EditFiles
  <2>b. EditedFiles \subseteq MarkedFiles
    BY DEF MarkedFiles
  <2>1. ASSUME NEW fs \in MarkedFiles, Fail("final", fs) PROVE FilesOK'
    BY <2>1, <2>a, NoFiles DEF Fail
  <2>2. ASSUME job'.at \in {"upload", "marked", "send", "download"}, files' \in MarkedFiles
        PROVE  FilesOK'
    BY <2>0, <2>2, <2>a, SameFiles
  <2>3. ASSUME PartReady(Bad) PROVE job'.at \in {"send", "download"}
    BY <1>a, <2>3 DEF PartReady, Jobs
  <2>4. ASSUME NEW at, job' = [job EXCEPT !.at = at] PROVE job'.at = at
    BY <1>a, <2>4 DEF Jobs
  <2> QED
    BY <1>14, <2>b, <2>1, <2>2, <2>3, <2>4 DEF Edit, EditForBot
<1>16. CASE SendWatermarked
  <2>1. CASE Succeed
    BY <1>16, <2>1, <1>e DEF SendWatermarked, Succeed, Finish
  <2>2. CASE (job' = [job EXCEPT !.at = "upload"] \/ PartReady(Bad)) /\ UNCHANGED files
    <3>1. job'.at \in {"upload", "send", "download"}
      BY <1>a, <2>2 DEF PartReady, Jobs
    <3> QED
      BY <1>16, <2>2, <3>1, SameFiles DEF SendWatermarked
  <2> QED
    BY <1>16, <2>1, <2>2 DEF SendWatermarked
<1>17. CASE UploadFile
  <2>1. ASSUME NEW e, Fail(e, files) PROVE FilesOK'
    BY <1>17, <2>1, <1>e DEF UploadFile, Fail
  <2>2. CASE PartReady(Bad) /\ UNCHANGED files
    <3>1. job'.at \in {"upload", "send", "download"}
      BY <1>a, <2>2 DEF PartReady, Jobs
    <3> QED
      BY <1>17, <2>2, <3>1, SameFiles DEF UploadFile
  <2> QED
    BY <1>17, <2>1, <2>2 DEF UploadFile
<1>18. CASE SendUploaded \/ SendChunk
  BY <1>18, <1>e DEF SendUploaded, SendChunk, Publish, Succeed, Finish, Fail
<1>20. CASE \E m \in Messages : Evict(m) \/ BotComment(m)
  BY <1>20 DEF Evict, BotComment, FilesOK, FilesInv, TempFilesGone, Downloaded, Part
<1>21. CASE NothingToDownload
  BY <1>21, <1>e DEF NothingToDownload, Finish
<1> QED
  BY <1>1, <1>2, <1>3, <1>4, <1>6, <1>7, <1>8, <1>9, <1>10, <1>11,
     <1>13, <1>14, <1>16, <1>17, <1>18, <1>20, <1>21, Zenon DEF Next
-----------------------------------------------------------------------------
(* The bytes *)

LEMMA HistoryGrows ==
  ASSUME FeedAssumption, TypeOK, JobInv, Next
  PROVE  /\ history.spliced \subseteq history'.spliced
         /\ history.comments \subseteq history'.comments
<1>0. history \in Histories
  BY DEF TypeOK
<1>1. Shapes
  BY StepShape
<1>2. CASE GoesOn
  BY <1>0, <1>2, LostTyped DEF GoesOn, Quiet, Histories
<1>3. CASE ChunkSent
  BY <1>0, <1>3 DEF ChunkSent
<1>4. CASE Succeeds
  BY <1>0, <1>4 DEF Succeeds, Finish, Histories
<1>5. CASE Fails
  BY <1>0, <1>5, LostTyped DEF Fails, Lost, Refused
<1>6. CASE Outside
  BY <1>0, <1>6, ZenonT(60) DEF Outside, ProcessUnit, Evict, BotComment, Histories
<1> QED
  BY <1>1, <1>2, <1>3, <1>4, <1>5, <1>6 DEF Shapes

LEMMA StepPart ==
  ASSUME FeedAssumption, TypeOK, JobInv, PartInv, Next
  PROVE  PartInv'
<1>a. job \in Jobs /\ history \in Histories /\ history.spliced \subseteq history'.spliced
  BY HistoryGrows DEF TypeOK
<1>b. ASSUME NEW e, NEW fs, Fail(e, fs) PROVE PartInv'
  <2>1. /\ job'.bad = {}
        /\ job'.at \in {"idle", "text", "forward", "reference", "stream", "download"}
    BY <1>b, StartedAt DEF Fail, Start, Idle
  <2> QED
    BY <2>1 DEF PartInv
<1>c. ASSUME NEW void, Finish(void) PROVE PartInv'
  BY <1>c DEF Finish, Idle, PartInv
<1>d. ASSUME NEW ms, Publish(ms) PROVE PartInv'
  BY <1>b, <1>c, <1>d DEF Publish, Succeed
<1>e. ASSUME NEW at \in {"streamed", "download", "rescue"}, Goes(at) PROVE PartInv'
  <2>1. job'.at = at /\ job'.bad \subseteq job.bad
    BY <1>a, <1>e DEF Goes, Jobs
  <2> QED
    BY <1>a, <2>1 DEF PartInv
<1>f. ASSUME job.at \in {"edit", "marked", "upload"}, PartReady(Bad) PROVE PartInv'
  <2>1. job'.at \in {"send", "download"} /\ job'.bad = Bad
    BY <1>a, <1>f DEF PartReady, Jobs
  <2>2. Bad = job.bad
    BY <1>f DEF Bad, PartInv
  <2> QED
    BY <1>a, <2>1, <2>2 DEF PartInv
<1>1. CASE ProcessUnit
  BY <1>1, <1>a DEF ProcessUnit, Start, Method, Upload, Jobs, PartInv
<1>2. CASE SendText
  BY <1>2, <1>c, <1>d DEF SendText, Succeed
<1>3. CASE SendWithFallback
  <2>1. CASE job' = [job EXCEPT !.at = IF \E m \in job.parts : kind[m] = "text"
                                       THEN "text" ELSE Upload(job.parts),
                                !.reply = KeptReply(job.parts)]
    <3>1. job'.at \in {"text", "stream", "download"} /\ job'.bad = job.bad
      BY <1>a, <2>1 DEF Jobs, Upload
    <3> QED
      BY <1>a, <3>1 DEF PartInv
  <2> QED
    BY <1>3, <1>c, <1>d, <2>1 DEF SendWithFallback, Restricted, Succeed
<1>4. CASE StreamBreaks
  <2>1. ASSUME NEW to, NEW content, job.at = "stream",
               job' = [job EXCEPT !.try = to, !.content = content]
        PROVE  PartInv'
    <3>1. job'.at = "stream" /\ job'.bad = job.bad
      BY <1>a, <2>1 DEF Jobs
    <3> QED
      BY <1>a, <3>1 DEF PartInv
  <2> QED
    BY <1>4, <1>e, <2>1 DEF StreamBreaks
<1>5. CASE StreamEnds
  <2>1. CASE /\ job' = [job EXCEPT !.at = "streamed", !.bad = {Part}]
             /\ history' = [history EXCEPT !.spliced = @ \cup {Part}]
    BY <1>a, <2>1 DEF Jobs, Histories, PartInv
  <2> QED
    BY <1>5, <1>e, <2>1 DEF StreamEnds
<1>6. CASE SendStreamed
  BY <1>6, <1>d, <1>e DEF SendStreamed
<1>7. CASE CreateFile
  <2>1. CASE job' = [job EXCEPT !.at = "fetch", !.loc = 1, !.content = "none"]
    BY <1>a, <2>1 DEF Jobs, PartInv
  <2> QED
    BY <1>7, <1>b, <2>1 DEF CreateFile
<1>8. CASE FetchBreaks
  <2>1. ASSUME NEW loc, NEW content, job.at = "fetch",
               job' = [job EXCEPT !.loc = loc, !.content = Reset(content)]
        PROVE  PartInv'
    BY <1>a, <2>1 DEF Reset, Jobs, PartInv
  <2> QED
    BY <1>8, <2>1 DEF FetchBreaks
<1>9. CASE FetchEnds
  <2>1. job'.at = "edit" /\ job'.bad = job.bad /\ job'.content = "whole"
    BY <1>9, <1>a DEF FetchEnds, Jobs, PartInv
  <2> QED
    BY <1>a, <2>1 DEF PartInv
<1>10. CASE FetchFails
  BY <1>10, <1>b DEF FetchFails
<1>11. CASE RefreshReference
  <2>1. job'.at = "download" /\ job'.bad = job.bad
    BY <1>11, <1>a DEF RefreshReference, Jobs
  <2> QED
    BY <1>a, <2>1 DEF PartInv
<1>12. CASE GiveUpDownload
  BY <1>12, <1>e DEF GiveUpDownload
<1>13. CASE SendByReference
  BY <1>13, <1>b, <1>c DEF SendByReference, Succeed
<1>14. CASE Edit \/ EditForBot
  <2>1. job.at = "edit" /\ job.content # "mixed"
    BY <1>14 DEF Edit, EditForBot, PartInv
  <2>2. ASSUME NEW at \in {"upload", "marked"}, job' = [job EXCEPT !.at = at]
        PROVE  PartInv'
    <3>1. job'.at = at /\ job'.bad = job.bad /\ job'.content = job.content
      BY <1>a, <2>2 DEF Jobs
    <3> QED
      BY <1>a, <2>1, <3>1 DEF PartInv
  <2> QED
    BY <1>14, <1>b, <1>f, <2>1, <2>2 DEF Edit, EditForBot
<1>16. CASE SendWatermarked
  <2>1. CASE job' = [job EXCEPT !.at = "upload"]
    <3>1. job'.at = "upload" /\ job'.bad = job.bad /\ job'.content = job.content
      BY <1>a, <2>1 DEF Jobs
    <3> QED
      BY <1>16, <1>a, <3>1 DEF SendWatermarked, PartInv
  <2> QED
    BY <1>16, <1>c, <1>f, <2>1 DEF SendWatermarked, Succeed
<1>17. CASE UploadFile
  BY <1>17, <1>b, <1>f DEF UploadFile
<1>18. CASE SendUploaded
  BY <1>18, <1>d DEF SendUploaded
<1>19. CASE SendChunk
  <2>1. CASE job' = [job EXCEPT !.at = "download", !.chunk = {}, !.try = 1,
                                !.content = "none"]
    BY <1>a, <2>1 DEF Jobs, PartInv
  <2> QED
    BY <1>19, <1>b, <2>1 DEF SendChunk
<1>20. CASE \E m \in Messages : Evict(m) \/ BotComment(m)
  BY <1>20, <1>a DEF Evict, BotComment, PartInv
<1>21. CASE NothingToDownload
  BY <1>21, <1>c DEF NothingToDownload
<1> QED
  BY <1>1, <1>2, <1>3, <1>4, <1>5, <1>6, <1>7, <1>8, <1>9, <1>10, <1>11, <1>12,
     <1>13, <1>14, <1>16, <1>17, <1>18, <1>19, <1>20, <1>21, Zenon DEF Next

\* What is appended has no more spoiled parts than the call knows of.
LEMMA StepWhole ==
  ASSUME FeedAssumption, TypeOK, JobInv, BytesInv, Next
  PROVE  FilesWhole'
<1>a. /\ target \in Seq(Posts) /\ history.spliced \subseteq history'.spliced
      /\ job.parts \in SUBSET Messages
  BY HistoryGrows DEF TypeOK, Jobs
<1>b. ASSUME NEW post \in Posts, target' = Append(target, post),
             post.spoiled \subseteq history.spliced
      PROVE  FilesWhole'
  BY <1>a, <1>b DEF FilesWhole, BytesInv
<1>1. CASE UNCHANGED <<target, cache, db>>
  BY <1>a, <1>1 DEF FilesWhole, BytesInv
<1>2. ASSUME NEW ms \in SUBSET job.parts, Requested(ms)
      PROVE  FilesWhole'
  <2>1. PICK post \in Posts :
          target' = Append(target, post) /\ post.spoiled = ms \cap job.bad
    BY <1>a, <1>2, ArriveTyped DEF Requested
  <2> QED
    BY <1>b, <2>1 DEF BytesInv, PartInv
<1>3. ASSUME NEW m \in Messages, Evict(m)
      PROVE  FilesWhole'
  BY <1>a, <1>3 DEF Evict, FilesWhole, BytesInv
<1>4. ASSUME NEW m \in Messages, BotComment(m)
      PROVE  FilesWhole'
  <2> DEFINE post == [src |-> {}, reply |-> 0, spoiled |-> {}]
  <2>1. post \in Posts /\ post.spoiled = {} /\ target' = Append(target, post)
    BY <1>4 DEF BotComment, Posts
  <2> HIDE DEF post
  <2> QED
    BY <1>b, <2>1
<1> QED
  BY <1>1, <1>2, <1>3, <1>4, StepRequest
-----------------------------------------------------------------------------
(* The copies *)

LEMMA CopiesSame ==
  ASSUME NEW m, target' = target
  PROVE  Copies(m)' = Copies(m)
BY DEF Copies

LEMMA CopiesFinite ==
  ASSUME TypeOK, NEW m
  PROVE  IsFiniteSet(Copies(m)) /\ Cardinality(Copies(m)) \in Nat
<1>1. Copies(m) \in SUBSET (1..Len(target)) /\ Len(target) \in Nat
  BY DEF TypeOK, Copies
<1>2. IsFiniteSet(1..Len(target))
  BY <1>1, FS_Interval
<1>3. IsFiniteSet(Copies(m))
  BY <1>1, <1>2, FS_Subset
<1> QED
  BY <1>3, FS_CardinalityType

LEMMA CopiesMore ==
  ASSUME TypeOK, NEW m, NEW post \in Posts, target' = Append(target, post)
  PROVE  /\ m \notin post.src => Copies(m)' = Copies(m)
         /\ m \in post.src => Copies(m)' = Copies(m) \cup {Len(target) + 1}
         /\ Cardinality(Copies(m)') <= Cardinality(Copies(m)) + 1
         /\ Cardinality(Copies(m)') \in Nat
<1>0. target \in Seq(Posts) /\ Len(target) \in Nat
  BY DEF TypeOK
<1>1. /\ DOMAIN target' = DOMAIN target \cup {Len(target) + 1}
      /\ \A i \in DOMAIN target : target'[i] = target[i]
      /\ target'[Len(target) + 1] = post
  BY <1>0
<1>2. /\ m \notin post.src => Copies(m)' = Copies(m)
      /\ m \in post.src => Copies(m)' = Copies(m) \cup {Len(target) + 1}
  BY <1>1 DEF Copies
<1>3. IsFiniteSet(Copies(m)) /\ Cardinality(Copies(m)) \in Nat
  BY CopiesFinite
<1>4. Cardinality(Copies(m) \cup {Len(target) + 1}) \in
         {Cardinality(Copies(m)), Cardinality(Copies(m)) + 1}
  BY <1>3, FS_AddElement
<1>5. Cardinality(Copies(m)') \in {Cardinality(Copies(m)), Cardinality(Copies(m)) + 1}
  BY <1>2, <1>4
<1>6. /\ Cardinality(Copies(m)') <= Cardinality(Copies(m)) + 1
      /\ Cardinality(Copies(m)') \in Nat
  BY <1>3, <1>5
<1> QED
  BY <1>2, <1>6

\* What a request of some parts does to the copies of a message.
LEMMA CopiesRequested ==
  ASSUME TypeOK, NEW ms \in SUBSET job.parts, Arrive(ms), NEW m
  PROVE  /\ m \notin ms => Copies(m)' = Copies(m)
         /\ m \in ms => Copies(m)' # {}
         /\ Copies(m) \subseteq Copies(m)'
         /\ Cardinality(Copies(m)') <= Cardinality(Copies(m)) + 1
         /\ Cardinality(Copies(m)') \in Nat
<1>1. ms \in SUBSET Messages
  BY DEF TypeOK, Jobs
<1>2. PICK post \in Posts : target' = Append(target, post) /\ post.src = ms
  BY <1>1, ArriveTyped
<1> QED
  BY <1>2, CopiesMore

\* A part of the unit under way is of no later unit.
LEMMA AheadNow ==
  ASSUME FeedAssumption, TypeOK, JobInv, job.at # "idle", NEW m \in job.parts
  PROVE  /\ Ahead(m)
         /\ job'.at = "idle" /\ job'.unit = job.unit => ~Ahead(m)'
<1>1. /\ m \in Units[job.unit] /\ job.unit \in DOMAIN Units /\ job.unit \in Nat
      /\ \A u \in DOMAIN Units : m \in Units[u] => u = job.unit
  BY FeedTyped DEF JobInv, FeedAssumption
<1> QED
  BY <1>1 DEF Ahead

LEMMA AheadBefore ==
  ASSUME FeedAssumption, TypeOK, JobInv, Shapes, NEW m
  PROVE  Ahead(m)' => Ahead(m)
<1>1. job \in Jobs /\ job.unit \in Nat /\ \A u \in DOMAIN Units : u \in Nat
  BY FeedTyped DEF TypeOK, Jobs
<1>2. CASE job.at # "idle" /\ job'.unit = job.unit
  BY <1>2 DEF Ahead
<1>3. CASE GoesOn \/ ChunkSent
  BY <1>2, <1>3 DEF GoesOn, ChunkSent, Onward
<1>4. CASE Succeeds
  BY <1>2, <1>4 DEF Succeeds, Finish, Idle
<1>5. CASE Fails
  BY <1>2, <1>5 DEF Fails, Start, Idle
<1>6. CASE ProcessUnit
  <2>1. job'.unit = job.unit + 1
    BY <1>1, <1>6 DEF ProcessUnit, Start, Jobs
  <2> QED
    BY <1>1, <1>6, <2>1 DEF Ahead
<1>7. ASSUME NEW n \in Messages, Evict(n) \/ BotComment(n)
      PROVE  Ahead(m)' => Ahead(m)
  BY <1>7 DEF Evict, BotComment, Ahead
<1> QED
  BY <1>3, <1>4, <1>5, <1>6, <1>7 DEF Shapes, Outside

LEMMA BotCommentCopies ==
  ASSUME TypeOK, NEW n, BotComment(n), NEW m
  PROVE  Copies(m)' = Copies(m)
<1> DEFINE post == [src |-> {}, reply |-> 0, spoiled |-> {}]
<1>1. post \in Posts /\ post.src = {} /\ target' = Append(target, post)
  BY DEF BotComment, Posts
<1> HIDE DEF post
<1> QED
  BY <1>1, CopiesMore

LEMMA StepCopies ==
  ASSUME FeedAssumption, TypeOK, JobInv, CopiesInv, Next
  PROVE  CopiesInv'
<1>a. Shapes /\ UNCHANGED <<setup, kind>>
  BY StepShape
<1> SUFFICES ASSUME NEW m \in Messages, ~InChunks(m)
             PROVE  Cardinality(Copies(m)') <= history'.lost[m] + (IF Ahead(m)' THEN 0 ELSE 1)
  BY <1>a DEF CopiesInv, InChunks
<1>b. /\ Cardinality(Copies(m)) <= history.lost[m] + (IF Ahead(m) THEN 0 ELSE 1)
      /\ Cardinality(Copies(m)) \in Nat /\ history.lost[m] \in Nat
  BY CopiesFinite DEF CopiesInv, TypeOK, Histories
<1>c. Ahead(m)' => Ahead(m)
  BY <1>a, AheadBefore
<1>d. ASSUME Copies(m)' = Copies(m), history'.lost[m] \in Nat,
             history'.lost[m] >= history.lost[m]
      PROVE  Cardinality(Copies(m)') <= history'.lost[m] + (IF Ahead(m)' THEN 0 ELSE 1)
  BY <1>b, <1>c, <1>d
<1>e. ASSUME NEW ms \in SUBSET job.parts, Unanswered(ms)
      PROVE  Cardinality(Copies(m)') <= history'.lost[m] + (IF Ahead(m)' THEN 0 ELSE 1)
  <2>1. history'.lost[m] = IF m \in ms THEN history.lost[m] + 1 ELSE history.lost[m]
    BY <1>e, LostTyped
  <2>2. /\ m \notin ms => Copies(m)' = Copies(m)
        /\ Cardinality(Copies(m)') <= Cardinality(Copies(m)) + 1
        /\ Cardinality(Copies(m)') \in Nat
    BY <1>e, CopiesRequested DEF Unanswered
  <2> QED
    BY <1>b, <1>c, <2>1, <2>2
<1>f. ASSUME UNCHANGED target, history'.lost = history.lost
      PROVE  Cardinality(Copies(m)') <= history'.lost[m] + (IF Ahead(m)' THEN 0 ELSE 1)
  BY <1>b, <1>d, <1>f, CopiesSame
<1>1. CASE GoesOn
  <2>1. CASE Quiet
    BY <1>f, <2>1 DEF Quiet, TypeOK, Histories
  <2> QED
    BY <1>1, <1>e, <2>1 DEF GoesOn
<1>2. CASE ChunkSent
  <2>1. m \notin job.chunk
    <3>1. InParts /\ job.unit \in DOMAIN Units /\ job.chunk \subseteq Units[job.unit]
      BY <1>2, SentInParts, FeedTyped DEF ChunkSent, JobInv, Rest
    <3> QED
      BY <3>1 DEF InChunks, InParts, Bot
  <2>2. Copies(m)' = Copies(m)
    <3>1. job.chunk \in SUBSET job.parts
      BY <1>2 DEF ChunkSent, Onward, JobInv, Rest
    <3> QED
      BY <1>2, <2>1, <3>1, CopiesRequested DEF ChunkSent, Answered
  <2> QED
    BY <1>2, <1>b, <1>d, <2>2 DEF ChunkSent
<1>3. CASE Succeeds
  <2>1. history'.lost = history.lost
    BY <1>3 DEF Succeeds, Finish, TypeOK, Histories
  <2>2. CASE UNCHANGED target
    BY <1>f, <2>1, <2>2
  <2>3. ASSUME NEW ms \in SUBSET job.parts, Arrive(ms)
        PROVE  Cardinality(Copies(m)') <= history'.lost[m] + (IF Ahead(m)' THEN 0 ELSE 1)
    <3>1. CASE m \in ms
      <4>1. job.at # "idle" /\ job'.at = "idle" /\ job'.unit = job.unit
        BY <1>3 DEF Succeeds, Finish, Idle
      <4>2. Ahead(m) /\ ~Ahead(m)'
        BY <2>3, <3>1, <4>1, AheadNow
      <4>3. /\ Cardinality(Copies(m)') <= Cardinality(Copies(m)) + 1
            /\ Cardinality(Copies(m)') \in Nat
        BY <2>3, CopiesRequested
      <4> QED
        BY <1>b, <2>1, <4>2, <4>3
    <3>2. CASE m \notin ms
      BY <1>b, <1>d, <2>1, <2>3, <3>2, CopiesRequested
    <3> QED
      BY <3>1, <3>2
  <2> QED
    BY <1>3, <2>2, <2>3 DEF Succeeds, AllSent, Answered
<1>4. CASE Fails
  BY <1>4, <1>e, <1>f DEF Fails, Lost, Refused
<1>5. CASE ProcessUnit
  BY <1>5, <1>f DEF ProcessUnit
<1>6. ASSUME NEW n \in Messages, Evict(n)
      PROVE  Cardinality(Copies(m)') <= history'.lost[m] + (IF Ahead(m)' THEN 0 ELSE 1)
  BY <1>6, <1>f DEF Evict, TypeOK, Histories
<1>7. ASSUME NEW n \in Messages, BotComment(n)
      PROVE  Cardinality(Copies(m)') <= history'.lost[m] + (IF Ahead(m)' THEN 0 ELSE 1)
  <2>1. history'.lost = history.lost
    BY <1>7 DEF BotComment, TypeOK, Histories
  <2> QED
    BY <1>7, <1>b, <1>d, <2>1, BotCommentCopies
<1> QED
  BY <1>a, <1>1, <1>2, <1>3, <1>4, <1>5, <1>6, <1>7 DEF Shapes, Outside

\* No copy is ever taken back.
LEMMA CopiesStay ==
  ASSUME FeedAssumption, TypeOK, JobInv, Next, NEW m
  PROVE  Copies(m) \subseteq Copies(m)'
BY StepTarget DEF Copies

LEMMA StepChunks ==
  ASSUME FeedAssumption, TypeOK, JobInv, ChunksInv, Next
  PROVE  ChunksInv'
<1>a. Shapes
  BY StepShape
<1>b. \A m : Copies(m) # {} => Copies(m)' # {}
  BY CopiesStay
<1>1. CASE GoesOn
  BY <1>1, <1>b DEF GoesOn, Onward, ChunksInv
<1>2. CASE ChunkSent
  <2>1. /\ job'.parts = job.parts /\ Rest' = job.todo
        /\ job.at # "idle" /\ job.chunk \in SUBSET job.parts
    BY <1>2 DEF ChunkSent, Onward, JobInv, Rest
  <2>2. \A m \in job.chunk : Copies(m)' # {}
    BY <1>2, <2>1, CopiesRequested DEF ChunkSent, Answered
  <2> QED
    BY <1>b, <2>1, <2>2 DEF ChunksInv, Rest
<1>3. CASE Succeeds
  BY <1>3 DEF Succeeds, Finish, Idle, ChunksInv
<1>4. CASE Fails
  BY <1>4 DEF Fails, Start, Idle, ChunksInv, Rest
<1>5. CASE ProcessUnit
  BY <1>5 DEF ProcessUnit, Start, ChunksInv, Rest, TypeOK, Jobs
<1>6. ASSUME NEW n \in Messages, Evict(n) \/ BotComment(n) PROVE ChunksInv'
  BY <1>6, <1>b DEF Evict, BotComment, ChunksInv, Rest
<1> QED
  BY <1>a, <1>1, <1>2, <1>3, <1>4, <1>5, <1>6 DEF Shapes, Outside

LEMMA StepDelivered ==
  ASSUME FeedAssumption, TypeOK, JobInv, ChunksInv, Delivered, Next
  PROVE  Delivered'
<1>a. Shapes /\ UNCHANGED <<setup, kind>>
  BY StepShape
<1>b. \A m : Copies(m) # {} => Copies(m)' # {}
  BY CopiesStay
<1>0. history \in Histories
  BY DEF TypeOK
<1>c. ASSUME history'.done = history.done, history.void \subseteq history'.void
      PROVE  Delivered'
  BY <1>a, <1>b, <1>c DEF Delivered, Sendable
<1>1. CASE GoesOn
  BY <1>0, <1>1, <1>c, LostTyped DEF GoesOn, Quiet, Histories
<1>2. CASE ChunkSent
  BY <1>2, <1>c DEF ChunkSent
<1>3. CASE Succeeds
  <2>1. /\ history'.done = history.done \cup {job.unit}
        /\ history.void \subseteq history'.void
    BY <1>0, <1>3 DEF Succeeds, Finish, Histories
  <2>2. /\ job.parts = Sendable(job.unit) /\ job.unit \in DOMAIN Units
        /\ \A m \in job.parts \ Rest : Copies(m) # {}
    BY <1>3 DEF Succeeds, JobInv, ChunksInv
  <2>3. ASSUME NEW ms \in SUBSET job.parts, Rest \subseteq ms, Arrive(ms),
               NEW m \in job.parts
        PROVE  Copies(m)' # {}
    BY <1>b, <2>2, <2>3, CopiesRequested
  <2>4. ASSUME Unsupported, NEW m \in job.parts
        PROVE  kind[m] = "other"
    <3>1. PICK n \in job.parts : kind[n] = "other"
      BY <2>4 DEF Unsupported
    <3>2. ~IsAlbum(job.unit) /\ job.parts = Units[job.unit]
      BY <2>2, <3>1 DEF Sendable
    <3>3. m = n
      BY <2>2, <3>2, SameIfAlone, FeedTyped DEF IsAlbum
    <3> QED
      BY <3>1, <3>3
  <2>5. ASSUME NEW void, void # {}, void = {Part}, job.todo # {}, Finish(void)
        PROVE  Units[job.unit] \cap history'.void # {}
    <3>1. Part \in Units[job.unit]
      BY <1>3, <2>2, <2>5, PartIn, FeedTyped DEF Succeeds, JobInv, Rest, TypeOK
    <3>2. history'.void = history.void \cup void
      BY <1>0, <2>5 DEF Finish, Histories
    <3> QED
      BY <2>5, <3>1, <3>2
  <2>6. \/ Units[job.unit] \cap history'.void # {}
        \/ \A m \in Sendable(job.unit) : kind[m] # "other" => Copies(m)' # {}
    <3>1. CASE AllSent
      BY <2>2, <2>3, <3>1 DEF AllSent, Answered
    <3>2. CASE Unsupported
      BY <2>2, <2>4, <3>2
    <3>3. CASE \E void \in {{}, {Part}} : void # {} /\ Finish(void) /\ job.todo # {}
      BY <2>5, <3>3
    <3> QED
      BY <1>3, <3>1, <3>2, <3>3 DEF Succeeds
  <2> QED
    BY <1>a, <1>b, <2>1, <2>6 DEF Delivered, Sendable
<1>4. CASE Fails
  BY <1>4, <1>c, LostTyped DEF Fails, Lost, Refused
<1>5. CASE Outside
  BY <1>0, <1>5, <1>c DEF Outside, ProcessUnit, Evict, BotComment, Histories
<1> QED
  BY <1>a, <1>1, <1>2, <1>3, <1>4, <1>5 DEF Shapes
-----------------------------------------------------------------------------
(* The replies *)

\* Answers after the step, of an entry before it.
WillAnswer(i, asked) == asked \in target'[i].src \cup history'.comments

\* A mapping keeps its meaning.
LEMMA AnswersStay ==
  ASSUME FeedAssumption, TypeOK, JobInv, Next, NEW i \in DOMAIN target, NEW asked,
         Answers(i, asked)
  PROVE  WillAnswer(i, asked)
BY StepTarget, HistoryGrows DEF Answers, WillAnswer

LEMMA MapsStay ==
  ASSUME FeedAssumption, TypeOK, JobInv, Next, NEW map \in Mapping(Len(target)), Maps(map),
         NEW m \in Messages, map[m] # 0
  PROVE  WillAnswer(map[m], m)
<1>1. map[m] \in DOMAIN target
  BY DEF TypeOK, Mapping
<1> QED
  BY <1>1, AnswersStay DEF Maps

LEMMA StepMapped ==
  ASSUME FeedAssumption, TypeOK, JobInv, RepliesInv, Next
  PROVE  Maps(cache)' /\ Maps(db)'
<1>a. /\ cache \in Mapping(Len(target)) /\ db \in Mapping(Len(target))
      /\ Maps(cache) /\ Maps(db) /\ job.parts \in SUBSET Messages
      /\ target \in Seq(Posts) /\ Len(target) \in Nat
  BY DEF TypeOK, Mapping, RepliesInv, Jobs
<1>b. ASSUME NEW map \in {cache, db}, NEW m \in Messages, map[m] # 0
      PROVE  WillAnswer(map[m], m)
  BY <1>a, <1>b, MapsStay
<1>c. ASSUME NEW ms \in SUBSET Messages, StoreMapping(ms),
             \A m \in ms : WillAnswer(Len(target) + 1, m)
      PROVE  Maps(cache)' /\ Maps(db)'
  <2>1. ASSUME NEW m \in Messages
        PROVE  /\ cache'[m] # 0 => WillAnswer(cache'[m], m)
               /\ db'[m] # 0 => WillAnswer(db'[m], m)
    <3>1. /\ cache'[m] = IF m \in ms THEN Len(target) + 1 ELSE cache[m]
          /\ db'[m] \in {db[m], IF m \in ms THEN Len(target) + 1 ELSE db[m]}
      BY <1>c, StoreTyped
    <3> QED
      BY <1>b, <1>c, <3>1
  <2> QED
    BY <2>1 DEF Maps, Answers, WillAnswer
<1>1. CASE UNCHANGED <<target, cache, db>>
  BY <1>b, <1>1 DEF Maps, Answers, WillAnswer
<1>2. ASSUME NEW ms \in SUBSET job.parts, Requested(ms)
      PROVE  Maps(cache)' /\ Maps(db)'
  <2>1. PICK post \in Posts : target' = Append(target, post) /\ post.src = ms
    BY <1>a, <1>2, ArriveTyped DEF Requested
  <2>2. target'[Len(target) + 1].src = ms
    BY <1>a, <2>1
  <2>3. ASSUME NEW m \in ms PROVE WillAnswer(Len(target) + 1, m)
    BY <2>2 DEF WillAnswer
  <2>4. CASE StoreMapping(ms)
    BY <1>a, <1>c, <2>3, <2>4
  <2>5. CASE UNCHANGED <<cache, db>>
    BY <1>b, <2>5 DEF Maps, Answers, WillAnswer
  <2> QED
    BY <1>2, <2>4, <2>5 DEF Requested
<1>3. ASSUME NEW n \in Messages, Evict(n)
      PROVE  Maps(cache)' /\ Maps(db)'
  <2>1. \A m \in Messages : cache'[m] \in {0, cache[m]} /\ db'[m] = db[m]
    BY <1>a, <1>3 DEF Evict, Mapping
  <2> QED
    BY <1>b, <2>1 DEF Maps, Answers, WillAnswer
<1>4. ASSUME NEW n \in Messages, BotComment(n)
      PROVE  Maps(cache)' /\ Maps(db)'
  <2>1. n \in history'.comments
    BY <1>4 DEF BotComment, TypeOK, Histories
  <2> QED
    BY <1>4, <1>c, <2>1 DEF BotComment, WillAnswer
<1> QED
  BY <1>1, <1>2, <1>3, <1>4, StepRequest

\* A message missing in the table is found there later only as the post of the
\* step, or as a comment; when nothing is stored it stays missing.
WillMiss(asked, i) == asked \in Messages =>
                        db'[asked] = 0 \/ db'[asked] >= i \/ asked \in history'.comments
LEMMA MissingStays ==
  ASSUME FeedAssumption, TypeOK, JobInv, Next, NEW asked
  PROVE  /\ Missing(asked) => WillMiss(asked, Len(target) + 1)
         /\ \A i \in 1..Len(target) : Unmapped(asked, i) => WillMiss(asked, i)
         /\ Missing(asked) /\ (UNCHANGED db \/ \E m \in Messages : BotComment(m))
              => Missing(asked)'
<1> SUFFICES ASSUME asked \in Messages
             PROVE  /\ Missing(asked) => WillMiss(asked, Len(target) + 1)
                    /\ \A i \in 1..Len(target) : Unmapped(asked, i) => WillMiss(asked, i)
                    /\ Missing(asked) /\ (UNCHANGED db \/ \E m \in Messages : BotComment(m))
                         => Missing(asked)'
  BY DEF WillMiss, Missing
<1>1. Len(target) \in Nat /\ db[asked] \in 0..Len(target)
  BY DEF TypeOK
<1>2. history.comments \subseteq history'.comments
  BY HistoryGrows
<1>3. db'[asked] \in {db[asked], Len(target) + 1}
  <2>1. ASSUME NEW ms \in SUBSET Messages, StoreMapping(ms)
        PROVE  db'[asked] \in {db[asked], Len(target) + 1}
    BY <2>1, StoreTyped
  <2>2. job.parts \in SUBSET Messages
    BY DEF TypeOK, Jobs
  <2> QED
    BY <2>1, <2>2, StepRequest DEF Requested, Evict, BotComment
<1>4. ASSUME NEW m \in Messages, BotComment(m)
      PROVE  db'[asked] = db[asked] \/ asked \in history'.comments
  <2>1. m \in history'.comments
    BY <1>4 DEF BotComment, TypeOK, Histories
  <2>2. asked # m => db'[asked] = db[asked]
    BY <1>4, StoreTyped DEF BotComment
  <2> QED
    BY <2>1, <2>2
<1>5. Missing(asked) => WillMiss(asked, Len(target) + 1)
  BY <1>1, <1>2, <1>3 DEF Missing, WillMiss
<1>6. \A i \in 1..Len(target) : Unmapped(asked, i) => WillMiss(asked, i)
  BY <1>1, <1>2, <1>3 DEF Unmapped, WillMiss
<1>7. Missing(asked) /\ (UNCHANGED db \/ \E m \in Messages : BotComment(m))
        => Missing(asked)'
  BY <1>2, <1>4 DEF Missing
<1> QED
  BY <1>5, <1>6, <1>7

\* What was picked before the step, after it.
WillLack(asked) == asked \in Messages => db'[asked] = 0 \/ asked \in history'.comments
WillPick(ids, reply) ==
  \E k \in DOMAIN ids : WillAnswer(reply, ids[k]) /\ \A j \in 1..(k - 1) : WillLack(ids[j])
LEMMA PickedStays ==
  ASSUME FeedAssumption, TypeOK, JobInv, Next, NEW m \in Messages,
         NEW reply \in DOMAIN target, Picked(Replies[m], reply),
         UNCHANGED db \/ \E n \in Messages : BotComment(n)
  PROVE  WillPick(Replies[m], reply)
<1>1. PICK k \in DOMAIN Replies[m] :
        Answers(reply, Replies[m][k]) /\ \A j \in 1..(k - 1) : Missing(Replies[m][j])
  BY DEF Picked
<1>2. WillAnswer(reply, Replies[m][k])
  BY <1>1, AnswersStay
<1>3. ASSUME NEW asked, Missing(asked) PROVE WillLack(asked)
  BY <1>3, MissingStays DEF Missing, WillLack
<1> QED
  BY <1>1, <1>2, <1>3 DEF WillPick

LEMMA KeptPicked ==
  ASSUME FeedAssumption, TypeOK, RepliesInv, NEW ms \in SUBSET Messages, ms # {},
         KeptReply(ms) # 0
  PROVE  \E m \in ms : Picked(Replies[m], KeptReply(ms))
<1> DEFINE ids == Replies[Carrier(ms)]
<1>1. Carrier(ms) \in ms /\ ids \in Seq(Nat \ {0}) /\ DOMAIN ids = 1..Len(ids)
  BY CarrierIn, FeedTyped
<1>2. Found(ids) # {} /\ Found(ids) \in SUBSET Nat
  BY <1>1 DEF KeptReply, Found
<1> DEFINE k == Min(Found(ids))
<1>3. k \in Found(ids) /\ \A y \in Found(ids) : k <= y
  BY <1>2, MinIn
<1>4. KeptReply(ms) = Lookup(ids[k])
  BY <1>2 DEF KeptReply
<1> HIDE DEF k
<1>5. k \in DOMAIN ids
  BY <1>3 DEF Found
<1>6. Answers(KeptReply(ms), ids[k])
  BY <1>4, <1>5 DEF Lookup, RepliesInv, Maps
<1>7. ASSUME NEW j \in 1..(k - 1) PROVE Missing(ids[j])
  <2>1. j \in DOMAIN ids /\ j \notin Found(ids)
    BY <1>1, <1>3, <1>5
  <2>2. Lookup(ids[j]) = 0
    BY <2>1 DEF Found
  <2> QED
    BY <2>2 DEF Lookup, Missing
<1> QED
  BY <1>1, <1>5, <1>6, <1>7 DEF Picked

LEMMA StepReply ==
  ASSUME FeedAssumption, TypeOK, JobInv, RepliesInv, Next
  PROVE  ReplyInv'
<1>a. Shapes
  BY StepShape
<1>b. /\ job.parts \in SUBSET Messages /\ job.reply \in 0..Len(target)
      /\ DOMAIN target = 1..Len(target) /\ Len(target) \in Nat
  BY DEF TypeOK, Jobs
\* The reply was looked up before the step.
<1>c. ASSUME NEW ms \in SUBSET Messages, ms # {}, UNCHANGED db,
             job'.parts = ms, job'.reply = KeptReply(ms)
      PROVE  ReplyInv'
  <2> SUFFICES ASSUME KeptReply(ms) # 0
               PROVE  \E m \in ms : WillPick(Replies[m], KeptReply(ms))
    BY <1>c DEF ReplyInv, Picked, Answers, Missing, WillPick, WillAnswer, WillLack
  <2>1. PICK m \in ms : Picked(Replies[m], KeptReply(ms))
    BY <1>c, KeptPicked
  <2>2. KeptReply(ms) \in DOMAIN target
    BY <1>b, <1>c, KeptTyped
  <2> QED
    BY <1>c, <2>1, <2>2, PickedStays
<1>d. ASSUME job.at # "idle", job'.parts = job.parts, job'.reply = job.reply,
             First' => First, UNCHANGED db \/ \E m \in Messages : BotComment(m)
      PROVE  ReplyInv'
  <2> SUFFICES ASSUME job.reply # 0, First
               PROVE  \E m \in job.parts : WillPick(Replies[m], job.reply)
    BY <1>d DEF ReplyInv, Picked, Answers, Missing, WillPick, WillAnswer, WillLack
  <2>1. PICK m \in job.parts : Picked(Replies[m], job.reply)
    BY <1>d DEF ReplyInv, RepliesInv
  <2> QED
    BY <1>b, <1>d, <2>1, PickedStays
<1>1. CASE GoesOn
  <2>1. job.parts # {} /\ (First' => First) /\ UNCHANGED db
    BY <1>1 DEF GoesOn, Onward, JobInv, First, Rest, Quiet, Unanswered
  <2> QED
    BY <1>1, <1>b, <1>c, <1>d, <2>1 DEF GoesOn, Onward
<1>2. CASE ChunkSent
  <2>1. ~First'
    BY <1>2 DEF ChunkSent, Onward, First, JobInv, Rest
  <2> QED
    BY <2>1 DEF ReplyInv
<1>3. CASE Succeeds
  BY <1>3 DEF Succeeds, Finish, Idle, ReplyInv
<1>4. CASE Fails
  <2>1. Sendable(job.unit) = job.parts /\ job.parts # {} /\ UNCHANGED db
    BY <1>4 DEF Fails, JobInv, Refused, Lost, Unanswered
  <2>2. ASSUME job' = Start(job.unit, job.attempt + 1) PROVE ReplyInv'
    BY <1>b, <1>c, <2>1, <2>2 DEF Start
  <2>3. ASSUME job' = [Idle EXCEPT !.unit = job.unit] PROVE ReplyInv'
    BY <2>3 DEF Idle, ReplyInv
  <2> QED
    BY <1>4, <2>2, <2>3 DEF Fails
<1>5. CASE ProcessUnit
  <2>1. CASE Sendable(job.unit + 1) = {}
    BY <1>5, <2>1 DEF ProcessUnit, TypeOK, Jobs, ReplyInv
  <2>2. CASE Sendable(job.unit + 1) # {}
    <3>1. Sendable(job.unit + 1) \in SUBSET Messages
      <4>1. job.unit + 1 \in DOMAIN Units
        BY <1>5, FeedTyped DEF ProcessUnit, TypeOK, Jobs
      <4> QED
        BY <4>1, FeedTyped
    <3> QED
      BY <1>5, <1>c, <2>2, <3>1 DEF ProcessUnit, Start
  <2> QED
    BY <2>1, <2>2
<1>6. ASSUME NEW n \in Messages, Evict(n) \/ BotComment(n)
      PROVE  ReplyInv'
  <2>1. job' = job /\ (UNCHANGED db \/ BotComment(n)) /\ First' = First
    BY <1>6 DEF Evict, BotComment, First
  <2>2. CASE job.at = "idle"
    BY <2>1, <2>2 DEF ReplyInv
  <2> QED
    BY <1>d, <2>1, <2>2
<1> QED
  BY <1>a, <1>1, <1>2, <1>3, <1>4, <1>5, <1>6 DEF Shapes, Outside

LEMMA PostTyped ==
  ASSUME TypeOK
  PROVE  \A i \in DOMAIN target : target[i].reply \in Nat
<1>1. \A i \in DOMAIN target : target[i] \in Posts
  BY DEF TypeOK
<1> QED
  BY <1>1 DEF Posts

LEMMA PostsReply ==
  ASSUME FeedAssumption, TypeOK, JobInv, RepliesInv, Next
  PROVE  \A i \in DOMAIN target' : target'[i].reply <= Len(target')
<1>a. /\ job.parts \in SUBSET Messages /\ job.reply \in 0..Len(target)
      /\ target \in Seq(Posts) /\ Len(target) \in Nat
      /\ \A i \in DOMAIN target : target[i].reply <= Len(target)
  BY DEF TypeOK, Jobs, RepliesInv
<1>b. ASSUME NEW post \in Posts, target' = Append(target, post), post.reply <= Len(target)
      PROVE  \A i \in DOMAIN target' : target'[i].reply <= Len(target')
  <2>1. /\ DOMAIN target' = DOMAIN target \cup {Len(target) + 1}
        /\ Len(target') = Len(target) + 1
        /\ \A i \in DOMAIN target : target'[i] = target[i]
        /\ target'[Len(target) + 1] = post
    BY <1>a, <1>b
  <2>2. \A i \in DOMAIN target : target[i].reply \in Nat
    BY PostTyped
  <2>3. post.reply \in Nat
    BY DEF Posts
  <2> QED
    BY <1>a, <1>b, <2>1, <2>2, <2>3
<1>1. CASE UNCHANGED <<target, cache, db>>
  BY <1>a, <1>1
<1>2. ASSUME NEW ms \in SUBSET job.parts, Requested(ms)
      PROVE  \A i \in DOMAIN target' : target'[i].reply <= Len(target')
  <2>1. PICK post \in Posts :
          target' = Append(target, post) /\ post.reply \in {0, job.reply}
    BY <1>a, <1>2, ArriveTyped DEF Requested
  <2> QED
    BY <1>a, <1>b, <2>1
<1>3. ASSUME NEW n \in Messages, Evict(n)
      PROVE  \A i \in DOMAIN target' : target'[i].reply <= Len(target')
  BY <1>a, <1>3 DEF Evict
<1>4. ASSUME NEW n \in Messages, BotComment(n)
      PROVE  \A i \in DOMAIN target' : target'[i].reply <= Len(target')
  <2> DEFINE post == [src |-> {}, reply |-> 0, spoiled |-> {}]
  <2>1. post \in Posts /\ post.reply = 0 /\ target' = Append(target, post)
    BY <1>4 DEF BotComment, Posts
  <2> HIDE DEF post
  <2> QED
    BY <1>a, <1>b, <2>1
<1> QED
  BY <1>1, <1>2, <1>3, <1>4, StepRequest

\* What a post has chosen, after the step.
WillChoose(ids, reply, i) ==
  \E k \in DOMAIN ids : /\ WillAnswer(reply, ids[k])
                         /\ \A j \in 1..(k - 1) : WillMiss(ids[j], i)
LEMMA StepReplies ==
  ASSUME FeedAssumption, TypeOK, JobInv, RepliesInv, Next
  PROVE  RepliesRight'
<1>a. /\ job.parts \in SUBSET Messages /\ job.reply \in 0..Len(target)
      /\ target \in Seq(Posts) /\ Len(target) \in Nat /\ DOMAIN target = 1..Len(target)
      /\ \A i \in DOMAIN target : target[i].reply <= Len(target)
      /\ \A i \in DOMAIN target : target[i].reply \in Nat
  BY PostTyped DEF TypeOK, Jobs, RepliesInv
<1>b. /\ \A i \in DOMAIN target : target'[i] = target[i]
      /\ \A i \in DOMAIN target : \A asked : Answers(i, asked) => WillAnswer(i, asked)
  BY StepTarget, AnswersStay
\* A post of before the step
<1>c. ASSUME NEW i \in DOMAIN target, target[i].reply # 0
      PROVE  \E m \in target'[i].src : \E n \in Messages :
               SameUnit(m, n) /\ WillChoose(Replies[n], target'[i].reply, i)
  <2>1. PICK m \in target[i].src, n \in Messages :
          SameUnit(m, n) /\ Chosen(Replies[n], target[i].reply, i)
    BY <1>c DEF RepliesInv, RepliesRight
  <2>2. target[i].reply \in DOMAIN target
    BY <1>a, <1>c
  <2>3. PICK k \in DOMAIN Replies[n] :
          /\ Answers(target[i].reply, Replies[n][k])
          /\ \A j \in 1..(k - 1) : Unmapped(Replies[n][j], i)
    BY <2>1 DEF Chosen
  <2>4. \A j \in 1..(k - 1) : WillMiss(Replies[n][j], i)
    BY <1>a, <2>3, MissingStays
  <2>5. WillChoose(Replies[n], target[i].reply, i)
    BY <1>b, <2>2, <2>3, <2>4 DEF WillChoose
  <2> QED
    BY <1>b, <2>1, <2>5
\* The post of the step
<1>d. ASSUME NEW post \in Posts, target' = Append(target, post),
             post.reply # 0 => \E m \in post.src : \E n \in Messages :
               SameUnit(m, n) /\ WillChoose(Replies[n], post.reply, Len(target) + 1)
      PROVE  RepliesRight'
  <2>1. /\ DOMAIN target' = DOMAIN target \cup {Len(target) + 1}
        /\ target'[Len(target) + 1] = post
    BY <1>a, <1>d
  <2>2. ASSUME NEW i \in DOMAIN target', target'[i].reply # 0
        PROVE  \E m \in target'[i].src : \E n \in Messages :
                 SameUnit(m, n) /\ WillChoose(Replies[n], target'[i].reply, i)
    BY <1>b, <1>c, <1>d, <2>1, <2>2
  <2> QED
    BY <2>2 DEF RepliesRight, WillChoose, Chosen, WillAnswer, Answers, WillMiss, Unmapped
<1>1. CASE UNCHANGED target
  BY <1>b, <1>c, <1>1
     DEF RepliesRight, WillChoose, Chosen, WillAnswer, Answers, WillMiss, Unmapped
<1>2. ASSUME NEW ms \in SUBSET job.parts, ms # {}, job.at # "idle", Requested(ms)
      PROVE  RepliesRight'
  <2>1. PICK post \in Posts : /\ target' = Append(target, post) /\ post.src = ms
                              /\ post.reply \in {0, job.reply}
                              /\ post.reply # 0 => First
    BY <1>a, <1>2, ArriveTyped DEF Requested
  <2>2. ASSUME post.reply # 0
        PROVE  \E m \in post.src : \E n \in Messages :
                 SameUnit(m, n) /\ WillChoose(Replies[n], post.reply, Len(target) + 1)
    <3>1. post.reply = job.reply /\ job.reply \in DOMAIN target
      BY <1>a, <2>1, <2>2
    <3>2. PICK n \in job.parts : Picked(Replies[n], job.reply)
      BY <1>2, <2>1, <2>2, <3>1 DEF RepliesInv, ReplyInv
    <3>3. PICK m \in ms : TRUE
      BY <1>2
    <3>4. SameUnit(m, n) /\ n \in Messages
      BY <1>a, <1>2, <3>2, <3>3, FeedTyped DEF JobInv, SameUnit
    <3>5. PICK k \in DOMAIN Replies[n] :
            Answers(job.reply, Replies[n][k]) /\ \A j \in 1..(k - 1) : Missing(Replies[n][j])
      BY <3>2 DEF Picked
    <3>6. \A j \in 1..(k - 1) : WillMiss(Replies[n][j], Len(target) + 1)
      BY <3>5, MissingStays
    <3>7. WillChoose(Replies[n], job.reply, Len(target) + 1)
      BY <1>b, <3>1, <3>5, <3>6 DEF WillChoose
    <3> QED
      BY <2>1, <3>1, <3>3, <3>4, <3>7
  <2> QED
    BY <1>d, <2>1, <2>2
<1>3. ASSUME NEW n \in Messages, BotComment(n)
      PROVE  RepliesRight'
  <2> DEFINE post == [src |-> {}, reply |-> 0, spoiled |-> {}]
  <2>1. post \in Posts /\ post.reply = 0 /\ target' = Append(target, post)
    BY <1>3 DEF BotComment, Posts
  <2> HIDE DEF post
  <2> QED
    BY <1>d, <2>1
<1> QED
  BY <1>1, <1>2, <1>3, StepRequest DEF Evict
-----------------------------------------------------------------------------
(* The invariant, and the properties *)

LEMMA PublishInitInv ==
  ASSUME FeedAssumption, Init
  PROVE  PublishInv
<1>1. Idle \in Jobs /\ Idle.at = "idle" /\ Idle.reply = 0 /\ Idle.bad = {}
  BY FeedTyped DEF Idle, Jobs
<1>2. target = <<>> /\ Len(target) = 0 /\ DOMAIN target = {} /\ target \in Seq(Posts)
  BY DEF Init
<1>3. TypeOK
  <2>1. history \in Histories
    BY FeedTyped DEF Init, Histories
  <2>2. [m \in Messages |-> 0] \in [Messages -> 0..Len(target)]
    BY <1>2
  <2> QED
    BY <1>1, <1>2, <2>1, <2>2 DEF TypeOK, Init
<1>4. JobInv /\ ChunksInv /\ Delivered /\ FilesInv /\ BytesInv
  BY <1>1, <1>2 DEF Init, JobInv, ChunksInv, Delivered, FilesInv, TempFilesGone,
                    BytesInv, PartInv, FilesWhole
<1>5. CopiesInv
  <2>1. \A m : Copies(m) = {}
    BY <1>2 DEF Copies
  <2>2. \A m \in Messages : history.lost[m] = 0
    BY DEF Init
  <2> QED
    BY <2>1, <2>2, FS_EmptySet DEF CopiesInv
<1>6. RepliesInv
  BY <1>1, <1>2 DEF Init, RepliesInv, Maps, ReplyInv, RepliesRight
<1> QED
  BY <1>3, <1>4, <1>5, <1>6 DEF PublishInv

LEMMA PublishStepInv ==
  ASSUME FeedAssumption, PublishInv, [Next]_vars
  PROVE  PublishInv'
<1>1. CASE Next
  <2>a. /\ TypeOK /\ JobInv /\ CopiesInv /\ ChunksInv /\ Delivered
        /\ FilesOK /\ BytesInv /\ RepliesInv
    BY DEF PublishInv, TypeOK, FilesOK, Disks
  <2>1. job' \in Jobs /\ JobInv' /\ job'.reply \in 0..Len(target)
    BY <1>1, <2>a, StepJob
  <2>2. FilesOK'
    BY <1>1, <2>a, StepFiles
  <2>3. TypeOK'
    <3>1. UNCHANGED <<setup, kind>>
      BY <1>1, <2>a, StepShape
    <3>2. /\ target' \in Seq(Posts) /\ job'.reply <= Len(target')
      BY <1>1, <2>1, <2>a, StepTarget
    <3>3. cache' \in [Messages -> 0..Len(target')] /\ db' \in [Messages -> 0..Len(target')]
      BY <1>1, <2>a, StepMaps DEF Mapping
    <3>4. history' \in Histories
      BY <1>1, <2>a, StepHistory
    <3> QED
      BY <2>a, <2>1, <2>2, <3>1, <3>2, <3>3, <3>4 DEF TypeOK, FilesOK, Disks
  <2>4. CopiesInv' /\ ChunksInv' /\ Delivered'
    BY <1>1, <2>a, StepCopies, StepChunks, StepDelivered
  <2>5. BytesInv'
    BY <1>1, <2>a, StepPart, StepWhole DEF BytesInv
  <2>6. RepliesInv'
    BY <1>1, <2>a, StepMapped, StepReply, PostsReply, StepReplies DEF RepliesInv
  <2> QED
    BY <2>1, <2>2, <2>3, <2>4, <2>5, <2>6 DEF PublishInv, FilesOK
<1>2. CASE UNCHANGED vars
  <2> USE <1>2 DEF vars
  <2>1. TypeOK'
    BY DEF PublishInv, TypeOK
  <2>2. JobInv' /\ ChunksInv' /\ Delivered'
    BY DEF PublishInv, JobInv, Rest, First, InParts, Bot, Sendable, ChunksInv,
           Delivered, Copies
  <2>3. CopiesInv'
    BY DEF PublishInv, CopiesInv, InChunks, Copies, Ahead
  <2>4. FilesInv' /\ BytesInv'
    BY DEF PublishInv, FilesInv, TempFilesGone, Downloaded, Part, BytesInv, PartInv,
           FilesWhole
  <2>5. RepliesInv'
    BY DEF PublishInv, RepliesInv, Maps, ReplyInv, First, Picked, Missing, Answers,
           RepliesRight, Chosen, Unmapped
  <2> QED
    BY <2>1, <2>2, <2>3, <2>4, <2>5 DEF PublishInv
<1> QED
  BY <1>1, <1>2

\* What the invariant says of the copies.
LEMMA SentOnceInv ==
  ASSUME PublishInv
  PROVE  SentOnce
<1> SUFFICES ASSUME NEW m \in Messages, ~InChunks(m)
             PROVE  Cardinality(Copies(m)) <= 1 + history.lost[m]
  BY DEF SentOnce
<1>1. /\ Cardinality(Copies(m)) <= history.lost[m] + (IF Ahead(m) THEN 0 ELSE 1)
      /\ Cardinality(Copies(m)) \in Nat /\ history.lost[m] \in Nat
  BY CopiesFinite DEF PublishInv, CopiesInv, TypeOK, Histories
<1> QED
  BY <1>1

\* The calls of pipeline.go, send_result.go, media.go and bot_publish.go keep the
\* whole invariant, for every feed, chunk size and number of tries.
THEOREM PublishInvHolds ==
  ASSUME FeedAssumption
  PROVE  Spec => []PublishInv
<1>1. Init => PublishInv
  BY PublishInitInv
<1>2. PublishInv /\ [Next]_vars => PublishInv'
  BY PublishStepInv
<1> QED
  BY <1>1, <1>2, PTL DEF Spec
=============================================================================
