------------------------- MODULE BotCommandsProofs -------------------------
(***************************************************************************)
(* Safety of the example server, for any number of requests side by side,  *)
(* any limit, and files of any number of chunks with any number of         *)
(* attempts.                                                               *)
(***************************************************************************)
EXTENDS BotCommands, FiniteSetTheorems, TLAPS

-----------------------------------------------------------------------------
(* Messages *)

HasFile(message) == message.content.tag \in {"Image", "File"}

(* Every answer is final, and only three commands answer with a file. *)
LEMMA AnswerShape ==
    ASSUME NEW r, NEW request
    PROVE  /\ Answer(r, request).finalised = TRUE
           /\ request.job \notin Uploaders => ~HasFile(Answer(r, request))
<1> USE DEF NewMessage, SetContextMessageId, SetCaption, HasFile
<1>1. CASE request.job = "imagine"
  BY <1>1 DEF Answer, ImageMessage, Uploaders
<1>2. CASE request.job = "image"
  BY <1>2 DEF Answer, ImageMessage, Uploaders
<1>3. CASE request.job = "file"
  BY <1>3 DEF Answer, FileMessage, Uploaders
<1>4. CASE request.job = "poll"
  BY <1>4 DEF Answer, PollMessage
<1>5. CASE request.job \notin {"imagine", "image", "file", "poll"}
  BY <1>5 DEF Answer, Text, TextMessage
<1> QED
  BY <1>1, <1>2, <1>3, <1>4, <1>5

(* A placeholder is a text. *)
LEMMA PlaceholderShape ==
    ASSUME NEW r, NEW request
    PROVE  ~HasFile(Placeholder(r, request))
BY DEF HasFile, Placeholder, SetFinalised, Text, TextMessage, NewMessage, SetContextMessageId

(* What is new in sends *)
SentCall(r, message, caught) ==
    [run |-> r, message |-> message, caught |-> caught, state |-> "sent", promise |-> "pending"]

(* sendMessage is called once or not at all. *)
LEMMA CallCases ==
    ASSUME NEW r, NEW request, NEW message, NEW caught
    PROVE  \/ Call(r, request, message, caught) = {}
           \/ Call(r, request, message, caught) = {SentCall(r, message, caught)}
BY DEF Call, SentCall

-----------------------------------------------------------------------------
(* Uploads *)

(* A chunk that the code takes for stored is stored, and an upload is      *)
(* resolved only when all of its chunks are.                               *)
UploadsSound ==
    /\ U!UploadsOK
    /\ \A o \in Runs :
        /\ \A i \in U!Chunks :
            uploads[o].chunks[i].at \in {"Success", "completed"} => i \in uploads[o].stored
        /\ uploads[o].at = "resolved" => \A i \in U!Chunks : uploads[o].chunks[i].at = "completed"

UploadRecord ==
    [at : {"none", "allocating", "uploading", "resolved", "rejected"}, accessible : BOOLEAN,
     chunks : [U!Chunks -> [attempt : 1..MaxAttempts, at : U!ChunkStages]],
     stored : SUBSET U!Chunks]

(* UploadsSound, of the upload of one owner *)
Sound(upload) ==
    /\ upload \in UploadRecord
    /\ \A i \in U!Chunks : upload.chunks[i].at \in {"Success", "completed"} => i \in upload.stored
    /\ upload.at = "resolved" => \A i \in U!Chunks : upload.chunks[i].at = "completed"

LEMMA SoundUploads ==
    UploadsSound <=> uploads \in [Runs -> UploadRecord] /\ \A o \in Runs : Sound(uploads[o])
<1>1. U!UploadsOK <=> uploads \in [Runs -> UploadRecord]
  BY DEF UploadRecord, U!UploadsOK
<1>2. UploadsSound => \A o \in Runs : Sound(uploads[o])
  BY <1>1 DEF UploadsSound, Sound
<1>3. ASSUME uploads \in [Runs -> UploadRecord], \A o \in Runs : Sound(uploads[o])
      PROVE  UploadsSound
  BY <1>1, <1>3 DEF UploadsSound, Sound
<1> QED
  BY <1>1, <1>2, <1>3 DEF UploadsSound

(* An upload that is resolved has stored the file. *)
LEMMA ResolvedIsStored ==
    ASSUME UploadsSound, NEW r \in Runs, uploads[r].at = "resolved"
    PROVE  U!Stored(r)
<1>1. Sound(uploads[r])
  BY SoundUploads
<1>2. uploads[r].stored \subseteq U!Chunks
  BY <1>1 DEF Sound, UploadRecord
<1>3. \A i \in U!Chunks : uploads[r].chunks[i].at = "completed"
  BY <1>1 DEF Sound
<1>4. U!Chunks \subseteq uploads[r].stored
  BY <1>1, <1>3 DEF Sound
<1> QED
  BY <1>2, <1>4 DEF U!Stored

(* The uploads stay sound, and a file that is stored stays stored, when    *)
(* one of them changes into a sound one that has stored as much.           *)
LEMMA UploadChanges ==
    ASSUME UploadsSound, NEW o \in Runs, NEW upload,
           uploads' = [uploads EXCEPT ![o] = upload],
           Sound(upload), uploads[o].stored \subseteq upload.stored
    PROVE  UploadsSound' /\ \A r \in Runs : U!Stored(r) => U!Stored(r)'
<1>1. uploads \in [Runs -> UploadRecord] /\ \A r \in Runs : Sound(uploads[r])
  BY SoundUploads
<1>2. upload \in UploadRecord
  BY DEF Sound
<1>3. uploads' \in [Runs -> UploadRecord] /\ \A r \in Runs : Sound(uploads'[r])
  BY <1>1, <1>2
<1>4. UploadsSound'
  <2>1. U!UploadsOK'
    BY <1>3 DEF UploadRecord, U!UploadsOK
  <2> QED
    BY <1>3, <2>1 DEF UploadsSound, Sound
<1>5. ASSUME NEW r \in Runs, U!Stored(r) PROVE U!Stored(r)'
  <2>1. upload.stored \subseteq U!Chunks
    BY <1>2 DEF UploadRecord
  <2>2. uploads'[r] = IF r = o THEN upload ELSE uploads[r]
    BY <1>1
  <2>3. uploads[r].stored = U!Chunks
    BY <1>5 DEF U!Stored
  <2>4. CASE r = o
    <3>1. upload.stored = U!Chunks
      BY <2>1, <2>3, <2>4
    <3> QED
      BY <2>2, <2>4, <3>1 DEF U!Stored
  <2>5. CASE r # o
    BY <2>2, <2>3, <2>5 DEF U!Stored
  <2> QED
    BY <2>4, <2>5
<1> QED
  BY <1>4, <1>5

LEMMA BeginUploadSound ==
    ASSUME UploadsSound, NEW o \in Runs, NEW accessible \in BOOLEAN, U!BeginUpload(o, accessible)
    PROVE  UploadsSound' /\ \A r \in Runs : U!Stored(r) => U!Stored(r)'
<1> DEFINE upload == [uploads[o] EXCEPT !.at = "allocating", !.accessible = accessible]
<1>1. uploads \in [Runs -> UploadRecord] /\ Sound(uploads[o])
  BY SoundUploads
<1>2. uploads' = [uploads EXCEPT ![o] = upload]
  BY <1>1 DEF U!BeginUpload
<1>3. Sound(upload) /\ uploads[o].stored \subseteq upload.stored
  BY <1>1 DEF Sound, UploadRecord
<1> QED
  BY <1>2, <1>3, UploadChanges

(* What becomes of an upload with these chunks is an end only if they are. *)
LEMMA OutcomeSound ==
    ASSUME NEW chunks
    PROVE  /\ U!Outcome(chunks) \in {"uploading", "resolved", "rejected"}
           /\ U!Outcome(chunks) = "resolved" => \A i \in U!Chunks : chunks[i].at = "completed"
BY DEF U!Outcome

LEMMA AllocateSound ==
    ASSUME UploadsSound, NEW o \in Runs, U!Allocate(o)
    PROVE  UploadsSound' /\ \A r \in Runs : U!Stored(r) => U!Stored(r)'
<1>1. uploads \in [Runs -> UploadRecord] /\ Sound(uploads[o])
  BY SoundUploads
<1>2. PICK at \in {"rejected", U!Outcome(uploads[o].chunks)} :
        uploads' = [uploads EXCEPT ![o].at = at]
  BY DEF U!Allocate
<1> DEFINE upload == [uploads[o] EXCEPT !.at = at]
<1>3. uploads' = [uploads EXCEPT ![o] = upload]
  BY <1>1, <1>2
<1>4. /\ at \in {"uploading", "resolved", "rejected"}
      /\ at = "resolved" => \A i \in U!Chunks : uploads[o].chunks[i].at = "completed"
  BY <1>2, OutcomeSound
<1>5. Sound(upload) /\ uploads[o].stored \subseteq upload.stored
  BY <1>1, <1>4 DEF Sound, UploadRecord
<1> QED
  BY <1>3, <1>5, UploadChanges

(* A chunk that waits gets a reply: "Success" only if it is stored. *)
LEMMA ReplySound ==
    ASSUME UploadsSound, NEW o \in Runs, NEW i \in U!Chunks, U!Uploading(o, i),
           NEW stored \in SUBSET U!Chunks, NEW reply \in U!Replies,
           uploads[o].stored \subseteq stored, reply = "Success" => i \in stored,
           uploads' = [uploads EXCEPT ![o].stored = stored, ![o].chunks[i].at = reply]
    PROVE  UploadsSound' /\ \A r \in Runs : U!Stored(r) => U!Stored(r)'
<1> DEFINE upload == [uploads[o] EXCEPT !.stored = stored, !.chunks[i].at = reply]
<1>1. uploads \in [Runs -> UploadRecord] /\ Sound(uploads[o])
  BY SoundUploads
<1>2. uploads' = [uploads EXCEPT ![o] = upload]
  <2> DEFINE stage == [uploads EXCEPT ![o].stored = stored]
  <2>1. stage[o] = [uploads[o] EXCEPT !.stored = stored] /\ DOMAIN stage = Runs
    BY <1>1
  <2>2. uploads' = [stage EXCEPT ![o].chunks[i].at = reply]
    OBVIOUS
  <2>3. uploads' = [stage EXCEPT ![o] = upload]
    BY <2>1, <2>2
  <2> QED
    BY <1>1, <2>3
<1>3. uploads[o].chunks[i].at = "sent" /\ uploads[o].at # "resolved"
  BY <1>1 DEF U!Uploading, Sound
<1>4. upload \in UploadRecord
  <2> DEFINE chunk == [uploads[o].chunks[i] EXCEPT !.at = reply]
  <2>1. uploads[o] \in UploadRecord
    BY <1>1
  <2>2. uploads[o].chunks \in [U!Chunks -> [attempt : 1..MaxAttempts, at : U!ChunkStages]]
    BY <2>1 DEF UploadRecord
  <2>3. chunk \in [attempt : 1..MaxAttempts, at : U!ChunkStages]
    BY <2>2 DEF U!ChunkStages
  <2>4. [uploads[o].chunks EXCEPT ![i] = chunk]
            \in [U!Chunks -> [attempt : 1..MaxAttempts, at : U!ChunkStages]]
    BY <2>2, <2>3
  <2>5. upload = [uploads[o] EXCEPT !.stored = stored,
                                    !.chunks = [uploads[o].chunks EXCEPT ![i] = chunk]]
    BY <2>1 DEF UploadRecord
  <2> HIDE DEF chunk
  <2> QED
    BY <2>1, <2>4, <2>5 DEF UploadRecord
<1>5. /\ upload.stored = stored /\ upload.at = uploads[o].at
      /\ upload.chunks[i].at = reply
      /\ \A j \in U!Chunks \ {i} : upload.chunks[j] = uploads[o].chunks[j]
  BY <1>1 DEF UploadRecord
<1>6. reply # "completed"
  BY DEF U!Replies
<1>7. Sound(upload)
  BY <1>1, <1>3, <1>4, <1>5, <1>6 DEF Sound
<1> QED
  BY <1>2, <1>5, <1>7, UploadChanges

LEMMA StoreChunkSound ==
    ASSUME UploadsSound, NEW o \in Runs, NEW i \in U!Chunks, U!StoreChunk(o, i)
    PROVE  UploadsSound' /\ \A r \in Runs : U!Stored(r) => U!Stored(r)'
<1>1. uploads \in [Runs -> UploadRecord] /\ uploads[o] \in UploadRecord /\ U!Uploading(o, i)
  BY SoundUploads DEF Sound, U!StoreChunk
<1>2. uploads[o].stored \in SUBSET U!Chunks
  BY <1>1 DEF UploadRecord
<1>3. CASE uploads' = [uploads EXCEPT ![o].stored = @ \cup {i}, ![o].chunks[i].at = "Success"]
  <2>1. uploads' = [uploads EXCEPT ![o].stored = uploads[o].stored \cup {i},
                                   ![o].chunks[i].at = "Success"]
    BY <1>1, <1>3
  <2> DEFINE stored == uploads[o].stored \cup {i}
  <2>2. stored \in SUBSET U!Chunks /\ uploads[o].stored \subseteq stored /\ i \in stored
    BY <1>2
  <2>3. "Success" \in U!Replies
    BY DEF U!Replies
  <2>4. uploads' = [uploads EXCEPT ![o].stored = stored, ![o].chunks[i].at = "Success"]
    BY <2>1
  <2> HIDE DEF stored
  <2> QED
    BY <1>1, <2>2, <2>3, <2>4, ReplySound
<1>4. CASE \E reply \in {"ChunkAlreadyExists", "Refused"} :
                uploads' = [uploads EXCEPT ![o].chunks[i].at = reply]
  <2>1. PICK reply \in {"ChunkAlreadyExists", "Refused"} :
                uploads' = [uploads EXCEPT ![o].chunks[i].at = reply]
    BY <1>4
  <2>2. uploads' = [uploads EXCEPT ![o].stored = uploads[o].stored, ![o].chunks[i].at = reply]
    BY <1>1, <2>1 DEF UploadRecord
  <2>3. reply \in U!Replies /\ reply # "Success"
    BY <2>1 DEF U!Replies
  <2> DEFINE stored == uploads[o].stored
  <2>4. stored \in SUBSET U!Chunks /\ uploads[o].stored \subseteq stored
    BY <1>2
  <2>5. uploads' = [uploads EXCEPT ![o].stored = stored, ![o].chunks[i].at = reply]
    BY <2>2
  <2> HIDE DEF stored
  <2> QED
    BY <1>1, <2>3, <2>4, <2>5, ReplySound
<1> QED
  BY <1>3, <1>4 DEF U!StoreChunk

LEMMA LoseChunkSound ==
    ASSUME UploadsSound, NEW o \in Runs, NEW i \in U!Chunks, U!LoseChunk(o, i)
    PROVE  UploadsSound' /\ \A r \in Runs : U!Stored(r) => U!Stored(r)'
<1>1. uploads[o] \in UploadRecord /\ U!Uploading(o, i)
  BY SoundUploads DEF Sound, U!LoseChunk
<1>2. PICK stored \in {uploads[o].stored, uploads[o].stored \cup {i}} :
        uploads' = [uploads EXCEPT ![o].stored = stored, ![o].chunks[i].at = "Lost"]
  BY DEF U!LoseChunk
<1>3. stored \in SUBSET U!Chunks /\ uploads[o].stored \subseteq stored
  BY <1>1, <1>2 DEF UploadRecord
<1> QED
  BY <1>1, <1>2, <1>3, ReplySound DEF U!Replies

LEMMA ChunkRepliedSound ==
    ASSUME UploadsSound, NEW o \in Runs, NEW i \in U!Chunks, U!ChunkReplied(o, i)
    PROVE  UploadsSound' /\ \A r \in Runs : U!Stored(r) => U!Stored(r)'
<1> DEFINE old == uploads[o]
           chunk == U!NextAttempt(old.chunks[i])
           chunks == [old.chunks EXCEPT ![i] = chunk]
           at == IF old.at = "uploading" THEN U!Outcome(chunks) ELSE old.at
           upload == [old EXCEPT !.chunks = chunks, !.at = at]
<1>1. uploads \in [Runs -> UploadRecord] /\ Sound(old) /\ old \in UploadRecord
  BY SoundUploads DEF Sound
<1>2. old.chunks[i].at \in U!Replies /\ uploads' = [uploads EXCEPT ![o] = upload]
  BY <1>1 DEF U!ChunkReplied
<1>3. /\ chunk \in [attempt : 1..MaxAttempts, at : U!ChunkStages]
      /\ chunk.at \in {"Success", "completed"} => old.chunks[i].at = "Success"
  BY <1>1, <1>2, BotCommandsAssumption
     DEF U!NextAttempt, U!Attempt, U!ChunkStages, U!Replies, UploadRecord
<1>4. old.at # "resolved"
  BY <1>1, <1>2 DEF Sound, U!Replies
<1>5. /\ chunks \in [U!Chunks -> [attempt : 1..MaxAttempts, at : U!ChunkStages]]
      /\ chunks[i] = chunk /\ \A j \in U!Chunks \ {i} : chunks[j] = old.chunks[j]
  BY <1>1, <1>3 DEF UploadRecord
<1>6. /\ at \in {"none", "allocating", "uploading", "resolved", "rejected"}
      /\ at = "resolved" => \A j \in U!Chunks : chunks[j].at = "completed"
  BY <1>1, <1>4, OutcomeSound DEF UploadRecord
<1> HIDE DEF chunk, chunks, at
<1>7. upload \in UploadRecord /\ upload.chunks = chunks /\ upload.at = at
      /\ upload.stored = old.stored
  BY <1>1, <1>5, <1>6 DEF UploadRecord
<1>8. Sound(upload)
  BY <1>1, <1>3, <1>5, <1>6, <1>7 DEF Sound
<1> QED
  BY <1>2, <1>7, <1>8, UploadChanges

(* Whatever an upload does keeps it sound. *)
LEMMA UploadStepSound ==
    ASSUME UploadsSound, NEW o \in Runs, U!UploadStep(o)
    PROVE  UploadsSound' /\ \A r \in Runs : U!Stored(r) => U!Stored(r)'
BY AllocateSound, StoreChunkSound, LoseChunkSound, ChunkRepliedSound DEF U!UploadStep

-----------------------------------------------------------------------------
(* The inductive invariant *)

(* How many calls of sendMessage a handler may have made *)
CallLimit(at) == IF at = "idle" THEN 0 ELSE IF at \in {"working", "uploading"} THEN 1 ELSE 2

(* A request and how far it is; what has shown something keeps it. *)
RunSound(r, run) ==
    \/ run = Idle
    \/ /\ run = [at |-> run.at, request |-> run.request, response |-> run.response]
       /\ run.at \in {"working", "uploading", "givenUp", "over", "crashed"}
       /\ run.request \in Requests[r]
       /\ run.at \in {"over", "givenUp"} => run.response # Missing
       /\ run.at = "working" /\ run.request.job \in Searches \cup Thinkers
            => run.response # Missing
       /\ run.at = "uploading" =>
            /\ run.request.job \in Uploaders
            /\ run.request.job # "image" => run.response # Missing

RunsSound == DOMAIN runs = Runs /\ \A r \in Runs : RunSound(r, runs[r])

CallSound(s) ==
    /\ s = [run |-> s.run, message |-> s.message, caught |-> s.caught, state |-> s.state,
            promise |-> s.promise]
    /\ s.run \in Runs /\ s.caught \in BOOLEAN
    /\ s.state \in {"sent", "posted", "refused"}
    /\ s.promise \in {"pending", "resolved", "rejected"}
    /\ runs[s.run].at # "idle"

(* Calls belong to requests that have come in, and a file that is sent is  *)
(* stored.                                                                 *)
SendsSound == \A s \in sends : CallSound(s) /\ (HasFile(s.message) => U!Stored(s.run))

CallsCounted ==
    \A r \in Runs :
        IsFiniteSet(CallsOf(r)) /\ Cardinality(CallsOf(r)) <= CallLimit(runs[r].at)

IInv ==
    /\ up = (\A r \in Runs : runs[r].at # "crashed")
    /\ hits \in 0..Limit
    /\ RunsSound
    /\ SendsSound
    /\ CallsCounted
    /\ DOMAIN messages = Runs
    /\ UploadsSound
    /\ PostedFilesComplete
    /\ AnswerStays

(* The invariant gives the types. *)
LEMMA InvariantTypes == IInv => TypeOK
<1> SUFFICES ASSUME IInv PROVE TypeOK
  OBVIOUS
<1>1. DOMAIN runs = Runs /\ \A r \in Runs : RunTypes(r)
  BY DEF IInv, RunsSound, RunSound, RunTypes
<1>2. \A s \in sends :
        /\ s.run \in Runs /\ s.caught \in BOOLEAN
        /\ s.state \in {"sent", "posted", "refused"}
        /\ s.promise \in {"pending", "resolved", "rejected"}
  BY DEF IInv, SendsSound, CallSound
<1>3. ASSUME NEW r \in Runs PROVE Cardinality(CallsOf(r)) <= 2
  <2>1. IsFiniteSet(CallsOf(r)) /\ Cardinality(CallsOf(r)) <= CallLimit(runs[r].at)
    BY DEF IInv, CallsCounted
  <2>2. CallLimit(runs[r].at) \in 0..2
    BY DEF CallLimit
  <2>3. Cardinality(CallsOf(r)) \in Nat
    BY <2>1, FS_CardinalityType
  <2> QED
    BY <2>1, <2>2, <2>3
<1> QED
  BY <1>1, <1>2, <1>3 DEF IInv, TypeOK, UploadsSound

LEMMA InvariantInit == Init => IInv
<1> SUFFICES ASSUME Init PROVE IInv
  OBVIOUS
<1>1. /\ up = (\A r \in Runs : runs[r].at # "crashed")
      /\ RunsSound
  BY DEF Init, RunsSound, RunSound, Idle
<1>2. hits \in 0..Limit
  BY BotCommandsAssumption DEF Init
<1>3. SendsSound /\ AnswerStays
  BY DEF Init, SendsSound, AnswerStays
<1>4. ASSUME NEW r \in Runs
      PROVE  IsFiniteSet(CallsOf(r)) /\ Cardinality(CallsOf(r)) <= CallLimit(runs[r].at)
  <2>1. CallsOf(r) = {}
    BY DEF Init, CallsOf
  <2>2. CallLimit(runs[r].at) = 0
    BY DEF Init, Idle, CallLimit
  <2> QED
    BY <2>1, <2>2, FS_EmptySet
<1>5. DOMAIN messages = Runs /\ PostedFilesComplete
  BY DEF Init, PostedFilesComplete
<1>6. UploadsSound
  <2>1. U!NoUpload \in UploadRecord
    BY BotCommandsAssumption
       DEF U!NoUpload, U!Attempt, U!ChunkStages, U!Replies, UploadRecord
  <2>2. Sound(U!NoUpload)
    BY <2>1 DEF Sound, U!NoUpload, U!Attempt
  <2> QED
    BY <2>1, <2>2, SoundUploads DEF Init
<1> QED
  BY <1>1, <1>2, <1>3, <1>4, <1>5, <1>6 DEF IInv, CallsCounted

-----------------------------------------------------------------------------
(* Steps of handlers *)

(* A handler goes on to run, and calls sendMessage at most once.           *)
HandlerStep(r) ==
    /\ up
    /\ UNCHANGED messages
    /\ \E run, calls :
        /\ runs' = [runs EXCEPT ![r] = run]
        /\ sends' = sends \cup calls
        /\ up' = (run.at # "crashed")
        /\ RunSound(r, run) /\ run # Idle
        /\ runs[r] = Idle \/ run.request = runs[r].request
        /\ \/ calls = {} /\ CallLimit(runs[r].at) <= CallLimit(run.at)
           \/ /\ CallLimit(runs[r].at) < CallLimit(run.at)
              /\ \E message : \E caught \in BOOLEAN :
                    /\ calls = {SentCall(r, message, caught)}
                    /\ HasFile(message) => U!Stored(r)

UploadsKept == UploadsSound' /\ \A r \in Runs : U!Stored(r) => U!Stored(r)'

(* Steps that leave the uploads alone keep them. *)
LEMMA UploadsUnchanged == ASSUME IInv, UNCHANGED uploads PROVE UploadsKept
<1>1. UploadsSound'
  BY DEF IInv, UploadsSound, U!UploadsOK
<1>2. \A r \in Runs : U!Stored(r) => U!Stored(r)'
  BY DEF U!Stored
<1> QED
  BY <1>1, <1>2 DEF UploadsKept

LEMMA CallLimitType == ASSUME NEW at PROVE CallLimit(at) \in 0..2
BY DEF CallLimit

(* A request that has come in is recognised by its place. *)
LEMMA NotIdle ==
    ASSUME NEW r, NEW run, RunSound(r, run)
    PROVE  run = Idle <=> run.at = "idle"
BY DEF RunSound, Idle

(* Steps of handlers and of uploads keep the invariant. *)
LEMMA HandlerStepSound ==
    ASSUME IInv, NEW r \in Runs, HandlerStep(r), UploadsKept, hits' \in 0..Limit
    PROVE  IInv'
<1>1. PICK run, calls :
        /\ runs' = [runs EXCEPT ![r] = run]
        /\ sends' = sends \cup calls
        /\ up' = (run.at # "crashed")
        /\ RunSound(r, run) /\ run # Idle
        /\ runs[r] = Idle \/ run.request = runs[r].request
        /\ \/ calls = {} /\ CallLimit(runs[r].at) <= CallLimit(run.at)
           \/ /\ CallLimit(runs[r].at) < CallLimit(run.at)
              /\ \E message : \E caught \in BOOLEAN :
                    /\ calls = {SentCall(r, message, caught)}
                    /\ HasFile(message) => U!Stored(r)
  BY DEF HandlerStep
<1>2. up /\ UNCHANGED messages
  BY DEF HandlerStep
<1>3. DOMAIN runs = Runs /\ runs'[r] = run /\ \A q \in Runs \ {r} : runs'[q] = runs[q]
  BY <1>1 DEF IInv, RunsSound
<1>4. up' = (\A q \in Runs : runs'[q].at # "crashed")
  BY <1>1, <1>2, <1>3 DEF IInv
<1>5. RunsSound'
  <2>1. ASSUME NEW q \in Runs PROVE RunSound(q, runs'[q])
    BY <1>1, <1>3 DEF IInv, RunsSound
  <2> QED
    BY <1>1, <1>3, <2>1 DEF RunsSound
<1>6. run.at # "idle" /\ \A q \in Runs : runs[q].at # "idle" => runs'[q].at # "idle"
  BY <1>1, <1>3, NotIdle
<1>7. \A s \in calls :
        /\ s = SentCall(r, s.message, s.caught) /\ s.caught \in BOOLEAN
        /\ HasFile(s.message) => U!Stored(r)
  BY <1>1 DEF SentCall
<1>8. SendsSound'
  <2>1. ASSUME NEW s \in sends PROVE CallSound(s)' /\ (HasFile(s.message) => U!Stored(s.run)')
    <3>1. CallSound(s) /\ (HasFile(s.message) => U!Stored(s.run))
      BY DEF IInv, SendsSound
    <3>2. s.run \in Runs
      BY <3>1 DEF CallSound
    <3>3. runs'[s.run].at # "idle"
      BY <1>6, <3>1, <3>2 DEF CallSound
    <3> QED
      BY <3>1, <3>2, <3>3 DEF CallSound, UploadsKept
  <2>2. ASSUME NEW s \in calls PROVE CallSound(s)' /\ (HasFile(s.message) => U!Stored(s.run)')
    <3>1. s = SentCall(r, s.message, s.caught)
      BY <1>7
    <3>2. s.run = r /\ s.state = "sent" /\ s.promise = "pending"
      BY <3>1 DEF SentCall
    <3>3. CallSound(s)'
      BY <1>3, <1>6, <1>7, <3>1, <3>2 DEF CallSound, SentCall
    <3> QED
      BY <1>7, <3>2, <3>3 DEF UploadsKept
  <2> QED
    BY <1>1, <2>1, <2>2 DEF SendsSound
<1>9. CallsCounted'
  <2> SUFFICES ASSUME NEW q \in Runs
               PROVE  /\ IsFiniteSet(CallsOf(q)')
                      /\ Cardinality(CallsOf(q)') <= CallLimit(runs'[q].at)
    BY DEF CallsCounted
  <2>1. IsFiniteSet(CallsOf(q)) /\ Cardinality(CallsOf(q)) <= CallLimit(runs[q].at)
    BY DEF IInv, CallsCounted
  <2>2. Cardinality(CallsOf(q)) \in Nat
    BY <2>1, FS_CardinalityType
  <2>3. CASE q # r
    <3>1. CallsOf(q)' = CallsOf(q)
      BY <1>1, <2>3 DEF CallsOf, SentCall
    <3> QED
      BY <1>3, <2>1, <2>3, <3>1
  <2>4. CASE q = r /\ calls = {}
    <3>1. CallsOf(q)' = CallsOf(q)
      BY <1>1, <2>4 DEF CallsOf
    <3>2. CallLimit(runs[q].at) <= CallLimit(run.at)
      BY <1>1, <2>4, CallLimitType
    <3> QED
      BY <1>3, <2>1, <2>2, <2>4, <3>1, <3>2, CallLimitType
  <2>5. CASE q = r /\ calls # {}
    <3>1. PICK s : calls = {s} /\ s.run = r
      BY <1>1, <2>5 DEF SentCall
    <3>2. CallsOf(q)' = CallsOf(q) \cup {s}
      BY <1>1, <2>5, <3>1 DEF CallsOf
    <3>3. CallLimit(runs[q].at) < CallLimit(run.at)
      BY <1>1, <2>5
    <3>4. /\ IsFiniteSet(CallsOf(q) \cup {s})
          /\ Cardinality(CallsOf(q) \cup {s}) <= Cardinality(CallsOf(q)) + 1
      BY <2>1, <2>2, FS_AddElement
    <3>5. Cardinality(CallsOf(q) \cup {s}) \in Nat
      BY <3>4, FS_CardinalityType
    <3> QED
      BY <1>3, <2>1, <2>2, <2>5, <3>2, <3>3, <3>4, <3>5, CallLimitType
  <2> QED
    BY <2>3, <2>4, <2>5
<1>10. PostedFilesComplete'
  BY <1>2 DEF IInv, PostedFilesComplete, UploadsKept
<1>11. AnswerStays'
  <2> SUFFICES ASSUME NEW s \in sends', IsAnswer(s)', s.state = "posted"
               PROVE  messages'[s.run] = s.message
    BY DEF AnswerStays
  <2>1. s \in sends
    BY <1>1, <1>7 DEF SentCall
  <2>2. s.run \in Runs /\ runs[s.run] # Idle
    BY <2>1, NotIdle DEF IInv, SendsSound, CallSound, RunsSound
  <2>3. runs'[s.run].request = runs[s.run].request
    BY <1>1, <1>3, <2>2
  <2>4. IsAnswer(s)
    BY <2>3 DEF IsAnswer
  <2> QED
    BY <1>2, <2>1, <2>4 DEF IInv, AnswerStays
<1> QED
  BY <1>2, <1>4, <1>5, <1>8, <1>9, <1>10, <1>11 DEF IInv, UploadsKept

-----------------------------------------------------------------------------
(* What handlers do, one lemma for each *)

(* What a response shows is there. *)
LEMMA ResponsesThere ==
    ASSUME NEW r \in Runs, NEW request \in Requests[r]
    PROVE  /\ Shows(Placeholder(r, request)) # Missing
           /\ Shows(Notice(r, request)) # Missing
           /\ Shows(Answer(r, request)) # Missing
           /\ Incomplete(r, request) # Missing
           /\ \A n \in {200, 400, 429, 500} : Status(n) # Missing
BY MissingAssumption DEF Incomplete

(* A run is not a request that has not come in. *)
LEMMA RunShape ==
    ASSUME NEW request, NEW at, NEW response
    PROVE  /\ Run(request, at, response) =
                [at |-> at, request |-> request, response |-> response]
           /\ Run(request, at, response).at = at
           /\ Run(request, at, response).request = request
           /\ Run(request, at, response).response = response
BY DEF Run

(* A turn in which a request comes in *)
LEMMA FirstTurn ==
    ASSUME IInv, up, NEW r \in Runs, NEW request \in Requests[r], runs[r] = Idle,
           NEW at \in {"working", "uploading", "givenUp", "over", "crashed"}, NEW response,
           at = "crashed" \/ at = "working" \/ response # Missing,
           at = "working" /\ request.job \in Searches \cup Thinkers => response # Missing,
           at = "uploading" => request.job \in Uploaders,
           runs' = [runs EXCEPT ![r] = Run(request, at, response)],
           up' = (at # "crashed"), UNCHANGED messages,
           NEW message, NEW caught \in BOOLEAN, HasFile(message) => U!Stored(r),
           NEW calls, sends' = sends \cup calls,
           calls = {} \/ calls = Call(r, request, message, caught)
    PROVE  HandlerStep(r)
<1> DEFINE run == Run(request, at, response)
<1>1. run.at = at /\ run.request = request /\ run.response = response
      /\ run = [at |-> run.at, request |-> run.request, response |-> run.response]
  BY RunShape
<1> HIDE DEF run
<1>2. RunSound(r, run)
  BY <1>1 DEF RunSound
<1>3. run # Idle
  BY <1>1 DEF Idle
<1>4. CallLimit(runs[r].at) < CallLimit(run.at) /\ CallLimit(runs[r].at) <= CallLimit(run.at)
  BY <1>1 DEF CallLimit, Idle
<1>5. calls = {} \/ calls = {SentCall(r, message, caught)}
  BY CallCases
<1> QED
  BY <1>1, <1>2, <1>3, <1>4, <1>5 DEF HandlerStep, run

(* A turn that leaves the handler alive, with a message or without *)
LEMMA SendingTurn ==
    ASSUME IInv, up, NEW r \in Runs, NEW request \in Requests[r], runs[r] = Idle,
           NEW at \in {"working", "uploading", "givenUp", "over"}, NEW response,
           at = "working" \/ response # Missing,
           at = "working" /\ request.job \in Searches \cup Thinkers => response # Missing,
           at = "uploading" => request.job \in Uploaders,
           NEW message, NEW caught \in BOOLEAN, ~HasFile(message),
           Turn(r, Run(request, at, response), Call(r, request, message, caught))
    PROVE  HandlerStep(r)
<1> DEFINE calls == Call(r, request, message, caught)
<1>1. /\ runs' = [runs EXCEPT ![r] = Run(request, at, response)]
      /\ sends' = sends \cup calls /\ up' = up /\ UNCHANGED messages
  BY DEF Turn
<1>2. up' = (at # "crashed")
  BY <1>1 DEF IInv
<1>3. calls = {} \/ calls = Call(r, request, message, caught)
  OBVIOUS
<1> HIDE DEF calls
<1> QED
  BY <1>1, <1>2, <1>3, FirstTurn

LEMMA SilentTurn ==
    ASSUME IInv, up, NEW r \in Runs, NEW request \in Requests[r], runs[r] = Idle,
           NEW at \in {"working", "uploading", "givenUp", "over"}, NEW response,
           at = "working" \/ response # Missing,
           at = "working" /\ request.job \in Searches \cup Thinkers => response # Missing,
           at = "uploading" => request.job \in Uploaders,
           Turn(r, Run(request, at, response), {})
    PROVE  HandlerStep(r)
<1> DEFINE message == Placeholder(r, request)
           calls == {}
<1>1. /\ runs' = [runs EXCEPT ![r] = Run(request, at, response)]
      /\ sends' = sends \cup calls /\ up' = up /\ UNCHANGED messages
  BY DEF Turn
<1>2. up' = (at # "crashed")
  BY <1>1 DEF IInv
<1>3. ~HasFile(message)
  BY PlaceholderShape
<1>4. calls = {} \/ calls = Call(r, request, message, TRUE)
  OBVIOUS
<1> HIDE DEF calls, message
<1> QED
  BY <1>1, <1>2, <1>3, <1>4, FirstTurn

(* A turn in which the handler throws, after a message or without *)
LEMMA CrashingTurn ==
    ASSUME IInv, up, NEW r \in Runs, NEW request \in Requests[r], runs[r] = Idle, NEW response,
           runs' = [runs EXCEPT ![r] = Run(request, "crashed", response)],
           up' = FALSE, UNCHANGED messages, NEW calls, sends' = sends \cup calls,
           calls = {} \/ calls = Call(r, request, Placeholder(r, request), FALSE)
    PROVE  HandlerStep(r)
<1> DEFINE message == Placeholder(r, request)
           at == "crashed"
<1>1. ~HasFile(message)
  BY PlaceholderShape
<1>2. /\ at \in {"working", "uploading", "givenUp", "over", "crashed"} /\ at = "crashed"
      /\ up' = (at # "crashed") /\ runs' = [runs EXCEPT ![r] = Run(request, at, response)]
      /\ calls = {} \/ calls = Call(r, request, message, FALSE)
  OBVIOUS
<1> HIDE DEF message, at
<1> QED
  BY <1>1, <1>2, FirstTurn

LEMMA RejectedSound ==
    ASSUME IInv, NEW r \in Runs, NEW request \in Requests[r], Rejected(r, request)
    PROVE  IInv'
<1>1. PICK n \in {400, 429, 500} : Turn(r, Run(request, "over", Status(n)), {})
  BY DEF Rejected
<1>2. Status(n) # Missing
  BY ResponsesThere
<1>3. up /\ runs[r] = Idle /\ UNCHANGED uploads
  BY DEF Rejected
<1>4. hits' \in 0..Limit
  <2>1. hits \in 0..Limit /\ Limit \in Nat
    BY BotCommandsAssumption DEF IInv
  <2>2. hits' = IF hits < Limit THEN hits + 1 ELSE hits
    BY DEF Rejected
  <2> QED
    BY <2>1, <2>2
<1>5. HandlerStep(r)
  BY <1>1, <1>2, <1>3, SilentTurn
<1>6. UploadsKept
  BY <1>3, UploadsUnchanged
<1> QED
  BY <1>4, <1>5, <1>6, HandlerStepSound

(* What the limiter lets through is counted. *)
LEMMA AdmittedFacts ==
    ASSUME IInv, NEW r, NEW request, Admitted(r, request)
    PROVE  up /\ runs[r] = Idle /\ hits' \in 0..Limit
<1>1. up /\ runs[r] = Idle
  BY DEF Admitted
<1>2. hits' \in 0..Limit
  BY BotCommandsAssumption DEF Admitted, IInv
<1> QED
  BY <1>1, <1>2

LEMMA BeginSearchSound ==
    ASSUME IInv, NEW r \in Runs, NEW request \in Requests[r], BeginSearch(r, request)
    PROVE  IInv'
<1>1. Admitted(r, request) /\ request.job \in Searches /\ UNCHANGED uploads
  BY DEF BeginSearch
<1>2. HandlerStep(r)
  <2>1. CASE request.complete
    <3>1. Turn(r, Run(request, "working", Shows(Placeholder(r, request))),
               Call(r, request, Placeholder(r, request), TRUE))
      BY <2>1 DEF BeginSearch
    <3>2. Shows(Placeholder(r, request)) # Missing /\ ~HasFile(Placeholder(r, request))
      BY ResponsesThere, PlaceholderShape
    <3> QED
      BY <1>1, <3>1, <3>2, AdmittedFacts, SendingTurn
  <2>2. CASE ~request.complete
    <3>1. Turn(r, Run(request, "over", Incomplete(r, request)), {})
      BY <2>2 DEF BeginSearch
    <3>2. Incomplete(r, request) # Missing
      BY ResponsesThere
    <3> QED
      BY <1>1, <3>1, <3>2, AdmittedFacts, SilentTurn
  <2> QED
    BY <2>1, <2>2
<1> QED
  BY <1>1, <1>2, AdmittedFacts, UploadsUnchanged, HandlerStepSound

LEMMA BeginThinkingSound ==
    ASSUME IInv, NEW r \in Runs, NEW request \in Requests[r], BeginThinking(r, request)
    PROVE  IInv'
<1>1. Admitted(r, request) /\ UNCHANGED <<sends, messages, uploads>>
  BY DEF BeginThinking
<1>2. request.complete \in BOOLEAN
  BY BotCommandsAssumption
<1>3. HandlerStep(r)
  <2>1. CASE request.complete
    <3>1. /\ runs' = [runs EXCEPT ![r] = Run(request, "working", Shows(Placeholder(r, request)))]
          /\ up' = TRUE
      BY <1>2, <2>1 DEF BeginThinking
    <3>2. Turn(r, Run(request, "working", Shows(Placeholder(r, request))), {})
      BY <1>1, <3>1, AdmittedFacts DEF Turn, IInv
    <3>3. Shows(Placeholder(r, request)) # Missing
      BY ResponsesThere
    <3> QED
      BY <1>1, <3>2, <3>3, AdmittedFacts, SilentTurn
  <2>2. CASE ~request.complete
    <3>1. /\ runs' = [runs EXCEPT ![r] = Run(request, "crashed", Shows(Placeholder(r, request)))]
          /\ up' = FALSE
      BY <1>2, <2>2 DEF BeginThinking
    <3>2. sends' = sends \cup {}
      BY <1>1
    <3> QED
      BY <1>1, <3>1, <3>2, AdmittedFacts, CrashingTurn
  <2> QED
    BY <2>1, <2>2
<1> QED
  BY <1>1, <1>3, AdmittedFacts, UploadsUnchanged, HandlerStepSound

LEMMA BeginFileSound ==
    ASSUME IInv, NEW r \in Runs, NEW request \in Requests[r], BeginFile(r, request)
    PROVE  IInv'
<1> DEFINE calls == Call(r, request, Placeholder(r, request), FALSE)
           shown == Shows(Placeholder(r, request))
<1>1. Admitted(r, request) /\ request.job = "file"
  BY DEF BeginFile
<1>2. shown # Missing /\ ~HasFile(Placeholder(r, request)) /\ request.job \in Uploaders
  BY <1>1, ResponsesThere, PlaceholderShape DEF Uploaders
<1>3. CASE /\ Turn(r, Run(request, "uploading", shown), calls)
           /\ U!BeginUpload(r, request.scope = "chat")
  <2>1. HandlerStep(r)
    BY <1>1, <1>2, <1>3, AdmittedFacts, SendingTurn
  <2>2. UploadsKept
    BY <1>3, BeginUploadSound DEF IInv, UploadsKept
  <2> QED
    BY <1>1, <2>1, <2>2, AdmittedFacts, HandlerStepSound
<1>4. CASE /\ runs' = [runs EXCEPT ![r] = Run(request, "crashed", shown)]
           /\ sends' = sends \cup calls
           /\ up' = FALSE
           /\ UNCHANGED <<messages, uploads>>
  <2>1. HandlerStep(r)
    BY <1>1, <1>4, AdmittedFacts, CrashingTurn
  <2> QED
    BY <1>1, <1>4, <2>1, AdmittedFacts, UploadsUnchanged, HandlerStepSound
<1> QED
  BY <1>3, <1>4 DEF BeginFile

LEMMA AnswerAtOnceSound ==
    ASSUME IInv, NEW r \in Runs, NEW request \in Requests[r], AnswerAtOnce(r, request)
    PROVE  IInv'
<1>1. Admitted(r, request) /\ UNCHANGED uploads
  BY DEF AnswerAtOnce
<1>2. ~HasFile(Answer(r, request))
  <2>1. request.job \notin Uploaders
    BY DEF AnswerAtOnce, Immediate, Uploaders
  <2> QED
    BY <2>1, AnswerShape
<1>3. HandlerStep(r)
  <2>1. CASE Turn(r, Run(request, "over", Shows(Answer(r, request))),
                  Call(r, request, Answer(r, request), TRUE))
    <3>1. Shows(Answer(r, request)) # Missing
      BY ResponsesThere
    <3> QED
      BY <1>1, <1>2, <2>1, <3>1, AdmittedFacts, SendingTurn
  <2>2. CASE Turn(r, Run(request, "over", Incomplete(r, request)), {})
    <3>1. Incomplete(r, request) # Missing
      BY ResponsesThere
    <3> QED
      BY <1>1, <2>2, <3>1, AdmittedFacts, SilentTurn
  <2> QED
    BY <2>1, <2>2 DEF AnswerAtOnce
<1> QED
  BY <1>1, <1>3, AdmittedFacts, UploadsUnchanged, HandlerStepSound

LEMMA BeginWorkSound ==
    ASSUME IInv, NEW r \in Runs, NEW request \in Requests[r], BeginWork(r, request)
    PROVE  IInv'
<1>1. Admitted(r, request) /\ UNCHANGED uploads
  BY DEF BeginWork
<1>2. request.job \notin Searches \cup Thinkers
  BY DEF BeginWork, Searches, Thinkers
<1>3. \/ Turn(r, Run(request, "over", Shows(Notice(r, request))), {})
      \/ Turn(r, Run(request, "working", Missing), {})
      \/ /\ up' = FALSE
         /\ runs' = [runs EXCEPT ![r] = Run(request, "crashed", Missing)]
         /\ UNCHANGED <<sends, messages>>
  BY DEF BeginWork
<1>4. HandlerStep(r)
  <2>1. CASE Turn(r, Run(request, "over", Shows(Notice(r, request))), {})
    <3>1. Shows(Notice(r, request)) # Missing
      BY ResponsesThere
    <3> QED
      BY <1>1, <2>1, <3>1, AdmittedFacts, SilentTurn
  <2>2. CASE Turn(r, Run(request, "working", Missing), {})
    BY <1>1, <1>2, <2>2, AdmittedFacts, SilentTurn
  <2>3. CASE /\ up' = FALSE
             /\ runs' = [runs EXCEPT ![r] = Run(request, "crashed", Missing)]
             /\ UNCHANGED <<sends, messages>>
    <3>1. sends' = sends \cup {}
      BY <2>3
    <3> QED
      BY <1>1, <2>3, <3>1, AdmittedFacts, CrashingTurn
  <2> QED
    BY <1>3, <2>1, <2>2, <2>3
<1> QED
  BY <1>1, <1>4, AdmittedFacts, UploadsUnchanged, HandlerStepSound

(* A turn of a request that has come in before *)
LEMMA NextTurn ==
    ASSUME IInv, up, NEW r \in Runs, runs[r].at \in {"working", "uploading"},
           NEW at \in {"uploading", "givenUp", "over", "crashed"}, NEW response,
           runs' = [runs EXCEPT ![r] = Run(runs[r].request, at, response)],
           at \in {"givenUp", "over"} => response # Missing,
           at = "uploading" => /\ runs[r].request.job \in Uploaders
                               /\ runs[r].request.job # "image" => response # Missing,
           up' = (at # "crashed"), UNCHANGED messages,
           NEW message, NEW caught \in BOOLEAN, HasFile(message) => U!Stored(r),
           NEW calls, sends' = sends \cup calls,
           calls = {} \/ (at = "over" /\ calls = Call(r, runs[r].request, message, caught))
    PROVE  HandlerStep(r)
<1> DEFINE run == Run(runs[r].request, at, response)
<1>1. run.at = at /\ run.request = runs[r].request /\ run.response = response
      /\ run = [at |-> run.at, request |-> run.request, response |-> run.response]
  BY RunShape
<1> HIDE DEF run
<1>2. runs[r].request \in Requests[r]
  BY DEF IInv, RunsSound, RunSound, Idle
<1>3. RunSound(r, run)
  BY <1>1, <1>2 DEF RunSound
<1>4. run # Idle
  BY <1>1 DEF Idle
<1>5. /\ CallLimit(runs[r].at) <= CallLimit(run.at)
      /\ at = "over" => CallLimit(runs[r].at) < CallLimit(run.at)
  BY <1>1 DEF CallLimit
<1>6. calls = {} \/ (at = "over" /\ calls = {SentCall(r, message, caught)})
  <2>1. CASE calls = {}
    BY <2>1
  <2>2. CASE at = "over" /\ calls = Call(r, runs[r].request, message, caught)
    BY <2>2, CallCases
  <2> QED
    BY <2>1, <2>2
<1>7. runs' = [runs EXCEPT ![r] = run]
  BY DEF run
<1> QED
  BY <1>1, <1>3, <1>4, <1>5, <1>6, <1>7 DEF HandlerStep

(* Where the handler of a request stands, its record is what it seems.     *)
LEMMA StandingRun ==
    ASSUME IInv, NEW r \in Runs, runs[r].at # "idle"
    PROVE  /\ runs[r].request \in Requests[r]
           /\ \A at : [runs[r] EXCEPT !.at = at] = Run(runs[r].request, at, runs[r].response)
           /\ \A at : [runs EXCEPT ![r].at = at]
                        = [runs EXCEPT ![r] = Run(runs[r].request, at, runs[r].response)]
           /\ runs[r].at = "working" /\ runs[r].request.job \in Searches \cup Thinkers
                => runs[r].response # Missing
           /\ runs[r].at = "uploading" =>
                /\ runs[r].request.job \in Uploaders
                /\ runs[r].request.job # "image" => runs[r].response # Missing
<1>1. RunSound(r, runs[r]) /\ runs[r] # Idle
  BY DEF IInv, RunsSound, Idle
<1>2. runs[r] = [at |-> runs[r].at, request |-> runs[r].request, response |-> runs[r].response]
  BY <1>1 DEF RunSound
<1>3. \A at : [runs[r] EXCEPT !.at = at] = Run(runs[r].request, at, runs[r].response)
  BY <1>2 DEF Run
<1>4. ASSUME NEW at
      PROVE  [runs EXCEPT ![r].at = at]
                = [runs EXCEPT ![r] = Run(runs[r].request, at, runs[r].response)]
  BY <1>3
<1> QED
  BY <1>1, <1>3, <1>4 DEF RunSound

(* The turns that handlers take when their work is done *)
LEMMA SendAnswerStep ==
    ASSUME IInv, up, NEW r \in Runs, runs[r].at \in {"working", "uploading"},
           NEW caught \in BOOLEAN, SendAnswer(r, caught), runs[r].response # Missing,
           runs[r].request.job \in Uploaders => U!Stored(r)
    PROVE  HandlerStep(r)
<1>1. runs[r].at # "idle"
  OBVIOUS
<1>2. /\ runs' = [runs EXCEPT ![r] = Run(runs[r].request, "over", runs[r].response)]
      /\ sends' = sends \cup Call(r, runs[r].request, Answer(r, runs[r].request), caught)
      /\ up' = up /\ UNCHANGED messages
  BY <1>1, StandingRun DEF SendAnswer, Turn
<1>3. HasFile(Answer(r, runs[r].request)) => U!Stored(r)
  BY AnswerShape
<1> QED
  BY <1>2, <1>3, NextTurn

LEMMA ShowAndSendAnswerStep ==
    ASSUME IInv, up, NEW r \in Runs, runs[r].at \in {"working", "uploading"},
           ShowAndSendAnswer(r), runs[r].request.job \in Uploaders => U!Stored(r)
    PROVE  HandlerStep(r)
<1>1. runs[r].request \in Requests[r]
  BY StandingRun
<1>2. /\ runs' = [runs EXCEPT ![r] = Run(runs[r].request, "over",
                                         Shows(Answer(r, runs[r].request)))]
      /\ sends' = sends \cup Call(r, runs[r].request, Answer(r, runs[r].request), TRUE)
      /\ up' = up /\ UNCHANGED messages
  BY DEF ShowAndSendAnswer, Turn
<1>3. HasFile(Answer(r, runs[r].request)) => U!Stored(r)
  BY AnswerShape
<1>4. Shows(Answer(r, runs[r].request)) # Missing
  BY <1>1, ResponsesThere
<1> QED
  BY <1>2, <1>3, <1>4, NextTurn

(* A turn without a message *)
LEMMA QuietStep ==
    ASSUME IInv, up, NEW r \in Runs, runs[r].at \in {"working", "uploading"},
           NEW at \in {"uploading", "givenUp", "over", "crashed"}, NEW response,
           runs' = [runs EXCEPT ![r] = Run(runs[r].request, at, response)],
           at \in {"givenUp", "over"} => response # Missing,
           at = "uploading" => /\ runs[r].request.job \in Uploaders
                               /\ runs[r].request.job # "image" => response # Missing,
           up' = (at # "crashed"), UNCHANGED <<messages, sends>>
    PROVE  HandlerStep(r)
<1> DEFINE run == Run(runs[r].request, at, response)
<1>1. run.at = at /\ run.request = runs[r].request /\ run.response = response
      /\ run = [at |-> run.at, request |-> run.request, response |-> run.response]
  BY RunShape
<1>2. runs' = [runs EXCEPT ![r] = run]
  OBVIOUS
<1> HIDE DEF run
<1>3. runs[r].request \in Requests[r]
  BY StandingRun
<1>4. RunSound(r, run) /\ run # Idle
  BY <1>1, <1>3 DEF RunSound, Idle
<1>5. CallLimit(runs[r].at) <= CallLimit(run.at)
  BY <1>1 DEF CallLimit
<1>6. up' = (run.at # "crashed")
  BY <1>1
<1>7. sends' = sends \cup {}
  OBVIOUS
<1> QED
  BY <1>1, <1>2, <1>4, <1>5, <1>6, <1>7 DEF HandlerStep

LEMMA GiveUpStep ==
    ASSUME IInv, up, NEW r \in Runs, runs[r].at \in {"working", "uploading"},
           GiveUp(r), runs[r].response # Missing
    PROVE  HandlerStep(r)
<1>1. /\ runs' = [runs EXCEPT ![r] = Run(runs[r].request, "givenUp", runs[r].response)]
      /\ UNCHANGED <<up, messages, sends>>
  BY StandingRun DEF GiveUp, Turn
<1> QED
  BY <1>1, QuietStep

LEMMA CrashStep ==
    ASSUME IInv, up, NEW r \in Runs, runs[r].at \in {"working", "uploading"}, Crash(r)
    PROVE  HandlerStep(r)
<1>1. /\ runs' = [runs EXCEPT ![r] = Run(runs[r].request, "crashed", runs[r].response)]
      /\ up' = FALSE /\ UNCHANGED <<messages, sends>>
  BY StandingRun DEF Crash
<1> QED
  BY <1>1, QuietStep

-----------------------------------------------------------------------------
(* The work of handlers *)

(* The jobs whose work is no upload answer without a file. *)
LEMMA WorkingFacts ==
    ASSUME IInv, NEW r \in Runs, NEW jobs, Working(r, jobs)
    PROVE  /\ up /\ runs[r].at = "working" /\ runs[r].request.job \in jobs
           /\ hits' \in 0..Limit
           /\ runs[r].request.job \in Searches \cup Thinkers => runs[r].response # Missing
<1>1. up /\ runs[r].at = "working" /\ runs[r].request.job \in jobs /\ UNCHANGED hits
  BY DEF Working
<1>2. runs[r].request.job \in Searches \cup Thinkers => runs[r].response # Missing
  BY <1>1, StandingRun
<1> QED
  BY <1>1, <1>2 DEF IInv

LEMMA SearchedSound == ASSUME IInv, NEW r \in Runs, Searched(r) PROVE IInv'
<1>1. Working(r, Searches) /\ UNCHANGED uploads
  BY DEF Searched
<1>2. runs[r].request.job \notin Uploaders
  BY <1>1, WorkingFacts DEF Searches, Uploaders
<1>3. HandlerStep(r)
  <2>1. CASE SendAnswer(r, TRUE)
    BY <1>1, <1>2, <2>1, WorkingFacts, SendAnswerStep
  <2>2. CASE Crash(r)
    BY <1>1, <2>2, WorkingFacts, CrashStep
  <2> QED
    BY <2>1, <2>2 DEF Searched
<1> QED
  BY <1>1, <1>3, WorkingFacts, UploadsUnchanged, HandlerStepSound

LEMMA PromptedSound == ASSUME IInv, NEW r \in Runs, Prompted(r) PROVE IInv'
<1>1. Working(r, {"prompt"}) /\ UNCHANGED uploads
  BY DEF Prompted
<1>2. runs[r].request.job \notin Uploaders /\ runs[r].request.job \in Thinkers
  BY <1>1, WorkingFacts DEF Thinkers, Uploaders
<1>3. HandlerStep(r)
  <2>1. CASE SendAnswer(r, FALSE)
    BY <1>1, <1>2, <2>1, WorkingFacts, SendAnswerStep
  <2>2. CASE GiveUp(r)
    BY <1>1, <1>2, <2>2, WorkingFacts, GiveUpStep
  <2> QED
    BY <2>1, <2>2 DEF Prompted
<1> QED
  BY <1>1, <1>3, WorkingFacts, UploadsUnchanged, HandlerStepSound

(* A handler that goes on with an upload *)
LEMMA UploadTurn ==
    ASSUME IInv, up, NEW r \in Runs, runs[r].at = "working",
           runs[r].request.job \in Uploaders,
           runs[r].request.job # "image" => runs[r].response # Missing,
           Turn(r, [runs[r] EXCEPT !.at = "uploading"], {}),
           U!BeginUpload(r, runs[r].request.scope = "chat")
    PROVE  HandlerStep(r) /\ UploadsKept
<1>1. /\ runs' = [runs EXCEPT ![r] = Run(runs[r].request, "uploading", runs[r].response)]
      /\ UNCHANGED <<up, messages, sends>>
  BY StandingRun DEF Turn
<1>2. HandlerStep(r)
  BY <1>1, QuietStep
<1>3. UploadsKept
  BY BeginUploadSound DEF IInv, UploadsKept
<1> QED
  BY <1>2, <1>3

LEMMA ImaginedSound == ASSUME IInv, NEW r \in Runs, Imagined(r) PROVE IInv'
<1>1. Working(r, {"imagine"})
  BY DEF Imagined
<1>2. runs[r].request.job \in Uploaders \cap Thinkers
  BY <1>1, WorkingFacts DEF Thinkers, Uploaders
<1>3. CASE /\ Turn(r, [runs[r] EXCEPT !.at = "uploading"], {})
           /\ U!BeginUpload(r, runs[r].request.scope = "chat")
  BY <1>1, <1>2, <1>3, WorkingFacts, UploadTurn, HandlerStepSound
<1>4. CASE GiveUp(r) /\ UNCHANGED uploads
  BY <1>1, <1>2, <1>4, WorkingFacts, GiveUpStep, UploadsUnchanged, HandlerStepSound
<1> QED
  BY <1>3, <1>4 DEF Imagined

LEMMA ResizedSound == ASSUME IInv, NEW r \in Runs, Resized(r) PROVE IInv'
<1>1. Working(r, {"image"})
  BY DEF Resized
<1>2. runs[r].request.job = "image" /\ runs[r].request.job \in Uploaders
  BY <1>1, WorkingFacts DEF Uploaders
<1>3. CASE /\ Turn(r, [runs[r] EXCEPT !.at = "uploading"], {})
           /\ U!BeginUpload(r, runs[r].request.scope = "chat")
  BY <1>1, <1>2, <1>3, WorkingFacts, UploadTurn, HandlerStepSound
<1>4. CASE Crash(r) /\ UNCHANGED uploads
  BY <1>1, <1>4, WorkingFacts, CrashStep, UploadsUnchanged, HandlerStepSound
<1> QED
  BY <1>3, <1>4 DEF Resized

LEMMA ScrapedSound == ASSUME IInv, NEW r \in Runs, Scraped(r) PROVE IInv'
<1>1. Working(r, {"news"}) /\ ShowAndSendAnswer(r) /\ UNCHANGED uploads
  BY DEF Scraped
<1>2. runs[r].request.job \notin Uploaders
  BY <1>1, WorkingFacts DEF Uploaders
<1>3. HandlerStep(r)
  BY <1>1, <1>2, WorkingFacts, ShowAndSendAnswerStep
<1> QED
  BY <1>1, <1>3, WorkingFacts, UploadsUnchanged, HandlerStepSound

LEMMA AnsweredSound == ASSUME IInv, NEW r \in Runs, Answered(r) PROVE IInv'
<1>1. Working(r, {"chat_details", "chat_events"}) /\ UNCHANGED uploads
  BY DEF Answered
<1>2. runs[r].request.job \notin Uploaders /\ runs[r].request \in Requests[r]
  BY <1>1, WorkingFacts, StandingRun DEF Uploaders
<1>3. HandlerStep(r)
  <2>1. CASE ShowAndSendAnswer(r)
    BY <1>1, <1>2, <2>1, WorkingFacts, ShowAndSendAnswerStep
  <2>2. CASE Turn(r, Run(runs[r].request, "over", Shows(Notice(r, runs[r].request))), {})
    <3>1. Shows(Notice(r, runs[r].request)) # Missing
      BY <1>2, ResponsesThere
    <3>2. UNCHANGED <<up, messages, sends>>
      BY <2>2 DEF Turn
    <3> QED
      BY <1>1, <2>2, <3>1, <3>2, WorkingFacts, QuietStep DEF Turn
  <2>3. CASE Crash(r)
    BY <1>1, <2>3, WorkingFacts, CrashStep
  <2> QED
    BY <2>1, <2>2, <2>3 DEF Answered
<1> QED
  BY <1>1, <1>3, WorkingFacts, UploadsUnchanged, HandlerStepSound

LEMMA ChannelDoneSound == ASSUME IInv, NEW r \in Runs, ChannelDone(r) PROVE IInv'
<1>1. Working(r, {"create_channel", "delete_channel"}) /\ UNCHANGED uploads
  BY DEF ChannelDone
<1>2. HandlerStep(r)
  <2>1. ASSUME NEW n \in {200, 500}, Turn(r, Run(runs[r].request, "over", Status(n)), {})
        PROVE  HandlerStep(r)
    <3> DEFINE response == Status(n)
    <3>1. response # Missing
      BY MissingAssumption
    <3>2. /\ runs' = [runs EXCEPT ![r] = Run(runs[r].request, "over", response)]
          /\ UNCHANGED <<up, messages, sends>>
      BY <2>1 DEF Turn
    <3> HIDE DEF response
    <3>3. up /\ up' /\ runs[r].at = "working"
      BY <1>1, <3>2, WorkingFacts
    <3> QED
      BY <3>1, <3>2, <3>3, QuietStep
  <2>2. CASE Crash(r)
    BY <1>1, <2>2, WorkingFacts, CrashStep
  <2> QED
    BY <2>1, <2>2 DEF ChannelDone
<1> QED
  BY <1>1, <1>2, WorkingFacts, UploadsUnchanged, HandlerStepSound

LEMMA UploadedSound == ASSUME IInv, NEW r \in Runs, Uploaded(r) PROVE IInv'
<1>1. up /\ runs[r].at = "uploading" /\ UNCHANGED <<hits, uploads>>
  BY DEF Uploaded
<1>2. /\ runs[r].request.job \in Uploaders
      /\ runs[r].request.job # "image" => runs[r].response # Missing
  BY <1>1, StandingRun
<1>3. HandlerStep(r)
  <2>1. CASE uploads[r].at = "resolved"
    <3>1. U!Stored(r)
      BY <2>1, ResolvedIsStored DEF IInv
    <3>2. CASE runs[r].request.job = "image"
      BY <1>1, <2>1, <3>1, <3>2, ShowAndSendAnswerStep DEF Uploaded
    <3>3. CASE runs[r].request.job = "file"
      BY <1>1, <1>2, <2>1, <3>1, <3>3, SendAnswerStep DEF Uploaded
    <3>4. CASE runs[r].request.job = "imagine"
      BY <1>1, <1>2, <2>1, <3>1, <3>4, SendAnswerStep DEF Uploaded
    <3> QED
      BY <1>2, <3>2, <3>3, <3>4 DEF Uploaders
  <2>2. CASE uploads[r].at # "resolved"
    <3>1. CASE runs[r].request.job = "file" /\ GiveUp(r)
      BY <1>1, <1>2, <3>1, GiveUpStep
    <3>2. CASE Crash(r)
      BY <1>1, <3>2, CrashStep
    <3>3. IF runs[r].request.job = "file" THEN GiveUp(r) ELSE Crash(r)
      BY <2>2 DEF Uploaded
    <3> QED
      BY <3>1, <3>2, <3>3
  <2> QED
    BY <2>1, <2>2
<1> QED
  BY <1>1, <1>3, UploadsUnchanged, HandlerStepSound DEF IInv

LEMMA UploadStepKeeps == ASSUME IInv, NEW r \in Runs, UploadStep(r) PROVE IInv'
<1>1. U!UploadStep(r) /\ UNCHANGED <<up, hits, runs, sends, messages>>
  BY DEF UploadStep
<1>2. UploadsSound' /\ \A q \in Runs : U!Stored(q) => U!Stored(q)'
  BY <1>1, UploadStepSound DEF IInv
<1>3. /\ up' = (\A q \in Runs : runs'[q].at # "crashed")
      /\ hits' \in 0..Limit
      /\ DOMAIN messages' = Runs
  BY <1>1 DEF IInv
<1>4. RunsSound' /\ CallsCounted' /\ AnswerStays'
  BY <1>1 DEF IInv, RunsSound, CallsCounted, CallsOf, AnswerStays, IsAnswer
<1>5. SendsSound'
  BY <1>1, <1>2 DEF IInv, SendsSound, CallSound
<1>6. PostedFilesComplete'
  BY <1>1, <1>2 DEF IInv, PostedFilesComplete
<1> QED
  BY <1>2, <1>3, <1>4, <1>5, <1>6 DEF IInv

LEMMA NewMinuteSound == ASSUME IInv, NewMinute PROVE IInv'
<1>1. hits' = 0 /\ UNCHANGED <<up, runs, sends, messages, uploads>>
  BY DEF NewMinute
<1>2. UploadsSound' /\ \A q \in Runs : U!Stored(q) => U!Stored(q)'
  BY <1>1, UploadsUnchanged DEF UploadsKept
<1>3. /\ up' = (\A q \in Runs : runs'[q].at # "crashed")
      /\ hits' \in 0..Limit
      /\ DOMAIN messages' = Runs
  BY <1>1, BotCommandsAssumption DEF IInv
<1>4. RunsSound' /\ CallsCounted' /\ AnswerStays'
  BY <1>1 DEF IInv, RunsSound, CallsCounted, CallsOf, AnswerStays, IsAnswer
<1>5. SendsSound'
  BY <1>1, <1>2 DEF IInv, SendsSound, CallSound
<1>6. PostedFilesComplete'
  BY <1>1, <1>2 DEF IInv, PostedFilesComplete
<1> QED
  BY <1>2, <1>3, <1>4, <1>5, <1>6 DEF IInv

-----------------------------------------------------------------------------
(* Calls *)

(* When one call takes the place of another of the same request, with the  *)
(* same message, the counts and the files are as before.                   *)
LEMMA CallReplaced ==
    ASSUME IInv, NEW s \in sends, NEW t, sends' = (sends \ {s}) \cup {t},
           t.run = s.run, t.message = s.message,
           UNCHANGED uploads, DOMAIN runs' = Runs,
           \A r \in Runs : CallLimit(runs[r].at) <= CallLimit(runs'[r].at),
           \A u \in sends \cup {t} : CallSound(u)'
    PROVE  SendsSound' /\ CallsCounted'
<1>1. SendsSound'
  <2>1. ASSUME NEW u \in sends' PROVE HasFile(u.message) => U!Stored(u.run)'
    <3>1. PICK v \in sends : v.run = u.run /\ v.message = u.message
      OBVIOUS
    <3>2. HasFile(v.message) => U!Stored(v.run)
      BY DEF IInv, SendsSound
    <3>3. v.run \in Runs
      BY DEF IInv, SendsSound, CallSound
    <3> QED
      BY <3>1, <3>2, <3>3, UploadsUnchanged DEF UploadsKept
  <2> QED
    BY <2>1 DEF SendsSound
<1>2. ASSUME NEW r \in Runs
      PROVE  /\ IsFiniteSet(CallsOf(r)')
             /\ Cardinality(CallsOf(r)') <= CallLimit(runs'[r].at)
  <2>1. IsFiniteSet(CallsOf(r)) /\ Cardinality(CallsOf(r)) <= CallLimit(runs[r].at)
    BY DEF IInv, CallsCounted
  <2>2. Cardinality(CallsOf(r)) \in Nat
    BY <2>1, FS_CardinalityType
  <2>3. IsFiniteSet(CallsOf(r)') /\ Cardinality(CallsOf(r)') <= Cardinality(CallsOf(r))
    <3>1. CASE s.run = r
      <4>1. CallsOf(r)' = (CallsOf(r) \ {s}) \cup {t} /\ s \in CallsOf(r)
        BY <3>1 DEF CallsOf
      <4>2. /\ IsFiniteSet(CallsOf(r) \ {s})
            /\ Cardinality(CallsOf(r) \ {s}) = Cardinality(CallsOf(r)) - 1
        BY <2>1, <4>1, FS_RemoveElement
      <4>3. /\ IsFiniteSet((CallsOf(r) \ {s}) \cup {t})
            /\ \/ Cardinality((CallsOf(r) \ {s}) \cup {t}) = Cardinality(CallsOf(r) \ {s})
               \/ Cardinality((CallsOf(r) \ {s}) \cup {t}) = Cardinality(CallsOf(r) \ {s}) + 1
        BY <4>2, FS_AddElement
      <4> QED
        BY <2>2, <4>1, <4>2, <4>3
    <3>2. CASE s.run # r
      <4>1. CallsOf(r)' = CallsOf(r)
        BY <3>2 DEF CallsOf
      <4> QED
        BY <2>1, <2>2, <4>1
    <3> QED
      BY <3>1, <3>2
  <2>4. Cardinality(CallsOf(r)') \in Nat
    BY <2>3, FS_CardinalityType
  <2>5. CallLimit(runs[r].at) \in 0..2 /\ CallLimit(runs'[r].at) \in 0..2
    BY CallLimitType
  <2> QED
    BY <2>1, <2>2, <2>3, <2>4, <2>5
<1> QED
  BY <1>1, <1>2 DEF CallsCounted

LEMMA ReceiveSound == ASSUME IInv, NEW s \in sends, Receive(s) PROVE IInv'
<1>1. s.state = "sent" /\ UNCHANGED <<up, hits, runs, uploads>>
  BY DEF Receive
<1>2. PICK state \in {"posted", "refused"} :
        /\ sends' = (sends \ {s}) \cup {[s EXCEPT !.state = state]}
        /\ \/ /\ state = "posted"
              /\ messages[s.run] # Missing => ~messages[s.run].finalised
              /\ messages' = [messages EXCEPT ![s.run] = s.message]
           \/ state = "refused" /\ UNCHANGED messages
  BY DEF Receive
<1> DEFINE t == [s EXCEPT !.state = state]
<1>3. /\ CallSound(s) /\ s.run \in Runs /\ runs[s.run].at # "idle"
      /\ HasFile(s.message) => U!Stored(s.run)
  BY DEF IInv, SendsSound, CallSound
<1>4. t.run = s.run /\ t.message = s.message /\ t.state = state /\ CallSound(t)
  BY <1>3 DEF CallSound
<1> HIDE DEF t
<1>5. sends' = (sends \ {s}) \cup {t}
  BY <1>2 DEF t
<1>6. RunsSound' /\ DOMAIN runs' = Runs
  BY <1>1 DEF IInv, RunsSound
<1>7. SendsSound' /\ CallsCounted'
  <2>1. \A u \in sends \cup {t} : CallSound(u)'
    BY <1>1, <1>4 DEF IInv, SendsSound, CallSound
  <2>2. \A r \in Runs : CallLimit(runs[r].at) <= CallLimit(runs'[r].at)
    BY <1>1, CallLimitType
  <2> QED
    BY <1>1, <1>4, <1>5, <1>6, <2>1, <2>2, CallReplaced
<1>8. DOMAIN messages = Runs /\ DOMAIN messages' = Runs
  BY <1>2 DEF IInv
<1>9. UploadsKept
  BY <1>1, UploadsUnchanged
<1>10. PostedFilesComplete'
  <2>1. ASSUME NEW r \in Runs, messages'[r] # Missing, HasFile(messages'[r])
        PROVE  U!Stored(r)
    <3>1. CASE messages'[r] = messages[r]
      BY <2>1, <3>1 DEF IInv, PostedFilesComplete, HasFile
    <3>2. CASE r = s.run /\ messages'[r] = s.message
      BY <1>3, <2>1, <3>2
    <3> QED
      BY <1>2, <1>8, <3>1, <3>2
  <2> QED
    BY <1>9, <2>1 DEF PostedFilesComplete, HasFile, UploadsKept
<1>11. AnswerStays'
  <2> SUFFICES ASSUME NEW u \in sends', IsAnswer(u)', u.state = "posted"
               PROVE  messages'[u.run] = u.message
    BY DEF AnswerStays
  <2>1. IsAnswer(u)
    BY <1>1 DEF IsAnswer
  <2>2. CASE u = t
    <3>1. state = "posted" /\ u.run = s.run /\ u.message = s.message
      BY <1>4, <2>2
    <3> QED
      BY <1>2, <1>3, <1>8, <3>1
  <2>3. CASE u # t
    <3>1. u \in sends /\ u.run \in Runs /\ messages[u.run] = u.message
      BY <1>5, <2>1, <2>3 DEF IInv, AnswerStays, SendsSound, CallSound
    <3>2. runs[u.run].request \in Requests[u.run]
      BY <3>1, StandingRun DEF IInv, SendsSound, CallSound
    <3>3. messages[u.run].finalised = TRUE /\ messages[u.run] # Missing
      <4>1. u.message = Answer(u.run, runs[u.run].request)
        BY <2>1 DEF IsAnswer
      <4>2. Answer(u.run, runs[u.run].request).finalised = TRUE
        BY AnswerShape
      <4>3. Answer(u.run, runs[u.run].request) # Missing
        BY <3>1, <3>2, MissingAssumption
      <4> QED
        BY <3>1, <4>1, <4>2, <4>3
    <3>4. messages'[u.run] = messages[u.run]
      <4>1. CASE u.run # s.run
        BY <1>2, <1>8, <3>1, <4>1
      <4>2. CASE u.run = s.run
        <5>1. messages[s.run].finalised = TRUE /\ messages[s.run] # Missing
          BY <3>3, <4>2
        <5>2. UNCHANGED messages
          BY <1>2, <5>1
        <5> QED
          BY <5>2
      <4> QED
        BY <4>1, <4>2
    <3> QED
      BY <3>1, <3>4
  <2> QED
    BY <2>2, <2>3
<1> QED
  BY <1>1, <1>6, <1>7, <1>8, <1>9, <1>10, <1>11 DEF IInv, UploadsKept

(* A promise is settled, and may end the process. *)
LEMMA ResolveSound == ASSUME IInv, NEW s \in sends, Resolve(s) PROVE IInv'
<1> DEFINE t == [s EXCEPT !.promise = "resolved"]
<1>1. UNCHANGED <<up, hits, runs, messages, uploads>> /\ sends' = (sends \ {s}) \cup {t}
  BY DEF Resolve
<1>2. CallSound(s)
  BY DEF IInv, SendsSound
<1>3. t.run = s.run /\ t.message = s.message /\ t.state = s.state /\ CallSound(t)
  BY <1>2 DEF CallSound
<1> HIDE DEF t
<1>4. RunsSound' /\ DOMAIN runs' = Runs
  BY <1>1 DEF IInv, RunsSound
<1>5. SendsSound' /\ CallsCounted'
  <2>1. \A u \in sends \cup {t} : CallSound(u)'
    BY <1>1, <1>3 DEF IInv, SendsSound, CallSound
  <2>2. \A r \in Runs : CallLimit(runs[r].at) <= CallLimit(runs'[r].at)
    BY <1>1, CallLimitType
  <2> QED
    BY <1>1, <1>3, <1>4, <2>1, <2>2, CallReplaced
<1>6. PostedFilesComplete' /\ UploadsSound'
  BY <1>1, UploadsUnchanged DEF IInv, PostedFilesComplete, UploadsKept
<1>7. AnswerStays'
  BY <1>1, <1>3 DEF IInv, AnswerStays, IsAnswer
<1> QED
  BY <1>1, <1>4, <1>5, <1>6, <1>7 DEF IInv

LEMMA RejectSound == ASSUME IInv, NEW s \in sends, Reject(s) PROVE IInv'
<1> DEFINE t == [s EXCEPT !.promise = "rejected"]
<1>1. /\ up /\ UNCHANGED <<hits, messages, uploads>> /\ sends' = (sends \ {s}) \cup {t}
      /\ up' = s.caught
      /\ runs' = IF s.caught THEN runs ELSE [runs EXCEPT ![s.run].at = "crashed"]
  BY DEF Reject
<1>2. /\ CallSound(s) /\ s.run \in Runs /\ s.caught \in BOOLEAN /\ runs[s.run].at # "idle"
      /\ DOMAIN runs = Runs
  BY DEF IInv, SendsSound, CallSound, RunsSound
<1>3. t.run = s.run /\ t.message = s.message /\ t.state = s.state /\ CallSound(t)
  BY <1>2 DEF CallSound
<1> HIDE DEF t
<1>4. /\ DOMAIN runs' = Runs
      /\ \A r \in Runs : r # s.run \/ s.caught => runs'[r] = runs[r]
      /\ ~s.caught => runs'[s.run] = Run(runs[s.run].request, "crashed", runs[s.run].response)
  <2>1. CASE s.caught
    BY <1>1, <1>2, <2>1
  <2>2. CASE ~s.caught
    <3>1. runs' = [runs EXCEPT ![s.run] = Run(runs[s.run].request, "crashed",
                                              runs[s.run].response)]
      BY <1>1, <1>2, <2>2, StandingRun
    <3> QED
      BY <1>2, <2>2, <3>1
  <2> QED
    BY <2>1, <2>2
<1>5. /\ \A r \in Runs : runs'[r].request = runs[r].request
      /\ \A r \in Runs : runs[r].at # "idle" => runs'[r].at # "idle"
  BY <1>4, RunShape
<1>6. up' = (\A r \in Runs : runs'[r].at # "crashed")
  <2>1. \A r \in Runs : runs[r].at # "crashed"
    BY <1>1 DEF IInv
  <2>2. CASE s.caught
    BY <1>1, <1>2, <1>4, <2>1, <2>2
  <2>3. CASE ~s.caught
    <3>1. runs'[s.run].at = "crashed"
      BY <1>4, <2>3, RunShape
    <3>2. up' = FALSE
      BY <1>1, <1>2, <2>3
    <3> QED
      BY <1>2, <3>1, <3>2
  <2> QED
    BY <2>2, <2>3
<1>7. RunsSound'
  <2>1. ASSUME NEW r \in Runs PROVE RunSound(r, runs'[r])
    <3>1. CASE runs'[r] = runs[r]
      BY <3>1 DEF IInv, RunsSound
    <3>2. CASE r = s.run /\ ~s.caught
      <4>1. runs[r].request \in Requests[r]
        BY <1>2, <3>2, StandingRun
      <4> QED
        BY <1>4, <3>2, <4>1, RunShape DEF RunSound
    <3> QED
      BY <1>4, <3>1, <3>2
  <2> QED
    BY <1>4, <2>1 DEF RunsSound
<1>8. SendsSound' /\ CallsCounted'
  <2>1. \A u \in sends \cup {t} : CallSound(u)'
    BY <1>3, <1>5 DEF IInv, SendsSound, CallSound
  <2>2. ASSUME NEW r \in Runs PROVE CallLimit(runs[r].at) <= CallLimit(runs'[r].at)
    <3>1. CASE runs'[r] = runs[r]
      BY <3>1, CallLimitType
    <3>2. CASE r = s.run /\ ~s.caught
      <4>1. CallLimit(runs'[r].at) = 2
        BY <1>4, <3>2, RunShape DEF CallLimit
      <4> QED
        BY <4>1, CallLimitType
    <3> QED
      BY <1>4, <3>1, <3>2
  <2> QED
    BY <1>1, <1>3, <1>4, <2>1, <2>2, CallReplaced
<1>9. PostedFilesComplete' /\ UploadsSound'
  BY <1>1, UploadsUnchanged DEF IInv, PostedFilesComplete, UploadsKept
<1>10. AnswerStays'
  <2>1. ASSUME NEW u \in sends', IsAnswer(u)', u.state = "posted"
        PROVE  messages'[u.run] = u.message
    <3>1. PICK v \in sends : v.run = u.run /\ v.message = u.message /\ v.state = u.state
      BY <1>1, <1>3
    <3>2. v.run \in Runs
      BY DEF IInv, SendsSound, CallSound
    <3>3. IsAnswer(v)
      BY <1>5, <2>1, <3>1, <3>2 DEF IsAnswer
    <3> QED
      BY <1>1, <2>1, <3>1, <3>3 DEF IInv, AnswerStays
  <2> QED
    BY <2>1 DEF AnswerStays
<1> QED
  BY <1>1, <1>6, <1>7, <1>8, <1>9, <1>10 DEF IInv

-----------------------------------------------------------------------------
(* The theorems *)

LEMMA InvariantNext == IInv /\ [Next]_vars => IInv'
<1> SUFFICES ASSUME IInv, [Next]_vars PROVE IInv'
  OBVIOUS
<1>1. ASSUME NEW r \in Runs, NEW request \in Requests[r], Begin(r, request) PROVE IInv'
  BY <1>1, RejectedSound, BeginSearchSound, BeginThinkingSound, BeginFileSound,
     AnswerAtOnceSound, BeginWorkSound DEF Begin
<1>2. ASSUME NEW r \in Runs, Continue(r) PROVE IInv'
  BY <1>2, SearchedSound, PromptedSound, ImaginedSound, ScrapedSound, ResizedSound,
     AnsweredSound, ChannelDoneSound, UploadedSound, UploadStepKeeps DEF Continue
<1>3. ASSUME NEW s \in sends, Receive(s) \/ Resolve(s) \/ Reject(s) PROVE IInv'
  BY <1>3, ReceiveSound, ResolveSound, RejectSound
<1>4. CASE UNCHANGED vars
  <2>1. UNCHANGED <<up, hits, runs, sends, messages, uploads>>
    BY <1>4 DEF vars
  <2>2. UploadsKept
    BY <2>1, UploadsUnchanged
  <2>3. SendsSound'
    BY <2>1, <2>2 DEF IInv, SendsSound, CallSound, UploadsKept
  <2>4. RunsSound' /\ CallsCounted' /\ AnswerStays'
    BY <2>1 DEF IInv, RunsSound, CallsCounted, CallsOf, AnswerStays, IsAnswer
  <2>5. PostedFilesComplete'
    BY <2>1, <2>2 DEF IInv, PostedFilesComplete, UploadsKept
  <2> QED
    BY <2>1, <2>2, <2>3, <2>4, <2>5 DEF IInv, UploadsKept
<1> QED
  BY <1>1, <1>2, <1>3, <1>4, NewMinuteSound DEF Next

(* The inductive invariant holds. *)
THEOREM InvariantCorrect == Spec => []IInv
<1>1. Init => IInv
  BY InvariantInit
<1>2. IInv /\ [Next]_vars => IInv'
  BY InvariantNext
<1> QED
  BY <1>1, <1>2, PTL DEF Spec

(* Every variable keeps its type: the process is up exactly while no       *)
(* handler has crashed, and no request sends more than two messages.       *)
THEOREM TypeCorrect == Spec => []TypeOK
BY InvariantCorrect, InvariantTypes, PTL

(* A message that refers to a file is posted only when the whole file is   *)
(* stored, whatever replies of the bucket were lost.                       *)
THEOREM FilesComplete == Spec => []PostedFilesComplete
<1>1. IInv => PostedFilesComplete
  BY DEF IInv
<1> QED
  BY <1>1, InvariantCorrect, PTL

(* An answer that was posted stays, in whatever order the placeholder and  *)
(* the answer of a command arrive.                                         *)
THEOREM AnswersStay == Spec => []AnswerStays
<1>1. IInv => AnswerStays
  BY DEF IInv
<1> QED
  BY <1>1, InvariantCorrect, PTL

=============================================================================
