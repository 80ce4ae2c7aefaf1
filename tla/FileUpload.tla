----------------------------- MODULE FileUpload -----------------------------
(***************************************************************************)
(* How the TypeScript SDK stores the file of a message                     *)
(* (services/data/data.client.ts): a bucket is allocated, and then all     *)
(* chunks of the file are uploaded at once, each with some retries.  The   *)
(* bucket may do what it is asked though the reply is lost.                *)
(***************************************************************************)
EXTENDS Integers

CONSTANTS
    Owners,         \* who uploads a file, one each
    ChunkCount,     \* the chunks of a file
    MaxAttempts     \* for each chunk

VARIABLE uploads    \* what each owner's upload has come to

Chunks == 1..ChunkCount

(* A chunk waits for a reply, has one, or is through with it. *)
Replies == {"Success", "ChunkAlreadyExists", "Refused", "Lost"}
ChunkStages == {"sent", "completed", "failed"} \cup Replies

Attempt(n) == [attempt |-> n, at |-> "sent"]
NoUpload ==
    [at |-> "none", accessible |-> FALSE, chunks |-> [i \in Chunks |-> Attempt(1)],
     stored |-> {}]

UploadsOK ==
    uploads \in [Owners -> [at : {"none", "allocating", "uploading", "resolved", "rejected"},
                            accessible : BOOLEAN,
                            chunks : [Chunks -> [attempt : 1..MaxAttempts, at : ChunkStages]],
                            stored : SUBSET Chunks]]

(* uploadData, for a canister that may read the file.  In a community's    *)
(* scope its id is "", which is no principal: then no attempt is sent.     *)
BeginUpload(o, accessible) ==
    uploads' = [uploads EXCEPT ![o].at = "allocating", ![o].accessible = accessible]

(* Fault: the first chunk that is through resolves the upload. *)
FaultyOutcome(chunks) ==
    IF \E i \in Chunks : chunks[i].at = "failed" THEN "rejected"
    ELSE IF \E i \in Chunks : chunks[i].at = "completed" THEN "resolved"
    ELSE "uploading"

(* Promise.all: rejected with the first chunk that fails. *)
Outcome(chunks) ==
    IF \E i \in Chunks : chunks[i].at = "failed" THEN "rejected"
    ELSE IF \A i \in Chunks : chunks[i].at = "completed" THEN "resolved"
    ELSE "uploading"

(* The storage index allocates a bucket, or it does not. *)
Allocate(o) ==
    /\ uploads[o].at = "allocating"
    /\ \E at \in {"rejected", Outcome(uploads[o].chunks)} :
        uploads' = [uploads EXCEPT ![o].at = at]

(* The chunks go on when the upload is rejected. *)
Uploading(o, i) == uploads[o].at \notin {"none", "allocating"} /\ uploads[o].chunks[i].at = "sent"

(* The bucket gets a chunk: it stores it or refuses to.  A chunk that it   *)
(* has is not stored again.                                                *)
StoreChunk(o, i) ==
    /\ Uploading(o, i)
    /\ uploads[o].accessible
    /\ \/ /\ i \notin uploads[o].stored
          /\ uploads' = [uploads EXCEPT ![o].stored = @ \cup {i}, ![o].chunks[i].at = "Success"]
       \/ /\ i \in uploads[o].stored
          /\ uploads' = [uploads EXCEPT ![o].chunks[i].at = "ChunkAlreadyExists"]
       \/ uploads' = [uploads EXCEPT ![o].chunks[i].at = "Refused"]

(* The call fails, before the bucket has got the chunk or after. *)
LoseChunk(o, i) ==
    /\ Uploading(o, i)
    /\ \E stored \in {uploads[o].stored, uploads[o].stored \cup {i}} :
        /\ stored = uploads[o].stored \/ uploads[o].accessible
        /\ uploads' = [uploads EXCEPT ![o].stored = stored, ![o].chunks[i].at = "Lost"]

(* Fault: there is one attempt more. *)
FaultyNextAttempt(chunk) ==
    IF chunk.at = "Success" THEN [chunk EXCEPT !.at = "completed"]
    ELSE IF chunk.attempt <= MaxAttempts THEN Attempt(chunk.attempt + 1)
    ELSE [chunk EXCEPT !.at = "failed"]

(* What a chunk does with a reply: any but "Success" is tried again, that  *)
(* the chunk is there already too.                                         *)
NextAttempt(chunk) ==
    IF chunk.at = "Success" THEN [chunk EXCEPT !.at = "completed"]
    ELSE IF chunk.attempt < MaxAttempts THEN Attempt(chunk.attempt + 1)
    ELSE [chunk EXCEPT !.at = "failed"]

ChunkReplied(o, i) ==
    LET upload == uploads[o]
        chunks == [upload.chunks EXCEPT ![i] = NextAttempt(@)]
    IN  /\ upload.chunks[i].at \in Replies
        /\ uploads' = [uploads EXCEPT
               ![o].chunks = chunks,
               ![o].at = IF @ = "uploading" THEN Outcome(chunks) ELSE @]

UploadStep(o) ==
    \/ Allocate(o)
    \/ \E i \in Chunks : StoreChunk(o, i) \/ LoseChunk(o, i) \/ ChunkReplied(o, i)

Stored(o) == uploads[o].stored = Chunks
=============================================================================
