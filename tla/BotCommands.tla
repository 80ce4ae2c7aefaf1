----------------------------- MODULE BotCommands -----------------------------
(***************************************************************************)
(* The example server of the TypeScript SDK (packages/example/src): what   *)
(* it does with a request, from the middleware to the last message that    *)
(* the command sends.  The commands on API keys are in PingSubscriptions.  *)
(*                                                                         *)
(* Handlers are asynchronous: requests, the searches and uploads they      *)
(* start, and the messages they send run side by side, and a promise that  *)
(* is rejected with nobody to catch it ends the whole process.             *)
(***************************************************************************)
EXTENDS Drafts, FiniteSets

CONSTANTS
    Runs,           \* the requests that come in, by the id of their token's message
    Requests,       \* what each of them may ask for
    Limit,          \* the requests of a client in a minute
    ChunkCount, MaxAttempts

VARIABLES
    up,         \* the process runs
    hits,       \* the requests of this minute
    runs,       \* what each request has come to
    sends,      \* the calls of sendMessage that have been made
    messages,   \* OpenChat: the message that each request has posted
    uploads

vars == <<up, hits, runs, sends, messages, uploads>>

U == INSTANCE FileUpload WITH Owners <- Runs
P == INSTANCE BotPermissions

-----------------------------------------------------------------------------
(* Requests *)

Searches == {"album", "song", "artist"}
Thinkers == {"prompt", "imagine"}
Immediate == {"numbers", "poll", "say_hello"}
Uploaders == {"image", "file", "imagine"}
Commands ==
    Searches \cup Thinkers \cup Immediate
    \cup {"file", "news", "image", "chat_details", "chat_events"}

(* The routes that take an API key *)
Actions == {"execute_action", "create_channel", "delete_channel"}

Tokens == {"none", "invalid", "valid"}

ASSUME MasksAssumption == P!MasksAgree

(* Fault: a command that sends a file declares what its placeholder needs. *)
FaultyDeclared(job) ==
    CASE job = "poll" -> {"Poll"}
      [] job = "image" -> {"Image"}
      [] job \in Actions -> {"Text", "Image", "P2pSwap", "VideoCall"}
      [] OTHER -> {"Text"}

(* The permissions that the schema declares for messages of a command, and *)
(* those that the bot seeks for what is done with an API key               *)
Declared(job) ==
    CASE job = "poll" -> {"Poll"}
      [] job = "image" -> {"Image"}
      [] job = "file" -> {"File"}
      [] job \in Actions -> {"Text", "Image", "P2pSwap", "VideoCall"}
      [] OTHER -> {"Text"}

(* "complete" is whether the required arguments, or the body, are as they  *)
(* should be; a command's scope is a chat or a community.  "granted" are   *)
(* the permissions for messages in the token: a command is only there when *)
(* all that it declares is granted, but who makes an API key may grant it  *)
(* any part of what the bot seeks.                                         *)
ASSUME BotCommandsAssumption ==
    /\ \A r \in Runs : \A request \in Requests[r] :
        /\ request \in [job : Commands \cup Actions \cup {"unknown"}, token : Tokens,
                        complete : BOOLEAN, scope : {"chat", "community"},
                        granted : SUBSET P!MessagePermissions]
        /\ IF request.job \in Actions THEN request.granted \subseteq Declared(request.job)
           ELSE request.granted = Declared(request.job)
    /\ Limit \in Nat /\ ChunkCount \in Nat /\ MaxAttempts \in Nat \ {0}

Idle == [at |-> "idle", request |-> Missing, response |-> Missing]
Run(request, at, response) == [at |-> at, request |-> request, response |-> response]
Status(n) == [status |-> n, message |-> Missing]

(* success(message), with toResponse: no id is sent as 0. *)
Shows(message) ==
    [status |-> 200, message |-> [message EXCEPT !.contextMessageId = OrElse(@, 0)]]

-----------------------------------------------------------------------------
(* Messages *)

(* client.messageId: only commands in a chat have one. *)
MessageIdOf(r, request) ==
    IF request.job \in Commands /\ request.scope = "chat" THEN r ELSE Missing

Text(r, request, text) == SetContextMessageId(TextMessage(text), MessageIdOf(r, request))

Placeholder(r, request) == SetFinalised(Text(r, request, "placeholder"), FALSE)

(* Fault: the notice is an ordinary message. *)
FaultyNotice(r, request) == Text(r, request, "notice")

(* What only the one who gave the command is shown, under a random id      *)
Notice(r, request) == MakeEphemeral(Text(r, request, "notice"), [random64 |-> r])

Blob(r) == [canisterId |-> CHOOSE p \in Principals : TRUE, blobId |-> r]

(* Fault: the answer is no more final than the placeholder. *)
FaultyAnswer(r, request) == SetFinalised(Text(r, request, "answer"), FALSE)

(* The message that a command is about *)
Answer(r, request) ==
    CASE request.job = "imagine" ->
            SetContextMessageId(ImageMessage(512, 512, "image/png", Blob(r)),
                                MessageIdOf(r, request))
      [] request.job = "image" ->
            SetContextMessageId(SetCaption(ImageMessage(512, 512, "image/png", Blob(r)), "test"),
                                MessageIdOf(r, request))
      [] request.job = "file" ->
            SetContextMessageId(
                SetCaption(FileMessage("./dummy.pdf", "application/pdf", 1, Blob(r)), "test"),
                MessageIdOf(r, request))
      [] request.job = "poll" ->
            SetContextMessageId(PollMessage("question", <<"yes", "no">>, "oneDay"),
                                MessageIdOf(r, request))
      [] OTHER -> Text(r, request, "answer")

(* No message or response is taken for one that is not there. *)
ASSUME MissingAssumption ==
    /\ \A r \in Runs : \A request \in Requests[r] :
        /\ Answer(r, request) # Missing
        /\ \A m \in {Placeholder(r, request), Notice(r, request), Answer(r, request)} :
            Shows(m) # Missing
    /\ \A n \in {200, 400, 429, 500} : Status(n) # Missing

(* The call of sendMessage: none is made of a message that needs more than *)
(* the token grants, or of an ephemeral one.  Its promise is then resolved *)
(* all the same, and no handler looks at the result.                       *)
Call(r, request, message, caught) ==
    IF \/ message.ephemeral
       \/ \E p \in message.requiredMessagePermissions :
            ~P!HasMessagePermission(
                P!EncodePermissions([P!NothingGranted EXCEPT !.message = request.granted]), p)
    THEN {}
    ELSE {[run |-> r, message |-> message, caught |-> caught, state |-> "sent",
           promise |-> "pending"]}

CallsOf(r) == {s \in sends : s.run = r}
IsAnswer(s) == s.message = Answer(s.run, runs[s.run].request)

-----------------------------------------------------------------------------
Init ==
    /\ up = TRUE /\ hits = 0
    /\ runs = [r \in Runs |-> Idle]
    /\ sends = {}
    /\ messages = [r \in Runs |-> Missing]
    /\ uploads = [r \in Runs |-> U!NoUpload]

(* The handler of a request gets to its next await, or to its end.         *)
Turn(r, run, calls) ==
    /\ runs' = [runs EXCEPT ![r] = run]
    /\ sends' = sends \cup calls
    /\ UNCHANGED <<up, messages>>

(* A promise is rejected, and nobody has asked for it: the process ends.   *)
Crash(r) ==
    /\ up' = FALSE
    /\ runs' = [runs EXCEPT ![r].at = "crashed"]
    /\ UNCHANGED <<sends, messages>>

(* The limiter, the middleware and the router let a request through.       *)
Admitted(r, request) ==
    /\ up /\ runs[r] = Idle /\ hits < Limit
    /\ request.token = "valid"
    /\ hits' = hits + 1

(* An invalid token is not the client's fault: the error that the client   *)
(* throws is not of the class BadRequestError that the middleware knows.   *)
Rejected(r, request) ==
    /\ up /\ runs[r] = Idle
    /\ hits' = IF hits < Limit THEN hits + 1 ELSE hits
    /\ \E n \in {400, 429, 500} :
        /\ \/ n = 429 /\ hits = Limit
           \/ n = 400 /\ hits < Limit /\ request.token = "none"
           \/ n = 500 /\ hits < Limit /\ request.token = "invalid"
           \/ n = 400 /\ hits < Limit /\ request.token = "valid" /\ request.job = "unknown"
        /\ Turn(r, Run(request, "over", Status(n)), {})
    /\ UNCHANGED uploads

NewMinute ==
    /\ up /\ hits > 0 /\ hits' = 0
    /\ UNCHANGED <<up, runs, sends, messages, uploads>>

-----------------------------------------------------------------------------
(* Handlers *)

(* Fault: only "artist" answers when its argument is missing. *)
FaultyIncomplete(r, request) ==
    IF request.job = "artist" THEN Shows(Notice(r, request)) ELSE Missing

(* The answer to a command without its argument *)
Incomplete(r, request) ==
    IF request.job = "artist" THEN Shows(Notice(r, request)) ELSE Status(400)

(* album, song, artist: the placeholder is sent and shown, and then Spotify *)
(* is searched.                                                            *)
BeginSearch(r, request) ==
    LET placeholder == Placeholder(r, request)
    IN  /\ request.job \in Searches /\ Admitted(r, request)
        /\ IF request.complete
           THEN Turn(r, Run(request, "working", Shows(placeholder)),
                     Call(r, request, placeholder, TRUE))
           ELSE Turn(r, Run(request, "over", Incomplete(r, request)), {})
        /\ UNCHANGED uploads

(* prompt, imagine: the placeholder is only shown.  It is shown before the *)
(* argument is looked at: answering a second time throws.                  *)
BeginThinking(r, request) ==
    /\ request.job \in Thinkers /\ Admitted(r, request)
    /\ runs' = [runs EXCEPT ![r] = Run(request, IF request.complete THEN "working" ELSE "crashed",
                                       Shows(Placeholder(r, request)))]
    /\ up' = request.complete
    /\ UNCHANGED <<sends, messages, uploads>>

(* file: nobody catches what becomes of the placeholder.  The file is read *)
(* before anything else happens.                                           *)
BeginFile(r, request) ==
    LET placeholder == Placeholder(r, request)
        calls == Call(r, request, placeholder, FALSE)
    IN  /\ request.job = "file" /\ Admitted(r, request)
        /\ \/ /\ Turn(r, Run(request, "uploading", Shows(placeholder)), calls)
              /\ U!BeginUpload(r, request.scope = "chat")
           \/ /\ runs' = [runs EXCEPT ![r] = Run(request, "crashed", Shows(placeholder))]
              /\ sends' = sends \cup calls
              /\ up' = FALSE
              /\ UNCHANGED <<messages, uploads>>

(* numbers, poll, sayHello, executeAction: there is nothing to wait for.   *)
AnswerAtOnce(r, request) ==
    LET answer == Answer(r, request)
    IN  /\ request.job \in Immediate \cup {"execute_action"} /\ Admitted(r, request)
        /\ IF request.complete \/ request.job \in {"poll", "execute_action"}
           THEN Turn(r, Run(request, "over", Shows(answer)), Call(r, request, answer, TRUE))
           ELSE Turn(r, Run(request, "over", Incomplete(r, request)), {})
        /\ UNCHANGED uploads

(* news, image, details, events, createChannel, deleteChannel: the answer  *)
(* comes after the work.  deleteChannel throws if the body is no number.   *)
BeginWork(r, request) ==
    LET run(at, response) == Run(request, at, response)
    IN  /\ request.job \in {"news", "image", "chat_details", "chat_events",
                            "create_channel", "delete_channel"}
        /\ Admitted(r, request)
        /\ CASE request.job \in {"chat_details", "chat_events"} /\ request.scope = "community" ->
                    Turn(r, run("over", Shows(Notice(r, request))), {})
             [] request.job = "delete_channel" /\ ~request.complete ->
                    /\ up' = FALSE
                    /\ runs' = [runs EXCEPT ![r] = run("crashed", Missing)]
                    /\ UNCHANGED <<sends, messages>>
             [] OTHER -> Turn(r, run("working", Missing), {})
        /\ UNCHANGED uploads

-----------------------------------------------------------------------------
(* The work of a handler is done, or fails. *)
Working(r, jobs) ==
    /\ up /\ runs[r].at = "working" /\ runs[r].request.job \in jobs
    /\ UNCHANGED hits

(* The handler shows nothing more, but sends its message.                  *)
SendAnswer(r, caught) ==
    LET run == runs[r]
    IN  Turn(r, [run EXCEPT !.at = "over"],
             Call(r, run.request, Answer(r, run.request), caught))

ShowAndSendAnswer(r) ==
    LET run == runs[r]
        answer == Answer(r, run.request)
    IN  Turn(r, Run(run.request, "over", Shows(answer)), Call(r, run.request, answer, TRUE))

GiveUp(r) == Turn(r, [runs[r] EXCEPT !.at = "givenUp"], {})

(* A search that fails is logged, and its result is undefined: what is     *)
(* read of it then throws.                                                 *)
Searched(r) ==
    /\ Working(r, Searches)
    /\ SendAnswer(r, TRUE) \/ Crash(r)
    /\ UNCHANGED uploads

(* OpenAI has answered, or the failure is caught.  The promises of what is *)
(* done with the answer are not part of the chain that catches.            *)
Prompted(r) ==
    /\ Working(r, {"prompt"})
    /\ SendAnswer(r, FALSE) \/ GiveUp(r)
    /\ UNCHANGED uploads

Imagined(r) ==
    /\ Working(r, {"imagine"})
    /\ \/ /\ Turn(r, [runs[r] EXCEPT !.at = "uploading"], {})
          /\ U!BeginUpload(r, runs[r].request.scope = "chat")
       \/ GiveUp(r) /\ UNCHANGED uploads

(* Fault: what fails while the news are read is not caught. *)
FaultyScraped(r) ==
    /\ Working(r, {"news"})
    /\ ShowAndSendAnswer(r) \/ Crash(r)
    /\ UNCHANGED uploads

(* The news are read, or there are none. *)
Scraped(r) ==
    /\ Working(r, {"news"})
    /\ ShowAndSendAnswer(r)
    /\ UNCHANGED uploads

Resized(r) ==
    /\ Working(r, {"image"})
    /\ \/ /\ Turn(r, [runs[r] EXCEPT !.at = "uploading"], {})
          /\ U!BeginUpload(r, runs[r].request.scope = "chat")
       \/ Crash(r) /\ UNCHANGED uploads

(* The details of the chat, and its events, are answered.  A failure of    *)
(* chatDetails is an answer, one of chatEvents is not.                     *)
Answered(r) ==
    LET run == runs[r]
    IN  /\ Working(r, {"chat_details", "chat_events"})
        /\ \/ ShowAndSendAnswer(r)
           \/ Turn(r, Run(run.request, "over", Shows(Notice(r, run.request))), {})
           \/ run.request.job = "chat_events" /\ Crash(r)
        /\ UNCHANGED uploads

ChannelDone(r) ==
    /\ Working(r, {"create_channel", "delete_channel"})
    /\ \/ \E n \in {200, 500} : Turn(r, Run(runs[r].request, "over", Status(n)), {})
       \/ Crash(r)
    /\ UNCHANGED uploads

(* The upload is through.  Only "file" catches when it fails.              *)
Uploaded(r) ==
    LET job == runs[r].request.job
    IN  /\ up /\ runs[r].at = "uploading"
        /\ \/ /\ uploads[r].at = "resolved"
              /\ CASE job = "image" -> ShowAndSendAnswer(r)
                   [] job = "file" -> SendAnswer(r, TRUE)
                   [] job = "imagine" -> SendAnswer(r, FALSE)
           \/ /\ uploads[r].at = "rejected"
              /\ IF job = "file" THEN GiveUp(r) ELSE Crash(r)
        /\ UNCHANGED <<hits, uploads>>

UploadStep(r) ==
    /\ up /\ U!UploadStep(r)
    /\ UNCHANGED <<up, hits, runs, sends, messages>>

-----------------------------------------------------------------------------
(* Messages that are sent *)

(* OpenChat gets a message, maybe after the server has given up on it: the *)
(* first one of a command makes the message, and others update it until it *)
(* is finalised.  It may also refuse any.                                  *)
Receive(s) ==
    LET old == messages[s.run]
    IN  /\ s.state = "sent"
        /\ \/ /\ old # Missing => ~old.finalised
              /\ messages' = [messages EXCEPT ![s.run] = s.message]
              /\ sends' = (sends \ {s}) \cup {[s EXCEPT !.state = "posted"]}
           \/ /\ sends' = (sends \ {s}) \cup {[s EXCEPT !.state = "refused"]}
              /\ UNCHANGED messages
        /\ UNCHANGED <<up, hits, runs, uploads>>

(* The promise of sendMessage is resolved with the answer, or rejected.    *)
Resolve(s) ==
    /\ up /\ s.promise = "pending" /\ s.state # "sent"
    /\ sends' = (sends \ {s}) \cup {[s EXCEPT !.promise = "resolved"]}
    /\ UNCHANGED <<up, hits, runs, messages, uploads>>

(* A rejection that nobody catches ends the process.                       *)
Reject(s) ==
    /\ up /\ s.promise = "pending"
    /\ sends' = (sends \ {s}) \cup {[s EXCEPT !.promise = "rejected"]}
    /\ up' = s.caught
    /\ runs' = IF s.caught THEN runs ELSE [runs EXCEPT ![s.run].at = "crashed"]
    /\ UNCHANGED <<hits, messages, uploads>>

-----------------------------------------------------------------------------
Begin(r, request) ==
    \/ Rejected(r, request)
    \/ BeginSearch(r, request) \/ BeginThinking(r, request) \/ BeginFile(r, request)
    \/ AnswerAtOnce(r, request) \/ BeginWork(r, request)

Continue(r) ==
    \/ Searched(r) \/ Prompted(r) \/ Imagined(r) \/ Scraped(r) \/ Resized(r)
    \/ Answered(r) \/ ChannelDone(r) \/ Uploaded(r) \/ UploadStep(r)

Next ==
    \/ \E r \in Runs : \E request \in Requests[r] : Begin(r, request)
    \/ \E r \in Runs : Continue(r)
    \/ \E s \in sends : Receive(s) \/ Resolve(s) \/ Reject(s)
    \/ NewMinute

Spec == Init /\ [][Next]_vars

(* Whatever a handler waits for comes to an end, and so do its calls.      *)
FairSpec ==
    /\ Spec
    /\ \A r \in Runs : WF_vars(Continue(r)) /\ WF_vars(\E s \in CallsOf(r) : Resolve(s) \/ Reject(s))

-----------------------------------------------------------------------------
(* Properties *)

RunTypes(r) ==
    LET run == runs[r]
    IN  \/ run = Idle
        \/ /\ run.at \in {"working", "uploading", "givenUp", "over", "crashed"}
           /\ run.request \in Requests[r]
           /\ run.at \in {"over", "givenUp"} => run.response # Missing
           /\ run.at = "uploading" => run.request.job \in Uploaders

(* The process runs as long as no handler has crashed, every handler that  *)
(* has ended has answered, and a request calls sendMessage at most twice.  *)
TypeOK ==
    /\ up = (\A r \in Runs : runs[r].at # "crashed")
    /\ hits \in 0..Limit
    /\ DOMAIN runs = Runs /\ \A r \in Runs : RunTypes(r)
    /\ \A s \in sends :
        /\ s.run \in Runs /\ s.caught \in BOOLEAN
        /\ s.state \in {"sent", "posted", "refused"}
        /\ s.promise \in {"pending", "resolved", "rejected"}
    /\ \A r \in Runs : Cardinality(CallsOf(r)) <= 2
    /\ DOMAIN messages = Runs
    /\ U!UploadsOK

(* An answer that OpenChat has accepted stays: the placeholder that was    *)
(* sent before, and may arrive after it, does not take its place.          *)
AnswerStays ==
    \A s \in sends : IsAnswer(s) /\ s.state = "posted" => messages[s.run] = s.message

ShownBy(r) == IF runs[r].response = Missing THEN Missing ELSE runs[r].response.message

(* A message that is shown as final is the very message that is sent, and  *)
(* no other is posted for the command; what is only shown is ephemeral,    *)
(* and nothing is sent beside it.  The one exception is an action with an  *)
(* API key that does not grant what the message needs: it is shown as      *)
(* final, and nothing is sent.                                             *)
ShownIsSent ==
    \A r \in Runs : ShownBy(r) # Missing /\ ShownBy(r).finalised =>
        LET shown == ShownBy(r)
            request == runs[r].request
        IN  IF shown.ephemeral THEN CallsOf(r) = {}
            ELSE IF shown.requiredMessagePermissions \subseteq request.granted
            THEN /\ \E s \in CallsOf(r) : Shows(s.message).message = shown
                 /\ messages[r] # Missing => Shows(messages[r]).message = shown
            ELSE request.job \in Actions /\ CallsOf(r) = {} /\ messages[r] = Missing

(* A message with a file is posted only when the bucket has all of it.     *)
PostedFilesComplete ==
    \A r \in Runs :
        messages[r] # Missing /\ messages[r].content.tag \in {"Image", "File"} => U!Stored(r)

(* Numbers, polls, greetings, news, details and actions never end the      *)
(* process, whatever fails; a prompt with its argument does so only when   *)
(* its answer could not be sent, and an image only by a file that could    *)
(* not be stored, since the schema does not let it be sent.                *)
CrashesExplained ==
    \A r \in Runs : runs[r].at = "crashed" =>
        LET request == runs[r].request
        IN  /\ request.job \notin Immediate \cup {"news", "chat_details", "execute_action"}
            /\ request.job = "prompt" /\ request.complete =>
                \E s \in CallsOf(r) : IsAnswer(s) /\ s.promise = "rejected"
            /\ request.job = "imagine" /\ request.complete => uploads[r].at = "rejected"

(* A request that has come in is answered, unless the process ends.        *)
RequestsAnswered ==
    \A r \in Runs : runs[r] # Idle ~> ~up \/ runs[r].response # Missing

(* A placeholder that is shown is followed by the answer, unless what the  *)
(* command waits for fails; an image that was imagined never is, for the   *)
(* schema does not declare the permission to send it.                      *)
PlaceholderFollowed ==
    \A r \in Runs :
        (ShownBy(r) # Missing /\ ~ShownBy(r).finalised /\ runs[r].request.job # "imagine")
            ~> \/ ~up \/ runs[r].at = "givenUp"
               \/ \E s \in CallsOf(r) : IsAnswer(s) /\ s.promise # "pending"
=============================================================================
