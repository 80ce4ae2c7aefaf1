----------------------- MODULE BotCommandsGuarantees -----------------------
(***************************************************************************)
(* What the example server shows is what it sends, and why it crashes, for *)
(* any number of requests side by side.                                    *)
(***************************************************************************)
EXTENDS BotCommandsProofs

-----------------------------------------------------------------------------
(* The inductive invariant *)

(* What the answer of a command needs *)
Needed(job) ==
    CASE job = "poll" -> "Poll"
      [] job \in {"image", "imagine"} -> "Image"
      [] job = "file" -> "File"
      [] OTHER -> "Text"

(* The token grants it. *)
MaySend(request) == Needed(request.job) \in request.granted

(* What a response tells of the messages that the request has sent: an     *)
(* answer that is shown is sent, and nothing else, if the token grants it, *)
(* as that of a command does; beside a notice or a status, nothing is.     *)
Tells(r, request, response, calls) ==
    \/ /\ response = Missing \/ \E n \in {200, 400, 429, 500} : response = Status(n)
       /\ calls = {}
    \/ response = Shows(Placeholder(r, request))
    \/ response = Shows(Notice(r, request)) /\ calls = {}
    \/ /\ response = Shows(Answer(r, request)) /\ MaySend(request)
       /\ calls # {} /\ \A s \in calls : s.message = Answer(r, request)
    \/ /\ response = Shows(Answer(r, request)) /\ ~MaySend(request)
       /\ request.job \in Actions /\ calls = {}

(* The handlers that show something before they wait *)
Early == Searches \cup Thinkers \cup {"file"}

(* What is shown while a handler waits *)
Waits(r, request, at, response) ==
    at \in {"working", "uploading"} =>
        response = IF request.job \in Early THEN Shows(Placeholder(r, request)) ELSE Missing

(* The calls whose failure nobody catches are answers to prompts, and      *)
(* those of "file".                                                        *)
Caught(r, request, calls) ==
    \A s \in calls : ~s.caught =>
        /\ request.job \in {"prompt", "file"}
        /\ request.job = "prompt" => s.message = Answer(r, request)

RunTold(r, run, calls) ==
    run # Idle => /\ Tells(r, run.request, run.response, calls)
                  /\ Waits(r, run.request, run.at, run.response)
                  /\ Caught(r, run.request, calls)

(* A message that was posted is one that was sent. *)
PostedIsSent ==
    \A r \in Runs : messages[r] # Missing => \E s \in CallsOf(r) : s.message = messages[r]

ToldInv ==
    /\ \A r \in Runs : RunTold(r, runs[r], CallsOf(r))
    /\ PostedIsSent
    /\ CrashesExplained

-----------------------------------------------------------------------------
(* What messages need, and what is sent of them *)

(* A bot that was granted messages of some kinds may send these.           *)
LEMMA MaskOfGranted ==
    ASSUME NEW kinds \in SUBSET P!MessagePermissions, NEW p \in P!MessagePermissions
    PROVE  P!HasMessagePermission(
                P!EncodePermissions([P!NothingGranted EXCEPT !.message = kinds]), p)
             <=> p \in kinds
<1> DEFINE granted == [P!NothingGranted EXCEPT !.message = kinds]
<1>1. granted.message = kinds
  BY DEF P!NothingGranted
<1> HIDE DEF granted
<1>2. P!EncodePermissions(granted).message = P!PermissionsToBits(kinds, P!MessagePermissionList)
  BY <1>1 DEF P!EncodePermissions
<1>3. P!HasPermission(P!PermissionsToBits(kinds, P!MessagePermissionList),
                      P!MessagePermissionMap[p]) <=> p \in kinds
  BY MasksAssumption DEF P!MasksAgree, P!MaskAgrees
<1> QED
  BY <1>2, <1>3 DEF P!HasMessagePermission, granted

LEMMA KindsOfMessages == {"Text", "Image", "File", "Poll", "P2pSwap", "VideoCall"} \subseteq P!MessagePermissions
<1> DEFINE list == P!MessagePermissionList
<1>1. /\ {1, 2, 5, 6, 10, 11} \subseteq DOMAIN list
      /\ list[1] = "Text" /\ list[2] = "Image" /\ list[5] = "File" /\ list[6] = "Poll"
      /\ list[10] = "P2pSwap" /\ list[11] = "VideoCall"
  BY DEF P!MessagePermissionList
<1> QED
  BY <1>1 DEF P!MessagePermissions

LEMMA AnswerNeeds ==
    ASSUME NEW r, NEW request
    PROVE  /\ Answer(r, request).requiredMessagePermissions = {Needed(request.job)}
           /\ Answer(r, request).ephemeral = FALSE
           /\ {"ephemeral", "requiredMessagePermissions"} \subseteq DOMAIN Answer(r, request)
<1> USE DEF NewMessage, SetContextMessageId, SetCaption, Needed
<1>1. CASE request.job = "imagine"
  BY <1>1 DEF Answer, ImageMessage
<1>2. CASE request.job = "image"
  BY <1>2 DEF Answer, ImageMessage
<1>3. CASE request.job = "file"
  BY <1>3 DEF Answer, FileMessage
<1>4. CASE request.job = "poll"
  BY <1>4 DEF Answer, PollMessage
<1>5. CASE request.job \notin {"imagine", "image", "file", "poll"}
  BY <1>5 DEF Answer, Text, TextMessage
<1> QED
  BY <1>1, <1>2, <1>3, <1>4, <1>5

(* The schema declares what every answer needs but that of "imagine". *)
LEMMA NeededDeclared ==
    ASSUME NEW job
    PROVE  /\ Needed(job) \in P!MessagePermissions
           /\ Needed(job) \in Declared(job) <=> job # "imagine"
BY KindsOfMessages DEF Declared, Needed, Actions

(* So every command but that one may send its answer. *)
LEMMA CommandsMaySend ==
    ASSUME NEW r \in Runs, NEW request \in Requests[r], request.job \notin Actions
    PROVE  MaySend(request) <=> request.job # "imagine"
<1>1. request.granted = Declared(request.job)
  BY BotCommandsAssumption
<1> QED
  BY <1>1, NeededDeclared DEF MaySend

(* An answer is sent once its handler comes to it, if the token grants it. *)
LEMMA AnswerSent ==
    ASSUME NEW r \in Runs, NEW request \in Requests[r], NEW caught
    PROVE  Call(r, request, Answer(r, request), caught) =
                IF MaySend(request) THEN {SentCall(r, Answer(r, request), caught)} ELSE {}
<1> DEFINE bits == P!EncodePermissions([P!NothingGranted EXCEPT !.message = request.granted])
           answer == Answer(r, request)
<1>1. answer.requiredMessagePermissions = {Needed(request.job)} /\ answer.ephemeral = FALSE
  BY AnswerNeeds
<1>2. P!HasMessagePermission(bits, Needed(request.job)) <=> MaySend(request)
  <2>1. request.granted \in SUBSET P!MessagePermissions
    BY BotCommandsAssumption
  <2> QED
    BY <2>1, NeededDeclared, MaskOfGranted DEF MaySend
<1> HIDE DEF bits, answer
<1>3. Call(r, request, answer, caught) =
        IF \/ answer.ephemeral
           \/ \E p \in answer.requiredMessagePermissions : ~P!HasMessagePermission(bits, p)
        THEN {} ELSE {SentCall(r, answer, caught)}
  BY DEF Call, SentCall, bits
<1> QED
  BY <1>1, <1>2, <1>3 DEF answer

(* A call is one of its request. *)
LEMMA CallIsOwn ==
    ASSUME NEW r, NEW request, NEW message, NEW caught
    PROVE  \A s \in Call(r, request, message, caught) :
                s.run = r /\ s.message = message /\ s.caught = caught
BY CallCases DEF SentCall

(* How the three kinds of messages look when they are shown *)
LEMMA ShownShape ==
    ASSUME NEW r, NEW request
    PROVE  /\ Shows(Placeholder(r, request)).message.finalised = FALSE
           /\ Shows(Notice(r, request)).message.ephemeral = TRUE
           /\ Shows(Answer(r, request)).message.ephemeral = FALSE
           /\ Shows(Answer(r, request)).message.requiredMessagePermissions = {Needed(request.job)}
<1>1. /\ Shows(Placeholder(r, request)).message.finalised = FALSE
      /\ Shows(Notice(r, request)).message.ephemeral = TRUE
  BY DEF Shows, Placeholder, Notice, SetFinalised, MakeEphemeral, SetContextMessageId, Text,
         TextMessage, NewMessage
<1>2. /\ Shows(Answer(r, request)).message.ephemeral = FALSE
      /\ Shows(Answer(r, request)).message.requiredMessagePermissions = {Needed(request.job)}
  <2> DEFINE answer == Answer(r, request)
  <2>1. /\ answer.ephemeral = FALSE /\ answer.requiredMessagePermissions = {Needed(request.job)}
        /\ {"ephemeral", "requiredMessagePermissions"} \subseteq DOMAIN answer
    BY AnswerNeeds
  <2> HIDE DEF answer
  <2>2. /\ Shows(answer).message.ephemeral = answer.ephemeral
        /\ Shows(answer).message.requiredMessagePermissions = answer.requiredMessagePermissions
    BY <2>1 DEF Shows
  <2> QED
    BY <2>1, <2>2 DEF answer
<1> QED
  BY <1>1, <1>2

-----------------------------------------------------------------------------
(* Turns of handlers *)

(* Why a handler may throw, rather than a call that it has made *)
HandlerCrash(request, upload) ==
    /\ request.job \notin Immediate \cup {"news", "chat_details", "execute_action"}
    /\ request.job = "prompt" => ~request.complete
    /\ request.job = "imagine" /\ request.complete => upload.at = "rejected"

(* A request that has not come in has sent nothing. *)
LEMMA IdleCalls ==
    ASSUME IInv, NEW r \in Runs, runs[r] = Idle
    PROVE  CallsOf(r) = {}
BY DEF IInv, SendsSound, CallSound, CallsOf, Idle

(* A turn tells the truth if its request does. *)
LEMMA TurnTold ==
    ASSUME IInv, ToldInv, up, NEW r \in Runs, NEW request, NEW at, NEW response, NEW calls,
           runs' = [runs EXCEPT ![r] = Run(request, at, response)],
           sends' = sends \cup calls, \A s \in calls : s.run = r, UNCHANGED messages,
           Tells(r, request, response, CallsOf(r) \cup calls),
           Waits(r, request, at, response),
           Caught(r, request, CallsOf(r) \cup calls),
           at = "crashed" => HandlerCrash(request, uploads'[r])
    PROVE  ToldInv'
<1>1. /\ runs'[r] = Run(request, at, response)
      /\ \A q \in Runs \ {r} : runs'[q] = runs[q]
  BY DEF IInv, RunsSound
<1>2. /\ CallsOf(r)' = CallsOf(r) \cup calls
      /\ \A q \in Runs \ {r} : CallsOf(q)' = CallsOf(q)
  BY DEF CallsOf
<1>3. runs'[r].at = at /\ runs'[r].request = request /\ runs'[r].response = response
  BY <1>1, RunShape
<1>4. ASSUME NEW q \in Runs
      PROVE  RunTold(q, runs'[q], CallsOf(q)')
  <2>1. CASE q = r
    BY <1>2, <1>3, <2>1 DEF RunTold
  <2>2. CASE q # r
    BY <1>1, <1>2, <2>2 DEF ToldInv
  <2> QED
    BY <2>1, <2>2
<1>5. PostedIsSent'
  BY <1>2 DEF ToldInv, PostedIsSent
<1>6. CrashesExplained'
  <2>1. \A q \in Runs : runs[q].at # "crashed"
    BY DEF IInv
  <2>2. \A q \in Runs : runs'[q].at = "crashed" => q = r
    BY <1>1, <2>1
  <2> QED
    BY <1>3, <2>2 DEF CrashesExplained, HandlerCrash
<1> QED
  BY <1>4, <1>5, <1>6 DEF ToldInv

(* The first turn of a request *)
LEMMA FirstTold ==
    ASSUME IInv, ToldInv, up, NEW r \in Runs, NEW request, runs[r] = Idle,
           NEW at, NEW response, NEW calls,
           runs' = [runs EXCEPT ![r] = Run(request, at, response)],
           sends' = sends \cup calls, UNCHANGED messages,
           \A s \in calls : s.run = r,
           Tells(r, request, response, calls),
           Waits(r, request, at, response),
           Caught(r, request, calls),
           at = "crashed" => HandlerCrash(request, uploads'[r])
    PROVE  ToldInv'
<1>1. CallsOf(r) \cup calls = calls
  BY IdleCalls
<1> QED
  BY <1>1, TurnTold

(* What is known of a request whose handler waits *)
LEMMA WaitingTold ==
    ASSUME IInv, ToldInv, NEW r \in Runs, runs[r].at \in {"working", "uploading"}
    PROVE  /\ runs[r].request \in Requests[r]
           /\ runs[r].request.job \in Early =>
                runs[r].response = Shows(Placeholder(r, runs[r].request))
           /\ runs[r].request.job \notin Early => runs[r].response = Missing /\ CallsOf(r) = {}
           /\ Caught(r, runs[r].request, CallsOf(r))
<1>1. RunTold(r, runs[r], CallsOf(r)) /\ runs[r] # Idle
  BY DEF ToldInv, Idle
<1>2. runs[r].request \in Requests[r]
  BY StandingRun
<1> DEFINE request == runs[r].request
           response == runs[r].response
<1>3. /\ Shows(Placeholder(r, request)) # Missing /\ Shows(Notice(r, request)) # Missing
      /\ Shows(Answer(r, request)) # Missing
  BY <1>2, ResponsesThere
<1>4. response = Missing => CallsOf(r) = {}
  BY <1>1, <1>3 DEF RunTold, Tells
<1> QED
  BY <1>1, <1>2, <1>4 DEF RunTold, Waits

(* The later turns of a request: one that says nothing more, *)
LEMMA QuietTold ==
    ASSUME IInv, ToldInv, up, NEW r \in Runs, runs[r].at \in {"working", "uploading"},
           NEW at \in {"uploading", "givenUp", "crashed"},
           runs' = [runs EXCEPT ![r].at = at], UNCHANGED <<sends, messages>>,
           at = "crashed" => HandlerCrash(runs[r].request, uploads'[r])
    PROVE  ToldInv'
<1> DEFINE request == runs[r].request
           response == runs[r].response
<1>1. runs' = [runs EXCEPT ![r] = Run(request, at, response)]
  BY StandingRun
<1>2. RunTold(r, runs[r], CallsOf(r)) /\ runs[r] # Idle
  BY DEF ToldInv, Idle
<1>3. Tells(r, request, response, CallsOf(r)) /\ Caught(r, request, CallsOf(r))
  BY <1>2 DEF RunTold
<1>4. Waits(r, request, at, response)
  BY <1>2 DEF RunTold, Waits
<1> DEFINE calls == {}
<1>5. /\ CallsOf(r) \cup calls = CallsOf(r) /\ sends' = sends \cup calls
      /\ \A s \in calls : s.run = r
  OBVIOUS
<1> HIDE DEF request, response, calls
<1>6. at = "crashed" => HandlerCrash(request, uploads'[r])
  BY DEF request
<1> QED
  BY <1>1, <1>3, <1>4, <1>5, <1>6, TurnTold

(* one that sends what it has not shown, *)
LEMMA SendAnswerTold ==
    ASSUME IInv, ToldInv, up, NEW r \in Runs, runs[r].at \in {"working", "uploading"},
           NEW caught \in BOOLEAN, SendAnswer(r, caught),
           runs[r].request.job \in Early,
           caught \/ runs[r].request.job \in {"prompt", "imagine"}
    PROVE  ToldInv'
<1> DEFINE request == runs[r].request
           response == runs[r].response
           calls == Call(r, request, Answer(r, request), caught)
<1>1. /\ runs' = [runs EXCEPT ![r] = Run(request, "over", response)]
      /\ sends' = sends \cup calls /\ UNCHANGED messages
  BY StandingRun DEF SendAnswer, Turn
<1>2. response = Shows(Placeholder(r, request)) /\ Caught(r, request, CallsOf(r))
  BY WaitingTold
<1>3. calls = IF MaySend(request) THEN {SentCall(r, Answer(r, request), caught)} ELSE {}
  BY WaitingTold, AnswerSent
<1> HIDE DEF calls
<1>4. \A s \in calls : /\ s.run = r /\ s.message = Answer(r, request) /\ s.caught = caught
                       /\ request.job # "imagine"
  <2>1. MaySend(request) => request.job # "imagine"
    <3>1. request.job \notin Actions
      BY DEF Early, Searches, Thinkers, Actions
    <3> QED
      BY <3>1, WaitingTold, CommandsMaySend
  <2> QED
    BY <1>3, <2>1 DEF SentCall
<1>5. Caught(r, request, CallsOf(r) \cup calls)
  BY <1>2, <1>4 DEF Caught
<1>6. Tells(r, request, response, CallsOf(r) \cup calls)
  BY <1>2 DEF Tells
<1>7. Waits(r, request, "over", response)
  BY DEF Waits
<1> HIDE DEF request, response
<1> QED
  BY <1>1, <1>4, <1>5, <1>6, <1>7, TurnTold

(* What is told by an answer that is shown and handed to sendMessage *)
LEMMA AnswerTold ==
    ASSUME NEW r \in Runs, NEW request \in Requests[r], request.job # "imagine"
    PROVE  LET answer == Answer(r, request)
               calls == Call(r, request, answer, TRUE)
           IN  /\ \A s \in calls : s.run = r
               /\ Tells(r, request, Shows(answer), calls) /\ Caught(r, request, calls)
<1> DEFINE answer == Answer(r, request)
           caught == TRUE
           calls == Call(r, request, answer, caught)
<1> HIDE DEF caught
<1>1. calls = IF MaySend(request) THEN {SentCall(r, answer, caught)} ELSE {}
  BY AnswerSent
<1>2. ~MaySend(request) => request.job \in Actions
  BY CommandsMaySend
<1> HIDE DEF answer, calls
<1>3. IF MaySend(request) THEN calls # {} ELSE calls = {}
  BY <1>1
<1>4. \A s \in calls : s.run = r /\ s.message = answer /\ s.caught = caught
  BY CallIsOwn DEF calls
<1>5. Tells(r, request, Shows(answer), calls)
  BY <1>2, <1>3, <1>4 DEF Tells, answer
<1>6. Caught(r, request, calls)
  BY <1>4, Zenon DEF Caught, caught
<1> QED
  BY <1>4, <1>5, <1>6 DEF answer, calls, caught

(* one that shows what it sends, *)
LEMMA ShowAndSendTold ==
    ASSUME IInv, ToldInv, up, NEW r \in Runs, runs[r].at \in {"working", "uploading"},
           ShowAndSendAnswer(r), runs[r].request.job \notin Early
    PROVE  ToldInv'
<1> DEFINE request == runs[r].request
           answer == Answer(r, request)
           calls == Call(r, request, answer, TRUE)
<1>1. /\ runs' = [runs EXCEPT ![r] = Run(request, "over", Shows(answer))]
      /\ sends' = sends \cup calls /\ UNCHANGED messages
  BY DEF ShowAndSendAnswer, Turn
<1>2. request \in Requests[r] /\ CallsOf(r) = {} /\ request.job # "imagine"
  BY WaitingTold DEF Early, Thinkers
<1> HIDE DEF request
<1>3. /\ \A s \in calls : s.run = r
      /\ Tells(r, request, Shows(answer), calls) /\ Caught(r, request, calls)
  BY <1>2, AnswerTold
<1>4. CallsOf(r) \cup calls = calls
  BY <1>2
<1> HIDE DEF calls
<1>7. Waits(r, request, "over", Shows(answer))
  BY DEF Waits
<1> HIDE DEF answer
<1> QED
  BY <1>1, <1>3, <1>4, <1>7, TurnTold DEF request

(* and one that shows a notice or a status. *)
LEMMA ShowTold ==
    ASSUME IInv, ToldInv, up, NEW r \in Runs, runs[r].at \in {"working", "uploading"},
           runs[r].request.job \notin Early, NEW response,
           Tells(r, runs[r].request, response, {}),
           Turn(r, Run(runs[r].request, "over", response), {})
    PROVE  ToldInv'
<1> DEFINE request == runs[r].request
           calls == {}
<1>1. /\ runs' = [runs EXCEPT ![r] = Run(request, "over", response)]
      /\ sends' = sends \cup calls /\ UNCHANGED messages
      /\ \A s \in calls : s.run = r
  BY DEF Turn
<1>2. CallsOf(r) = {}
  BY WaitingTold
<1>3. CallsOf(r) \cup calls = calls
  BY <1>2
<1>4. Tells(r, request, response, CallsOf(r) \cup calls) /\ Caught(r, request, CallsOf(r) \cup calls)
  BY <1>3 DEF Caught
<1>5. Waits(r, request, "over", response)
  BY DEF Waits
<1> HIDE DEF request, calls
<1> QED
  BY <1>1, <1>4, <1>5, TurnTold

-----------------------------------------------------------------------------
(* The handlers *)

LEMMA RejectedTold ==
    ASSUME IInv, ToldInv, NEW r \in Runs, NEW request \in Requests[r], Rejected(r, request)
    PROVE  ToldInv'
<1> DEFINE calls == {}
<1>1. up /\ runs[r] = Idle
  BY DEF Rejected
<1>2. PICK response : /\ \E n \in {200, 400, 429, 500} : response = Status(n)
                      /\ Turn(r, Run(request, "over", response), calls)
  <2>1. PICK n \in {400, 429, 500} : Turn(r, Run(request, "over", Status(n)), calls)
    BY DEF Rejected
  <2> QED
    BY <2>1
<1>3. /\ runs' = [runs EXCEPT ![r] = Run(request, "over", response)]
      /\ sends' = sends \cup calls /\ UNCHANGED messages
  BY <1>2 DEF Turn
<1>4. /\ Tells(r, request, response, calls) /\ Caught(r, request, calls)
      /\ Waits(r, request, "over", response) /\ \A s \in calls : s.run = r
  BY <1>2 DEF Tells, Caught, Waits
<1> HIDE DEF calls
<1> QED
  BY <1>1, <1>3, <1>4, FirstTold

LEMMA BeginSearchTold ==
    ASSUME IInv, ToldInv, NEW r \in Runs, NEW request \in Requests[r], BeginSearch(r, request)
    PROVE  ToldInv'
<1>1. up /\ runs[r] = Idle /\ request.job \in Searches
  BY DEF BeginSearch, Admitted
<1>2. CASE request.complete
  <2> DEFINE response == Shows(Placeholder(r, request))
             caught == TRUE
             calls == Call(r, request, Placeholder(r, request), caught)
  <2>1. Turn(r, Run(request, "working", response), calls)
    BY <1>2 DEF BeginSearch
  <2>2. Tells(r, request, response, calls) /\ Waits(r, request, "working", response)
    BY <1>1 DEF Tells, Waits, Early
  <2>3. \A s \in calls : s.run = r /\ s.caught = TRUE
    <3> HIDE DEF caught
    <3>1. \A s \in calls : s.run = r /\ s.caught = caught
      BY CallIsOwn
    <3> QED
      BY <3>1 DEF caught
  <2> HIDE DEF calls, response
  <2>4. Caught(r, request, calls)
    BY <2>3 DEF Caught
  <2> QED
    BY <1>1, <2>1, <2>2, <2>3, <2>4, FirstTold DEF Turn
<1>3. CASE ~request.complete
  <2> DEFINE response == Incomplete(r, request)
             calls == {}
  <2>1. Turn(r, Run(request, "over", response), calls)
    BY <1>3 DEF BeginSearch
  <2>2. Tells(r, request, response, calls)
    BY DEF Tells, Incomplete
  <2>3. Waits(r, request, "over", response) /\ Caught(r, request, calls) /\ \A s \in calls : s.run = r
    BY DEF Waits, Caught
  <2> HIDE DEF calls, response
  <2> QED
    BY <1>1, <2>1, <2>2, <2>3, FirstTold DEF Turn
<1> QED
  BY <1>2, <1>3

LEMMA BeginThinkingTold ==
    ASSUME IInv, ToldInv, NEW r \in Runs, NEW request \in Requests[r], BeginThinking(r, request)
    PROVE  ToldInv'
<1> DEFINE at == IF request.complete THEN "working" ELSE "crashed"
           response == Shows(Placeholder(r, request))
           calls == {}
<1>1. /\ up /\ runs[r] = Idle /\ request.job \in Thinkers
      /\ runs' = [runs EXCEPT ![r] = Run(request, at, response)]
      /\ UNCHANGED messages /\ sends' = sends \cup calls
  BY DEF BeginThinking, Admitted
<1>2. /\ Tells(r, request, response, calls) /\ Caught(r, request, calls)
      /\ Waits(r, request, at, response) /\ \A s \in calls : s.run = r
  BY <1>1 DEF Tells, Caught, Waits, Early
<1>3. at = "crashed" => HandlerCrash(request, uploads'[r])
  BY <1>1 DEF HandlerCrash, Thinkers, Immediate
<1> HIDE DEF at, response, calls
<1> QED
  BY <1>1, <1>2, <1>3, FirstTold

LEMMA BeginFileTold ==
    ASSUME IInv, ToldInv, NEW r \in Runs, NEW request \in Requests[r], BeginFile(r, request)
    PROVE  ToldInv'
<1> DEFINE response == Shows(Placeholder(r, request))
           caught == FALSE
           calls == Call(r, request, Placeholder(r, request), caught)
<1>1. /\ up /\ runs[r] = Idle /\ request.job = "file"
      /\ UNCHANGED messages /\ sends' = sends \cup calls
  BY DEF BeginFile, Admitted, Turn
<1>2. PICK at \in {"uploading", "crashed"} : runs' = [runs EXCEPT ![r] = Run(request, at, response)]
  BY DEF BeginFile, Turn
<1>3. Tells(r, request, response, calls) /\ Waits(r, request, at, response)
  BY <1>1 DEF Tells, Waits, Early
<1>4. \A s \in calls : s.run = r
  <2> HIDE DEF caught
  <2> QED
    BY CallIsOwn
<1> HIDE DEF response, calls
<1>5. Caught(r, request, calls)
  BY <1>1 DEF Caught
<1>6. at = "crashed" => HandlerCrash(request, uploads'[r])
  BY <1>1 DEF HandlerCrash, Immediate
<1> QED
  BY <1>1, <1>2, <1>3, <1>4, <1>5, <1>6, FirstTold

LEMMA AnswerAtOnceTold ==
    ASSUME IInv, ToldInv, NEW r \in Runs, NEW request \in Requests[r], AnswerAtOnce(r, request)
    PROVE  ToldInv'
<1>1. up /\ runs[r] = Idle /\ request.job # "imagine"
  BY DEF AnswerAtOnce, Admitted, Immediate
<1>2. CASE Turn(r, Run(request, "over", Shows(Answer(r, request))),
                Call(r, request, Answer(r, request), TRUE))
  <2> DEFINE answer == Answer(r, request)
             calls == Call(r, request, answer, TRUE)
  <2>1. Turn(r, Run(request, "over", Shows(answer)), calls)
    BY <1>2
  <2>2. /\ \A s \in calls : s.run = r
        /\ Tells(r, request, Shows(answer), calls) /\ Caught(r, request, calls)
    BY <1>1, AnswerTold
  <2>3. Waits(r, request, "over", Shows(answer))
    BY DEF Waits
  <2> HIDE DEF answer, calls
  <2> QED
    BY <1>1, <2>1, <2>2, <2>3, FirstTold DEF Turn
<1>3. CASE Turn(r, Run(request, "over", Incomplete(r, request)), {})
  <2> DEFINE response == Incomplete(r, request)
             calls == {}
  <2>1. Turn(r, Run(request, "over", response), calls)
    BY <1>3
  <2>2. Tells(r, request, response, calls)
    BY DEF Tells, Incomplete
  <2>3. Waits(r, request, "over", response) /\ Caught(r, request, calls) /\ \A s \in calls : s.run = r
    BY DEF Waits, Caught
  <2> HIDE DEF calls, response
  <2> QED
    BY <1>1, <2>1, <2>2, <2>3, FirstTold DEF Turn
<1> QED
  BY <1>2, <1>3 DEF AnswerAtOnce

LEMMA BeginWorkTold ==
    ASSUME IInv, ToldInv, NEW r \in Runs, NEW request \in Requests[r], BeginWork(r, request)
    PROVE  ToldInv'
<1> DEFINE calls == {}
<1>1. /\ up /\ runs[r] = Idle /\ UNCHANGED messages /\ sends' = sends \cup calls
      /\ \A s \in calls : s.run = r
  BY DEF BeginWork, Admitted, Turn
<1>2. PICK at \in {"working", "over", "crashed"}, response \in {Missing, Shows(Notice(r, request))} :
        /\ runs' = [runs EXCEPT ![r] = Run(request, at, response)]
        /\ at = "working" => response = Missing
        /\ at = "crashed" => request.job = "delete_channel"
  BY DEF BeginWork, Turn
<1>3. request.job \notin Early
  BY DEF BeginWork, Early, Searches, Thinkers
<1>4. /\ Tells(r, request, response, calls) /\ Caught(r, request, calls)
      /\ Waits(r, request, at, response)
  BY <1>2, <1>3 DEF Tells, Caught, Waits
<1>5. at = "crashed" => HandlerCrash(request, uploads'[r])
  BY <1>2 DEF HandlerCrash, Immediate
<1> HIDE DEF calls
<1> QED
  BY <1>1, <1>2, <1>4, <1>5, FirstTold

(* What works was let through, and has come in. *)
LEMMA WorkingJob ==
    ASSUME NEW r, NEW jobs, Working(r, jobs)
    PROVE  up /\ runs[r].at \in {"working", "uploading"} /\ runs[r].request.job \in jobs
BY DEF Working

(* What a handler throws while it works *)
LEMMA CrashTold ==
    ASSUME IInv, ToldInv, up, NEW r \in Runs, runs[r].at \in {"working", "uploading"}, Crash(r),
           HandlerCrash(runs[r].request, uploads'[r])
    PROVE  ToldInv'
BY QuietTold DEF Crash

LEMMA GiveUpTold ==
    ASSUME IInv, ToldInv, up, NEW r \in Runs, runs[r].at \in {"working", "uploading"}, GiveUp(r)
    PROVE  ToldInv'
<1>1. /\ runs' = [runs EXCEPT ![r].at = "givenUp"] /\ UNCHANGED <<sends, messages>>
  BY StandingRun DEF GiveUp, Turn
<1> QED
  BY <1>1, QuietTold

(* A handler that goes on with an upload *)
LEMMA UploadingTold ==
    ASSUME IInv, ToldInv, up, NEW r \in Runs, runs[r].at \in {"working", "uploading"},
           Turn(r, [runs[r] EXCEPT !.at = "uploading"], {})
    PROVE  ToldInv'
<1>1. /\ runs' = [runs EXCEPT ![r].at = "uploading"] /\ UNCHANGED <<sends, messages>>
  BY StandingRun DEF Turn
<1> QED
  BY <1>1, QuietTold

LEMMA ContinueTold ==
    ASSUME IInv, ToldInv, NEW r \in Runs, Continue(r)
    PROVE  ToldInv'
<1>1. CASE Searched(r)
  <2>1. up /\ runs[r].at \in {"working", "uploading"} /\ runs[r].request.job \in Searches
    BY <1>1, WorkingJob DEF Searched
  <2>2. HandlerCrash(runs[r].request, uploads'[r])
    BY <2>1 DEF HandlerCrash, Searches, Immediate
  <2> QED
    BY <1>1, <2>1, <2>2, SendAnswerTold, CrashTold DEF Searched, Early
<1>2. CASE Prompted(r)
  <2>1. up /\ runs[r].at \in {"working", "uploading"} /\ runs[r].request.job = "prompt"
    BY <1>2, WorkingJob DEF Prompted
  <2> QED
    BY <1>2, <2>1, SendAnswerTold, GiveUpTold DEF Prompted, Early, Thinkers
<1>3. CASE Imagined(r)
  <2>1. up /\ runs[r].at \in {"working", "uploading"}
    BY <1>3, WorkingJob DEF Imagined
  <2> QED
    BY <1>3, <2>1, UploadingTold, GiveUpTold DEF Imagined
<1>4. CASE Scraped(r)
  <2>1. up /\ runs[r].at \in {"working", "uploading"} /\ runs[r].request.job = "news"
    BY <1>4, WorkingJob DEF Scraped
  <2> QED
    BY <1>4, <2>1, ShowAndSendTold DEF Scraped, Early, Searches, Thinkers
<1>5. CASE Resized(r)
  <2>1. up /\ runs[r].at \in {"working", "uploading"} /\ runs[r].request.job = "image"
    BY <1>5, WorkingJob DEF Resized
  <2>2. HandlerCrash(runs[r].request, uploads'[r])
    BY <2>1 DEF HandlerCrash, Immediate
  <2> QED
    BY <1>5, <2>1, <2>2, UploadingTold, CrashTold DEF Resized
<1>6. CASE Answered(r)
  <2> DEFINE request == runs[r].request
  <2>1. up /\ runs[r].at \in {"working", "uploading"}
        /\ request.job \in {"chat_details", "chat_events"}
    BY <1>6, WorkingJob DEF Answered
  <2>2. request.job \notin Early
    BY <2>1 DEF Early, Searches, Thinkers
  <2>3. CASE ShowAndSendAnswer(r)
    BY <2>1, <2>2, <2>3, ShowAndSendTold
  <2>4. CASE Turn(r, Run(request, "over", Shows(Notice(r, request))), {})
    <3>1. Tells(r, request, Shows(Notice(r, request)), {})
      BY DEF Tells
    <3> QED
      BY <2>1, <2>2, <2>4, <3>1, ShowTold
  <2>5. CASE request.job = "chat_events" /\ Crash(r)
    <3>1. HandlerCrash(request, uploads'[r])
      BY <2>5 DEF HandlerCrash, Immediate
    <3> QED
      BY <2>1, <2>5, <3>1, CrashTold
  <2> QED
    BY <1>6, <2>3, <2>4, <2>5 DEF Answered
<1>7. CASE ChannelDone(r)
  <2> DEFINE request == runs[r].request
  <2>1. up /\ runs[r].at \in {"working", "uploading"}
        /\ request.job \in {"create_channel", "delete_channel"}
    BY <1>7, WorkingJob DEF ChannelDone
  <2>2. request.job \notin Early
    BY <2>1 DEF Early, Searches, Thinkers
  <2>3. ASSUME NEW n \in {200, 500}, Turn(r, Run(request, "over", Status(n)), {})
        PROVE  ToldInv'
    <3>1. Tells(r, request, Status(n), {})
      BY DEF Tells
    <3> QED
      BY <2>1, <2>2, <2>3, <3>1, ShowTold
  <2>4. CASE Crash(r)
    <3>1. HandlerCrash(request, uploads'[r])
      BY <2>1 DEF HandlerCrash, Immediate
    <3> QED
      BY <2>1, <2>4, <3>1, CrashTold
  <2> QED
    BY <1>7, <2>3, <2>4 DEF ChannelDone
<1>8. CASE Uploaded(r)
  <2>1. up /\ runs[r].at \in {"working", "uploading"} /\ UNCHANGED uploads
        /\ runs[r].request.job \in Uploaders
    BY <1>8, StandingRun DEF Uploaded
  <2>2. CASE uploads[r].at = "resolved"
    <3>1. CASE runs[r].request.job = "image"
      BY <1>8, <2>1, <2>2, <3>1, ShowAndSendTold DEF Uploaded, Early, Searches, Thinkers
    <3>2. CASE runs[r].request.job = "file"
      BY <1>8, <2>1, <2>2, <3>2, SendAnswerTold DEF Uploaded, Early
    <3>3. CASE runs[r].request.job = "imagine"
      BY <1>8, <2>1, <2>2, <3>3, SendAnswerTold DEF Uploaded, Early, Thinkers
    <3> QED
      BY <2>1, <3>1, <3>2, <3>3 DEF Uploaders
  <2>3. CASE uploads[r].at = "rejected"
    <3>1. CASE runs[r].request.job = "file"
      BY <1>8, <2>1, <2>3, <3>1, GiveUpTold DEF Uploaded
    <3>2. CASE runs[r].request.job # "file"
      <4>1. HandlerCrash(runs[r].request, uploads'[r])
        BY <2>1, <2>3, <3>2 DEF HandlerCrash, Uploaders, Immediate
      <4> QED
        BY <1>8, <2>1, <2>3, <3>2, <4>1, CrashTold DEF Uploaded
    <3> QED
      BY <3>1, <3>2
  <2> QED
    BY <1>8, <2>2, <2>3 DEF Uploaded
<1>9. CASE UploadStep(r)
  <2>1. up /\ UNCHANGED <<runs, sends, messages>>
    BY <1>9 DEF UploadStep
  <2>2. \A q \in Runs : runs[q].at # "crashed"
    BY <2>1 DEF IInv
  <2>3. (\A q \in Runs : RunTold(q, runs[q], CallsOf(q)))'
    BY <2>1 DEF ToldInv, CallsOf
  <2>4. PostedIsSent'
    BY <2>1 DEF ToldInv, PostedIsSent, CallsOf
  <2>5. CrashesExplained'
    BY <2>1, <2>2 DEF CrashesExplained
  <2> QED
    BY <2>3, <2>4, <2>5 DEF ToldInv
<1> QED
  BY <1>1, <1>2, <1>3, <1>4, <1>5, <1>6, <1>7, <1>8, <1>9 DEF Continue

-----------------------------------------------------------------------------
(* Messages that are sent *)

(* t is the call s, a little later. *)
Follows(t, s) ==
    /\ t.run = s.run /\ t.message = s.message /\ t.caught = s.caught
    /\ s.promise = "rejected" => t.promise = "rejected"

(* Two sets of calls that tell the same *)
AsTold(old, new) ==
    /\ \A t \in new : \E s \in old : Follows(t, s)
    /\ \A s \in old : \E t \in new : Follows(t, s)

LEMMA CallFollows ==
    ASSUME NEW s \in sends, NEW t, Follows(t, s), sends' = (sends \ {s}) \cup {t}, NEW r
    PROVE  AsTold(CallsOf(r), CallsOf(r)')
<1>1. \A u : Follows(u, u)
  BY DEF Follows
<1>2. t.run = s.run
  BY DEF Follows
<1>3. ASSUME NEW u \in CallsOf(r)' PROVE \E v \in CallsOf(r) : Follows(u, v)
  BY <1>1, <1>2, <1>3 DEF CallsOf
<1>4. ASSUME NEW v \in CallsOf(r) PROVE \E u \in CallsOf(r)' : Follows(u, v)
  BY <1>1, <1>2, <1>4 DEF CallsOf
<1> QED
  BY <1>3, <1>4 DEF AsTold

(* What a response tells of the calls, it tells of those that follow. *)
LEMMA ToldOfBoth ==
    ASSUME NEW r, NEW request, NEW response, NEW old, NEW new, AsTold(old, new)
    PROVE  /\ Tells(r, request, response, old) => Tells(r, request, response, new)
           /\ Caught(r, request, old) => Caught(r, request, new)
<1>1. old = {} <=> new = {}
  BY DEF AsTold
<1>2. \A t \in new : \E s \in old : t.message = s.message /\ t.caught = s.caught
  BY DEF AsTold, Follows
<1>3. Tells(r, request, response, old) => Tells(r, request, response, new)
  BY <1>1, <1>2 DEF Tells
<1>4. Caught(r, request, old) => Caught(r, request, new)
  BY <1>2 DEF Caught
<1> QED
  BY <1>3, <1>4

(* A call that goes on, while the handlers stay where they are *)
LEMMA CallTold ==
    ASSUME IInv, ToldInv, NEW s \in sends, NEW t, Follows(t, s),
           sends' = (sends \ {s}) \cup {t}, UNCHANGED <<runs, uploads>>,
           \/ UNCHANGED messages
           \/ messages' = [messages EXCEPT ![s.run] = s.message]
    PROVE  ToldInv'
<1>1. \A r : AsTold(CallsOf(r), CallsOf(r)')
  BY CallFollows
<1>2. ASSUME NEW r \in Runs PROVE RunTold(r, runs'[r], CallsOf(r)')
  <2>1. RunTold(r, runs[r], CallsOf(r)) /\ runs'[r] = runs[r]
    BY DEF ToldInv
  <2>2. AsTold(CallsOf(r), CallsOf(r)')
    BY <1>1
  <2> QED
    BY <2>1, <2>2, ToldOfBoth DEF RunTold
<1>3. ASSUME NEW r \in Runs, messages'[r] # Missing
      PROVE  \E u \in CallsOf(r)' : u.message = messages'[r]
  <2>1. PICK v \in CallsOf(r) : v.message = messages'[r]
    <3>1. messages'[r] = messages[r] \/ (r = s.run /\ messages'[r] = s.message)
      BY DEF IInv
    <3>2. CASE messages'[r] = messages[r]
      BY <1>3, <3>2 DEF ToldInv, PostedIsSent
    <3>3. CASE r = s.run /\ messages'[r] = s.message
      BY <3>3 DEF CallsOf
    <3> QED
      BY <3>1, <3>2, <3>3
  <2> QED
    BY <1>1, <2>1 DEF AsTold, Follows
<1>4. ASSUME NEW r \in Runs, runs'[r].at = "crashed",
             runs'[r].request.job = "prompt", runs'[r].request.complete
      PROVE  \E u \in CallsOf(r)' : IsAnswer(u)' /\ u.promise = "rejected"
  <2>1. PICK v \in CallsOf(r) : IsAnswer(v) /\ v.promise = "rejected"
    BY <1>4 DEF ToldInv, CrashesExplained
  <2>2. PICK u \in CallsOf(r)' : Follows(u, v)
    BY <1>1, <2>1 DEF AsTold
  <2> QED
    BY <2>1, <2>2 DEF Follows, IsAnswer
<1>5. CrashesExplained'
  BY <1>4 DEF ToldInv, CrashesExplained
<1> QED
  BY <1>2, <1>3, <1>5 DEF ToldInv, PostedIsSent

LEMMA ReceiveTold ==
    ASSUME IInv, ToldInv, NEW s \in sends, Receive(s)
    PROVE  ToldInv'
<1>1. CallSound(s)
  BY DEF IInv, SendsSound
<1>2. \A state : Follows([s EXCEPT !.state = state], s)
  BY <1>1 DEF CallSound, Follows
<1>3. PICK state \in {"posted", "refused"} : sends' = (sends \ {s}) \cup {[s EXCEPT !.state = state]}
  BY DEF Receive
<1>4. /\ UNCHANGED <<runs, uploads>>
      /\ UNCHANGED messages \/ messages' = [messages EXCEPT ![s.run] = s.message]
  BY DEF Receive
<1> QED
  BY <1>2, <1>3, <1>4, CallTold

LEMMA ResolveTold ==
    ASSUME IInv, ToldInv, NEW s \in sends, Resolve(s)
    PROVE  ToldInv'
<1>1. CallSound(s) /\ s.promise = "pending"
  BY DEF IInv, SendsSound, Resolve
<1>2. Follows([s EXCEPT !.promise = "resolved"], s)
  BY <1>1 DEF CallSound, Follows
<1> QED
  BY <1>2, CallTold DEF Resolve

(* A rejection that nobody catches ends a prompt whose answer was sent, or *)
(* "file".                                                                 *)
LEMMA RejectTold ==
    ASSUME IInv, ToldInv, NEW s \in sends, Reject(s)
    PROVE  ToldInv'
<1> DEFINE t == [s EXCEPT !.promise = "rejected"]
           r == s.run
<1>1. CallSound(s) /\ s.promise = "pending"
  BY DEF IInv, SendsSound, Reject
<1>2. Follows(t, s) /\ t.promise = "rejected"
  BY <1>1 DEF CallSound, Follows
<1>3. sends' = (sends \ {s}) \cup {t} /\ UNCHANGED <<messages, uploads>> /\ up
  BY DEF Reject
<1>4. r \in Runs /\ s.caught \in BOOLEAN /\ runs[r].at # "idle"
  BY <1>1 DEF CallSound
<1>5. CASE s.caught
  <2>1. UNCHANGED runs
    BY <1>5 DEF Reject
  <2> QED
    BY <1>2, <1>3, <2>1, CallTold
<1>6. CASE ~s.caught
  <2> DEFINE request == runs[r].request
             response == runs[r].response
  <2>1. runs' = [runs EXCEPT ![r] = Run(request, "crashed", response)]
    BY <1>4, <1>6, StandingRun DEF Reject
  <2>2. /\ runs'[r].at = "crashed" /\ runs'[r].request = request /\ runs'[r].response = response
        /\ \A q \in Runs \ {r} : runs'[q] = runs[q]
    BY <1>4, <2>1, RunShape DEF IInv, RunsSound
  <2>3. RunTold(r, runs[r], CallsOf(r)) /\ runs[r] # Idle
    BY <1>4 DEF ToldInv, Idle
  <2>4. Tells(r, request, response, CallsOf(r)) /\ Caught(r, request, CallsOf(r))
    BY <2>3 DEF RunTold
  <2> HIDE DEF t
  <2>5. \A q : AsTold(CallsOf(q), CallsOf(q)')
    BY <1>2, <1>3, CallFollows
  <2>6. ASSUME NEW q \in Runs PROVE RunTold(q, runs'[q], CallsOf(q)')
    <3>1. AsTold(CallsOf(q), CallsOf(q)')
      BY <2>5
    <3>2. CASE q = r
      <4>1. Tells(r, request, response, CallsOf(r)') /\ Caught(r, request, CallsOf(r)')
        BY <2>4, <2>5, ToldOfBoth
      <4>2. Waits(r, request, "crashed", response)
        BY DEF Waits
      <4> QED
        BY <2>2, <3>2, <4>1, <4>2 DEF RunTold
    <3>3. CASE q # r
      <4>1. RunTold(q, runs[q], CallsOf(q)) /\ runs'[q] = runs[q]
        BY <2>2, <3>3 DEF ToldInv
      <4> QED
        BY <3>1, <4>1, ToldOfBoth DEF RunTold
    <3> QED
      BY <3>2, <3>3
  <2>7. ASSUME NEW q \in Runs, messages'[q] # Missing
        PROVE  \E u \in CallsOf(q)' : u.message = messages'[q]
    BY <1>3, <2>5, <2>7 DEF ToldInv, PostedIsSent, AsTold, Follows
  <2>8. CrashesExplained'
    <3>1. s \in CallsOf(r) /\ t \in CallsOf(r)'
      BY <1>2, <1>3 DEF CallsOf, Follows
    <3>2. /\ request.job \in {"prompt", "file"}
          /\ request.job = "prompt" => t.message = Answer(r, request)
      BY <1>2, <1>6, <2>4, <3>1 DEF Caught, Follows
    <3>3. request.job = "prompt" => IsAnswer(t)' /\ t.promise = "rejected"
      BY <1>2, <2>2, <3>2 DEF IsAnswer, Follows
    <3>4. \A q \in Runs : runs'[q].at = "crashed" => q = r
      BY <1>3, <2>2 DEF IInv
    <3> QED
      BY <2>2, <3>1, <3>2, <3>3, <3>4 DEF CrashesExplained, Immediate
  <2> QED
    BY <2>6, <2>7, <2>8 DEF ToldInv, PostedIsSent
<1> QED
  BY <1>4, <1>5, <1>6

-----------------------------------------------------------------------------
(* The theorems *)

LEMMA ToldInit == Init => ToldInv
BY DEF Init, ToldInv, RunTold, PostedIsSent, CrashesExplained, Idle

LEMMA ToldNext == IInv /\ ToldInv /\ [Next]_vars => ToldInv'
<1> SUFFICES ASSUME IInv, ToldInv, [Next]_vars PROVE ToldInv'
  OBVIOUS
<1>1. CASE \E r \in Runs : \E request \in Requests[r] : Begin(r, request)
  BY <1>1, RejectedTold, BeginSearchTold, BeginThinkingTold, BeginFileTold, AnswerAtOnceTold,
     BeginWorkTold DEF Begin
<1>2. CASE \E r \in Runs : Continue(r)
  BY <1>2, ContinueTold
<1>3. CASE \E s \in sends : Receive(s) \/ Resolve(s) \/ Reject(s)
  BY <1>3, ReceiveTold, ResolveTold, RejectTold
<1>4. CASE NewMinute \/ UNCHANGED vars
  <2>1. UNCHANGED <<runs, sends, messages, uploads>>
    BY <1>4 DEF NewMinute, vars
  <2> QED
    BY <2>1 DEF ToldInv, PostedIsSent, CrashesExplained, CallsOf, IsAnswer
<1> QED
  BY <1>1, <1>2, <1>3, <1>4 DEF Next

(* The invariant is that what is shown is what is sent. *)
LEMMA ToldIsShown == IInv /\ ToldInv => ShownIsSent
<1> SUFFICES ASSUME IInv, ToldInv, NEW r \in Runs, ShownBy(r) # Missing, ShownBy(r).finalised
             PROVE  IF ShownBy(r).ephemeral THEN CallsOf(r) = {}
                    ELSE IF ShownBy(r).requiredMessagePermissions \subseteq runs[r].request.granted
                    THEN /\ \E s \in CallsOf(r) : Shows(s.message).message = ShownBy(r)
                         /\ messages[r] # Missing => Shows(messages[r]).message = ShownBy(r)
                    ELSE /\ runs[r].request.job \in Actions
                         /\ CallsOf(r) = {} /\ messages[r] = Missing
  BY DEF ShownIsSent
<1> DEFINE request == runs[r].request
           response == runs[r].response
           answer == Answer(r, request)
<1>1. response # Missing /\ ShownBy(r) = response.message
  BY DEF ShownBy
<1>2. runs[r] # Idle
  BY <1>1 DEF Idle
<1>3. Tells(r, request, response, CallsOf(r))
  BY <1>2 DEF ToldInv, RunTold
<1>4. /\ Shows(Placeholder(r, request)).message.finalised = FALSE
      /\ Shows(Notice(r, request)).message.ephemeral = TRUE
      /\ Shows(answer).message.ephemeral = FALSE
      /\ Shows(answer).message.requiredMessagePermissions = {Needed(request.job)}
  <2> HIDE DEF request, answer
  <2>1. /\ Shows(Placeholder(r, request)).message.finalised = FALSE
        /\ Shows(Notice(r, request)).message.ephemeral = TRUE
    BY ShownShape
  <2>2. Shows(Answer(r, request)).message.ephemeral = FALSE
    BY ShownShape
  <2>3. Shows(Answer(r, request)).message.requiredMessagePermissions = {Needed(request.job)}
    BY ShownShape
  <2> QED
    BY <2>1, <2>2, <2>3 DEF answer
<1>5. \A n : Status(n).message = Missing
  BY DEF Status
<1>6. \/ response = Shows(Notice(r, request)) /\ CallsOf(r) = {}
      \/ /\ response = Shows(answer) /\ MaySend(request)
         /\ CallsOf(r) # {} /\ \A s \in CallsOf(r) : s.message = answer
      \/ /\ response = Shows(answer) /\ ~MaySend(request)
         /\ request.job \in Actions /\ CallsOf(r) = {}
  BY <1>1, <1>3, <1>4, <1>5 DEF Tells
<1> HIDE DEF answer
<1>7. CASE response = Shows(Notice(r, request)) /\ CallsOf(r) = {}
  BY <1>1, <1>4, <1>7
<1>8. CASE /\ response = Shows(answer) /\ MaySend(request)
           /\ CallsOf(r) # {} /\ \A s \in CallsOf(r) : s.message = answer
  <2>1. PICK s \in CallsOf(r) : s.message = answer
    BY <1>8
  <2>2. messages[r] # Missing => messages[r] = answer
    BY <1>8 DEF ToldInv, PostedIsSent
  <2>3. ShownBy(r).requiredMessagePermissions \subseteq request.granted /\ ~ShownBy(r).ephemeral
    BY <1>1, <1>4, <1>8 DEF MaySend
  <2> QED
    BY <1>1, <1>8, <2>1, <2>2, <2>3
<1>9. CASE /\ response = Shows(answer) /\ ~MaySend(request)
           /\ request.job \in Actions /\ CallsOf(r) = {}
  <2>1. messages[r] = Missing
    BY <1>9 DEF ToldInv, PostedIsSent
  <2>2. /\ ~(ShownBy(r).requiredMessagePermissions \subseteq request.granted)
        /\ ~ShownBy(r).ephemeral
    BY <1>1, <1>4, <1>9 DEF MaySend
  <2> QED
    BY <1>9, <2>1, <2>2
<1> QED
  BY <1>6, <1>7, <1>8, <1>9

(* What is shown is sent, and why handlers crash: always. *)
LEMMA ToldCorrect == Spec => [](IInv /\ ToldInv)
<1>1. Init => ToldInv
  BY ToldInit
<1>2. IInv /\ ToldInv /\ [Next]_vars => ToldInv'
  BY ToldNext
<1>3. Spec => []IInv
  BY InvariantCorrect
<1> QED
  BY <1>1, <1>2, <1>3, PTL DEF Spec

(* A message that the server shows as final is the message that it sends,  *)
(* and no other is posted for the command, unless it is the answer to an   *)
(* action whose API key does not grant what it needs: then nothing is      *)
(* sent.  A notice is sent to nobody.                                      *)
THEOREM ShownSent == Spec => []ShownIsSent
<1>1. IInv /\ ToldInv => ShownIsSent
  BY ToldIsShown
<1> QED
  BY <1>1, ToldCorrect, PTL

(* The process ends only by handlers that can: never by one that answers   *)
(* at once, by the news or by the details of a chat; by a prompt with its  *)
(* argument only when its answer could not be sent; and by an image that   *)
(* was imagined only when it could not be stored.                          *)
THEOREM CrashesAccounted == Spec => []CrashesExplained
<1>1. ToldInv => CrashesExplained
  BY DEF ToldInv
<1> QED
  BY <1>1, ToldCorrect, PTL
=============================================================================
