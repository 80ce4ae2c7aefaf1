--------------------------- MODULE BotClientProofs ---------------------------
(***************************************************************************)
(* Safety of the TypeScript client, for any callers, requests, histories   *)
(* of chats and number of retries.                                         *)
(***************************************************************************)
EXTENDS MappingProofs

-----------------------------------------------------------------------------
(* The inductive invariant of calls *)

(* What the token grants of a request *)
Granted(request) ==
    /\ request.op = "sendMessage" =>
        request.message.requiredMessagePermissions \subseteq GrantedByToken.message
    /\ request.op = "createChannel" =>
        (IF request.channel.isPublic THEN "CreatePublicChannel"
         ELSE "CreatePrivateChannel") \in GrantedByToken.community

(* How often a request is sent *)
Limit(op) == IF op \in Queries THEN MaxRetries + 1 ELSE 1

CallShape(call) ==
    /\ call = [at |-> call.at, request |-> call.request, args |-> call.args,
               tries |-> call.tries, runs |-> call.runs, reply |-> call.reply,
               outcome |-> call.outcome]
    /\ call.at \in {"sent", "waiting", "settled"} /\ call.request \in Requests
    /\ call.tries \in 0 .. Limit(call.request.op) /\ call.runs \in 0..1
    /\ (call.at = "settled") = (call.outcome # Pending)
    /\ call.at = "waiting" =>
        call.reply = Pending /\ call.request.op \in Queries /\ call.tries <= MaxRetries

(* What was sent is granted and satisfies its schema; what was not, has    *)
(* failed at once, but not at the schema.                                  *)
SentSound(call) ==
    IF call.tries > 0
    THEN /\ Granted(call.request)
         /\ call.args = ArgsOf(call.request) /\ call.args # Thrown
         /\ Parses(call.request, call.args)
    ELSE /\ call.at = "settled" /\ call.runs = 0 /\ call.reply = Pending
         /\ call.outcome.tag # "rejected"
         /\ call.outcome.tag = "answered" => call.outcome.answer.kind # "success"

(* An update was done if OpenChat has replied so, and an answer is what    *)
(* its mapper makes of the reply; one to a query is at least if it tells   *)
(* of success.                                                             *)
AnswerSound(call) ==
    /\ call.reply # Pending /\ call.outcome.answer # Thrown
    /\ call.outcome.answer = AnswerOf(call.request.op, call.reply)

ReplySound(call) ==
    /\ call.at = "settled" /\ call.outcome.tag = "answered"
            /\ call.outcome.answer.kind = "success"
        => AnswerSound(call)
    /\ call.request.op \in Queries => call.runs = 0
    /\ call.request.op \in Updates =>
        /\ call.runs = 1 <=> call.reply.tag = "Success"
        /\ call.tries > 0 /\ call.at = "settled" /\ call.outcome.tag = "answered"
            => AnswerSound(call)

CallSound(call) == call = Idle \/ (CallShape(call) /\ SentSound(call) /\ ReplySound(call))

CallsSound == DOMAIN calls = Callers /\ \A c \in Callers : CallSound(calls[c])

-----------------------------------------------------------------------------
(* The permissions that the client asks for *)

(* The masks say what the token grants. *)
LEMMA TokenGrants ==
    /\ \A p \in P!MessagePermissions :
        P!HasMessagePermission(P!EncodePermissions(GrantedByToken), p)
            <=> p \in GrantedByToken.message
    /\ \A p \in P!CommunityPermissions :
        P!HasCommunityPermission(P!EncodePermissions(GrantedByToken), p)
            <=> p \in GrantedByToken.community
<1> DEFINE bits == P!EncodePermissions(GrantedByToken)
<1>1. /\ GrantedByToken.message \in SUBSET P!MessagePermissions
      /\ GrantedByToken.community \in SUBSET P!CommunityPermissions
  BY BotClientAssumption DEF P!Granted
<1>2. /\ bits.message = P!PermissionsToBits(GrantedByToken.message, P!MessagePermissionList)
      /\ bits.community
            = P!PermissionsToBits(GrantedByToken.community, P!CommunityPermissionList)
  BY DEF P!EncodePermissions
<1> HIDE DEF bits
<1>3. \A p \in P!MessagePermissions :
        P!HasPermission(bits.message, P!MessagePermissionMap[p]) <=> p \in GrantedByToken.message
  BY <1>1, <1>2, MasksAssumption DEF P!MasksAgree, P!MaskAgrees
<1>4. \A p \in P!CommunityPermissions :
        P!HasPermission(bits.community, P!CommunityPermissionMap[p])
            <=> p \in GrantedByToken.community
  BY <1>1, <1>2, MasksAssumption DEF P!MasksAgree, P!MaskAgrees
<1> QED
  BY <1>3, <1>4 DEF P!HasMessagePermission, P!HasCommunityPermission, bits

LEMMA ChannelPermissions ==
    {"CreatePublicChannel", "CreatePrivateChannel"} \subseteq P!CommunityPermissions
<1> DEFINE list == P!CommunityPermissionList
<1>1. /\ {5, 6} \subseteq DOMAIN list
      /\ list[5] = "CreatePublicChannel" /\ list[6] = "CreatePrivateChannel"
  BY DEF P!CommunityPermissionList
<1> QED
  BY <1>1 DEF P!CommunityPermissions

(* The client permits what the token grants. *)
LEMMA PermittedIsGranted ==
    ASSUME NEW request \in Requests, Permitted(request)
    PROVE  Granted(request)
<1> DEFINE bits == P!EncodePermissions(GrantedByToken)
<1>1. /\ \A p \in P!MessagePermissions :
            P!HasMessagePermission(bits, p) <=> p \in GrantedByToken.message
      /\ \A p \in P!CommunityPermissions :
            P!HasCommunityPermission(bits, p) <=> p \in GrantedByToken.community
  BY TokenGrants
<1> HIDE DEF bits
<1>2. CASE request.op = "sendMessage"
  <2>1. request.message.requiredMessagePermissions \subseteq P!MessagePermissions
    BY <1>2, RequestOps DEF MessageDraft
  <2>2. \A p \in request.message.requiredMessagePermissions : P!HasMessagePermission(bits, p)
    BY <1>2 DEF Permitted, bits
  <2> QED
    BY <1>1, <1>2, <2>1, <2>2 DEF Granted
<1>3. CASE request.op = "createChannel"
  <2>1. IF request.channel.isPublic THEN P!HasCommunityPermission(bits, "CreatePublicChannel")
        ELSE P!HasCommunityPermission(bits, "CreatePrivateChannel")
    BY <1>3 DEF Permitted, bits
  <2> QED
    BY <1>1, <1>3, <2>1, ChannelPermissions DEF Granted
<1> QED
  BY <1>2, <1>3 DEF Granted

-----------------------------------------------------------------------------
(* Steps of calls *)

(* The calls stay sound when one of them changes into a sound one. *)
LEMMA CallChanges ==
    ASSUME CallsSound, NEW c \in Callers, NEW call, calls' = [calls EXCEPT ![c] = call],
           CallSound(call)
    PROVE  CallsSound'
BY DEF CallsSound

(* An attempt that fails ends the call, or is followed by another. *)
LEMMA FailedSound ==
    ASSUME NEW call, CallShape(call), SentSound(call), ReplySound(call),
           call.at = "sent", call.tries > 0, NEW error
    PROVE  CallSound(Failed(call, error))
<1>1. call.request.op \in Queries \cup Updates /\ Queries \cap Updates = {}
  BY RequestOps DEF CallShape, Queries, Updates
<1>2. CASE Retried(call, error)
  <2> DEFINE next == [call EXCEPT !.at = "waiting", !.reply = Pending]
  <2>1. call.request.op \in Queries /\ call.tries <= MaxRetries
    BY <1>2 DEF Retried
  <2>2. Failed(call, error) = next /\ next = [call EXCEPT !.at = "waiting", !.reply = Pending]
    BY <1>2 DEF Failed
  <2> HIDE DEF next
  <2>3. next = [at |-> "waiting", request |-> call.request, args |-> call.args,
                tries |-> call.tries, runs |-> call.runs, reply |-> Pending,
                outcome |-> call.outcome]
    BY <2>2 DEF CallShape
  <2>4. CallShape(next)
    BY <2>1, <2>3 DEF CallShape
  <2>5. SentSound(next) /\ ReplySound(next)
    BY <1>1, <2>1, <2>3 DEF SentSound, ReplySound, AnswerSound, CallShape
  <2> QED
    BY <2>2, <2>4, <2>5 DEF CallSound
<1>3. CASE ~Retried(call, error)
  <2> DEFINE next == Rejected(call, error)
  <2>1. PICK outcome : /\ next = [at |-> "settled", request |-> call.request,
                                  args |-> call.args, tries |-> call.tries,
                                  runs |-> call.runs, reply |-> call.reply,
                                  outcome |-> outcome]
                       /\ outcome # Pending
                       /\ call.request.op \in Updates => outcome.tag = "rejected"
                       /\ outcome.tag = "answered" => outcome.answer.kind # "success"
    <3>1. CASE call.request.op = "chatDetails"
      <4> DEFINE outcome == [tag |-> "answered", answer |-> [kind |-> "server_error"]]
      <4>1. outcome # Pending /\ outcome.answer.kind # "success"
        BY DEF Pending
      <4>2. next = [call EXCEPT !.at = "settled", !.outcome = outcome]
        BY <3>1 DEF Rejected, Answered, Settled
      <4> HIDE DEF outcome, next
      <4>3. next = [at |-> "settled", request |-> call.request,
                    args |-> call.args, tries |-> call.tries, runs |-> call.runs,
                    reply |-> call.reply, outcome |-> outcome]
        BY <4>2 DEF CallShape
      <4> QED
        BY <3>1, <4>1, <4>3 DEF Updates
    <3>2. CASE call.request.op # "chatDetails"
      <4> DEFINE outcome == [tag |-> "rejected", error |-> error]
      <4>1. outcome # Pending /\ outcome.tag = "rejected"
        BY DEF Pending
      <4>2. next = [call EXCEPT !.at = "settled", !.outcome = outcome]
        BY <3>2 DEF Rejected, Settled
      <4> HIDE DEF outcome, next
      <4>3. next = [at |-> "settled", request |-> call.request,
                    args |-> call.args, tries |-> call.tries, runs |-> call.runs,
                    reply |-> call.reply, outcome |-> outcome]
        BY <4>2 DEF CallShape
      <4> QED
        BY <4>1, <4>3
    <3> QED
      BY <3>1, <3>2
  <2>2. Failed(call, error) = next
    BY <1>3 DEF Failed
  <2> HIDE DEF next
  <2>3. CallShape(next)
    BY <2>1 DEF CallShape
  <2>4. SentSound(next) /\ ReplySound(next)
    BY <1>1, <2>1 DEF SentSound, ReplySound, AnswerSound, CallShape
  <2> QED
    BY <2>2, <2>3, <2>4 DEF CallSound
<1> QED
  BY <1>2, <1>3

(* A call that is settled before anything is sent *)
Unsent(call) ==
    /\ call = [at |-> "settled", request |-> call.request, args |-> call.args, tries |-> 0,
               runs |-> 0, reply |-> Pending, outcome |-> call.outcome]
    /\ call.outcome # Pending /\ call.outcome.tag # "rejected"
    /\ call.outcome.tag = "answered" => call.outcome.answer.kind # "success"

LEMMA UnsentSound ==
    ASSUME NEW call, Unsent(call), call.request \in Requests
    PROVE  CallSound(call)
<1>1. /\ call.at = "settled" /\ call.tries = 0 /\ call.runs = 0 /\ call.reply = Pending
      /\ call.outcome # Pending /\ call.outcome.tag # "rejected"
      /\ call.outcome.tag = "answered" => call.outcome.answer.kind # "success"
  BY DEF Unsent
<1>2. CallShape(call)
  BY <1>1, BotClientAssumption DEF Unsent, CallShape, Limit
<1>3. SentSound(call) /\ ReplySound(call)
  BY <1>1 DEF SentSound, ReplySound, AnswerSound, Pending
<1> QED
  BY <1>2, <1>3 DEF CallSound

LEMMA SettledUnsent ==
    ASSUME NEW request, NEW args, NEW outcome, outcome # Pending,
           outcome.tag # "rejected",
           outcome.tag = "answered" => outcome.answer.kind # "success"
    PROVE  LET call == Settled([Call(request, args) EXCEPT !.tries = 0], outcome)
           IN  Unsent(call) /\ call.request = request
<1> DEFINE first == [Call(request, args) EXCEPT !.tries = 0]
           call == Settled(first, outcome)
<1>1. first = [at |-> "sent", request |-> request, args |-> args, tries |-> 0, runs |-> 0,
               reply |-> Pending, outcome |-> Pending]
  BY DEF Call
<1> HIDE DEF first
<1>2. call = [first EXCEPT !.at = "settled", !.outcome = outcome]
  BY DEF Settled
<1>3. call = [at |-> "settled", request |-> request, args |-> args, tries |-> 0, runs |-> 0,
              reply |-> Pending, outcome |-> outcome]
  <2> HIDE DEF call
  <2> QED
    BY <1>1, <1>2
<1> HIDE DEF call
<1>4. Unsent(call) /\ call.request = request
  BY <1>3 DEF Unsent
<1> QED
  BY <1>4 DEF call, first

LEMMA StartSound ==
    ASSUME CallsSound, NEW c \in Callers, NEW request \in Requests, Start(c, request)
    PROVE  CallsSound'
<1> DEFINE args == ArgsOf(request)
           call == IF ~Permitted(request) THEN Refused(request, "not_authorized")
                   ELSE IF request.op = "sendMessage" /\ request.message.ephemeral
                       THEN Refused(request, "invalid_request")
                   ELSE IF args = Thrown
                       THEN Settled([Call(request, Missing) EXCEPT !.tries = 0],
                                    [tag |-> "thrown"])
                   ELSE IF ~Parses(request, args)
                       THEN Rejected([Call(request, args) EXCEPT !.tries = 0], "Http")
                   ELSE Call(request, args)
<1>1. calls' = [calls EXCEPT ![c] = call]
  BY DEF Start
<1>2. CallSound(call)
  <2> DEFINE refused(kind) == [tag |-> "answered", answer |-> [kind |-> kind]]
  <2>1. ASSUME NEW kind, kind # "success"
        PROVE  CallSound(Settled([Call(request, Missing) EXCEPT !.tries = 0], refused(kind)))
    <3>1. /\ refused(kind) # Pending /\ refused(kind).tag # "rejected"
          /\ refused(kind).answer.kind # "success"
      BY <2>1 DEF Pending
    <3> HIDE DEF refused
    <3> QED
      BY <3>1, SettledUnsent, UnsentSound
  <2>2. CASE ~Permitted(request)
    <3>1. call = Settled([Call(request, Missing) EXCEPT !.tries = 0], refused("not_authorized"))
      BY <2>2 DEF Refused, Answered
    <3> QED
      BY <2>1, <3>1
  <2>3. CASE Permitted(request) /\ request.op = "sendMessage" /\ request.message.ephemeral
    <3>1. call = Settled([Call(request, Missing) EXCEPT !.tries = 0], refused("invalid_request"))
      BY <2>3 DEF Refused, Answered
    <3> QED
      BY <2>1, <3>1
  <2> DEFINE asked == Permitted(request)
                      /\ ~(request.op = "sendMessage" /\ request.message.ephemeral)
  <2>4. CASE asked /\ args = Thrown
    <3> DEFINE outcome == [tag |-> "thrown"]
    <3>1. call = Settled([Call(request, Missing) EXCEPT !.tries = 0], outcome)
      BY <2>4
    <3>2. outcome # Pending /\ outcome.tag \notin {"answered", "rejected"}
      BY DEF Pending
    <3> HIDE DEF outcome, call
    <3> QED
      BY <3>1, <3>2, SettledUnsent, UnsentSound
  <2>5. CASE asked /\ args # Thrown
    <3>1. Parses(request, args)
      BY <2>5, ArgsParse
    <3>2. call = Call(request, args) /\ Granted(request)
      BY <2>5, <3>1, PermittedIsGranted
    <3>3. call = [at |-> "sent", request |-> request, args |-> args, tries |-> 1, runs |-> 0,
                  reply |-> Pending, outcome |-> Pending]
      BY <3>2 DEF Call
    <3> HIDE DEF call
    <3>4. CallShape(call)
      BY <3>3, BotClientAssumption DEF CallShape, Limit
    <3>5. SentSound(call) /\ ReplySound(call)
      BY <2>5, <3>1, <3>2, <3>3 DEF SentSound, ReplySound, AnswerSound, Pending
    <3> QED
      BY <3>4, <3>5 DEF CallSound
  <2> QED
    BY <2>2, <2>3, <2>4, <2>5
<1> HIDE DEF call
<1> QED
  BY <1>1, <1>2, CallChanges

(* OpenChat replies without having done an update.                         *)
LEMMA RepliedSound ==
    ASSUME CallsSound, NEW c \in Callers, Arrived(calls[c]), NEW reply, Replied(c, reply),
           reply # Pending, calls[c].request.op \in Queries \/ reply.tag # "Success"
    PROVE  CallsSound'
<1> DEFINE call == calls[c]
           next == [call EXCEPT !.reply = reply]
<1>1. calls' = [calls EXCEPT ![c] = next]
  BY DEF Replied
<1>2. /\ CallShape(call) /\ SentSound(call) /\ ReplySound(call)
      /\ call.tries > 0 /\ call.reply = Pending
      /\ \/ call.at = "sent"
         \/ call.at = "settled" /\ call.request.op \in Updates /\ call.runs = 0
  BY DEF Arrived, CallsSound, CallSound
<1>3. /\ call.request.op \in Queries \cup Updates /\ Queries \cap Updates = {}
      /\ call.runs = 0 /\ call.tries \in Nat
  BY <1>2, RequestOps, BotClientAssumption
     DEF CallShape, ReplySound, AnswerSound, Pending, Queries, Updates, Limit
<1>4. call.request.op \in Queries \/ reply.tag # "Success"
  OBVIOUS
<1> HIDE DEF call, next
<1>5. next = [at |-> call.at, request |-> call.request, args |-> call.args,
              tries |-> call.tries, runs |-> call.runs, reply |-> reply,
              outcome |-> call.outcome]
  BY <1>2 DEF CallShape, next
<1>6. CallShape(next)
  BY <1>2, <1>5 DEF CallShape
<1>7. SentSound(next) /\ ReplySound(next)
  BY <1>2, <1>3, <1>4, <1>5 DEF SentSound, ReplySound, AnswerSound
<1> QED
  BY <1>1, <1>6, <1>7, CallChanges DEF CallSound

(* OpenChat does an update and replies.                                    *)
LEMMA DoneSound ==
    ASSUME CallsSound, NEW c \in Callers, Arrived(calls[c]), NEW reply, Done(c, reply),
           reply.tag = "Success", calls[c].request.op \in Updates
    PROVE  CallsSound'
<1> DEFINE call == calls[c]
           next == [call EXCEPT !.reply = reply, !.runs = @ + 1]
<1>1. calls' = [calls EXCEPT ![c] = next]
  BY DEF Done, CallsSound
<1>2. /\ CallShape(call) /\ SentSound(call) /\ ReplySound(call)
      /\ call.tries > 0 /\ call.reply = Pending
      /\ \/ call.at = "sent"
         \/ call.at = "settled" /\ call.request.op \in Updates /\ call.runs = 0
  BY DEF Arrived, CallsSound, CallSound
<1>3. /\ call.request.op \in Updates /\ Queries \cap Updates = {}
      /\ call.runs = 0 /\ call.tries \in Nat /\ reply # Pending
  BY <1>2, BotClientAssumption
     DEF CallShape, ReplySound, AnswerSound, Pending, Queries, Updates, Limit
<1>4. next = [call EXCEPT !.reply = reply, !.runs = 1]
  BY <1>3
<1> HIDE DEF call, next
<1>5. next = [at |-> call.at, request |-> call.request, args |-> call.args,
              tries |-> call.tries, runs |-> 1, reply |-> reply,
              outcome |-> call.outcome]
  BY <1>2, <1>4 DEF CallShape
<1>6. CallShape(next)
  BY <1>2, <1>3, <1>5 DEF CallShape
<1>7. SentSound(next) /\ ReplySound(next)
  BY <1>2, <1>3, <1>5 DEF SentSound, ReplySound, AnswerSound
<1> QED
  BY <1>1, <1>6, <1>7, CallChanges DEF CallSound

(* A reply is mapped, or is one that cannot be.                            *)
LEMMA DeliverSound ==
    ASSUME CallsSound, NEW c \in Callers, Deliver(c)
    PROVE  CallsSound'
<1> DEFINE call == calls[c]
           answer == AnswerOf(call.request.op, call.reply)
           next == IF answer = Thrown THEN Failed(call, "Http") ELSE Answered(call, answer)
<1>1. calls' = [calls EXCEPT ![c] = next] /\ call.at = "sent" /\ call.reply # Pending
  BY DEF Deliver
<1>2. CallShape(call) /\ SentSound(call) /\ ReplySound(call) /\ call.tries > 0
  <2>1. call # Idle
    BY <1>1 DEF Idle
  <2>2. CallShape(call) /\ SentSound(call) /\ ReplySound(call)
    BY <2>1 DEF CallsSound, CallSound
  <2> QED
    BY <1>1, <2>2 DEF SentSound
<1> HIDE DEF call
<1>3. CASE answer = Thrown
  <2>1. CallSound(Failed(call, "Http"))
    BY <1>1, <1>2, FailedSound
  <2> QED
    BY <1>1, <1>3, <2>1, CallChanges
<1>4. CASE answer # Thrown
  <2> DEFINE outcome == [tag |-> "answered", answer |-> answer]
  <2>1. next = [call EXCEPT !.at = "settled", !.outcome = outcome]
    BY <1>4 DEF Answered, Settled
  <2>2. outcome # Pending /\ outcome.answer = AnswerOf(call.request.op, call.reply)
    BY DEF Pending
  <2>3. outcome.answer # Thrown
    BY <1>4
  <2> HIDE DEF outcome, next
  <2>4. next = [at |-> "settled", request |-> call.request, args |-> call.args,
                tries |-> call.tries, runs |-> call.runs, reply |-> call.reply,
                outcome |-> outcome]
    BY <1>2, <2>1 DEF CallShape
  <2>5. CallShape(next)
    BY <1>2, <2>2, <2>4 DEF CallShape
  <2>6. SentSound(next) /\ ReplySound(next)
    BY <1>1, <1>2, <2>2, <2>3, <2>4 DEF SentSound, ReplySound, AnswerSound
  <2> QED
    BY <1>1, <2>5, <2>6, CallChanges DEF CallSound
<1> QED
  BY <1>3, <1>4

(* An attempt fails, and what OpenChat replied to a query is lost.         *)
LEMMA FailSound ==
    ASSUME CallsSound, NEW c \in Callers, Fail(c)
    PROVE  CallsSound'
<1> DEFINE call == calls[c]
           lost == IF call.request.op \in Queries THEN [call EXCEPT !.reply = Pending] ELSE call
<1>1. PICK error \in Errors : calls' = [calls EXCEPT ![c] = Failed(lost, error)]
  BY DEF Fail
<1>2. call.at = "sent"
  BY DEF Fail
<1>3. CallShape(call) /\ SentSound(call) /\ ReplySound(call) /\ call.tries > 0
  <2>1. call # Idle
    BY <1>2 DEF Idle
  <2>2. CallShape(call) /\ SentSound(call) /\ ReplySound(call)
    BY <2>1 DEF CallsSound, CallSound
  <2> QED
    BY <1>2, <2>2 DEF SentSound
<1> HIDE DEF call
<1>4. CASE call.request.op \in Queries
  <2>1. lost = [call EXCEPT !.reply = Pending]
    BY <1>4
  <2> HIDE DEF lost
  <2>2. lost = [at |-> call.at, request |-> call.request, args |-> call.args,
                tries |-> call.tries, runs |-> call.runs, reply |-> Pending,
                outcome |-> call.outcome]
    BY <1>3, <2>1 DEF CallShape
  <2>3. CallShape(lost)
    BY <1>3, <2>2 DEF CallShape
  <2>4. SentSound(lost) /\ ReplySound(lost) /\ lost.at = "sent" /\ lost.tries > 0
    BY <1>2, <1>3, <1>4, <2>2 DEF SentSound, ReplySound, AnswerSound, Queries, Updates
  <2>5. CallSound(Failed(lost, error))
    BY <2>3, <2>4, FailedSound
  <2> QED
    BY <1>1, <2>5, CallChanges
<1>5. CASE call.request.op \notin Queries
  <2>1. CallSound(Failed(call, error)) /\ lost = call
    BY <1>2, <1>3, <1>5, FailedSound
  <2> QED
    BY <1>1, <2>1, CallChanges
<1> QED
  BY <1>4, <1>5

(* A query that has failed is sent again.                                  *)
LEMMA RetrySound ==
    ASSUME CallsSound, NEW c \in Callers, Retry(c)
    PROVE  CallsSound'
<1> DEFINE call == calls[c]
           next == [call EXCEPT !.at = "sent", !.tries = @ + 1]
<1>1. calls' = [calls EXCEPT ![c] = next] /\ call.at = "waiting"
  BY DEF Retry, CallsSound
<1>2. CallShape(call) /\ SentSound(call) /\ ReplySound(call)
  BY <1>1 DEF CallsSound, CallSound, Idle
<1>3. /\ call.request.op \in Queries /\ call.tries <= MaxRetries /\ call.tries > 0
      /\ call.tries \in Nat /\ MaxRetries \in Nat
  BY <1>1, <1>2, BotClientAssumption DEF CallShape, SentSound, Limit
<1>4. next = [call EXCEPT !.at = "sent", !.tries = call.tries + 1]
  OBVIOUS
<1> HIDE DEF call, next
<1>5. next = [at |-> "sent", request |-> call.request, args |-> call.args,
              tries |-> call.tries + 1, runs |-> call.runs, reply |-> call.reply,
              outcome |-> call.outcome]
  BY <1>2, <1>4 DEF CallShape
<1>6. CallShape(next)
  BY <1>1, <1>2, <1>3, <1>5 DEF CallShape, Limit
<1>7. SentSound(next) /\ ReplySound(next)
  BY <1>2, <1>3, <1>5 DEF SentSound, ReplySound, AnswerSound, Queries, Updates
<1> QED
  BY <1>1, <1>6, <1>7, CallChanges DEF CallSound

(* What OpenChat does with a request                                       *)
LEMMA ExecuteSound ==
    ASSUME CallsSound, NEW c \in Callers,
           \/ ExecuteSend(c) \/ ExecuteCreate(c) \/ ExecuteDelete(c) \/ Read(c) \/ Refuse(c)
    PROVE  CallsSound'
<1> DEFINE done(reply) == reply.tag = "Success" /\ Done(c, reply)
           refused(reply) == reply # Pending /\ reply.tag # "Success" /\ Replied(c, reply)
<1>1. ASSUME NEW reply, done(reply), Arrived(calls[c]), calls[c].request.op \in Updates
      PROVE  CallsSound'
  BY <1>1, DoneSound
<1>2. ASSUME NEW reply, refused(reply), Arrived(calls[c])
      PROVE  CallsSound'
  BY <1>2, RepliedSound
<1>3. CASE ExecuteSend(c)
  <2>1. /\ Arrived(calls[c]) /\ calls[c].request.op \in Updates
        /\ \E reply : done(reply)
    <3>1. PICK value : Done(c, [tag |-> "Success", value |-> value])
      BY <1>3, Zenon DEF ExecuteSend
    <3>2. Arrived(calls[c]) /\ calls[c].request.op \in Updates
      BY <1>3 DEF ExecuteSend, Updates
    <3>3. done([tag |-> "Success", value |-> value])
      BY <3>1
    <3> QED
      BY <3>2, <3>3
  <2> QED
    BY <1>1, <2>1
<1>4. CASE ExecuteCreate(c)
  <2>1. /\ Arrived(calls[c]) /\ calls[c].request.op \in Updates
        /\ \E reply : done(reply)
    <3>1. PICK value : Done(c, [tag |-> "Success", value |-> value])
      BY <1>4 DEF ExecuteCreate
    <3>2. Arrived(calls[c]) /\ calls[c].request.op \in Updates
      BY <1>4 DEF ExecuteCreate, Updates
    <3>3. done([tag |-> "Success", value |-> value])
      BY <3>1
    <3> QED
      BY <3>2, <3>3
  <2> QED
    BY <1>1, <2>1
<1>5. CASE ExecuteDelete(c)
  <2>1. /\ Arrived(calls[c]) /\ calls[c].request.op \in Updates
        /\ \E reply : done(reply) \/ refused(reply)
    BY <1>5 DEF ExecuteDelete, Updates, Pending
  <2> QED
    BY <1>1, <1>2, <2>1
<1>6. CASE Read(c)
  <2>1. /\ Arrived(calls[c]) /\ calls[c].request.op \in Queries
        /\ \E reply : reply # Pending /\ Replied(c, reply)
    BY <1>6 DEF Read, Pending
  <2> QED
    BY <2>1, RepliedSound
<1>7. CASE Refuse(c)
  <2>1. PICK tag \in Refusals(calls[c].request.op) : Replied(c, [tag |-> tag])
    BY <1>7 DEF Refuse
  <2>2. Arrived(calls[c])
    BY <1>7 DEF Refuse
  <2>3. calls[c].request.op \in Queries \cup Updates
    BY <2>2, RequestOps DEF Arrived, CallsSound, CallSound, CallShape
  <2>4. tag # "Success" /\ tag # "pending"
    BY <2>3 DEF Refusals, Queries, Updates
  <2>5. refused([tag |-> tag])
    BY <2>1, <2>4 DEF Pending
  <2> QED
    BY <1>2, <2>2, <2>5
<1> QED
  BY <1>3, <1>4, <1>5, <1>6, <1>7

-----------------------------------------------------------------------------
(* The invariant, and what follows of it *)

LEMMA CallsInit == Init => CallsSound
BY DEF Init, CallsSound, CallSound

LEMMA CallsNext == CallsSound /\ [Next]_vars => CallsSound'
<1> SUFFICES ASSUME CallsSound, [Next]_vars PROVE CallsSound'
  OBVIOUS
<1>1. ASSUME NEW c \in Callers, NEW request \in Requests, Start(c, request)
      PROVE  CallsSound'
  BY <1>1, StartSound
<1>2. ASSUME NEW c \in Callers,
             \/ ExecuteSend(c) \/ ExecuteCreate(c) \/ ExecuteDelete(c) \/ Read(c) \/ Refuse(c)
      PROVE  CallsSound'
  BY <1>2, ExecuteSound
<1>3. ASSUME NEW c \in Callers, Attempt(c)
      PROVE  CallsSound'
  BY <1>3, DeliverSound, FailSound DEF Attempt
<1>4. ASSUME NEW c \in Callers, Retry(c)
      PROVE  CallsSound'
  BY <1>4, RetrySound
<1>5. ASSUME NEW c \in Callers, Forget(c)
      PROVE  CallsSound'
  BY <1>5, CallChanges DEF Forget, CallSound
<1>6. ASSUME NEW chat, (\E event \in Events : Happens(chat, event)) \/ RemoveChannel(chat)
      PROVE  CallsSound'
  BY <1>6 DEF Happens, RemoveChannel, CallsSound
<1>7. CASE UNCHANGED vars
  BY <1>7 DEF vars, CallsSound
<1> QED
  BY <1>1, <1>2, <1>3, <1>4, <1>5, <1>6, <1>7 DEF Next

LEMMA CallsCorrect == Spec => []CallsSound
BY CallsInit, CallsNext, PTL DEF Spec

(* What a success is among the answers to updates                          *)
LEMMA SuccessAnswers ==
    ASSUME NEW op \in Updates, NEW reply, AnswerOf(op, reply) # Thrown
    PROVE  AnswerOf(op, reply).kind = "success" <=> reply.tag = "Success"
<1>1. CASE op = "sendMessage"
  <2>1. AnswerOf(op, reply) = SendMessageResponse(reply)
    BY <1>1 DEF AnswerOf
  <2> QED
    BY <2>1 DEF SendMessageResponse, Kind
<1>2. CASE op = "createChannel"
  <2>1. AnswerOf(op, reply) = CreateChannelResponse(reply)
    BY <1>2 DEF AnswerOf
  <2> QED
    BY <2>1 DEF CreateChannelResponse, Kind
<1>3. CASE op = "deleteChannel"
  <2>1. AnswerOf(op, reply) = DeleteChannelResponse(reply)
    BY <1>3 DEF AnswerOf
  <2> QED
    BY <2>1 DEF DeleteChannelResponse, Kind
<1> QED
  BY <1>1, <1>2, <1>3 DEF Updates

(* Whatever fails, is given up or is refused: an update that is answered   *)
(* with success was done, and one answered with anything else was not.     *)
THEOREM AnswersTell == Spec => []AnswerTellsOutcome
<1>1. CallsSound => AnswerTellsOutcome
  <2> SUFFICES ASSUME CallsSound, NEW c \in Callers, SettledAs(c, "answered"),
                      calls[c].request.op \in Updates
               PROVE  (calls[c].runs = 1) = (AnswerFor(c).kind = "success")
    BY DEF AnswerTellsOutcome
  <2> DEFINE call == calls[c]
  <2>1. call.at = "settled" /\ call.outcome.tag = "answered" /\ AnswerFor(c) = call.outcome.answer
    BY DEF SettledAs, AnswerFor
  <2>2. CallShape(call) /\ SentSound(call) /\ ReplySound(call)
    BY <2>1 DEF CallsSound, CallSound, Idle
  <2>3. CASE call.tries > 0
    <3>1. AnswerFor(c) = AnswerOf(call.request.op, call.reply) /\ AnswerFor(c) # Thrown
      BY <2>1, <2>2, <2>3 DEF ReplySound, AnswerSound
    <3>2. AnswerFor(c).kind = "success" <=> call.reply.tag = "Success"
      BY <3>1, SuccessAnswers
    <3> QED
      BY <2>2, <3>2 DEF ReplySound
  <2>4. CASE ~(call.tries > 0)
    BY <2>1, <2>2, <2>4 DEF SentSound
  <2> QED
    BY <2>3, <2>4
<1> QED
  BY <1>1, CallsCorrect, PTL

(* No request is sent that the token does not grant.                       *)
THEOREM GrantedSent == Spec => []OnlyGrantedSent
<1>1. CallsSound => OnlyGrantedSent
  BY DEF CallsSound, CallSound, SentSound, Granted, OnlyGrantedSent
<1> QED
  BY <1>1, CallsCorrect, PTL

(* A query is sent at most MAX_RETRIES times again, an update once, and it *)
(* is done at most once.                                                   *)
THEOREM AttemptsLimited == Spec => []AttemptsBounded
<1>1. CallsSound => AttemptsBounded
  <2> SUFFICES ASSUME CallsSound, NEW c \in Callers, calls[c] # Idle
               PROVE  /\ calls[c].runs <= 1
                      /\ calls[c].tries <= (IF calls[c].request.op \in Queries
                                            THEN MaxRetries + 1 ELSE 1)
    BY DEF AttemptsBounded
  <2>1. CallShape(calls[c])
    BY DEF CallsSound, CallSound
  <2> QED
    BY <2>1, BotClientAssumption DEF CallShape, Limit
<1> QED
  BY <1>1, CallsCorrect, PTL

(* No call is rejected for its arguments: what a caller may fill in is     *)
(* made into what the schema of the request takes, or the mapping throws.  *)
THEOREM ArgumentsTaken == Spec => []ArgumentsParse
<1>1. CallsSound => ArgumentsParse
  <2> SUFFICES ASSUME CallsSound, NEW c \in Callers, SettledAs(c, "rejected")
               PROVE  calls[c].tries > 0
    BY DEF ArgumentsParse
  <2>1. calls[c].at = "settled" /\ calls[c].outcome.tag = "rejected"
    BY DEF SettledAs
  <2> QED
    BY <2>1 DEF CallsSound, CallSound, SentSound, Idle
<1> QED
  BY <1>1, CallsCorrect, PTL

-----------------------------------------------------------------------------
(* The inductive invariant of chats *)

LogEntry == [event : Wire!ChatEvent, draft : MessageDraft \cup {Missing}]
Chat ==
    [details : Wire!ChatDetails, draft : ChannelDraft \cup {Missing}, removed : BOOLEAN,
     log : Seq(LogEntry)]

ChatsSound ==
    /\ chats \in [DOMAIN chats -> Chat]
    /\ DOMAIN chats \subseteq 0..MaxChannels /\ OwnChat \in Present

(* Principals name the bot that has sent a message or made a channel.      *)
LEMMA Sender == [bytes |-> CHOOSE p \in Principals : TRUE] \in Wire!TSPrincipal
<1>1. (CHOOSE p \in Principals : TRUE) \in Principals
  BY BotClientAssumption
<1> QED
  BY <1>1 DEF Wire!TSPrincipal

(* What a bot may send is a content of messages. *)
LEMMA BotContents == Wire!BotMessageContent \subseteq Wire!MessageContent
BY DEF Wire!BotMessageContent, Wire!MessageContent

LEMMA SentTypes ==
    ASSUME NEW args \in Wire!BotSendMessageArgs, NEW index \in Nat
    PROVE  Sent(args, index) \in Wire!ChatEvent
<1> DEFINE sender == [bytes |-> CHOOSE p \in Principals : TRUE]
           id == OrElse(args.message_id, Width64 + index)
           context == [command |-> Missing, finalised |-> args.finalised]
           message == [message_index |-> index, message_id |-> id, sender |-> sender,
                       content |-> args.content, bot_context |-> context,
                       replies_to |-> Missing, reactions |-> <<>>, tips |-> <<>>,
                       thread_summary |-> Missing, edited |-> FALSE, forwarded |-> FALSE,
                       block_level_markdown |-> args.block_level_markdown]
<1>1. Sent(args, index) = [tag |-> "Message", value |-> message]
  BY DEF Sent
<1>2. sender \in Wire!TSPrincipal
  BY Sender
<1>3. id \in Nat
  BY MappingAssumption DEF Wire!BotSendMessageArgs, Wire!Opt, OrElse
<1>4. context \in Wire!Opt(Wire!BotMessageContext)
  BY DEF Wire!BotSendMessageArgs, Wire!Opt, Wire!BotMessageContext
<1>5. args.content \in Wire!MessageContent /\ args.block_level_markdown \in BOOLEAN
  BY BotContents DEF Wire!BotSendMessageArgs
<1> HIDE DEF sender, id, context
<1>6. message \in Wire!Message
  BY <1>2, <1>3, <1>4, <1>5 DEF Wire!Message, Wire!Opt, Wire!Tips
<1> HIDE DEF message
<1> QED
  BY <1>1, <1>6 DEF Wire!ChatEvent, Wire!Tagged

LEMMA CreatedTypes ==
    ASSUME NEW args \in Wire!BotCreateChannelArgs
    PROVE  Created(args) \in Wire!ChatEvent
<1> DEFINE sender == [bytes |-> CHOOSE p \in Principals : TRUE]
           value == [name |-> args.name, description |-> args.description,
                     created_by |-> sender]
<1>1. Created(args) = [tag |-> "GroupChatCreated", value |-> value]
  BY DEF Created
<1>2. sender \in Wire!TSPrincipal
  BY Sender
<1> HIDE DEF sender
<1>3. value \in [name : STRING, description : STRING, created_by : Wire!TSPrincipal]
  BY <1>2 DEF Wire!BotCreateChannelArgs
<1> HIDE DEF value
<1> QED
  BY <1>1, <1>3 DEF Wire!ChatEvent, Wire!Tagged

LEMMA DetailsTypes ==
    ASSUME NEW args \in Wire!BotCreateChannelArgs, args.permissions \in Wire!GroupPermissions
    PROVE  DetailsOf(args) \in Wire!ChatDetails
<1> DEFINE avatar == Optional(args.avatar, LAMBDA a : 1)
           rules == [text |-> args.rules.text, version |-> 0, enabled |-> args.rules.enabled]
<1>1. avatar \in Wire!Opt(Nat)
  BY DEF Optional, Wire!Opt
<1>2. rules \in [text : STRING, version : Nat, enabled : BOOLEAN]
  <2>1. args.rules \in [text : STRING, enabled : BOOLEAN]
    BY DEF Wire!BotCreateChannelArgs
  <2> QED
    BY <2>1
<1> HIDE DEF avatar, rules
<1>3. DetailsOf(args) =
        [name |-> args.name, description |-> args.description, avatar_id |-> avatar,
         is_public |-> args.is_public,
         history_visible_to_new_joiners |-> args.history_visible_to_new_joiners,
         messages_visible_to_non_members |-> args.messages_visible_to_non_members,
         permissions |-> args.permissions, rules |-> rules,
         events_ttl |-> args.events_ttl, events_ttl_last_updated |-> Missing,
         gate_config |-> args.gate_config, video_call_in_progress |-> Missing,
         verified |-> Missing, frozen |-> Missing, date_last_pinned |-> Missing,
         last_updated |-> 0, external_url |-> args.external_url, latest_event_index |-> 0,
         latest_message_index |-> Missing, member_count |-> 1]
  BY DEF DetailsOf, avatar, rules
<1> QED
  BY <1>1, <1>2, <1>3 DEF Wire!BotCreateChannelArgs, Wire!ChatDetails, Wire!Opt

(* Steps that change one chat                                              *)
LEMMA ChatChanges ==
    ASSUME ChatsSound, NEW id \in DOMAIN chats, NEW chat \in Chat, id = OwnChat => ~chat.removed,
           chats' = [chats EXCEPT ![id] = chat]
    PROVE  ChatsSound'
<1>1. DOMAIN chats' = DOMAIN chats /\ chats' \in [DOMAIN chats -> Chat]
  BY DEF ChatsSound
<1>2. OwnChat \in Present'
  BY <1>1 DEF ChatsSound, Present
<1> QED
  BY <1>1, <1>2 DEF ChatsSound

LEMMA LogGrows ==
    ASSUME ChatsSound, NEW id \in DOMAIN chats, NEW entry \in LogEntry,
           chats' = [chats EXCEPT ![id].log = Append(@, entry)]
    PROVE  ChatsSound'
<1> DEFINE chat == [chats[id] EXCEPT !.log = Append(chats[id].log, entry)]
<1>1. chats[id] \in Chat
  BY DEF ChatsSound
<1>2. Append(chats[id].log, entry) \in Seq(LogEntry)
  BY <1>1 DEF Chat
<1>3. chat \in Chat /\ chat.removed = chats[id].removed
  BY <1>1, <1>2 DEF Chat
<1>4. id = OwnChat => ~chats[id].removed
  BY DEF ChatsSound, Present
<1>5. chats' = [chats EXCEPT ![id] = chat]
  OBVIOUS
<1> HIDE DEF chat
<1> QED
  BY <1>3, <1>4, <1>5, ChatChanges

LEMMA ChannelRemoved ==
    ASSUME ChatsSound, NEW id \in DOMAIN chats, id # OwnChat,
           chats' = [chats EXCEPT ![id].removed = TRUE]
    PROVE  ChatsSound'
<1> DEFINE chat == [chats[id] EXCEPT !.removed = TRUE]
<1>1. chats[id] \in Chat
  BY DEF ChatsSound
<1>2. chat \in Chat
  BY <1>1 DEF Chat
<1>3. chats' = [chats EXCEPT ![id] = chat]
  OBVIOUS
<1> HIDE DEF chat
<1> QED
  BY <1>2, <1>3, ChatChanges

(* What a call that OpenChat works on has been given                       *)
LEMMA ArrivedArgs ==
    ASSUME CallsSound, NEW c \in Callers, Arrived(calls[c])
    PROVE  /\ calls[c].request \in Requests /\ calls[c].args # Thrown
           /\ calls[c].args = ArgsOf(calls[c].request)
           /\ Parses(calls[c].request, calls[c].args)
BY DEF Arrived, CallsSound, CallSound, CallShape, SentSound

LEMMA SendChats ==
    ASSUME CallsSound, ChatsSound, NEW c \in Callers, ExecuteSend(c)
    PROVE  ChatsSound'
<1> DEFINE args == calls[c].args
           message == calls[c].request.message
           chat == TargetOf(args)
           event == Sent(args, Len(chats[chat].log))
<1>1. /\ Arrived(calls[c]) /\ calls[c].request.op = "sendMessage" /\ chat \in Present
      /\ chats' = [chats EXCEPT ![chat].log = Append(@, Entry(event, message))]
  BY DEF ExecuteSend
<1>2. args \in Wire!BotSendMessageArgs /\ message \in MessageDraft
  BY <1>1, ArrivedArgs, RequestOps DEF Parses
<1>3. chat \in DOMAIN chats /\ Len(chats[chat].log) \in Nat
  BY <1>1 DEF Present, ChatsSound, Chat
<1> HIDE DEF chat, args, message
<1>4. event \in Wire!ChatEvent
  BY <1>2, <1>3, SentTypes
<1> HIDE DEF event
<1>5. Entry(event, message) \in LogEntry
  BY <1>2, <1>4 DEF Entry, LogEntry
<1> QED
  BY <1>1, <1>3, <1>5, LogGrows

LEMMA CreateChats ==
    ASSUME CallsSound, ChatsSound, NEW c \in Callers, ExecuteCreate(c)
    PROVE  ChatsSound'
<1> DEFINE args == calls[c].args
           channel == calls[c].request.channel
           id == Cardinality(DOMAIN chats)
           log == <<Happened(Created(args))>>
           chat == [details |-> DetailsOf(args), log |-> log, draft |-> channel,
                    removed |-> FALSE]
<1>1. /\ Arrived(calls[c]) /\ calls[c].request.op = "createChannel" /\ id <= MaxChannels
      /\ chats' = Put(chats, id, chat)
  BY DEF ExecuteCreate
<1>2. /\ args \in Wire!BotCreateChannelArgs /\ channel \in ChannelDraft
      /\ args.permissions \in Wire!GroupPermissions
  <2>1. channel \in ChannelDraft /\ args = ChannelInputArgs(channel, Auth) /\ args # Thrown
    BY <1>1, ArrivedArgs, RequestOps DEF ArgsOf
  <2> HIDE DEF args, channel
  <2> QED
    BY <2>1, ChannelParses
<1>3. id \in Nat
  <2>1. IsFiniteSet(0..MaxChannels)
    BY FS_Interval, BotClientAssumption
  <2> QED
    BY <2>1, FS_Subset, FS_CardinalityType DEF ChatsSound
<1>4. DetailsOf(args) \in Wire!ChatDetails
  BY <1>2, DetailsTypes
<1>5. log \in Seq(LogEntry)
  <2>1. Happened(Created(args)) \in LogEntry
    BY <1>2, CreatedTypes DEF Happened, Entry, LogEntry
  <2> QED
    BY <2>1
<1> HIDE DEF args, channel, id, log
<1>6. chat \in Chat /\ ~chat.removed
  BY <1>2, <1>4, <1>5 DEF Chat
<1> HIDE DEF chat
<1>7. DOMAIN chats' = DOMAIN chats \cup {id}
      /\ \A x \in DOMAIN chats' : chats'[x] = IF x = id THEN chat ELSE chats[x]
  BY <1>1 DEF Put
<1>8. chats' \in [DOMAIN chats' -> Chat]
  BY <1>1, <1>6, <1>7 DEF ChatsSound, Put
<1>9. OwnChat \in Present' /\ DOMAIN chats' \subseteq 0..MaxChannels
  BY <1>1, <1>3, <1>6, <1>7, BotClientAssumption DEF ChatsSound, Present
<1> QED
  BY <1>8, <1>9 DEF ChatsSound

LEMMA DeleteChats ==
    ASSUME CallsSound, ChatsSound, NEW c \in Callers, ExecuteDelete(c)
    PROVE  ChatsSound'
<1>1. CASE calls[c].args.channel_id \in Present
  <2> DEFINE id == calls[c].args.channel_id
  <2>1. /\ Arrived(calls[c]) /\ calls[c].request.op = "deleteChannel"
        /\ chats' = [chats EXCEPT ![id].removed = TRUE]
    BY <1>1 DEF ExecuteDelete
  <2>2. id = calls[c].request.channelId
    <3>1. calls[c].args = ArgsOf(calls[c].request)
      BY <2>1, ArrivedArgs
    <3>2. ArgsOf(calls[c].request)
            = [channel_id |-> calls[c].request.channelId, auth_token |-> ApiAuthToken(Auth)]
      BY <2>1 DEF ArgsOf
    <3> QED
      BY <3>1, <3>2
  <2>3. calls[c].request \in ClientRequests
    BY <2>1, ArrivedArgs, BotClientAssumption
  <2>4. id # OwnChat
    BY <2>1, <2>2, <2>3 DEF ClientRequests, ChannelIds
  <2> QED
    BY <1>1, <2>1, <2>4, ChannelRemoved DEF Present
<1>2. CASE calls[c].args.channel_id \notin Present
  BY <1>2 DEF ExecuteDelete, ChatsSound, Present
<1> QED
  BY <1>1, <1>2

LEMMA ChatsInit == Init => ChatsSound
<1> SUFFICES ASSUME Init PROVE ChatsSound
  OBVIOUS
<1>1. PICK history \in Histories :
        chats = Put(EmptyMap, OwnChat,
                    [details |-> OwnDetails, draft |-> Missing, removed |-> FALSE,
                     log |-> [i \in DOMAIN history |-> Happened(history[i])]])
  BY DEF Init
<1> DEFINE log == [i \in DOMAIN history |-> Happened(history[i])]
           chat == [details |-> OwnDetails, draft |-> Missing, removed |-> FALSE, log |-> log]
<1>2. history \in Seq(Wire!ChatEvent)
  BY BotClientAssumption
<1>3. \A i \in DOMAIN history : log[i] \in LogEntry
  BY <1>2 DEF Happened, Entry, LogEntry
<1>4. log = [i \in DOMAIN history |-> log[i]]
  OBVIOUS
<1>5. chats = Put(EmptyMap, OwnChat, chat)
  BY <1>1
<1> HIDE DEF log
<1>6. log \in Seq(LogEntry)
  BY <1>2, <1>3, <1>4, SeqOfParts
<1>7. chat \in Chat /\ ~chat.removed
  BY <1>6, BotClientAssumption DEF Chat
<1> HIDE DEF chat
<1>8. DOMAIN chats = {OwnChat} /\ chats[OwnChat] = chat /\ chats \in [{OwnChat} -> Chat]
  BY <1>5, <1>7 DEF Put, EmptyMap
<1> QED
  BY <1>7, <1>8, BotClientAssumption DEF ChatsSound, Present, OwnChat

LEMMA ChatsNext == CallsSound /\ ChatsSound /\ [Next]_vars => ChatsSound'
<1> SUFFICES ASSUME CallsSound, ChatsSound, [Next]_vars PROVE ChatsSound'
  OBVIOUS
<1>1. ASSUME UNCHANGED chats
      PROVE  ChatsSound'
  BY <1>1 DEF ChatsSound, Present
<1>2. ASSUME NEW c \in Callers, NEW request \in Requests, Start(c, request)
      PROVE  UNCHANGED chats
  BY <1>2 DEF Start
<1>3. ASSUME NEW c \in Callers, ExecuteSend(c) \/ ExecuteCreate(c) \/ ExecuteDelete(c)
      PROVE  ChatsSound'
  BY <1>3, SendChats, CreateChats, DeleteChats
<1>4. ASSUME NEW c \in Callers, Read(c) \/ Refuse(c) \/ Attempt(c) \/ Retry(c) \/ Forget(c)
      PROVE  UNCHANGED chats
  BY <1>4 DEF Read, Refuse, Attempt, Deliver, Fail, Retry, Forget
<1>5. ASSUME NEW chat \in Present, NEW event \in Events, Happens(chat, event)
      PROVE  ChatsSound'
  <2>1. Happened(event) \in LogEntry /\ chat \in DOMAIN chats
    BY BotClientAssumption DEF Happened, Entry, LogEntry, Present
  <2>2. chats' = [chats EXCEPT ![chat].log = Append(@, Happened(event))]
    BY <1>5 DEF Happens
  <2> QED
    BY <2>1, <2>2, LogGrows
<1>6. ASSUME NEW chat \in Present, RemoveChannel(chat)
      PROVE  ChatsSound'
  BY <1>6, ChannelRemoved DEF RemoveChannel, Present
<1>7. CASE UNCHANGED vars
  BY <1>1, <1>7 DEF vars
<1> QED
  BY <1>1, <1>2, <1>3, <1>4, <1>5, <1>6, <1>7 DEF Next

LEMMA ChatsCorrect == Spec => []ChatsSound
BY CallsCorrect, ChatsInit, ChatsNext, PTL DEF Spec

(* What is sent satisfies its schema, and so do the chats that OpenChat    *)
(* makes of it; calls hold what their stage says, and no reply of a failed *)
(* attempt is kept for the next.                                           *)
THEOREM TypesCorrect == Spec => []TypeOK
<1>1. CallsSound => \A c \in Callers : CallTypes(c)
  <2> SUFFICES ASSUME CallsSound, NEW c \in Callers, calls[c] # Idle
               PROVE  /\ calls[c].at \in {"sent", "waiting", "settled"}
                      /\ calls[c].request \in Requests
                      /\ calls[c].tries \in 0 .. MaxRetries + 1 /\ calls[c].runs \in 0..1
                      /\ (calls[c].at = "settled") = (calls[c].outcome # Pending)
                      /\ calls[c].at = "waiting" => calls[c].reply = Pending
    BY DEF CallTypes
  <2>1. CallShape(calls[c])
    BY DEF CallsSound, CallSound
  <2> QED
    BY <2>1, BotClientAssumption DEF CallShape, Limit
<1>2. ChatsSound =>
        /\ DOMAIN chats \subseteq 0..MaxChannels /\ OwnChat \in Present
        /\ \A chat \in DOMAIN chats :
            /\ chats[chat].details \in Wire!ChatDetails
            /\ \A i \in DOMAIN chats[chat].log : chats[chat].log[i].event \in Wire!ChatEvent
  <2> SUFFICES ASSUME ChatsSound, NEW chat \in DOMAIN chats
               PROVE  /\ chats[chat].details \in Wire!ChatDetails
                      /\ \A i \in DOMAIN chats[chat].log :
                            chats[chat].log[i].event \in Wire!ChatEvent
    BY DEF ChatsSound
  <2>1. chats[chat].details \in Wire!ChatDetails /\ chats[chat].log \in Seq(LogEntry)
    BY DEF ChatsSound, Chat
  <2>2. \A i \in DOMAIN chats[chat].log : chats[chat].log[i] \in LogEntry
    BY <2>1
  <2> QED
    BY <2>1, <2>2 DEF LogEntry
<1>3. CallsSound /\ ChatsSound => TypeOK
  BY <1>1, <1>2 DEF TypeOK, CallsSound
<1> QED
  BY <1>3, CallsCorrect, ChatsCorrect, PTL

-----------------------------------------------------------------------------
(* The inductive invariant of what is kept and read                        *)

(* What a chat holds of the client's is what was made of drafts. *)
EntryMade(entry) ==
    entry.draft # Missing =>
        \E index \in Nat : entry.event = Sent(MessageInputArgs(entry.draft, Auth), index)

Made(chat) ==
    /\ chat.draft # Missing =>
        /\ ChannelInputArgs(chat.draft, Auth) # Thrown
        /\ chat.details = DetailsOf(ChannelInputArgs(chat.draft, Auth))
    /\ \A i \in DOMAIN chat.log : EntryMade(chat.log[i])

(* Channels are numbered one after the other: none takes another's place.  *)
ChatsMade ==
    /\ \E n \in Nat : DOMAIN chats = 0..n
    /\ \A id \in DOMAIN chats : Made(chats[id])

(* Chats stay what they are, but for new entries of their logs. *)
Grows(old, new) ==
    \A id \in DOMAIN old :
        /\ id \in DOMAIN new
        /\ new[id].details = old[id].details /\ new[id].draft = old[id].draft
        /\ \A i \in DOMAIN old[id].log :
            i \in DOMAIN new[id].log /\ new[id].log[i] = old[id].log[i]

(* What OpenChat has replied to a query is found in the chat it is about.  *)
ReadIn(map, call) ==
    call # Idle /\ call.request.op \in Queries /\ call.reply.tag = "Success" =>
        LET id == TargetOf(call.args)
            value == call.reply.value
        IN  /\ id \in DOMAIN map
            /\ call.request.op = "chatDetails" => value = map[id].details
            /\ call.request.op = "chatEvents" =>
                \A k \in DOMAIN value.events :
                    \E i \in DOMAIN map[id].log : value.events[k] = Wrapped(map[id].log, i)

ReadsSound == \A c \in Callers : ReadIn(chats, calls[c])

LEMMA SameGrows == \A map : Grows(map, map)
BY DEF Grows

LEMMA ReadGrows ==
    ASSUME NEW old, NEW new, Grows(old, new), NEW call, ReadIn(old, call)
    PROVE  ReadIn(new, call)
<1> SUFFICES ASSUME call # Idle, call.request.op \in Queries, call.reply.tag = "Success"
             PROVE  ReadIn(new, call)
  BY DEF ReadIn
<1> DEFINE id == TargetOf(call.args)
           value == call.reply.value
<1>1. /\ id \in DOMAIN old
      /\ call.request.op = "chatDetails" => value = old[id].details
      /\ call.request.op = "chatEvents" =>
            \A k \in DOMAIN value.events :
                \E i \in DOMAIN old[id].log : value.events[k] = Wrapped(old[id].log, i)
  BY DEF ReadIn
<1>2. /\ id \in DOMAIN new /\ new[id].details = old[id].details
      /\ \A i \in DOMAIN old[id].log :
            i \in DOMAIN new[id].log /\ new[id].log[i] = old[id].log[i]
  BY <1>1 DEF Grows
<1>3. \A i \in DOMAIN old[id].log : Wrapped(new[id].log, i) = Wrapped(old[id].log, i)
  BY <1>2 DEF Wrapped
<1> HIDE DEF id, value
<1>4. /\ call.request.op = "chatDetails" => value = new[id].details
      /\ call.request.op = "chatEvents" =>
            \A k \in DOMAIN value.events :
                \E i \in DOMAIN new[id].log : value.events[k] = Wrapped(new[id].log, i)
  BY <1>1, <1>2, <1>3
<1> QED
  BY <1>2, <1>4 DEF ReadIn, id, value

LEMMA EntryAdded ==
    ASSUME ChatsSound, ChatsMade, NEW id \in DOMAIN chats, NEW entry, EntryMade(entry),
           chats' = [chats EXCEPT ![id].log = Append(@, entry)]
    PROVE  ChatsMade' /\ Grows(chats, chats')
<1> DEFINE chat == chats[id]
           log == Append(chat.log, entry)
<1>1. chat \in Chat /\ chat.log \in Seq(LogEntry) /\ chats = [x \in DOMAIN chats |-> chats[x]]
  BY DEF ChatsSound, Chat
<1>2. /\ DOMAIN chats' = DOMAIN chats
      /\ \A x \in DOMAIN chats : x # id => chats'[x] = chats[x]
      /\ chats'[id] = [chat EXCEPT !.log = log]
  BY <1>1
<1> HIDE DEF chat
<1>3. /\ [chat EXCEPT !.log = log].details = chat.details
      /\ [chat EXCEPT !.log = log].draft = chat.draft
      /\ [chat EXCEPT !.log = log].log = log
  BY <1>1 DEF Chat
<1>4. /\ \A i \in DOMAIN chat.log : i \in DOMAIN log /\ log[i] = chat.log[i]
      /\ \A i \in DOMAIN log : i \in DOMAIN chat.log \/ log[i] = entry
  <2>1. DOMAIN chat.log = 1 .. Len(chat.log) /\ Len(chat.log) \in Nat
    BY <1>1
  <2>2. /\ DOMAIN log = 1 .. Len(chat.log) + 1
        /\ \A i \in DOMAIN log :
              log[i] = IF i = Len(chat.log) + 1 THEN entry ELSE chat.log[i]
    BY <1>1, <2>1
  <2> HIDE DEF log
  <2> QED
    BY <2>1, <2>2
<1> HIDE DEF log
<1>5. Made(chat)
  BY DEF ChatsMade, chat
<1>6. Made(chats'[id])
  <2>1. \A i \in DOMAIN log : EntryMade(log[i])
    BY <1>4, <1>5 DEF Made
  <2> QED
    <3>1. /\ chats'[id].details = chat.details /\ chats'[id].draft = chat.draft
          /\ chats'[id].log = log
      BY <1>2, <1>3
    <3> QED
      BY <1>5, <2>1, <3>1 DEF Made
<1>7. ChatsMade'
  BY <1>2, <1>6 DEF ChatsMade
<1>8. Grows(chats, chats')
  BY <1>2, <1>3, <1>4 DEF Grows, chat
<1> QED
  BY <1>7, <1>8

LEMMA ChatRemoved ==
    ASSUME ChatsSound, ChatsMade, NEW id \in DOMAIN chats,
           chats' = [chats EXCEPT ![id].removed = TRUE]
    PROVE  ChatsMade' /\ Grows(chats, chats')
<1> DEFINE chat == chats[id]
<1>1. chat \in Chat /\ chats = [x \in DOMAIN chats |-> chats[x]]
  BY DEF ChatsSound
<1>2. /\ DOMAIN chats' = DOMAIN chats
      /\ \A x \in DOMAIN chats : x # id => chats'[x] = chats[x]
      /\ chats'[id] = [chat EXCEPT !.removed = TRUE]
  BY <1>1
<1> HIDE DEF chat
<1>3. /\ [chat EXCEPT !.removed = TRUE].details = chat.details
      /\ [chat EXCEPT !.removed = TRUE].draft = chat.draft
      /\ [chat EXCEPT !.removed = TRUE].log = chat.log
  BY <1>1 DEF Chat
<1>4. Made(chats'[id])
  BY <1>2, <1>3 DEF ChatsMade, Made, chat
<1>5. ChatsMade'
  BY <1>2, <1>4 DEF ChatsMade
<1>6. Grows(chats, chats')
  BY <1>2, <1>3 DEF Grows, chat
<1> QED
  BY <1>5, <1>6

(* The entry that sending makes, and the channel that creating does        *)
LEMMA SendMade ==
    ASSUME CallsSound, ChatsSound, ChatsMade, NEW c \in Callers, ExecuteSend(c)
    PROVE  ChatsMade' /\ Grows(chats, chats')
<1> DEFINE args == calls[c].args
           message == calls[c].request.message
           chat == TargetOf(args)
           index == Len(chats[chat].log)
           entry == Entry(Sent(args, index), message)
<1>1. /\ Arrived(calls[c]) /\ calls[c].request.op = "sendMessage" /\ chat \in Present
      /\ chats' = [chats EXCEPT ![chat].log = Append(@, entry)]
  BY DEF ExecuteSend
<1>2. args = MessageInputArgs(message, Auth)
  BY <1>1, ArrivedArgs DEF ArgsOf
<1>3. chat \in DOMAIN chats /\ index \in Nat
  BY <1>1 DEF Present, ChatsSound, Chat
<1> HIDE DEF args, message, chat, index
<1>4. EntryMade(entry)
  BY <1>2, <1>3 DEF EntryMade, Entry
<1> HIDE DEF entry
<1> QED
  BY <1>1, <1>3, <1>4, EntryAdded

LEMMA CreateMade ==
    ASSUME CallsSound, ChatsSound, ChatsMade, NEW c \in Callers, ExecuteCreate(c)
    PROVE  ChatsMade' /\ Grows(chats, chats')
<1> DEFINE args == calls[c].args
           channel == calls[c].request.channel
           id == Cardinality(DOMAIN chats)
           log == <<Happened(Created(args))>>
           chat == [details |-> DetailsOf(args), log |-> log, draft |-> channel,
                    removed |-> FALSE]
<1>1. /\ Arrived(calls[c]) /\ calls[c].request.op = "createChannel"
      /\ chats' = Put(chats, id, chat)
  BY DEF ExecuteCreate
<1>2. args = ChannelInputArgs(channel, Auth) /\ args # Thrown
  BY <1>1, ArrivedArgs DEF ArgsOf
<1>3. PICK n \in Nat : DOMAIN chats = 0..n
  BY DEF ChatsMade
<1>4. id = n + 1
  BY <1>3, FS_Interval
<1>5. EntryMade(Happened(Created(args)))
  BY DEF EntryMade, Happened, Entry
<1> HIDE DEF args, channel, id
<1>6. Made(chat)
  <2>1. chat.draft = channel /\ chat.details = DetailsOf(args) /\ chat.log = log
    OBVIOUS
  <2>2. DOMAIN log = {1} /\ log[1] = Happened(Created(args))
    OBVIOUS
  <2> HIDE DEF chat, log
  <2> QED
    BY <1>2, <1>5, <2>1, <2>2 DEF Made
<1> HIDE DEF chat
<1>7. /\ DOMAIN chats' = DOMAIN chats \cup {id}
      /\ \A x \in DOMAIN chats : chats'[x] = chats[x]
      /\ chats'[id] = chat
  BY <1>1, <1>3, <1>4 DEF Put
<1>8. DOMAIN chats' = 0 .. n + 1
  BY <1>3, <1>4, <1>7
<1>9. ChatsMade'
  BY <1>3, <1>4, <1>6, <1>7, <1>8 DEF ChatsMade
<1>10. Grows(chats, chats')
  BY <1>7 DEF Grows
<1> QED
  BY <1>9, <1>10

LEMMA MadeInit == Init => ChatsMade
<1> SUFFICES ASSUME Init PROVE ChatsMade
  OBVIOUS
<1>1. PICK history \in Histories :
        chats = Put(EmptyMap, OwnChat,
                    [details |-> OwnDetails, draft |-> Missing, removed |-> FALSE,
                     log |-> [i \in DOMAIN history |-> Happened(history[i])]])
  BY DEF Init
<1> DEFINE log == [i \in DOMAIN history |-> Happened(history[i])]
           chat == [details |-> OwnDetails, draft |-> Missing, removed |-> FALSE, log |-> log]
<1>2. DOMAIN chats = {OwnChat} /\ chats[OwnChat] = chat
  BY <1>1 DEF Put, EmptyMap
<1>3. Made(chat)
  BY DEF Made, EntryMade, Happened, Entry
<1> HIDE DEF chat
<1>4. DOMAIN chats = 0..0
  BY <1>2 DEF OwnChat
<1> QED
  BY <1>2, <1>3, <1>4 DEF ChatsMade

LEMMA MadeNext ==
    CallsSound /\ ChatsSound /\ ChatsMade /\ [Next]_vars => ChatsMade' /\ Grows(chats, chats')
<1> SUFFICES ASSUME CallsSound, ChatsSound, ChatsMade, [Next]_vars
             PROVE  ChatsMade' /\ Grows(chats, chats')
  OBVIOUS
<1>1. ASSUME UNCHANGED chats
      PROVE  ChatsMade' /\ Grows(chats, chats')
  BY <1>1, SameGrows DEF ChatsMade
<1>2. ASSUME NEW c \in Callers, NEW request \in Requests, Start(c, request)
      PROVE  UNCHANGED chats
  BY <1>2 DEF Start
<1>3. ASSUME NEW c \in Callers, ExecuteSend(c) \/ ExecuteCreate(c)
      PROVE  ChatsMade' /\ Grows(chats, chats')
  BY <1>3, SendMade, CreateMade
<1>4. ASSUME NEW c \in Callers, ExecuteDelete(c)
      PROVE  ChatsMade' /\ Grows(chats, chats')
  <2>1. CASE calls[c].args.channel_id \in Present
    <3> DEFINE id == calls[c].args.channel_id
    <3>1. id \in DOMAIN chats /\ chats' = [chats EXCEPT ![id].removed = TRUE]
      BY <1>4, <2>1 DEF ExecuteDelete, Present
    <3> HIDE DEF id
    <3> QED
      BY <3>1, ChatRemoved
  <2>2. CASE calls[c].args.channel_id \notin Present
    BY <1>1, <1>4, <2>2 DEF ExecuteDelete
  <2> QED
    BY <2>1, <2>2
<1>5. ASSUME NEW c \in Callers, Read(c) \/ Refuse(c) \/ Attempt(c) \/ Retry(c) \/ Forget(c)
      PROVE  UNCHANGED chats
  BY <1>5 DEF Read, Refuse, Attempt, Deliver, Fail, Retry, Forget
<1>6. ASSUME NEW chat \in Present, NEW event \in Events, Happens(chat, event)
      PROVE  ChatsMade' /\ Grows(chats, chats')
  <2>1. EntryMade(Happened(event)) /\ chat \in DOMAIN chats
    BY DEF EntryMade, Happened, Entry, Present
  <2>2. chats' = [chats EXCEPT ![chat].log = Append(@, Happened(event))]
    BY <1>6 DEF Happens
  <2> QED
    BY <2>1, <2>2, EntryAdded
<1>7. ASSUME NEW chat \in Present, RemoveChannel(chat)
      PROVE  ChatsMade' /\ Grows(chats, chats')
  BY <1>7, ChatRemoved DEF RemoveChannel, Present
<1>8. CASE UNCHANGED vars
  BY <1>1, <1>8 DEF vars
<1> QED
  BY <1>1, <1>2, <1>3, <1>4, <1>5, <1>6, <1>7, <1>8 DEF Next

LEMMA MadeCorrect == Spec => []ChatsMade
BY CallsCorrect, ChatsCorrect, MadeInit, MadeNext, PTL DEF Spec

-----------------------------------------------------------------------------
(* What is read of a log                                                   *)

(* The places of a page are put in order, and none but these. *)
LEMMA OrderedPlaces ==
    ASSUME NEW n \in Nat, NEW places \in SUBSET (1..n)
    PROVE  /\ DOMAIN InOrder(places) = 1 .. Cardinality(places)
           /\ \A k \in DOMAIN InOrder(places) : InOrder(places)[k] \in places
<1> DEFINE below(i) == {j \in places : j <= i}
           size == Cardinality(places)
           rank == [i \in places |-> Cardinality(below(i))]
<1>1. IsFiniteSet(places) /\ size \in Nat /\ \A i \in places : i \in Int
  <2>1. IsFiniteSet(1..n)
    BY FS_Interval
  <2>2. IsFiniteSet(places) /\ size \in Nat
    BY <2>1, FS_Subset, FS_CardinalityType
  <2>3. \A i \in places : i \in Int
    OBVIOUS
  <2> QED
    BY <2>2, <2>3
<1>2. \A i \in places : /\ IsFiniteSet(below(i)) /\ i \in below(i)
                        /\ Cardinality(below(i)) \in 1..size
  <2> SUFFICES ASSUME NEW i \in places
               PROVE  /\ IsFiniteSet(below(i)) /\ i \in below(i)
                      /\ Cardinality(below(i)) \in 1..size
    OBVIOUS
  <2>1. below(i) \subseteq places /\ i \in below(i)
    OBVIOUS
  <2> HIDE DEF below
  <2>2. IsFiniteSet(below(i)) /\ Cardinality(below(i)) <= size
    BY <1>1, <2>1, FS_Subset
  <2>3. Cardinality(below(i)) \in Nat /\ Cardinality(below(i)) # 0
    BY <2>1, <2>2, FS_CardinalityType, FS_EmptySet
  <2> QED
    BY <1>1, <2>1, <2>2, <2>3
<1>3. \A i, j \in places : Cardinality(below(i)) = Cardinality(below(j)) => ~(i < j)
  <2> SUFFICES ASSUME NEW i \in places, NEW j \in places, i < j,
                      Cardinality(below(i)) = Cardinality(below(j))
               PROVE  FALSE
    OBVIOUS
  <2>1. \A x \in below(i) : x \in below(j)
    BY <1>1
  <2>2. j \notin below(i) /\ j \in below(j)
    BY <1>1
  <2>3. IsFiniteSet(below(j)) /\ Cardinality(below(i)) = Cardinality(below(j))
    BY <1>2
  <2> HIDE DEF below
  <2>4. below(i) \in SUBSET below(j)
    BY <2>1
  <2>5. below(i) = below(j)
    BY <2>3, <2>4, FS_Subset
  <2> QED
    BY <2>2, <2>5
<1>4. rank \in [places -> 1..size]
  BY <1>2
<1>5. rank \in Injection(places, 1..size)
  <2>1. ASSUME NEW i \in places, NEW j \in places, rank[i] = rank[j]
        PROVE  i = j
    <3>1. ~(i < j) /\ ~(j < i)
      BY <1>3, <2>1
    <3> QED
      BY <3>1
  <2> HIDE DEF rank
  <2> QED
    BY <1>4, <2>1, SMT DEF Injection, IsInjective
<1>6. rank \in Surjection(places, 1..size)
  <2>1. IsFiniteSet(1..size) /\ Cardinality(1..size) = size
    BY <1>1, FS_Interval
  <2> HIDE DEF rank
  <2> QED
    BY <1>1, <1>5, <2>1, FS_Injection
<1>7. \A k \in 1..size : \E i \in places : Cardinality(below(i)) = k
  <2>1. \A k \in 1..size : \E i \in places : rank[i] = k
    <3> HIDE DEF rank
    <3> QED
      BY <1>6 DEF Surjection
  <2> QED
    BY <2>1
<1>8. InOrder(places) = [k \in 1..size |-> CHOOSE i \in places : Cardinality(below(i)) = k]
  BY DEF InOrder
<1> HIDE DEF below, size
<1> QED
  BY <1>7, <1>8 DEF size

(* A page holds entries of the log only. *)
LEMMA PageOfLog ==
    ASSUME NEW log \in Seq(LogEntry), NEW criteria,
           NEW k \in DOMAIN EventsOf(log, criteria).events
    PROVE  \E i \in DOMAIN log : EventsOf(log, criteria).events[k] = Wrapped(log, i)
<1> DEFINE places == Places(log, criteria)
           selected == Selected(log, criteria)
           events == [x \in DOMAIN selected |-> Wrapped(log, selected[x])]
<1>1. EventsOf(log, criteria).events = events
  BY DEF EventsOf
<1>2. DOMAIN log = 1 .. Len(log) /\ Len(log) \in Nat
  OBVIOUS
<1>3. places \in SUBSET DOMAIN log
  BY DEF Places
<1>4. selected = InOrder(places)
  BY DEF Selected
<1> HIDE DEF places, selected
<1>5. k \in DOMAIN selected /\ events[k] = Wrapped(log, selected[k])
  BY <1>1
<1>6. selected[k] \in places
  BY <1>2, <1>3, <1>4, <1>5, OrderedPlaces
<1> QED
  BY <1>1, <1>3, <1>5, <1>6

LEMMA ReadChanges ==
    ASSUME ReadsSound, Grows(chats, chats'), NEW c \in Callers, NEW call,
           DOMAIN calls = Callers, calls' = [calls EXCEPT ![c] = call], ReadIn(chats, call)
    PROVE  ReadsSound'
<1> SUFFICES ASSUME NEW d \in Callers
             PROVE  ReadIn(chats', calls'[d])
  BY DEF ReadsSound
<1>1. CASE d = c
  BY <1>1, ReadGrows
<1>2. CASE d # c
  BY <1>2, ReadGrows DEF ReadsSound
<1> QED
  BY <1>1, <1>2

(* What fails keeps what it asks for, and no other reply. *)
LEMMA FailedKeeps ==
    ASSUME NEW call, CallShape(call), NEW error
    PROVE  LET next == Failed(call, error)
           IN  /\ next.request = call.request /\ next.args = call.args
               /\ next.reply \in {call.reply, Pending}
<1> DEFINE next == Failed(call, error)
<1>1. CASE Retried(call, error)
  <2>1. next = [call EXCEPT !.at = "waiting", !.reply = Pending]
    BY <1>1 DEF Failed
  <2> HIDE DEF next
  <2>2. /\ next.request = call.request /\ next.args = call.args
        /\ next.reply = Pending
    BY <2>1 DEF CallShape
  <2> QED
    BY <2>2 DEF next
<1>2. CASE ~Retried(call, error)
  <2>1. next = Rejected(call, error)
    BY <1>2 DEF Failed
  <2> HIDE DEF next
  <2>2. PICK outcome : next = [call EXCEPT !.at = "settled", !.outcome = outcome]
    BY <2>1 DEF Rejected, Answered, Settled
  <2>3. /\ next.request = call.request /\ next.args = call.args
        /\ next.reply = call.reply
    BY <2>2 DEF CallShape
  <2> QED
    BY <2>3 DEF next
<1> QED
  BY <1>1, <1>2

LEMMA ReadPending ==
    ASSUME NEW map, NEW call, call.reply = Pending
    PROVE  ReadIn(map, call)
BY DEF ReadIn, Pending

LEMMA ReadKeeps ==
    ASSUME NEW map, NEW call, call # Idle, ReadIn(map, call), NEW next,
           next.request = call.request, next.args = call.args,
           next.reply \in {call.reply, Pending}
    PROVE  ReadIn(map, next)
BY DEF ReadIn, Pending

LEMMA StartReads ==
    ASSUME CallsSound, ReadsSound, Grows(chats, chats'),
           NEW c \in Callers, NEW request \in Requests, Start(c, request)
    PROVE  ReadsSound'
<1> DEFINE first(args) == [Call(request, args) EXCEPT !.tries = 0]
<1>1. ASSUME NEW args, NEW outcome
      PROVE  Settled(first(args), outcome).reply = Pending
  <2>1. first(args) = [at |-> "sent", request |-> request, args |-> args, tries |-> 0,
                       runs |-> 0, reply |-> Pending, outcome |-> Pending]
    BY DEF Call
  <2> HIDE DEF first
  <2> QED
    BY <2>1 DEF Settled
<1>2. \A args : Call(request, args).reply = Pending
  BY DEF Call
<1>3. ASSUME NEW args, NEW error
      PROVE  Rejected(first(args), error).reply = Pending
  <2> HIDE DEF first
  <2> QED
    BY <1>1 DEF Rejected, Answered
<1>4. ASSUME NEW kind
      PROVE  Refused(request, kind).reply = Pending
  <2> DEFINE outcome == [tag |-> "answered", answer |-> [kind |-> kind]]
  <2>1. Refused(request, kind) = Settled(first(Missing), outcome)
    BY DEF Refused, Answered
  <2> HIDE DEF first, outcome
  <2> QED
    BY <1>1, <2>1
<1>5. PICK call : calls' = [calls EXCEPT ![c] = call] /\ call.reply = Pending
  <2> DEFINE args == ArgsOf(request)
             call == IF ~Permitted(request) THEN Refused(request, "not_authorized")
                     ELSE IF request.op = "sendMessage" /\ request.message.ephemeral
                         THEN Refused(request, "invalid_request")
                     ELSE IF args = Thrown
                         THEN Settled(first(Missing), [tag |-> "thrown"])
                     ELSE IF ~Parses(request, args) THEN Rejected(first(args), "Http")
                     ELSE Call(request, args)
  <2>1. calls' = [calls EXCEPT ![c] = call]
    BY DEF Start
  <2> HIDE DEF args, first
  <2>2. call.reply = Pending
    BY <1>1, <1>2, <1>3, <1>4
  <2> HIDE DEF call
  <2> QED
    BY <2>1, <2>2
<1> QED
  BY <1>5, ReadPending, ReadChanges DEF CallsSound

LEMMA RepliedReads ==
    ASSUME CallsSound, ReadsSound, Grows(chats, chats'), NEW c \in Callers, Arrived(calls[c]),
           NEW reply, Replied(c, reply) \/ Done(c, reply),
           ReadIn(chats, [calls[c] EXCEPT !.reply = reply])
    PROVE  ReadsSound'
<1> DEFINE call == calls[c]
           replied == [call EXCEPT !.reply = reply]
<1>1. CallShape(call)
  BY DEF Arrived, CallsSound, CallSound
<1>2. PICK runs : \/ calls' = [calls EXCEPT ![c] = replied]
                  \/ calls' = [calls EXCEPT ![c] = [replied EXCEPT !.runs = runs]]
  BY DEF Replied, Done, CallsSound
<1>3. ReadIn(chats, replied)
  OBVIOUS
<1> HIDE DEF call
<1>4. replied # Idle /\ replied = [at |-> call.at, request |-> call.request,
                                   args |-> call.args, tries |-> call.tries,
                                   runs |-> call.runs, reply |-> reply,
                                   outcome |-> call.outcome]
  BY <1>1 DEF CallShape, Idle
<1> HIDE DEF replied
<1>5. ReadIn(chats, [replied EXCEPT !.runs = runs])
  <2>1. /\ [replied EXCEPT !.runs = runs].request = replied.request
        /\ [replied EXCEPT !.runs = runs].args = replied.args
        /\ [replied EXCEPT !.runs = runs].reply = replied.reply
    BY <1>4
  <2> QED
    BY <1>3, <1>4, <2>1, ReadKeeps
<1> QED
  BY <1>2, <1>3, <1>5, ReadChanges DEF CallsSound

LEMMA QueryReads ==
    ASSUME CallsSound, ChatsSound, ReadsSound, Grows(chats, chats'), NEW c \in Callers, Read(c)
    PROVE  ReadsSound'
<1> DEFINE call == calls[c]
           id == TargetOf(call.args)
           value == IF call.request.op = "chatDetails" THEN chats[id].details
                    ELSE EventsOf(chats[id].log, call.args.events)
           success == [tag |-> "Success", value |-> value]
<1>1. /\ Arrived(call) /\ call.request.op \in Queries
      /\ IF id \in Present THEN Replied(c, success) ELSE Replied(c, [tag |-> "NotFound"])
  BY DEF Read
<1>2. CallShape(call)
  BY <1>1 DEF Arrived, CallsSound, CallSound
<1>3. \A reply : /\ [call EXCEPT !.reply = reply].request = call.request
                 /\ [call EXCEPT !.reply = reply].args = call.args
                 /\ [call EXCEPT !.reply = reply].reply = reply
  <2> HIDE DEF call
  <2> QED
    BY <1>2 DEF CallShape
<1>4. CASE id \in Present
  <2>1. id \in DOMAIN chats /\ chats[id].log \in Seq(LogEntry)
    BY <1>4 DEF Present, ChatsSound, Chat
  <2>2. call.request.op = "chatDetails" => value = chats[id].details
    OBVIOUS
  <2>3. call.request.op = "chatEvents" =>
            \A k \in DOMAIN value.events :
                \E i \in DOMAIN chats[id].log : value.events[k] = Wrapped(chats[id].log, i)
    <3>1. call.request.op = "chatEvents" => value = EventsOf(chats[id].log, call.args.events)
      OBVIOUS
    <3> HIDE DEF value, id, call
    <3> QED
      BY <2>1, <3>1, PageOfLog
  <2>4. success.value = value
    OBVIOUS
  <2> HIDE DEF value, success
  <2>5. ReadIn(chats, [call EXCEPT !.reply = success])
    <3> DEFINE next == [call EXCEPT !.reply = success]
    <3>1. next.request = call.request /\ next.args = call.args /\ next.reply = success
      BY <1>3
    <3> HIDE DEF next, call
    <3>2. ReadIn(chats, next)
      BY <2>1, <2>2, <2>3, <2>4, <3>1 DEF ReadIn
    <3> QED
      BY <3>2 DEF next
  <2> QED
    BY <1>1, <1>4, <2>5, RepliedReads
<1>5. CASE id \notin Present
  <2> DEFINE reply == [tag |-> "NotFound"]
  <2>1. [call EXCEPT !.reply = reply].reply.tag = "NotFound"
    BY <1>3
  <2>2. ReadIn(chats, [call EXCEPT !.reply = reply])
    BY <2>1 DEF ReadIn
  <2> QED
    BY <1>1, <1>5, <2>2, RepliedReads
<1> QED
  BY <1>4, <1>5

(* Updates are not queries, and refusals no success. *)
LEMMA OtherReads ==
    ASSUME CallsSound, ReadsSound, Grows(chats, chats'), NEW c \in Callers,
           ExecuteSend(c) \/ ExecuteCreate(c) \/ ExecuteDelete(c) \/ Refuse(c)
    PROVE  ReadsSound'
<1> DEFINE call == calls[c]
<1>1. /\ Arrived(call)
      /\ \E reply : /\ Replied(c, reply) \/ Done(c, reply)
                    /\ call.request.op \in Updates \/ reply.tag # "Success"
  <2>1. CASE ExecuteSend(c) \/ ExecuteCreate(c) \/ ExecuteDelete(c)
    <3>1. CASE ExecuteSend(c)
      <4>1. Arrived(call) /\ call.request.op \in Updates
        BY <3>1, Zenon DEF ExecuteSend, Updates
      <4>2. PICK reply : Replied(c, reply) \/ Done(c, reply)
        BY <3>1, Zenon DEF ExecuteSend
      <4> HIDE DEF call
      <4> QED
        BY <4>1, <4>2
    <3>2. CASE ExecuteCreate(c)
      <4>1. Arrived(call) /\ call.request.op \in Updates
        BY <3>2, Zenon DEF ExecuteCreate, Updates
      <4>2. PICK reply : Replied(c, reply) \/ Done(c, reply)
        BY <3>2, Zenon DEF ExecuteCreate
      <4> HIDE DEF call
      <4> QED
        BY <4>1, <4>2
    <3>3. CASE ExecuteDelete(c)
      <4>1. Arrived(call) /\ call.request.op \in Updates
        BY <3>3, Zenon DEF ExecuteDelete, Updates
      <4>2. PICK reply : Replied(c, reply) \/ Done(c, reply)
        BY <3>3, Zenon DEF ExecuteDelete
      <4> HIDE DEF call
      <4> QED
        BY <4>1, <4>2
    <3> QED
      BY <2>1, <3>1, <3>2, <3>3
  <2>2. CASE Refuse(c)
    <3>1. PICK tag \in Refusals(call.request.op) : Replied(c, [tag |-> tag])
      BY <2>2 DEF Refuse
    <3>2. Arrived(call)
      BY <2>2 DEF Refuse
    <3>3. call.request.op \in Queries \cup Updates
      BY <3>2, RequestOps DEF Arrived, CallsSound, CallSound, CallShape
    <3>4. tag # "Success"
      BY <3>3 DEF Refusals, Queries, Updates
    <3> QED
      BY <3>1, <3>2, <3>4
  <2> QED
    BY <2>1, <2>2
<1>2. PICK reply : /\ Replied(c, reply) \/ Done(c, reply)
                   /\ call.request.op \in Updates \/ reply.tag # "Success"
  BY <1>1
<1>3. CallShape(call)
  BY <1>1 DEF Arrived, CallsSound, CallSound
<1>4. ReadIn(chats, [call EXCEPT !.reply = reply])
  <2> DEFINE next == [call EXCEPT !.reply = reply]
  <2> HIDE DEF call
  <2>1. next.request = call.request /\ next.reply = reply
    BY <1>3 DEF CallShape
  <2> HIDE DEF next
  <2>2. ReadIn(chats, next)
    BY <1>2, <2>1 DEF ReadIn, Queries, Updates
  <2> QED
    BY <2>2 DEF next
<1> QED
  BY <1>1, <1>2, <1>4, RepliedReads

LEMMA AttemptReads ==
    ASSUME CallsSound, ReadsSound, Grows(chats, chats'), NEW c \in Callers, Attempt(c)
    PROVE  ReadsSound'
<1> DEFINE call == calls[c]
<1>1. CallShape(call) /\ call # Idle /\ ReadIn(chats, call)
  <2>1. call.at = "sent"
    BY DEF Attempt, Deliver, Fail
  <2> QED
    BY <2>1 DEF CallsSound, CallSound, ReadsSound, Idle
<1>2. \E next : /\ calls' = [calls EXCEPT ![c] = next]
                /\ next.request = call.request /\ next.args = call.args
                /\ next.reply \in {call.reply, Pending}
  <2>1. CASE Deliver(c)
    <3> DEFINE answer == AnswerOf(call.request.op, call.reply)
               next == IF answer = Thrown THEN Failed(call, "Http") ELSE Answered(call, answer)
    <3>1. calls' = [calls EXCEPT ![c] = next]
      BY <2>1 DEF Deliver
    <3> HIDE DEF call, answer
    <3>2. CASE answer = Thrown
      BY <1>1, <3>1, <3>2, FailedKeeps
    <3>3. CASE answer # Thrown
      <4>1. PICK outcome : next = [call EXCEPT !.at = "settled", !.outcome = outcome]
        BY <3>3 DEF Answered, Settled
      <4> HIDE DEF next
      <4>2. /\ next.request = call.request /\ next.args = call.args
            /\ next.reply = call.reply
        BY <1>1, <4>1 DEF CallShape
      <4> QED
        BY <3>1, <4>2
    <3> QED
      BY <3>2, <3>3
  <2>2. CASE Fail(c)
    <3> DEFINE lost == IF call.request.op \in Queries THEN [call EXCEPT !.reply = Pending]
                       ELSE call
    <3>1. PICK error : calls' = [calls EXCEPT ![c] = Failed(lost, error)]
      BY <2>2 DEF Fail
    <3> HIDE DEF call
    <3>2. /\ CallShape(lost) /\ lost.request = call.request /\ lost.args = call.args
          /\ lost.reply \in {call.reply, Pending}
      <4>1. CASE call.request.op \in Queries
        <5>1. lost = [call EXCEPT !.reply = Pending]
          BY <4>1
        <5> HIDE DEF lost
        <5>2. lost = [at |-> call.at, request |-> call.request, args |-> call.args,
                      tries |-> call.tries, runs |-> call.runs, reply |-> Pending,
                      outcome |-> call.outcome]
          BY <1>1, <5>1 DEF CallShape
        <5> QED
          BY <1>1, <5>2 DEF CallShape
      <4>2. CASE call.request.op \notin Queries
        BY <1>1, <4>2
      <4> QED
        BY <4>1, <4>2
    <3> HIDE DEF lost
    <3>3. /\ Failed(lost, error).request = call.request
          /\ Failed(lost, error).args = call.args
          /\ Failed(lost, error).reply \in {call.reply, Pending}
      BY <3>2, FailedKeeps
    <3> QED
      BY <3>1, <3>3
  <2> QED
    BY <2>1, <2>2 DEF Attempt
<1>3. PICK next : /\ calls' = [calls EXCEPT ![c] = next]
                  /\ next.request = call.request /\ next.args = call.args
                  /\ next.reply \in {call.reply, Pending}
  BY <1>2
<1>4. ReadIn(chats, next)
  BY <1>1, <1>3, ReadKeeps
<1> QED
  BY <1>3, <1>4, ReadChanges DEF CallsSound

LEMMA ReadsInit == Init => ReadsSound
BY DEF Init, ReadsSound, ReadIn

LEMMA ReadsNext ==
    CallsSound /\ ChatsSound /\ ChatsMade /\ ReadsSound /\ [Next]_vars => ReadsSound'
<1> SUFFICES ASSUME CallsSound, ChatsSound, ChatsMade, ReadsSound, [Next]_vars
             PROVE  ReadsSound'
  OBVIOUS
<1>1. Grows(chats, chats')
  BY MadeNext
<1>2. ASSUME NEW c \in Callers, NEW request \in Requests, Start(c, request)
      PROVE  ReadsSound'
  BY <1>1, <1>2, StartReads
<1>3. ASSUME NEW c \in Callers,
             \/ ExecuteSend(c) \/ ExecuteCreate(c) \/ ExecuteDelete(c) \/ Read(c) \/ Refuse(c)
      PROVE  ReadsSound'
  BY <1>1, <1>3, QueryReads, OtherReads
<1>4. ASSUME NEW c \in Callers, Attempt(c)
      PROVE  ReadsSound'
  BY <1>1, <1>4, AttemptReads
<1>5. ASSUME NEW c \in Callers, Retry(c)
      PROVE  ReadsSound'
  <2> DEFINE call == calls[c]
             next == [call EXCEPT !.at = "sent", !.tries = @ + 1]
  <2>1. calls' = [calls EXCEPT ![c] = next] /\ call.at = "waiting"
    BY <1>5 DEF Retry, CallsSound
  <2>2. CallShape(call) /\ call # Idle
    BY <2>1 DEF CallsSound, CallSound, Idle
  <2> HIDE DEF call
  <2>3. next.reply = Pending
    BY <2>1, <2>2 DEF CallShape
  <2> HIDE DEF next
  <2> QED
    BY <1>1, <2>1, <2>3, ReadPending, ReadChanges DEF CallsSound
<1>6. ASSUME NEW c \in Callers, Forget(c)
      PROVE  ReadsSound'
  <2>1. calls' = [calls EXCEPT ![c] = Idle] /\ ReadIn(chats, Idle)
    BY <1>6 DEF Forget, ReadIn
  <2> QED
    BY <1>1, <2>1, ReadChanges DEF CallsSound
<1>7. ASSUME UNCHANGED calls
      PROVE  ReadsSound'
  BY <1>1, <1>7, ReadGrows DEF ReadsSound
<1>8. ASSUME NEW chat, (\E event \in Events : Happens(chat, event)) \/ RemoveChannel(chat)
      PROVE  UNCHANGED calls
  BY <1>8 DEF Happens, RemoveChannel
<1>9. CASE UNCHANGED vars
  BY <1>7, <1>9 DEF vars
<1> QED
  BY <1>2, <1>3, <1>4, <1>5, <1>6, <1>7, <1>8, <1>9 DEF Next

LEMMA ReadsCorrect == Spec => []ReadsSound
BY CallsCorrect, ChatsCorrect, MadeCorrect, ReadsInit, ReadsNext, PTL DEF Spec

(* The details of a channel made with this client read as they were filled *)
(* in, whatever was done to the channel meanwhile.                         *)
THEOREM ChannelsReadBack == Spec => []ChannelReadsBack
<1>1. CallsSound /\ ChatsSound /\ ChatsMade /\ ReadsSound => ChannelReadsBack
  <2> SUFFICES ASSUME CallsSound, ChatsSound, ChatsMade, ReadsSound, NEW c \in Callers,
                      AnsweredTo(c, "chatDetails"), AnswerFor(c).kind = "success",
                      chats[TargetOf(calls[c].args)].draft # Missing
               PROVE  ReadsBack(AnswerFor(c), chats[TargetOf(calls[c].args)].draft)
    BY DEF ChannelReadsBack, ReadsBack
  <2> DEFINE call == calls[c]
             id == TargetOf(call.args)
             channel == chats[id].draft
  <2>1. /\ call.at = "settled" /\ call.outcome.tag = "answered"
        /\ call.request.op = "chatDetails" /\ AnswerFor(c) = call.outcome.answer
    BY DEF AnsweredTo, SettledAs, AnswerFor
  <2>2. ReplySound(call) /\ call # Idle
    BY <2>1 DEF CallsSound, CallSound, Idle
  <2>3. /\ call.reply # Pending /\ AnswerFor(c) # Thrown
        /\ AnswerFor(c) = ChatDetailsResponse(call.reply)
    BY <2>1, <2>2 DEF ReplySound, AnswerSound, AnswerOf
  <2>4. call.reply.tag = "Success" /\ AnswerFor(c) = ChatDetails(call.reply.value)
    BY <2>3 DEF ChatDetailsResponse, Kind
  <2>5. id \in DOMAIN chats /\ call.reply.value = chats[id].details
    BY <2>1, <2>2, <2>4 DEF ReadsSound, ReadIn, Queries
  <2>6. channel \in ChannelDraft
    BY <2>5 DEF ChatsSound, Chat
  <2>7. /\ ChannelInputArgs(channel, Auth) # Thrown
        /\ chats[id].details = DetailsOf(ChannelInputArgs(channel, Auth))
    BY <2>5 DEF ChatsMade, Made
  <2> HIDE DEF call, channel
  <2>8. ReadsBack(ChatDetails(DetailsOf(ChannelInputArgs(channel, Auth))), channel)
    BY <2>6, <2>7, DetailsReadBack
  <2> QED
    BY <2>4, <2>5, <2>7, <2>8 DEF channel, call
<1> QED
  BY <1>1, CallsCorrect, ChatsCorrect, MadeCorrect, ReadsCorrect, PTL

-----------------------------------------------------------------------------
(* What is read of messages that were sent                                 *)

(* Whatever is read of a page is made of an entry of the log, and none of  *)
(* it has thrown.                                                          *)
LEMMA PageRead ==
    ASSUME CallsSound, ReadsSound, NEW c \in Callers, AnsweredTo(c, "chatEvents"),
           AnswerFor(c).kind = "success", NEW k \in DOMAIN AnswerFor(c).events
    PROVE  LET id == TargetOf(calls[c].args)
               read == AnswerFor(c).events[k]
           IN  /\ id \in DOMAIN chats
               /\ \E i \in DOMAIN chats[id].log :
                    /\ read.index = i - 1 /\ read.event = Event(chats[id].log[i].event)
                    /\ read.event # Thrown
<1> DEFINE call == calls[c]
           id == TargetOf(call.args)
           answer == AnswerFor(c)
           page == call.reply.value
           mapped == [i \in DOMAIN page.events |-> EventWrapper(page.events[i])]
           parts == [kind |-> "success", events |-> Mapped(page.events, EventWrapper),
                     unauthorized |-> page.unauthorized,
                     expiredEventRanges |-> page.expired_event_ranges,
                     expiredMessageRanges |-> page.expired_message_ranges,
                     latestEventIndex |-> page.latest_event_index,
                     chatLastUpdated |-> page.chat_last_updated]
<1>1. /\ call.at = "settled" /\ call.outcome.tag = "answered"
      /\ call.request.op = "chatEvents" /\ answer = call.outcome.answer
  BY DEF AnsweredTo, SettledAs, AnswerFor
<1>2. ReplySound(call) /\ call # Idle
  BY <1>1 DEF CallsSound, CallSound, Idle
<1>3. /\ call.reply # Pending /\ answer # Thrown /\ answer.kind = "success"
      /\ answer = ChatEventsResponse(call.reply)
  BY <1>1, <1>2 DEF ReplySound, AnswerSound, AnswerOf
<1> HIDE DEF answer
<1>4. call.reply.tag = "Success" /\ answer = ChatEventsSuccessResponse(page)
  BY <1>3 DEF ChatEventsResponse, Kind
<1>5. /\ id \in DOMAIN chats
      /\ \A x \in DOMAIN page.events :
            \E i \in DOMAIN chats[id].log : page.events[x] = Wrapped(chats[id].log, i)
  BY <1>1, <1>2, <1>4 DEF ReadsSound, ReadIn, Queries
<1>6. answer = Built(parts)
  BY <1>4 DEF ChatEventsSuccessResponse
<1>7. parts.events = Built(mapped) /\ "events" \in DOMAIN parts
  BY DEF Mapped
<1> HIDE DEF call, page, id, parts
<1>8. answer.events = Built(mapped) /\ Built(mapped) # Thrown
  BY <1>3, <1>6, <1>7, BuiltOf
<1>9. answer.events = mapped /\ \A x \in DOMAIN mapped : mapped[x] # Thrown
  <2> HIDE DEF mapped
  <2> QED
    BY <1>8, BuiltOf
<1>10. k \in DOMAIN page.events /\ answer.events[k] = EventWrapper(page.events[k])
       /\ EventWrapper(page.events[k]) # Thrown
  BY <1>9 DEF answer
<1>11. PICK i \in DOMAIN chats[id].log : page.events[k] = Wrapped(chats[id].log, i)
  BY <1>5, <1>10
<1> DEFINE event == Event(chats[id].log[i].event)
           wrapper == [event |-> event, index |-> i - 1, timestamp |-> i, expiresAt |-> Missing]
<1>12. EventWrapper(page.events[k]) = Built(wrapper)
  BY <1>11 DEF EventWrapper, Wrapped
<1> HIDE DEF event
<1>13. wrapper.event = event /\ wrapper.index = i - 1 /\ "event" \in DOMAIN wrapper
  OBVIOUS
<1> HIDE DEF wrapper
<1>14. answer.events[k] = wrapper /\ event # Thrown
  BY <1>10, <1>12, <1>13, BuiltOf
<1> QED
  BY <1>5, <1>13, <1>14 DEF id, call, answer, event

(* A message that was sent with this client is read as it was filled in.   *)
THEOREM MessagesReadBack == Spec => []SentReadsBack
<1>1. CallsSound /\ ChatsSound /\ ChatsMade /\ ReadsSound => SentReadsBack
  <2> SUFFICES ASSUME CallsSound, ChatsSound, ChatsMade, ReadsSound, NEW c \in Callers,
                      AnsweredTo(c, "chatEvents"), AnswerFor(c).kind = "success",
                      NEW k \in DOMAIN AnswerFor(c).events
               PROVE  LET read == AnswerFor(c).events[k]
                          draft == chats[TargetOf(calls[c].args)].log[read.index + 1].draft
                      IN  draft # Missing =>
                          /\ ReadsAs(read.event.content, draft.content)
                          /\ read.event.blockLevelMarkdown = draft.blockLevelMarkdown
                          /\ read.event.botContext.finalised = draft.finalised
                          /\ draft.messageId \in 0 .. Width64 - 1 =>
                                read.event.messageId = draft.messageId
    BY DEF SentReadsBack
  <2> DEFINE read == AnswerFor(c).events[k]
             id == TargetOf(calls[c].args)
             draft == chats[id].log[read.index + 1].draft
  <2>1. id \in DOMAIN chats
    BY PageRead
  <2>2. PICK i \in DOMAIN chats[id].log :
            /\ read.index = i - 1 /\ read.event = Event(chats[id].log[i].event)
            /\ read.event # Thrown
    BY PageRead
  <2> DEFINE log == chats[id].log
             entry == log[i]
  <2> HIDE DEF id, read
  <2>3. i \in Nat /\ entry \in LogEntry
    <3>1. log \in Seq(LogEntry) /\ i \in DOMAIN log
      BY <2>1 DEF ChatsSound, Chat
    <3> HIDE DEF log
    <3> QED
      BY <3>1
  <2>4. draft = entry.draft
    <3>1. read.index + 1 = i
      BY <2>2, <2>3
    <3> QED
      BY <3>1
  <2> SUFFICES ASSUME draft # Missing
               PROVE  /\ ReadsAs(read.event.content, draft.content)
                      /\ read.event.blockLevelMarkdown = draft.blockLevelMarkdown
                      /\ read.event.botContext.finalised = draft.finalised
                      /\ draft.messageId \in 0 .. Width64 - 1 =>
                            read.event.messageId = draft.messageId
    BY DEF read, id
  <2>5. draft \in MessageDraft
    BY <2>3, <2>4 DEF LogEntry
  <2>6. EntryMade(entry)
    BY <2>1 DEF ChatsMade, Made
  <2>7. read.event = Event(entry.event) /\ read.event # Thrown
    BY <2>2
  <2> HIDE DEF draft, entry
  <2>8. PICK index \in Nat : entry.event = Sent(MessageInputArgs(draft, Auth), index)
    BY <2>4, <2>6 DEF EntryMade
  <2>9. /\ read.event = Event(Sent(MessageInputArgs(draft, Auth), index))
        /\ Event(Sent(MessageInputArgs(draft, Auth), index)) # Thrown
    BY <2>7, <2>8, Zenon
  <2> QED
    BY <2>5, <2>9, EventReadsBack
<1> QED
  BY <1>1, CallsCorrect, ChatsCorrect, MadeCorrect, ReadsCorrect, PTL

-----------------------------------------------------------------------------
(* The inductive invariant of replies and answers                          *)

(* What a call is settled with once the reply to it is mapped              *)
Delivered(call) ==
    LET answer == AnswerOf(call.request.op, call.reply)
    IN  IF answer = Thrown THEN call.outcome.tag = "rejected"
        ELSE call.outcome = [tag |-> "answered", answer |-> answer]

(* OpenChat replies what the schema of the request says, a caller is       *)
(* answered what the SDK declares, and a page that is kept was delivered.  *)
ReplyTyped(call) ==
    call # Idle =>
        /\ call.reply = Pending \/ call.reply \in Responses(call.request.op)
        /\ call.at = "settled" /\ call.outcome.tag = "answered"
            => call.outcome.answer \in Answers(call.request.op)
        /\ call.at = "settled" /\ call.request.op = "chatEvents" /\ call.reply # Pending
            => Delivered(call)

RepliesSound == \A c \in Callers : ReplyTyped(calls[c])

LEMMA ReplyChanges ==
    ASSUME CallsSound, RepliesSound, NEW c \in Callers, NEW call,
           calls' = [calls EXCEPT ![c] = call], ReplyTyped(call)
    PROVE  RepliesSound'
BY DEF CallsSound, RepliesSound

(* A query that fails after its reply came loses it, unless the reply      *)
(* itself was at fault.                                                    *)
LEMMA FailedTyped ==
    ASSUME NEW call, CallShape(call), ReplyTyped(call), call.at = "sent", NEW error,
           call.request.op = "chatEvents" /\ call.reply # Pending
                => AnswerOf(call.request.op, call.reply) = Thrown
    PROVE  ReplyTyped(Failed(call, error))
<1> DEFINE op == call.request.op
<1>1. call # Idle /\ (call.reply = Pending \/ call.reply \in Responses(op))
  BY DEF ReplyTyped, Idle
<1>2. CASE Retried(call, error)
  <2> DEFINE next == [call EXCEPT !.at = "waiting", !.reply = Pending]
  <2>1. next = [call EXCEPT !.at = "waiting", !.reply = Pending]
    OBVIOUS
  <2> HIDE DEF next
  <2>2. next.at = "waiting" /\ next.reply = Pending
    BY <2>1 DEF CallShape
  <2>3. Failed(call, error) = next
    BY <1>2, <2>1 DEF Failed
  <2> QED
    BY <2>2, <2>3 DEF ReplyTyped
<1>3. CASE ~Retried(call, error) /\ op = "chatDetails"
  <2> DEFINE outcome == [tag |-> "answered", answer |-> [kind |-> "server_error"]]
             next == [call EXCEPT !.at = "settled", !.outcome = outcome]
  <2>1. Failed(call, error) = next
    BY <1>3 DEF Failed, Rejected, Answered, Settled
  <2>2. outcome.answer \in Answers(op)
    BY <1>3 DEF Answers, Domain!ChatDetailsResponse, Domain!ChatDetailsFailure, Domain!Kinds
  <2> HIDE DEF outcome
  <2>3. /\ next.request = call.request /\ next.reply = call.reply /\ next.outcome = outcome
    BY DEF CallShape
  <2> HIDE DEF next
  <2>4. ReplyTyped(next)
    BY <1>1, <1>3, <2>2, <2>3 DEF ReplyTyped
  <2> QED
    BY <2>1, <2>4
<1>4. CASE ~Retried(call, error) /\ op # "chatDetails"
  <2> DEFINE outcome == [tag |-> "rejected", error |-> error]
             next == [call EXCEPT !.at = "settled", !.outcome = outcome]
  <2>1. Failed(call, error) = next
    BY <1>4 DEF Failed, Rejected, Settled
  <2>2. outcome.tag = "rejected"
    OBVIOUS
  <2> HIDE DEF outcome
  <2>3. /\ next.request = call.request /\ next.reply = call.reply /\ next.outcome = outcome
    BY DEF CallShape
  <2> HIDE DEF next
  <2>4. op = "chatEvents" /\ next.reply # Pending => Delivered(next)
    BY <2>2, <2>3 DEF Delivered
  <2>5. ReplyTyped(next)
    BY <1>1, <2>2, <2>3, <2>4 DEF ReplyTyped
  <2> QED
    BY <2>1, <2>5
<1> QED
  BY <1>2, <1>3, <1>4

(* What the client refuses is refused as the SDK declares.                 *)
LEMMA StartTyped ==
    ASSUME CallsSound, RepliesSound, NEW c \in Callers, NEW request \in Requests,
           Start(c, request)
    PROVE  RepliesSound'
<1> DEFINE first == [Call(request, Missing) EXCEPT !.tries = 0]
           refused(kind) == [tag |-> "answered", answer |-> [kind |-> kind]]
           args == ArgsOf(request)
           call == IF ~Permitted(request) THEN Refused(request, "not_authorized")
                   ELSE IF request.op = "sendMessage" /\ request.message.ephemeral
                       THEN Refused(request, "invalid_request")
                   ELSE IF args = Thrown THEN Settled(first, [tag |-> "thrown"])
                   ELSE IF ~Parses(request, args)
                       THEN Rejected([Call(request, args) EXCEPT !.tries = 0], "Http")
                   ELSE Call(request, args)
<1>1. calls' = [calls EXCEPT ![c] = call]
  BY DEF Start
<1>2. ASSUME NEW outcome,
             outcome.tag = "answered" => outcome.answer \in Answers(request.op)
      PROVE  ReplyTyped(Settled(first, outcome))
  <2> DEFINE next == Settled(first, outcome)
  <2>1. first = [at |-> "sent", request |-> request, args |-> Missing, tries |-> 0,
                 runs |-> 0, reply |-> Pending, outcome |-> Pending]
    BY DEF Call
  <2> HIDE DEF first
  <2>2. next.request = request /\ next.reply = Pending /\ next.outcome = outcome
    BY <2>1 DEF Settled
  <2> HIDE DEF next
  <2>3. ReplyTyped(next)
    BY <1>2, <2>2 DEF ReplyTyped
  <2> QED
    BY <2>3 DEF next
<1>3. ASSUME NEW kind, [kind |-> kind] \in Answers(request.op)
      PROVE  ReplyTyped(Refused(request, kind))
  <2>1. Refused(request, kind) = Settled(first, refused(kind))
    BY DEF Refused, Answered
  <2>2. refused(kind).answer = [kind |-> kind]
    OBVIOUS
  <2> HIDE DEF first, refused
  <2> QED
    BY <1>2, <1>3, <2>1, <2>2
<1>4. ~Permitted(request) => [kind |-> "not_authorized"] \in Answers(request.op)
  BY DEF Permitted, Answers, Domain!SendMessageResponse, Domain!SendMessageFailure,
         Domain!CreateChannelResponse, Domain!CreateChannelFailure, Domain!Kinds
<1>5. request.op = "sendMessage" => [kind |-> "invalid_request"] \in Answers(request.op)
  BY DEF Answers, Domain!SendMessageResponse, Domain!SendMessageFailure, Domain!Kinds
<1>6. ReplyTyped(Settled(first, [tag |-> "thrown"]))
  <2> DEFINE outcome == [tag |-> "thrown"]
  <2>1. outcome.tag # "answered"
    OBVIOUS
  <2> HIDE DEF first, outcome
  <2>2. ReplyTyped(Settled(first, outcome))
    BY <1>2, <2>1
  <2> QED
    BY <2>2 DEF outcome
<1>7. args # Thrown => Parses(request, args)
  BY ArgsParse
<1>8. ReplyTyped(Call(request, args))
  <2> HIDE DEF args
  <2>1. Call(request, args).reply = Pending /\ Call(request, args).at = "sent"
    BY DEF Call
  <2> QED
    BY <2>1 DEF ReplyTyped
<1>9. ReplyTyped(call)
  <2> HIDE DEF args, first
  <2> QED
    BY <1>3, <1>4, <1>5, <1>6, <1>7, <1>8
<1> HIDE DEF call
<1> QED
  BY <1>1, <1>9, ReplyChanges

(* OpenChat replies to a request in the way its schema says.               *)
LEMMA RepliedTyped ==
    ASSUME CallsSound, RepliesSound, NEW c \in Callers, Arrived(calls[c]),
           NEW reply \in Responses(calls[c].request.op), Replied(c, reply) \/ Done(c, reply)
    PROVE  RepliesSound'
<1> DEFINE call == calls[c]
           replied == [call EXCEPT !.reply = reply]
<1>1. CallShape(call) /\ ReplyTyped(call) /\ call # Idle
  BY DEF Arrived, CallsSound, CallSound, RepliesSound
<1>2. call.at = "sent" \/ call.request.op \in Updates
  BY DEF Arrived
<1>3. reply \in Responses(call.request.op)
  OBVIOUS
<1>4. PICK runs : \/ calls' = [calls EXCEPT ![c] = replied]
                  \/ calls' = [calls EXCEPT ![c] = [replied EXCEPT !.runs = runs]]
  BY DEF Replied, Done, CallsSound
<1> HIDE DEF call
<1>5. replied = [at |-> call.at, request |-> call.request, args |-> call.args,
                 tries |-> call.tries, runs |-> call.runs, reply |-> reply,
                 outcome |-> call.outcome]
  BY <1>1 DEF CallShape
<1> HIDE DEF replied
<1>6. ASSUME NEW next, next.at = call.at, next.request = call.request, next.reply = reply,
             next.outcome = call.outcome
      PROVE  ReplyTyped(next)
  BY <1>1, <1>2, <1>3, <1>6 DEF ReplyTyped, Updates
<1>7. ReplyTyped(replied)
  BY <1>5, <1>6
<1>8. ReplyTyped([replied EXCEPT !.runs = runs])
  BY <1>5, <1>6
<1> QED
  BY <1>4, <1>7, <1>8, ReplyChanges

(* A page is a sequence of events with their indexes. *)
LEMMA PageTyped ==
    ASSUME NEW log \in Seq(LogEntry), NEW criteria
    PROVE  EventsOf(log, criteria) \in Wire!EventsResponse
<1> DEFINE places == Places(log, criteria)
           selected == Selected(log, criteria)
           events == [k \in DOMAIN selected |-> Wrapped(log, selected[k])]
           size == Cardinality(places)
<1>1. DOMAIN log = 1 .. Len(log) /\ Len(log) \in Nat
  OBVIOUS
<1>2. places \in SUBSET (1 .. Len(log))
  BY <1>1 DEF Places
<1>3. selected = InOrder(places)
  BY DEF Selected
<1>4. EventsOf(log, criteria) =
        [events |-> events, unauthorized |-> <<>>, expired_event_ranges |-> <<>>,
         expired_message_ranges |-> <<>>, latest_event_index |-> Len(log),
         chat_last_updated |-> Len(log)]
  BY DEF EventsOf
<1> HIDE DEF places, selected
<1>5. DOMAIN selected = 1 .. size /\ \A k \in DOMAIN selected : selected[k] \in places
  BY <1>1, <1>2, <1>3, OrderedPlaces
<1>6. size \in Nat
  <2>1. IsFiniteSet(1 .. Len(log))
    BY <1>1, FS_Interval
  <2> QED
    BY <1>2, <2>1, FS_Subset, FS_CardinalityType
<1>7. ASSUME NEW i \in places
      PROVE  Wrapped(log, i) \in Wire!EventWrapperChatEvent
  <2>1. i \in 1 .. Len(log) /\ i - 1 \in Nat /\ i \in Nat
    BY <1>1, <1>2
  <2>2. log[i] \in LogEntry
    BY <1>1, <2>1
  <2> QED
    BY <2>1, <2>2 DEF LogEntry, Wrapped, Wire!EventWrapperChatEvent, Wire!Opt
<1>8. events \in Seq(Wire!EventWrapperChatEvent)
  <2>1. events \in [1 .. size -> Wire!EventWrapperChatEvent]
    BY <1>5, <1>7
  <2> HIDE DEF events, size
  <2> QED
    BY <1>6, <2>1
<1> HIDE DEF events
<1> QED
  BY <1>1, <1>4, <1>8 DEF Wire!EventsResponse

(* What OpenChat replies to each operation satisfies its schema. *)
LEMMA SendTyped ==
    ASSUME CallsSound, ChatsSound, RepliesSound, NEW c \in Callers, ExecuteSend(c)
    PROVE  RepliesSound'
<1> DEFINE args == calls[c].args
           log == chats[TargetOf(args)].log
           id == Sent(args, Len(log)).value.message_id
           value == [message_id |-> id, event_index |-> Len(log), message_index |-> Len(log),
                     timestamp |-> Len(log), expires_at |-> Missing]
           reply == [tag |-> "Success", value |-> value]
<1>1. /\ Arrived(calls[c]) /\ calls[c].request.op = "sendMessage"
      /\ TargetOf(args) \in Present /\ Done(c, reply)
  BY DEF ExecuteSend
<1>2. args \in Wire!BotSendMessageArgs
  BY <1>1, ArrivedArgs DEF Parses
<1>3. Len(log) \in Nat
  BY <1>1 DEF Present, ChatsSound, Chat
<1> HIDE DEF args, log
<1>4. id \in Nat
  <2>1. id = OrElse(args.message_id, Width64 + Len(log))
    BY DEF Sent
  <2> QED
    BY <1>2, <1>3, <2>1, MappingAssumption DEF Wire!BotSendMessageArgs, Wire!Opt, OrElse
<1> HIDE DEF id
<1>5. value \in Wire!BotSendMessageSuccessResult
  BY <1>3, <1>4 DEF Wire!BotSendMessageSuccessResult, Wire!Opt
<1> HIDE DEF value
<1>6. reply \in Responses("sendMessage")
  BY <1>5 DEF Responses, Wire!BotSendMessageResponse, Wire!Tagged
<1> HIDE DEF reply
<1>7. Arrived(calls[c]) /\ Done(c, reply) /\ reply \in Responses(calls[c].request.op)
  BY <1>1, <1>6
<1> QED
  BY <1>7, RepliedTyped

LEMMA CreateTyped ==
    ASSUME CallsSound, ChatsSound, RepliesSound, NEW c \in Callers, ExecuteCreate(c)
    PROVE  RepliesSound'
<1> DEFINE id == Cardinality(DOMAIN chats)
           reply == [tag |-> "Success", value |-> [channel_id |-> id]]
<1>1. Arrived(calls[c]) /\ calls[c].request.op = "createChannel" /\ Done(c, reply)
  BY DEF ExecuteCreate
<1>2. id \in Nat
  <2>1. IsFiniteSet(0..MaxChannels)
    BY FS_Interval, BotClientAssumption
  <2> QED
    BY <2>1, FS_Subset, FS_CardinalityType DEF ChatsSound
<1> HIDE DEF id
<1>3. reply \in Responses("createChannel")
  BY <1>2 DEF Responses, Wire!BotCreateChannelResponse, Wire!Tagged
<1> HIDE DEF reply
<1> QED
  BY <1>1, <1>3, RepliedTyped

LEMMA DeleteTyped ==
    ASSUME CallsSound, RepliesSound, NEW c \in Callers, ExecuteDelete(c)
    PROVE  RepliesSound'
<1>1. /\ Arrived(calls[c]) /\ calls[c].request.op = "deleteChannel"
      /\ Done(c, [tag |-> "Success"]) \/ Replied(c, [tag |-> "ChannelNotFound"])
  BY DEF ExecuteDelete
<1>2. /\ [tag |-> "Success"] \in Responses("deleteChannel")
      /\ [tag |-> "ChannelNotFound"] \in Responses("deleteChannel")
  BY DEF Responses, Wire!BotDeleteChannelResponse, Wire!Literals
<1> QED
  BY <1>1, <1>2, RepliedTyped

LEMMA ReadTyped ==
    ASSUME CallsSound, ChatsSound, RepliesSound, NEW c \in Callers, Read(c)
    PROVE  RepliesSound'
<1> DEFINE call == calls[c]
           id == TargetOf(call.args)
           value == IF call.request.op = "chatDetails" THEN chats[id].details
                    ELSE EventsOf(chats[id].log, call.args.events)
           success == [tag |-> "Success", value |-> value]
<1>1. /\ Arrived(call) /\ call.request.op \in Queries
      /\ IF id \in Present THEN Replied(c, success) ELSE Replied(c, [tag |-> "NotFound"])
  BY DEF Read
<1>2. CASE id \in Present
  <2>1. chats[id].details \in Wire!ChatDetails /\ chats[id].log \in Seq(LogEntry)
    BY <1>2 DEF Present, ChatsSound, Chat
  <2>2. call.request.op = "chatDetails" => value \in Wire!ChatDetails
    BY <2>1
  <2>3. call.request.op = "chatEvents" => value \in Wire!EventsResponse
    BY <2>1, PageTyped
  <2> HIDE DEF value
  <2>4. success \in Responses(call.request.op)
    BY <1>1, <2>2, <2>3 DEF Responses, Queries, Wire!BotChatDetailsResponse,
                            Wire!BotChatEventsResponse, Wire!Tagged
  <2> HIDE DEF success
  <2> QED
    BY <1>1, <1>2, <2>4, RepliedTyped
<1>3. CASE id \notin Present
  <2>1. [tag |-> "NotFound"] \in Responses(call.request.op)
    BY <1>1 DEF Responses, Queries, Wire!BotChatDetailsResponse, Wire!BotChatEventsResponse,
                Wire!Literals
  <2> QED
    BY <1>1, <1>3, <2>1, RepliedTyped
<1> QED
  BY <1>2, <1>3

(* Refusals are failures that the schemas know. *)
LEMMA RefuseTyped ==
    ASSUME CallsSound, RepliesSound, NEW c \in Callers, Refuse(c)
    PROVE  RepliesSound'
<1> DEFINE op == calls[c].request.op
<1>1. PICK tag \in Refusals(op) : Replied(c, [tag |-> tag])
  BY DEF Refuse
<1>2. Arrived(calls[c])
  BY DEF Refuse
<1>3. op \in Queries \cup Updates
  BY <1>2, RequestOps DEF Arrived, CallsSound, CallSound, CallShape
<1> HIDE DEF op
<1>4. [tag |-> tag] \in Responses(op)
  <2>1. CASE op = "sendMessage"
    BY <1>1, <2>1 DEF Refusals, Responses, Wire!BotSendMessageResponse, Wire!Literals
  <2>2. CASE op = "createChannel"
    BY <1>1, <2>2 DEF Refusals, Responses, Wire!BotCreateChannelResponse, Wire!Literals
  <2>3. CASE op = "deleteChannel"
    BY <1>1, <2>3 DEF Refusals, Responses, Wire!BotDeleteChannelResponse, Wire!Literals
  <2>4. CASE op = "chatDetails"
    BY <1>1, <2>4 DEF Refusals, Responses, Wire!BotChatDetailsResponse, Wire!Literals
  <2>5. CASE op = "chatEvents"
    BY <1>1, <2>5 DEF Refusals, Responses, Wire!BotChatEventsResponse, Wire!Literals
  <2> QED
    BY <1>3, <2>1, <2>2, <2>3, <2>4, <2>5 DEF Queries, Updates
<1> QED
  BY <1>1, <1>2, <1>4, RepliedTyped DEF op

(* A reply is answered with what its mapper makes of it. *)
LEMMA DeliverTyped ==
    ASSUME CallsSound, RepliesSound, NEW c \in Callers, Deliver(c)
    PROVE  RepliesSound'
<1> DEFINE call == calls[c]
           answer == AnswerOf(call.request.op, call.reply)
           next == IF answer = Thrown THEN Failed(call, "Http") ELSE Answered(call, answer)
<1>1. calls' = [calls EXCEPT ![c] = next] /\ call.at = "sent" /\ call.reply # Pending
  BY DEF Deliver
<1>2. /\ CallShape(call) /\ ReplyTyped(call) /\ call # Idle
      /\ call.request.op \in Queries \cup Updates
  <2>1. call # Idle
    BY <1>1 DEF Idle
  <2> QED
    BY <2>1, RequestOps DEF CallsSound, CallSound, CallShape, RepliesSound
<1>3. call.reply \in Responses(call.request.op)
  BY <1>1, <1>2 DEF ReplyTyped
<1> HIDE DEF call
<1>4. CASE answer = Thrown
  <2>1. ReplyTyped(Failed(call, "Http"))
    BY <1>1, <1>2, <1>4, FailedTyped
  <2> QED
    BY <1>1, <1>4, <2>1, ReplyChanges
<1>5. CASE answer # Thrown
  <2> DEFINE outcome == [tag |-> "answered", answer |-> answer]
  <2>1. next = [call EXCEPT !.at = "settled", !.outcome = outcome]
    BY <1>5 DEF Answered, Settled
  <2>2. answer \in Answers(call.request.op)
    BY <1>2, <1>3, <1>5, AnswerDeclared
  <2>3. outcome.answer = answer
    OBVIOUS
  <2> HIDE DEF next, outcome
  <2>4. /\ next.request = call.request /\ next.reply = call.reply /\ next.outcome = outcome
    BY <1>2, <2>1 DEF CallShape
  <2>5. Delivered(next)
    BY <1>5, <2>4 DEF Delivered, outcome
  <2> HIDE DEF answer
  <2>6. ReplyTyped(next)
    BY <1>3, <2>2, <2>3, <2>4, <2>5 DEF ReplyTyped
  <2> QED
    BY <1>1, <2>6, ReplyChanges
<1> QED
  BY <1>4, <1>5

LEMMA FailTyped ==
    ASSUME CallsSound, RepliesSound, NEW c \in Callers, Fail(c)
    PROVE  RepliesSound'
<1> DEFINE call == calls[c]
           lost == IF call.request.op \in Queries THEN [call EXCEPT !.reply = Pending] ELSE call
<1>1. PICK error \in Errors : calls' = [calls EXCEPT ![c] = Failed(lost, error)]
  BY DEF Fail
<1>2. CallShape(call) /\ ReplyTyped(call) /\ call.at = "sent"
  <2>1. call.at = "sent" /\ call # Idle
    BY DEF Fail, Idle
  <2> QED
    BY <2>1 DEF CallsSound, CallSound, RepliesSound
<1> HIDE DEF call
<1>3. CASE call.request.op \in Queries
  <2>1. lost = [call EXCEPT !.reply = Pending]
    BY <1>3
  <2> HIDE DEF lost
  <2>2. lost = [at |-> "sent", request |-> call.request, args |-> call.args,
                tries |-> call.tries, runs |-> call.runs, reply |-> Pending,
                outcome |-> call.outcome]
    BY <1>2, <2>1 DEF CallShape
  <2>3. CallShape(lost)
    BY <1>2, <2>2 DEF CallShape
  <2>4. ReplyTyped(lost) /\ lost.at = "sent" /\ lost.reply = Pending
    BY <2>2 DEF ReplyTyped
  <2> QED
    BY <1>1, <2>3, <2>4, FailedTyped, ReplyChanges
<1>4. CASE call.request.op \notin Queries
  <2>1. lost = call /\ call.request.op # "chatEvents"
    BY <1>4 DEF Queries
  <2> HIDE DEF lost
  <2>2. ReplyTyped(Failed(call, error))
    BY <1>2, <2>1, FailedTyped
  <2> QED
    BY <1>1, <2>1, <2>2, ReplyChanges
<1> QED
  BY <1>3, <1>4

LEMMA RepliesInit == Init => RepliesSound
BY DEF Init, RepliesSound, ReplyTyped

LEMMA RepliesNext == CallsSound /\ ChatsSound /\ RepliesSound /\ [Next]_vars => RepliesSound'
<1> SUFFICES ASSUME CallsSound, ChatsSound, RepliesSound, [Next]_vars PROVE RepliesSound'
  OBVIOUS
<1>1. ASSUME NEW c \in Callers, NEW request \in Requests, Start(c, request)
      PROVE  RepliesSound'
  BY <1>1, StartTyped
<1>2. ASSUME NEW c \in Callers,
             \/ ExecuteSend(c) \/ ExecuteCreate(c) \/ ExecuteDelete(c) \/ Read(c) \/ Refuse(c)
      PROVE  RepliesSound'
  BY <1>2, SendTyped, CreateTyped, DeleteTyped, ReadTyped, RefuseTyped
<1>3. ASSUME NEW c \in Callers, Attempt(c)
      PROVE  RepliesSound'
  BY <1>3, DeliverTyped, FailTyped DEF Attempt
<1>4. ASSUME NEW c \in Callers, Retry(c)
      PROVE  RepliesSound'
  <2> DEFINE call == calls[c]
             next == [call EXCEPT !.at = "sent", !.tries = @ + 1]
  <2>1. calls' = [calls EXCEPT ![c] = next] /\ call.at = "waiting"
    BY <1>4 DEF Retry, CallsSound
  <2>2. CallShape(call) /\ call # Idle
    BY <2>1 DEF CallsSound, CallSound, Idle
  <2> HIDE DEF call
  <2>3. next.reply = Pending /\ next.at = "sent"
    BY <2>1, <2>2 DEF CallShape
  <2> HIDE DEF next
  <2> QED
    BY <2>1, <2>3, ReplyChanges DEF ReplyTyped
<1>5. ASSUME NEW c \in Callers, Forget(c)
      PROVE  RepliesSound'
  BY <1>5, ReplyChanges DEF Forget, ReplyTyped
<1>6. ASSUME NEW chat, (\E event \in Events : Happens(chat, event)) \/ RemoveChannel(chat)
      PROVE  RepliesSound'
  BY <1>6 DEF Happens, RemoveChannel, RepliesSound
<1>7. CASE UNCHANGED vars
  BY <1>7 DEF vars, RepliesSound
<1> QED
  BY <1>1, <1>2, <1>3, <1>4, <1>5, <1>6, <1>7 DEF Next

LEMMA RepliesCorrect == Spec => []RepliesSound
BY CallsCorrect, ChatsCorrect, RepliesInit, RepliesNext, PTL DEF Spec

(* Whatever a caller is answered, by a mapper or by the client itself, is  *)
(* what the declarations of the SDK say, for any replies that satisfy      *)
(* their schemas.                                                          *)
THEOREM AnswersDeclared == Spec => []AnswersAsDeclared
<1>1. RepliesSound => AnswersAsDeclared
  <2> SUFFICES ASSUME RepliesSound, NEW c \in Callers, SettledAs(c, "answered")
               PROVE  AnswerFor(c) \in Answers(calls[c].request.op)
    BY DEF AnswersAsDeclared, AnsweredTo, Answers
  <2>1. calls[c] # Idle /\ calls[c].at = "settled" /\ calls[c].outcome.tag = "answered"
    BY DEF SettledAs, Idle
  <2> QED
    BY <2>1 DEF RepliesSound, ReplyTyped, AnswerFor
<1> QED
  BY <1>1, RepliesCorrect, PTL

(* A page is read in full and in order, whatever it holds, but for the     *)
(* messages named unreadable: with one of these it is not read at all.     *)
THEOREM PagesComplete == Spec => []PagesReadBack
<1>1. RepliesSound => PagesReadBack
  <2> SUFFICES ASSUME RepliesSound, NEW c \in Callers, calls[c].at = "settled",
                      calls[c].request.op = "chatEvents", calls[c].reply.tag = "Success"
               PROVE  LET sent == calls[c].reply.value.events
                      IN  IF \E i \in DOMAIN sent : Unreadable(sent[i].event)
                          THEN SettledAs(c, "rejected")
                          ELSE /\ SettledAs(c, "answered")
                               /\ Len(AnswerFor(c).events) = Len(sent)
                               /\ \A i \in DOMAIN sent :
                                    AnswerFor(c).events[i].index = sent[i].index
    BY DEF PagesReadBack
  <2> DEFINE call == calls[c]
             page == call.reply.value
             answer == ChatEventsSuccessResponse(page)
  <2>1. call # Idle /\ call.reply # Pending
    BY DEF Idle, Pending
  <2>2. call.reply \in Wire!BotChatEventsResponse /\ Delivered(call)
    BY <2>1 DEF RepliesSound, ReplyTyped, Responses
  <2>3. page \in Wire!EventsResponse
    BY <2>2 DEF Wire!BotChatEventsResponse, Wire!Tagged, Wire!Literals
  <2>4. AnswerOf("chatEvents", call.reply) = answer
    BY DEF AnswerOf, ChatEventsResponse
  <2>5. IF answer = Thrown THEN call.outcome.tag = "rejected"
        ELSE call.outcome = [tag |-> "answered", answer |-> answer]
    BY <2>2, <2>4 DEF Delivered
  <2>6. call.at = "settled"
    OBVIOUS
  <2> HIDE DEF page, answer
  <2>7. CASE \E i \in DOMAIN page.events : Unreadable(page.events[i].event)
    <3>1. answer = Thrown
      BY <2>3, <2>7, PageDeclared DEF answer
    <3>2. SettledAs(c, "rejected")
      BY <2>5, <2>6, <3>1 DEF SettledAs
    <3> QED
      BY <2>7, <3>2 DEF page
  <2>8. CASE ~ \E i \in DOMAIN page.events : Unreadable(page.events[i].event)
    <3>1. /\ answer \in Domain!ChatEventsSuccess /\ Len(answer.events) = Len(page.events)
          /\ \A i \in DOMAIN page.events : answer.events[i].index = page.events[i].index
      BY <2>3, <2>8, PageDeclared DEF answer
    <3>2. answer # Thrown
      BY <3>1, ValuesAssumption
    <3>3. SettledAs(c, "answered") /\ AnswerFor(c) = answer
      BY <2>5, <2>6, <3>2 DEF SettledAs, AnswerFor
    <3> QED
      BY <2>8, <3>1, <3>3 DEF page
  <2> QED
    BY <2>7, <2>8
<1> QED
  BY <1>1, RepliesCorrect, PTL
=============================================================================
