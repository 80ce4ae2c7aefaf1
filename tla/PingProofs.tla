----------------------------- MODULE PingProofs -----------------------------
(***************************************************************************)
(* The safety invariants of the ping example, for every set of chats,      *)
(* communities, threads and keys, and whatever the keys grant.             *)
(***************************************************************************)
EXTENDS PingSubscriptions, MapTheorems

-----------------------------------------------------------------------------
(* Scopes and their texts *)

(* The scope of a key is a chat without a thread, or a community. *)
LEMMA KeyScopeShape ==
    ASSUME NEW scope \in KeyScopes
    PROVE  \/ scope.kind = "chat" /\ scope = ChatScope(scope.chat, NoThread)
           \/ scope.kind = "community"
<1>1. PICK api \in [Chat : WireChats] \cup [Community : CommunityIds] :
        scope = MapApiKeyScope(api)
  BY DEF KeyScopes
<1>2. CASE "Chat" \in DOMAIN api
  BY <1>1, <1>2 DEF MapApiKeyScope, ChatScope
<1>3. CASE "Chat" \notin DOMAIN api
  BY <1>1, <1>3 DEF MapApiKeyScope, CommunityScope
<1> QED
  BY <1>2, <1>3

(* The text of a key's scope is a text. *)
LEMMA KeyTextType == ASSUME NEW key \in Keys PROVE TextOf(key) \in Texts
BY PingAssumption DEF TextOf, Texts

(* A command's scope has the text of a key's scope. *)
LEMMA CommandTextType ==
    ASSUME NEW scope \in CommandScopes
    PROVE  ScopeText(scope) \in Texts /\ scope.kind \in {"chat", "community"}
<1>1. PICK api \in [Chat : [chat : WireChats, thread : Threads \cup {NoThread}]]
                   \cup [Community : CommunityIds] :
        scope = MapCommandScope(api)
  BY DEF CommandScopes
<1>2. CASE api \in [Chat : [chat : WireChats, thread : Threads \cup {NoThread}]]
  <2> DEFINE key == [Chat |-> api.Chat.chat]
  <2>1. api.Chat.chat \in WireChats /\ "Chat" \in DOMAIN api
    BY <1>2
  <2>2. key \in [Chat : WireChats] /\ "Chat" \in DOMAIN key /\ key.Chat = api.Chat.chat
    BY <2>1
  <2> HIDE DEF key
  <2>3. MapApiKeyScope(key) \in KeyScopes
    BY <2>2 DEF KeyScopes
  <2>4. MapApiKeyScope(key) = ChatScope(MapChatIdentifier(api.Chat.chat), NoThread)
    BY <2>2 DEF MapApiKeyScope
  <2>5. scope = ChatScope(MapChatIdentifier(api.Chat.chat), api.Chat.thread)
    BY <1>1, <2>1 DEF MapCommandScope
  <2>6. ScopeText(scope) = ScopeText(MapApiKeyScope(key))
    BY <2>4, <2>5 DEF ScopeText, ChatScope
  <2> QED
    BY <2>3, <2>5, <2>6 DEF Texts, ChatScope
<1>3. CASE api \in [Community : CommunityIds]
  <2>1. "Chat" \notin DOMAIN api
    BY <1>3
  <2>2. scope = MapApiKeyScope(api) /\ scope = CommunityScope(api.Community)
    BY <1>1, <2>1 DEF MapCommandScope, MapApiKeyScope
  <2>3. scope \in KeyScopes
    BY <1>3, <2>2 DEF KeyScopes
  <2>4. scope.kind = "community"
    BY <2>2 DEF CommunityScope
  <2> QED
    BY <2>3, <2>4 DEF Texts
<1> QED
  BY <1>1, <1>2, <1>3

(* toString and fromString are inverse on texts. *)
LEMMA TextRoundTrip ==
    ASSUME NEW t \in Texts
    PROVE  /\ ScopeText(FromString(t)) = t
           /\ FromString(t).kind = t.kind
           /\ t.kind = "chat" => FromString(t).chat = t.chat
<1>1. PICK scope \in KeyScopes : t = ScopeText(scope)
  BY DEF Texts
<1>2. CASE scope.kind = "chat"
  BY <1>1, <1>2, KeyScopeShape DEF ScopeText, FromString, ChatScope
<1>3. CASE scope.kind # "chat"
  BY <1>1, <1>3, KeyScopeShape DEF ScopeText, FromString
<1> QED
  BY <1>2, <1>3

(* A text is that of a chat exactly if its scope is. *)
LEMMA TextKind == ASSUME NEW scope PROVE ScopeText(scope).kind = "chat" <=> scope.kind = "chat"
BY DEF ScopeText

-----------------------------------------------------------------------------
(* The best match *)

(* What is found is held for the very scope, or for its community. *)
LEMMA BestMatchIsHeld ==
    ASSUME NEW map, NEW scope, NEW key \in BestMatch(map, scope)
    PROVE  \E t \in DOMAIN map :
            /\ key = map[t]
            /\ t = ScopeText(scope) \/ t.kind = "community"
BY DEF BestMatch, ScopeText, ParentScope, CommunityScope

(* There is at most one. *)
LEMMA BestMatchUnique ==
    ASSUME NEW map, NEW scope, NEW j \in BestMatch(map, scope), NEW k \in BestMatch(map, scope)
    PROVE  j = k
BY DEF BestMatch

(* The thread of a command makes no difference. *)
LEMMA BestMatchOfText ==
    ASSUME NEW map, NEW scope \in CommandScopes
    PROVE  BestMatch(map, FromString(ScopeText(scope))) = BestMatch(map, scope)
<1>1. CASE scope.kind = "chat"
  <2> DEFINE back == FromString(ScopeText(scope))
  <2>1. back = ChatScope(scope.chat, NoThread)
    BY <1>1 DEF FromString, ScopeText
  <2>2. back.kind = scope.kind /\ back.chat = scope.chat
    BY <1>1, <2>1 DEF ChatScope
  <2> HIDE DEF back
  <2>3. ScopeText(back) = ScopeText(scope)
    BY <1>1, <2>2 DEF ScopeText
  <2>4. IsChannelScope(back) = IsChannelScope(scope) /\ ParentScope(back) = ParentScope(scope)
    BY <2>2 DEF IsChannelScope, ParentScope
  <2>5. BestMatch(map, back) = BestMatch(map, scope)
    BY <2>3, <2>4 DEF BestMatch
  <2> QED
    BY <2>5 DEF back
<1>2. CASE scope.kind # "chat"
  BY <1>2 DEF FromString, ScopeText
<1> QED
  BY <1>1, <1>2

-----------------------------------------------------------------------------
(* The inductive invariant *)

(* A key is held for the text of its own scope. *)
KeysUnderText == \A t \in DOMAIN apiKeys : TextOf(apiKeys[t]) = t

(* What is held, subscribed and called with was given to the bot.          *)
KeysGiven ==
    /\ \A t \in DOMAIN apiKeys : apiKeys[t] \in synced
    /\ DOMAIN subscriptions \subseteq synced
    /\ \A c \in calls : c.key \in synced

(* Only keys that grant texts have subscriptions, and the key of a chat    *)
(* has none but that chat's.                                               *)
Covered(key, t) == key \in TextKeys /\ (ScopeOf[key].kind = "chat" => t = TextOf(key))
SubscriptionsCovered ==
    \A k \in DOMAIN subscriptions : \A t \in subscriptions[k] : Covered(k, t)

CallsCovered ==
    \A c \in calls : Covered(c.key, c.scope) /\ Pingable(c.key, FromString(c.scope))

(* Only a key that was revoked is refused. *)
RefusedAreRevoked == \A c \in calls : c.reply = "not_authorized" => c.key \notin valid

IInv ==
    /\ TypeOK
    /\ KeysUnderText /\ KeysGiven
    /\ SubscriptionsCovered /\ CallsCovered
    /\ RefusedAreRevoked

(* What is found for a scope is a key the bot was given. *)
LEMMA BestMatchGiven ==
    ASSUME IInv, NEW scope, NEW key \in BestMatch(apiKeys, scope)
    PROVE  key \in synced /\ key \in Keys
BY BestMatchIsHeld DEF IInv, KeysGiven, TypeOK

(* The key found for a scope covers it. *)
LEMMA BestMatchCovers ==
    ASSUME IInv, NEW scope, NEW key \in BestMatch(apiKeys, scope), key \in TextKeys
    PROVE  Covered(key, ScopeText(scope))
<1>1. PICK t \in DOMAIN apiKeys :
        key = apiKeys[t] /\ (t = ScopeText(scope) \/ t.kind = "community")
  BY BestMatchIsHeld
<1>2. TextOf(key) = t
  BY <1>1 DEF IInv, KeysUnderText
<1>3. CASE t.kind = "community"
  BY <1>2, <1>3, TextKind DEF Covered, TextOf
<1> QED
  BY <1>1, <1>2, <1>3 DEF Covered

(* Removing a text leaves the other entries, and never adds one. *)
LEMMA RemovedEntries ==
    ASSUME NEW key, NEW text
    PROVE  /\ DOMAIN Removed(key, text) \subseteq DOMAIN subscriptions \cup {key}
           /\ \A k \in DOMAIN Removed(key, text) : Removed(key, text)[k] \subseteq Subscribed(k)
           /\ key \in DOMAIN Removed(key, text) => key \in DOMAIN subscriptions
BY DEF Removed, Subscribed, Put, Without, Restrict

(* So does unsubscribe, whatever key it finds. *)
LEMMA UnsubscribedEntries ==
    ASSUME IsMap(subscriptions, Keys, (SUBSET Texts) \ {{}}), NEW map, NEW scope
    PROVE  /\ IsMap(Unsubscribed(map, scope), Keys, (SUBSET Texts) \ {{}})
           /\ DOMAIN Unsubscribed(map, scope) \subseteq DOMAIN subscriptions
           /\ \A k \in DOMAIN Unsubscribed(map, scope) :
                Unsubscribed(map, scope)[k] \subseteq subscriptions[k]
<1> DEFINE Result == Unsubscribed(map, scope)
           text == ScopeText(scope)
<1> HIDE DEF Result, text
<1>1. CASE Result = subscriptions
  BY <1>1 DEF Result
<1>2. ASSUME NEW key, Result = Removed(key, text)
      PROVE  /\ IsMap(Result, Keys, (SUBSET Texts) \ {{}})
             /\ DOMAIN Result \subseteq DOMAIN subscriptions
             /\ \A k \in DOMAIN Result : Result[k] \subseteq subscriptions[k]
  <2>1. CASE Subscribed(key) \ {text} = {}
    <3>1. Result = Without(subscriptions, key)
      BY <1>2, <2>1 DEF Removed
    <3>2. IsMap(Without(subscriptions, key), Keys, (SUBSET Texts) \ {{}})
      BY WithoutIsMap
    <3>3. /\ DOMAIN Result = DOMAIN subscriptions \ {key}
          /\ \A k \in DOMAIN Result : Result[k] = subscriptions[k]
      BY <3>1 DEF Without, Restrict
    <3> QED
      BY <3>1, <3>2, <3>3
  <2>2. CASE Subscribed(key) \ {text} # {}
    <3>1. Result = Put(subscriptions, key, subscriptions[key] \ {text}) /\ key \in DOMAIN subscriptions
      BY <1>2, <2>2 DEF Removed, Subscribed
    <3>2. key \in Keys /\ subscriptions[key] \ {text} \in (SUBSET Texts) \ {{}}
      BY <2>2, <3>1 DEF IsMap, Subscribed
    <3>3. IsMap(Put(subscriptions, key, subscriptions[key] \ {text}), Keys, (SUBSET Texts) \ {{}})
      BY <3>2, PutIsMap
    <3>4. /\ DOMAIN Result = DOMAIN subscriptions
          /\ \A k \in DOMAIN Result :
                Result[k] = IF k = key THEN subscriptions[key] \ {text} ELSE subscriptions[k]
      BY <3>1 DEF Put
    <3> QED
      BY <3>1, <3>3, <3>4
  <2> QED
    BY <2>1, <2>2
<1>3. Result = subscriptions \/ \E key : Result = Removed(key, text)
  BY DEF Unsubscribed, Result, text
<1> QED
  BY <1>1, <1>2, <1>3 DEF Result

(* At the start there is nothing. *)
LEMMA IInvInit == Init => IInv
<1> SUFFICES ASSUME Init PROVE IInv
  OBVIOUS
<1>1. IsMap(apiKeys, Texts, Keys) /\ IsMap(subscriptions, Keys, (SUBSET Texts) \ {{}})
  BY EmptyIsMap DEF Init
<1>2. DOMAIN apiKeys = {} /\ DOMAIN subscriptions = {}
  BY DEF Init, EmptyMap
<1>3. TypeOK
  BY <1>1 DEF TypeOK, Init
<1> QED
  BY <1>2, <1>3 DEF IInv, KeysUnderText, KeysGiven, SubscriptionsCovered, CallsCovered,
                    RefusedAreRevoked, Init

(* The calls of a tick are typed and covered. *)
LEMMA TickKeepsIInv == ASSUME IInv, Tick PROVE IInv'
<1>1. ASSUME NEW c \in calls', c \notin calls
      PROVE  \E k \in DOMAIN subscriptions : \E t \in subscriptions[k] :
               /\ k \in TextKeys /\ Pingable(k, FromString(t))
               /\ c = [key |-> k, scope |-> t, reply |-> "none"]
  BY <1>1 DEF Tick, Subscribed
<1>2. ASSUME NEW c \in calls', c \notin calls
      PROVE  /\ c \in Calls /\ c.key \in synced /\ c.reply = "none"
             /\ Covered(c.key, c.scope) /\ Pingable(c.key, FromString(c.scope))
  <2>3. PICK k \in DOMAIN subscriptions : \E t \in subscriptions[k] :
          /\ k \in TextKeys /\ Pingable(k, FromString(t))
          /\ c = [key |-> k, scope |-> t, reply |-> "none"]
    BY <1>1, <1>2
  <2>1. PICK t \in subscriptions[k] :
          /\ k \in TextKeys /\ Pingable(k, FromString(t))
          /\ c = [key |-> k, scope |-> t, reply |-> "none"]
    BY <2>3
  <2>2. k \in Keys /\ t \in Texts /\ k \in synced /\ Covered(k, t)
    BY DEF IInv, TypeOK, IsMap, KeysGiven, SubscriptionsCovered
  <2> QED
    BY <2>1, <2>2 DEF Calls, Replies
<1>3. UNCHANGED <<bot, openChat, history>>
  BY DEF Tick
<1>4. TypeOK'
  BY <1>2, <1>3 DEF IInv, TypeOK, bot, openChat, history
<1>5. KeysUnderText' /\ SubscriptionsCovered'
  BY <1>3 DEF IInv, KeysUnderText, SubscriptionsCovered, Covered, TextOf, TextKeys, bot
<1>6. KeysGiven'
  BY <1>2, <1>3 DEF IInv, KeysGiven, bot, history
<1>7. CallsCovered'
  BY <1>2 DEF IInv, CallsCovered, Covered, TextOf, TextKeys, Pingable
<1>8. RefusedAreRevoked'
  BY <1>2, <1>3 DEF IInv, RefusedAreRevoked, openChat
<1> QED
  BY <1>4, <1>5, <1>6, <1>7, <1>8 DEF IInv

(* A subscription is covered by the key that was found. *)
LEMMA SubscribeKeepsIInv ==
    ASSUME IInv, NEW scope \in CommandScopes, Subscribe(scope) PROVE IInv'
<1>1. PICK key \in BestMatch(apiKeys, scope) :
        /\ key \in TextKeys
        /\ subscriptions' = Put(subscriptions, key, Subscribed(key) \cup {ScopeText(scope)})
        /\ wanted' = wanted \cup {ScopeText(scope)}
        /\ shaken' = Settled(ScopeText(scope))
        /\ UNCHANGED <<apiKeys, calls, openChat, synced>>
  BY DEF Subscribe
<1> DEFINE texts == Subscribed(key) \cup {ScopeText(scope)}
<1>2. key \in synced /\ key \in Keys /\ ScopeText(scope) \in Texts
  BY BestMatchGiven, CommandTextType
<1>3. texts \in (SUBSET Texts) \ {{}}
  BY <1>2 DEF IInv, TypeOK, IsMap, Subscribed
<1>4. \A t \in texts : Covered(key, t)
  BY <1>1, BestMatchCovers DEF IInv, SubscriptionsCovered, Subscribed
<1>5. /\ DOMAIN subscriptions' = DOMAIN subscriptions \cup {key}
      /\ \A k \in DOMAIN subscriptions' :
            subscriptions'[k] = IF k = key THEN texts ELSE subscriptions[k]
  BY <1>1 DEF Put
<1>6. IsMap(subscriptions', Keys, (SUBSET Texts) \ {{}})
  <2>1. IsMap(Put(subscriptions, key, texts), Keys, (SUBSET Texts) \ {{}})
    BY <1>2, <1>3, PutIsMap DEF IInv, TypeOK
  <2> QED
    BY <1>1, <2>1
<1> HIDE DEF texts
<1>7. TypeOK'
  BY <1>1, <1>2, <1>6 DEF IInv, TypeOK, openChat, Settled
<1>8. SubscriptionsCovered'
  BY <1>4, <1>5 DEF IInv, SubscriptionsCovered, Covered, TextOf, TextKeys
<1>9. KeysGiven'
  BY <1>1, <1>2, <1>5 DEF IInv, KeysGiven
<1>10. KeysUnderText' /\ CallsCovered' /\ RefusedAreRevoked'
  BY <1>1 DEF IInv, KeysUnderText, CallsCovered, RefusedAreRevoked, Covered, TextOf, TextKeys,
              Pingable, openChat
<1> QED
  BY <1>7, <1>8, <1>9, <1>10 DEF IInv

(* Fewer subscriptions are covered as well. *)
LEMMA FewerSubscriptions ==
    ASSUME IInv, NEW map, NEW scope, subscriptions' = Unsubscribed(map, scope)
    PROVE  /\ IsMap(subscriptions', Keys, (SUBSET Texts) \ {{}})
           /\ DOMAIN subscriptions' \subseteq synced
           /\ SubscriptionsCovered'
<1>1. /\ IsMap(subscriptions', Keys, (SUBSET Texts) \ {{}})
      /\ DOMAIN subscriptions' \subseteq DOMAIN subscriptions
      /\ \A k \in DOMAIN subscriptions' : subscriptions'[k] \subseteq subscriptions[k]
  BY UnsubscribedEntries DEF IInv, TypeOK
<1> QED
  BY <1>1 DEF IInv, KeysGiven, SubscriptionsCovered, Covered, TextOf, TextKeys

(* /unsubscribe only takes subscriptions away. *)
LEMMA UnsubscribeKeepsIInv ==
    ASSUME IInv, NEW scope \in CommandScopes, Unsubscribe(scope) PROVE IInv'
<1>1. /\ subscriptions' = Unsubscribed(apiKeys, scope)
      /\ wanted' = wanted \ {ScopeText(scope)}
      /\ shaken' = Settled(ScopeText(scope))
      /\ UNCHANGED <<apiKeys, calls, openChat, synced>>
  BY DEF Unsubscribe
<1>2. /\ IsMap(subscriptions', Keys, (SUBSET Texts) \ {{}})
      /\ DOMAIN subscriptions' \subseteq synced
      /\ SubscriptionsCovered'
  BY <1>1, FewerSubscriptions
<1>3. TypeOK'
  BY <1>1, <1>2 DEF IInv, TypeOK, openChat, Settled
<1>4. KeysGiven'
  BY <1>1, <1>2 DEF IInv, KeysGiven
<1>5. KeysUnderText' /\ CallsCovered' /\ RefusedAreRevoked'
  BY <1>1 DEF IInv, KeysUnderText, CallsCovered, RefusedAreRevoked, Covered, TextOf, TextKeys,
              Pingable, openChat
<1> QED
  BY <1>2, <1>3, <1>4, <1>5 DEF IInv

(* So does a refusal, which also gives a key up. *)
LEMMA AnswerRefusedKeepsIInv ==
    ASSUME IInv, NEW call \in calls, AnswerRefused(call) PROVE IInv'
<1> DEFINE scope == ScopeOf[call.key]
<1>1. /\ calls' = calls \ {call}
      /\ apiKeys' = Without(apiKeys, ScopeText(scope))
      /\ subscriptions' = Unsubscribed(apiKeys', scope)
      /\ shaken' = shaken \cup Rekeyed(apiKeys') \cup {ScopeText(scope)}
      /\ UNCHANGED <<openChat, synced, wanted>>
  BY DEF AnswerRefused
<1>2. /\ IsMap(subscriptions', Keys, (SUBSET Texts) \ {{}})
      /\ DOMAIN subscriptions' \subseteq synced
      /\ SubscriptionsCovered'
  BY <1>1, FewerSubscriptions
<1>3. /\ IsMap(apiKeys', Texts, Keys)
      /\ DOMAIN apiKeys' \subseteq DOMAIN apiKeys
      /\ \A t \in DOMAIN apiKeys' : apiKeys'[t] = apiKeys[t]
  BY <1>1, WithoutIsMap, WithoutEntries DEF IInv, TypeOK
<1>4. ScopeText(scope) \in Texts
  <2>1. call.key \in Keys
    BY DEF IInv, TypeOK, Calls
  <2> QED
    BY <2>1, KeyTextType DEF TextOf
<1> HIDE DEF scope
<1>5. TypeOK'
  BY <1>1, <1>2, <1>3, <1>4 DEF IInv, TypeOK, openChat, Rekeyed
<1>6. KeysGiven' /\ KeysUnderText'
  BY <1>1, <1>2, <1>3 DEF IInv, KeysGiven, KeysUnderText, TextOf
<1>7. CallsCovered' /\ RefusedAreRevoked'
  BY <1>1 DEF IInv, CallsCovered, RefusedAreRevoked, Covered, TextOf, TextKeys, Pingable, openChat
<1> QED
  BY <1>2, <1>5, <1>6, <1>7 DEF IInv

(* What OpenChat does with keys and calls *)
LEMMA KeysChangeKeepsIInv ==
    ASSUME IInv, NEW key \in Keys, Issue(key) \/ Revoke(key) PROVE IInv'
<1>1. UNCHANGED <<bot, calls, history>> /\ synced \subseteq issued
  BY DEF IInv, TypeOK, Issue, Revoke
<1>2. /\ valid' \subseteq issued' /\ issued' \subseteq Keys /\ issued \subseteq issued'
      /\ \A k \in issued : k \in valid' => k \in valid
  BY DEF IInv, TypeOK, Issue, Revoke
<1>3. TypeOK'
  BY <1>1, <1>2 DEF IInv, TypeOK, bot, history
<1>4. RefusedAreRevoked'
  BY <1>1, <1>2 DEF IInv, RefusedAreRevoked, KeysGiven
<1>5. KeysUnderText' /\ KeysGiven' /\ SubscriptionsCovered' /\ CallsCovered'
  BY <1>1 DEF IInv, KeysUnderText, KeysGiven, SubscriptionsCovered, CallsCovered, Covered, TextOf,
              TextKeys, Pingable, bot, history
<1> QED
  BY <1>3, <1>4, <1>5 DEF IInv

(* A new key is held for the text of its own scope. *)
LEMMA SyncApiKeyKeepsIInv == ASSUME IInv, NEW key \in Keys, SyncApiKey(key) PROVE IInv'
<1>1. /\ apiKeys' = Put(apiKeys, TextOf(key), key)
      /\ synced' = synced \cup {key} /\ key \in issued
      /\ shaken' = shaken \cup Rekeyed(apiKeys')
      /\ UNCHANGED <<subscriptions, calls, openChat, wanted>>
  BY DEF SyncApiKey, IInv, TypeOK
<1>2. IsMap(apiKeys', Texts, Keys)
  BY <1>1, KeyTextType, PutIsMap DEF IInv, TypeOK
<1>3. \A t \in DOMAIN apiKeys' :
        \/ t = TextOf(key) /\ apiKeys'[t] = key
        \/ t \in DOMAIN apiKeys /\ apiKeys'[t] = apiKeys[t]
  BY <1>1 DEF Put
<1>4. TypeOK'
  BY <1>1, <1>2 DEF IInv, TypeOK, openChat, Rekeyed
<1>5. KeysUnderText' /\ KeysGiven'
  BY <1>1, <1>3 DEF IInv, KeysUnderText, KeysGiven, TextOf
<1>6. SubscriptionsCovered' /\ CallsCovered' /\ RefusedAreRevoked'
  BY <1>1 DEF IInv, SubscriptionsCovered, CallsCovered, RefusedAreRevoked, Covered, TextOf,
              TextKeys, Pingable, openChat
<1> QED
  BY <1>4, <1>5, <1>6 DEF IInv

(* A call is refused only when its key is no longer valid. *)
LEMMA ProcessKeepsIInv ==
    ASSUME IInv, NEW call \in calls, Process(call) \/ AnswerIgnored(call) PROVE IInv'
<1>1. UNCHANGED <<bot, openChat, history>>
  BY DEF Process, AnswerIgnored
<1>2. \A c \in calls' :
        \/ c \in calls
        \/ /\ c \in Calls /\ c.key = call.key /\ c.scope = call.scope
           /\ c.reply = "not_authorized" => c.key \notin valid
  <2>1. call \in Calls
    BY DEF IInv, TypeOK
  <2>2. \A r \in Replies : [call EXCEPT !.reply = r] \in Calls
    BY <2>1 DEF Calls
  <2> QED
    BY <2>1, <2>2 DEF Process, AnswerIgnored, Answered, Calls, Replies
<1>3. TypeOK'
  BY <1>1, <1>2 DEF IInv, TypeOK, bot, openChat, history
<1>4. CallsCovered'
  BY <1>2 DEF IInv, CallsCovered, Covered, TextOf, TextKeys, Pingable
<1>5. KeysGiven' /\ RefusedAreRevoked'
  BY <1>1, <1>2 DEF IInv, KeysGiven, RefusedAreRevoked, bot, openChat, history
<1>6. KeysUnderText' /\ SubscriptionsCovered'
  BY <1>1 DEF IInv, KeysUnderText, SubscriptionsCovered, Covered, TextOf, TextKeys, bot
<1> QED
  BY <1>3, <1>4, <1>5, <1>6 DEF IInv

(* Every step keeps the invariant. *)
LEMMA IInvNext == IInv /\ [Next]_vars => IInv'
<1> SUFFICES ASSUME IInv, [Next]_vars PROVE IInv'
  OBVIOUS
<1>1. ASSUME NEW key \in Keys, Issue(key) \/ Revoke(key) PROVE IInv'
  BY <1>1, KeysChangeKeepsIInv
<1>2. ASSUME NEW key \in Keys, SyncApiKey(key) PROVE IInv'
  BY <1>2, SyncApiKeyKeepsIInv
<1>3. ASSUME NEW scope \in CommandScopes, Subscribe(scope) PROVE IInv'
  BY <1>3, SubscribeKeepsIInv
<1>4. ASSUME NEW scope \in CommandScopes, Unsubscribe(scope) PROVE IInv'
  BY <1>4, UnsubscribeKeepsIInv
<1>5. CASE Tick
  BY <1>5, TickKeepsIInv
<1>6. ASSUME NEW call \in calls, Process(call) \/ AnswerIgnored(call) PROVE IInv'
  BY <1>6, ProcessKeepsIInv
<1>7. ASSUME NEW call \in calls, AnswerRefused(call) PROVE IInv'
  BY <1>7, AnswerRefusedKeepsIInv
<1>8. CASE UNCHANGED vars
  BY <1>8 DEF IInv, TypeOK, KeysUnderText, KeysGiven, SubscriptionsCovered, CallsCovered,
              RefusedAreRevoked, Covered, TextOf, TextKeys, Pingable, vars, bot, openChat, history
<1> QED
  BY <1>1, <1>2, <1>3, <1>4, <1>5, <1>6, <1>7, <1>8 DEF Next

(* The invariant is inductive: types, keys under their own texts, calls    *)
(* and subscriptions that their keys cover, refusals of revoked keys only. *)
THEOREM IInvHolds == Spec => []IInv
<1>1. Init => IInv
  BY IInvInit
<1>2. IInv /\ [Next]_vars => IInv'
  BY IInvNext
<1> QED
  BY <1>1, <1>2, PTL DEF Spec

(* Every value stays in the range its users expect: keys are held and used *)
(* for texts of scopes, and only keys that were issued are valid.          *)
THEOREM TypeCorrect == Spec => []TypeOK
<1>1. IInv => TypeOK
  BY DEF IInv
<1> QED
  BY <1>1, IInvHolds, PTL

-----------------------------------------------------------------------------
(* Pings *)

(* What a covered key is used for goes to the chat that subscribed.        *)
LEMMA CoveredReaches == IInv => PingsReachSubscriber
<1> SUFFICES ASSUME IInv, NEW c \in calls
             PROVE  /\ c.key \in TextKeys
                    /\ c.scope.kind = "chat"
                    /\ Target(c.key, FromString(c.scope)) = c.scope.chat
  BY DEF PingsReachSubscriber
<1>1. /\ Covered(c.key, c.scope) /\ Pingable(c.key, FromString(c.scope))
      /\ c.key \in Keys /\ c.scope \in Texts
  BY DEF IInv, CallsCovered, TypeOK, Calls
<1>2. CASE ScopeOf[c.key].kind = "chat"
  <2>1. c.scope = ScopeText(ScopeOf[c.key])
    BY <1>1, <1>2 DEF Covered, TextOf
  <2>2. c.scope.kind = "chat" /\ c.scope.chat = ScopeOf[c.key].chat
    BY <1>2, <2>1 DEF ScopeText
  <2> QED
    BY <1>1, <1>2, <2>2 DEF Target, Covered
<1>3. CASE ScopeOf[c.key].kind # "chat"
  <2>1. FromString(c.scope).kind = "chat"
    BY <1>1, <1>3 DEF Pingable, IsParentOf, IsChannelScope
  <2> QED
    BY <1>1, <1>3, <2>1, TextRoundTrip DEF Target, Covered
<1> QED
  BY <1>2, <1>3

(* Every ping goes to the chat that subscribed, with a key that grants it. *)
THEOREM PingsReach == Spec => []PingsReachSubscriber
BY IInvHolds, CoveredReaches, PTL

-----------------------------------------------------------------------------
(* Keys *)

(* No step loses a valid key that has no rival. *)
LEMMA ValidKeyNext == IInv /\ ValidKeyIsKept /\ [Next]_vars => ValidKeyIsKept'
<1> SUFFICES ASSUME IInv, ValidKeyIsKept, [Next]_vars,
                    NEW k \in valid' \cap synced'
             PROVE  \/ \E j \in issued' \ {k} : TextOf(j) = TextOf(k)
                    \/ TextOf(k) \in DOMAIN apiKeys' /\ apiKeys'[TextOf(k)] = k
  BY DEF ValidKeyIsKept, TextOf
<1> DEFINE Kept == \/ \E j \in issued' \ {k} : TextOf(j) = TextOf(k)
                   \/ TextOf(k) \in DOMAIN apiKeys' /\ apiKeys'[TextOf(k)] = k
<1>1. ASSUME NEW key \in Keys, Issue(key) \/ Revoke(key) PROVE Kept
  BY <1>1 DEF Issue, Revoke, ValidKeyIsKept, IInv, TypeOK, bot, history
<1>2. ASSUME NEW key \in Keys, SyncApiKey(key) PROVE Kept
  <2>1. /\ apiKeys' = Put(apiKeys, TextOf(key), key)
        /\ synced' = synced \cup {key} /\ key \in issued
        /\ UNCHANGED <<issued, valid>>
    BY <1>2 DEF SyncApiKey, IInv, TypeOK, openChat
  <2>2. /\ DOMAIN apiKeys' = DOMAIN apiKeys \cup {TextOf(key)}
        /\ apiKeys'[TextOf(key)] = key
        /\ \A t \in DOMAIN apiKeys : t # TextOf(key) => apiKeys'[t] = apiKeys[t]
    BY <2>1 DEF Put
  <2>3. CASE TextOf(k) = TextOf(key)
    BY <2>1, <2>2, <2>3
  <2>4. CASE TextOf(k) # TextOf(key)
    BY <2>1, <2>2, <2>4 DEF ValidKeyIsKept
  <2> QED
    BY <2>3, <2>4
<1>3. ASSUME NEW call \in calls, AnswerRefused(call) PROVE Kept
  <2>1. /\ apiKeys' = Without(apiKeys, TextOf(call.key))
        /\ UNCHANGED <<issued, valid, synced>>
    BY <1>3 DEF AnswerRefused, openChat, TextOf
  <2>2. call.key \in issued /\ call.key # k
    BY <1>3, <2>1 DEF AnswerRefused, IInv, KeysGiven, RefusedAreRevoked, TypeOK
  <2>3. \A t \in DOMAIN apiKeys :
            t # TextOf(call.key) => t \in DOMAIN apiKeys' /\ apiKeys'[t] = apiKeys[t]
    BY <2>1 DEF Without, Restrict
  <2>4. CASE TextOf(k) = TextOf(call.key)
    BY <2>1, <2>2, <2>4
  <2>5. CASE TextOf(k) # TextOf(call.key)
    BY <2>1, <2>3, <2>5 DEF ValidKeyIsKept
  <2> QED
    BY <2>4, <2>5
<1>4. CASE UNCHANGED <<apiKeys, issued, valid, synced>>
  BY <1>4 DEF ValidKeyIsKept
<1>5. ASSUME NEW scope \in CommandScopes, Subscribe(scope) \/ Unsubscribe(scope)
      PROVE  UNCHANGED <<apiKeys, issued, valid, synced>>
  BY <1>5 DEF Subscribe, Unsubscribe, openChat
<1>6. ASSUME NEW call \in calls, Process(call) \/ AnswerIgnored(call)
      PROVE  UNCHANGED <<apiKeys, issued, valid, synced>>
  BY <1>6 DEF Process, AnswerIgnored, bot, openChat, history
<1>7. Tick \/ UNCHANGED vars => UNCHANGED <<apiKeys, issued, valid, synced>>
  BY DEF Tick, vars, bot, openChat, history
<1> QED
  BY <1>1, <1>2, <1>3, <1>4, <1>5, <1>6, <1>7 DEF Next

(* The bot keeps a valid key it was given, whatever answers arrive late.   *)
THEOREM ValidKeyKept == Spec => []ValidKeyIsKept
<1>1. Init => ValidKeyIsKept
  BY DEF Init, ValidKeyIsKept
<1>2. IInv /\ ValidKeyIsKept /\ [Next]_vars => ValidKeyIsKept'
  BY ValidKeyNext
<1> QED
  BY <1>1, <1>2, IInvHolds, PTL DEF Spec

-----------------------------------------------------------------------------
(* Subscriptions *)

Holders(t) == {k \in Keys : t \in Subscribed(k)}

(* unsubscribe takes the text from the key found for it, and no other.     *)
LEMMA UnsubscribedTexts ==
    ASSUME NEW map, NEW scope, subscriptions' = Unsubscribed(map, scope), NEW k
    PROVE  Subscribed(k)' = IF k \in BestMatch(map, scope)
                            THEN Subscribed(k) \ {ScopeText(scope)}
                            ELSE Subscribed(k)
<1>1. CASE BestMatch(map, scope) = {}
  BY <1>1 DEF Unsubscribed, Subscribed
<1>2. CASE BestMatch(map, scope) # {}
  <2> DEFINE key == CHOOSE j \in BestMatch(map, scope) : TRUE
  <2>1. key \in BestMatch(map, scope) /\ subscriptions' = Removed(key, ScopeText(scope))
    BY <1>2 DEF Unsubscribed
  <2>2. k \in BestMatch(map, scope) <=> k = key
    BY <2>1, BestMatchUnique
  <2> HIDE DEF key
  <2>3. CASE Subscribed(key) \ {ScopeText(scope)} = {}
    <3>1. subscriptions' = Without(subscriptions, key)
      BY <2>1, <2>3 DEF Removed
    <3>2. /\ DOMAIN subscriptions' = DOMAIN subscriptions \ {key}
          /\ \A j \in DOMAIN subscriptions' : subscriptions'[j] = subscriptions[j]
      BY <3>1 DEF Without, Restrict
    <3> QED
      BY <2>2, <2>3, <3>2 DEF Subscribed
  <2>4. CASE Subscribed(key) \ {ScopeText(scope)} # {}
    <3>1. /\ subscriptions' = Put(subscriptions, key, subscriptions[key] \ {ScopeText(scope)})
          /\ key \in DOMAIN subscriptions
      BY <2>1, <2>4 DEF Removed, Subscribed
    <3>2. /\ DOMAIN subscriptions' = DOMAIN subscriptions
          /\ \A j \in DOMAIN subscriptions' :
                subscriptions'[j] = IF j = key THEN subscriptions[key] \ {ScopeText(scope)}
                                    ELSE subscriptions[j]
      BY <3>1 DEF Put
    <3> QED
      BY <2>2, <3>1, <3>2 DEF Subscribed
  <2> QED
    BY <2>3, <2>4
<1> QED
  BY <1>1, <1>2

(* What is held for a text stays, unless the text is shaken.               *)
LEMMA SameMatch ==
    ASSUME NEW t \in Texts, t \notin Rekeyed(apiKeys')
    PROVE  BestMatch(apiKeys', FromString(t)) = BestMatch(apiKeys, FromString(t))
BY DEF Rekeyed

(* After /subscribe the scope is subscribed under the key found for it.    *)
LEMMA SubscribeHolds ==
    ASSUME IInv, SubscriptionsHold, NEW scope \in CommandScopes, Subscribe(scope)
    PROVE  SubscriptionsHold'
<1> SUFFICES ASSUME NEW t \in Texts, t \notin shaken'
             PROVE  Holders(t)' = IF t \in wanted' THEN BestMatch(apiKeys', FromString(t)) ELSE {}
  BY DEF SubscriptionsHold, Holders
<1>1. PICK key \in BestMatch(apiKeys, scope) :
        /\ subscriptions' = Put(subscriptions, key, Subscribed(key) \cup {ScopeText(scope)})
        /\ wanted' = wanted \cup {ScopeText(scope)}
        /\ shaken' = Settled(ScopeText(scope))
        /\ apiKeys' = apiKeys
  BY DEF Subscribe
<1>2. \A k : Subscribed(k)' = IF k = key THEN Subscribed(key) \cup {ScopeText(scope)}
                              ELSE Subscribed(k)
  BY <1>1 DEF Put, Subscribed
<1>3. key \in Keys
  BY BestMatchGiven
<1>4. CASE t = ScopeText(scope)
  <2>1. BestMatch(apiKeys, FromString(t)) = {key}
    BY <1>4, BestMatchOfText, BestMatchUnique
  <2>2. Holders(t) \subseteq {key}
    BY <1>1, <1>4, <2>1 DEF Settled, Holders, SubscriptionsHold
  <2>3. Holders(t)' = {key}
    BY <1>2, <1>3, <1>4, <2>2 DEF Holders
  <2> QED
    BY <1>1, <1>4, <2>1, <2>3
<1>5. CASE t # ScopeText(scope)
  <2>1. Holders(t)' = Holders(t)
    BY <1>2, <1>5 DEF Holders
  <2>2. t \notin shaken
    BY <1>1, <1>5 DEF Settled
  <2> QED
    BY <1>1, <1>5, <2>1, <2>2 DEF SubscriptionsHold, Holders
<1> QED
  BY <1>4, <1>5

(* After /unsubscribe it is subscribed under no key, unless it is shaken.  *)
LEMMA UnsubscribeHolds ==
    ASSUME IInv, SubscriptionsHold, NEW scope \in CommandScopes, Unsubscribe(scope)
    PROVE  SubscriptionsHold'
<1> SUFFICES ASSUME NEW t \in Texts, t \notin shaken'
             PROVE  Holders(t)' = IF t \in wanted' THEN BestMatch(apiKeys', FromString(t)) ELSE {}
  BY DEF SubscriptionsHold, Holders
<1>1. /\ subscriptions' = Unsubscribed(apiKeys, scope)
      /\ wanted' = wanted \ {ScopeText(scope)}
      /\ shaken' = Settled(ScopeText(scope))
      /\ apiKeys' = apiKeys
  BY DEF Unsubscribe
<1>2. \A k : Subscribed(k)' = IF k \in BestMatch(apiKeys, scope)
                              THEN Subscribed(k) \ {ScopeText(scope)} ELSE Subscribed(k)
  BY <1>1, UnsubscribedTexts
<1>3. CASE t = ScopeText(scope)
  <2>1. BestMatch(apiKeys, FromString(t)) = BestMatch(apiKeys, scope)
    BY <1>3, BestMatchOfText
  <2>2. Holders(t) \subseteq BestMatch(apiKeys, scope)
    BY <1>1, <1>3, <2>1 DEF Settled, Holders, SubscriptionsHold
  <2>3. Holders(t)' = {}
    BY <1>2, <1>3, <2>2 DEF Holders
  <2> QED
    BY <1>1, <1>3, <2>3
<1>4. CASE t # ScopeText(scope)
  <2>1. Holders(t)' = Holders(t)
    BY <1>2, <1>4 DEF Holders
  <2>2. t \notin shaken
    BY <1>1, <1>4 DEF Settled
  <2> QED
    BY <1>1, <1>4, <2>1, <2>2 DEF SubscriptionsHold, Holders
<1> QED
  BY <1>3, <1>4

(* Every step keeps what the last commands have made. *)
LEMMA SubscriptionsHoldNext == IInv /\ SubscriptionsHold /\ [Next]_vars => SubscriptionsHold'
<1> SUFFICES ASSUME IInv, SubscriptionsHold, [Next]_vars PROVE SubscriptionsHold'
  OBVIOUS
<1>1. ASSUME NEW scope \in CommandScopes, Subscribe(scope) PROVE SubscriptionsHold'
  BY <1>1, SubscribeHolds
<1>2. ASSUME NEW scope \in CommandScopes, Unsubscribe(scope) PROVE SubscriptionsHold'
  BY <1>2, UnsubscribeHolds
<1>3. ASSUME NEW key \in Keys, SyncApiKey(key) PROVE SubscriptionsHold'
  <2> SUFFICES ASSUME NEW t \in Texts, t \notin shaken'
               PROVE  Holders(t)' = IF t \in wanted' THEN BestMatch(apiKeys', FromString(t)) ELSE {}
    BY DEF SubscriptionsHold, Holders
  <2>1. UNCHANGED <<subscriptions, wanted>> /\ t \notin shaken /\ t \notin Rekeyed(apiKeys')
    BY <1>3 DEF SyncApiKey
  <2>2. Holders(t)' = Holders(t)
    BY <2>1 DEF Holders, Subscribed
  <2> QED
    BY <2>1, <2>2, SameMatch DEF SubscriptionsHold, Holders
<1>4. ASSUME NEW call \in calls, AnswerRefused(call) PROVE SubscriptionsHold'
  <2> SUFFICES ASSUME NEW t \in Texts, t \notin shaken'
               PROVE  Holders(t)' = IF t \in wanted' THEN BestMatch(apiKeys', FromString(t)) ELSE {}
    BY DEF SubscriptionsHold, Holders
  <2> DEFINE scope == ScopeOf[call.key]
  <2>1. /\ subscriptions' = Unsubscribed(apiKeys', scope) /\ wanted' = wanted
        /\ t \notin shaken /\ t \notin Rekeyed(apiKeys') /\ t # ScopeText(scope)
    BY <1>4 DEF AnswerRefused
  <2> HIDE DEF scope
  <2>2. \A k : Subscribed(k)' = IF k \in BestMatch(apiKeys', scope)
                                THEN Subscribed(k) \ {ScopeText(scope)} ELSE Subscribed(k)
    BY <2>1, UnsubscribedTexts
  <2>3. Holders(t)' = Holders(t)
    BY <2>1, <2>2 DEF Holders
  <2> QED
    BY <2>1, <2>3, SameMatch DEF SubscriptionsHold, Holders
<1>5. CASE UNCHANGED <<apiKeys, subscriptions, wanted, shaken>>
  BY <1>5 DEF SubscriptionsHold, Subscribed
<1>6. ASSUME NEW key \in Keys, Issue(key) \/ Revoke(key)
      PROVE  UNCHANGED <<apiKeys, subscriptions, wanted, shaken>>
  BY <1>6 DEF Issue, Revoke, bot, history
<1>7. ASSUME NEW call \in calls, Process(call) \/ AnswerIgnored(call)
      PROVE  UNCHANGED <<apiKeys, subscriptions, wanted, shaken>>
  BY <1>7 DEF Process, AnswerIgnored, bot, history
<1>8. Tick \/ UNCHANGED vars => UNCHANGED <<apiKeys, subscriptions, wanted, shaken>>
  BY DEF Tick, vars, bot, history
<1> QED
  BY <1>1, <1>2, <1>3, <1>4, <1>5, <1>6, <1>7, <1>8 DEF Next

(* The last command on a scope holds, whatever keys and refusals come in   *)
(* between for other scopes.                                               *)
THEOREM SubscriptionsHeld == Spec => []SubscriptionsHold
<1>1. Init => SubscriptionsHold
  BY DEF Init, SubscriptionsHold, Subscribed, EmptyMap
<1>2. IInv /\ SubscriptionsHold /\ [Next]_vars => SubscriptionsHold'
  BY SubscriptionsHoldNext
<1> QED
  BY <1>1, <1>2, IInvHolds, PTL DEF Spec
=============================================================================
