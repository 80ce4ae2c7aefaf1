-------------------------- MODULE PingSubscriptions --------------------------
(***************************************************************************)
(* The ping example of the TypeScript SDK (handlers/ping.ts and the three  *)
(* commands that drive it).  Every five seconds it sends a message to each *)
(* subscribed chat, with the API key that was found for the chat when it   *)
(* was subscribed.  Nothing waits for the answers: those of several ticks  *)
(* arrive in any order among ticks and commands.                           *)
(*                                                                         *)
(* OpenChat issues the keys, one per scope at a time, and revokes them.    *)
(***************************************************************************)
EXTENDS ActionScopes, BotPermissions

CONSTANTS
    Keys,
    ScopeOf,       \* the scope in a key's text
    GrantedTo      \* the permissions in a key's text

ASSUME PingAssumption ==
    /\ ScopeOf \in [Keys -> KeyScopes]
    /\ GrantedTo \in [Keys -> Granted]

VARIABLES
    apiKeys,        \* #apiKeys: the key held for each text of a scope
    subscriptions,  \* #subscriptions: the texts of scopes under each key
    calls,          \* the calls of sendMessage that are in flight
    issued, valid,  \* OpenChat: the keys ever issued, and those not revoked
    synced,         \* history: the keys that were given to the bot
    wanted,         \* history: the scopes whose last command subscribed them
    shaken          \* history: the scopes whose key may have changed since

bot == <<apiKeys, subscriptions>>
openChat == <<issued, valid>>
history == <<synced, wanted, shaken>>
vars == <<bot, calls, openChat, history>>

Replies == {"none", "not_authorized", "other"}
Calls == [key : Keys, scope : Texts, reply : Replies]

TypeOK ==
    /\ IsMap(apiKeys, Texts, Keys)
    /\ IsMap(subscriptions, Keys, (SUBSET Texts) \ {{}})
    /\ calls \subseteq Calls
    /\ valid \subseteq issued /\ issued \subseteq Keys
    /\ synced \subseteq issued
    /\ wanted \subseteq Texts
    /\ shaken \subseteq Texts

Init ==
    /\ apiKeys = EmptyMap
    /\ subscriptions = EmptyMap
    /\ calls = {}
    /\ issued = {} /\ valid = {}
    /\ synced = {} /\ wanted = {} /\ shaken = {}

-----------------------------------------------------------------------------
(* Keys *)

TextOf(key) == ScopeText(ScopeOf[key])

(* The keys for which hasMessagePermission("Text") is true *)
TextKeys == {k \in Keys : HasMessagePermission(EncodePermissions(GrantedTo[k]), "Text")}

Subscribed(key) == IF key \in DOMAIN subscriptions THEN subscriptions[key] ELSE {}

(* A key is generated, and takes the place of the one of its scope. *)
Issue(key) ==
    /\ key \notin issued
    /\ issued' = issued \cup {key}
    /\ valid' = {k \in valid : TextOf(k) # TextOf(key)} \cup {key}
    /\ UNCHANGED <<bot, calls, history>>

Revoke(key) ==
    /\ key \in valid
    /\ valid' = valid \ {key}
    /\ UNCHANGED <<bot, calls, issued, history>>

(* The scopes for which another key, or none, would now be found. *)
Rekeyed(map) ==
    {t \in Texts : BestMatch(map, FromString(t)) # BestMatch(apiKeys, FromString(t))}

(* /sync_api_key, which OpenChat calls with the key it has generated *)
SyncApiKey(key) ==
    /\ key \in valid
    /\ apiKeys' = Put(apiKeys, TextOf(key), key)
    /\ synced' = synced \cup {key}
    /\ shaken' = shaken \cup Rekeyed(apiKeys')
    /\ UNCHANGED <<subscriptions, calls, openChat, wanted>>

-----------------------------------------------------------------------------
(* Subscriptions *)

(* A command repairs a scope, unless it is subscribed under another key.   *)
Settled(text) ==
    IF \E k \in Keys : text \in Subscribed(k) /\ k \notin BestMatch(apiKeys, FromString(text))
    THEN shaken
    ELSE shaken \ {text}

(* /subscribe *)
Subscribe(scope) ==
    \E key \in BestMatch(apiKeys, scope) :
        /\ key \in TextKeys
        /\ subscriptions' =
               Put(subscriptions, key, Subscribed(key) \cup {ScopeText(scope)})
        /\ wanted' = wanted \cup {ScopeText(scope)}
        /\ shaken' = Settled(ScopeText(scope))
        /\ UNCHANGED <<apiKeys, calls, openChat, synced>>

(* Fault: a key without subscriptions is kept. *)
FaultyRemoved(key, text) ==
    IF key \in DOMAIN subscriptions
    THEN Put(subscriptions, key, subscriptions[key] \ {text})
    ELSE subscriptions

(* What unsubscribe leaves when it has found the key *)
Removed(key, text) ==
    IF Subscribed(key) \ {text} = {}
    THEN Without(subscriptions, key)
    ELSE Put(subscriptions, key, Subscribed(key) \ {text})

(* Fault: only a key of the very scope is looked at. *)
FaultyUnsubscribed(map, scope) ==
    LET keys == {k \in BestMatch(map, scope) : TextOf(k) = ScopeText(scope)}
    IN  IF keys = {} THEN subscriptions
        ELSE Removed(CHOOSE k \in keys : TRUE, ScopeText(scope))

(* unsubscribe, with the keys in map *)
Unsubscribed(map, scope) ==
    LET keys == BestMatch(map, scope)
    IN  IF keys = {} THEN subscriptions
        ELSE Removed(CHOOSE k \in keys : TRUE, ScopeText(scope))

(* /unsubscribe *)
Unsubscribe(scope) ==
    /\ subscriptions' = Unsubscribed(apiKeys, scope)
    /\ wanted' = wanted \ {ScopeText(scope)}
    /\ shaken' = Settled(ScopeText(scope))
    /\ UNCHANGED <<apiKeys, calls, openChat, synced>>

-----------------------------------------------------------------------------
(* Pings *)

(* Fault: a community key is used for its own scope only. *)
FaultyPingableOwn(key, scope) == ScopeOf[key].kind = "chat"

(* Fault: a community key is used for every scope. *)
FaultyPingableAny(key, scope) == TRUE

(* A key of a community sends to the channels of that community only. *)
Pingable(key, scope) == ScopeOf[key].kind = "chat" \/ IsParentOf(ScopeOf[key], scope)

(* The chat that the message goes to: the one of the token, unless this is *)
(* a community's.                                                          *)
Target(key, scope) ==
    IF ScopeOf[key].kind = "chat" THEN ScopeOf[key].chat ELSE scope.chat

InFlight(key, text) == \E c \in calls : c.key = key /\ c.scope = text

(* The interval fires: #pingScope for every subscription.  sendMessage     *)
(* makes no call with a key that does not grant it.  Bound: a subscription *)
(* whose call is still in flight is left out.                              *)
Tick ==
    /\ calls' = calls \cup
           UNION {{[key |-> k, scope |-> t, reply |-> "none"] :
                      t \in {u \in Subscribed(k) : Pingable(k, FromString(u)) /\ ~InFlight(k, u)}} :
                  k \in TextKeys}
    /\ UNCHANGED <<bot, openChat, history>>

Answered(call, reply) == (calls \ {call}) \cup {[call EXCEPT !.reply = reply]}

(* OpenChat handles the call, or the call fails.  A valid key is never     *)
(* refused; a revoked one may also be answered "failed_authentication",    *)
(* which ends like a success or an error.                                  *)
Process(call) ==
    /\ call.reply = "none"
    /\ \/ call.key \notin valid /\ calls' = Answered(call, "not_authorized")
       \/ calls' = Answered(call, "other")
    /\ UNCHANGED <<bot, openChat, history>>

(* Any answer but a refusal is ignored. *)
AnswerIgnored(call) ==
    /\ call.reply = "other"
    /\ calls' = calls \ {call}
    /\ UNCHANGED <<bot, openChat, history>>

(* Fault: every failure is taken for a refusal. *)
FaultyAnswerRefused(call) ==
    LET scope == ScopeOf[call.key]
    IN  /\ call.reply \in {"not_authorized", "other"}
        /\ calls' = calls \ {call}
        /\ apiKeys' = Without(apiKeys, ScopeText(scope))
        /\ subscriptions' = Unsubscribed(apiKeys', scope)
        /\ shaken' = shaken \cup Rekeyed(apiKeys') \cup {ScopeText(scope)}
        /\ UNCHANGED <<openChat, synced, wanted>>

(* "not_authorized": the key held for the scope of the refused key, by now *)
(* maybe another one, is deleted, and then the scope is unsubscribed: from *)
(* the community's key, if there is one, for the chat's is gone.           *)
AnswerRefused(call) ==
    LET scope == ScopeOf[call.key]
    IN  /\ call.reply = "not_authorized"
        /\ calls' = calls \ {call}
        /\ apiKeys' = Without(apiKeys, ScopeText(scope))
        /\ subscriptions' = Unsubscribed(apiKeys', scope)
        /\ shaken' = shaken \cup Rekeyed(apiKeys') \cup {ScopeText(scope)}
        /\ UNCHANGED <<openChat, synced, wanted>>

-----------------------------------------------------------------------------
Next ==
    \/ \E key \in Keys : Issue(key)
    \/ \E key \in Keys : Revoke(key)
    \/ \E key \in Keys : SyncApiKey(key)
    \/ \E scope \in CommandScopes : Subscribe(scope)
    \/ \E scope \in CommandScopes : Unsubscribe(scope)
    \/ Tick
    \/ \E call \in calls : Process(call)
    \/ \E call \in calls : AnswerIgnored(call)
    \/ \E call \in calls : AnswerRefused(call)

Spec == Init /\ [][Next]_vars

(* The interval is never cleared, and every call ends. *)
FairSpec ==
    /\ Spec
    /\ WF_vars(Tick)
    /\ WF_vars(\E call \in calls : Process(call) \/ AnswerIgnored(call) \/ AnswerRefused(call))

-----------------------------------------------------------------------------
(* Properties *)

(* A ping reaches the very chat that subscribed, whether the key that was  *)
(* found for it then is its own or its community's, and whatever keys have *)
(* come and gone since; and only a key that grants text messages is used.  *)
PingsReachSubscriber ==
    \A c \in calls :
        /\ c.key \in TextKeys
        /\ c.scope.kind = "chat"
        /\ Target(c.key, FromString(c.scope)) = c.scope.chat

(* The last command on a scope holds: it is subscribed under the key found *)
(* for it, once, or under none.  A change of the key, or a refusal, is the *)
(* only thing that may come in between.                                    *)
SubscriptionsHold ==
    \A t \in Texts \ shaken :
        {k \in Keys : t \in Subscribed(k)} =
            IF t \in wanted THEN BestMatch(apiKeys, FromString(t)) ELSE {}

(* The bot keeps a valid key it was given, whatever answers arrive late,   *)
(* unless another key was issued for the same scope at some time.          *)
ValidKeyIsKept ==
    \A k \in valid \cap synced :
        \/ \E j \in issued \ {k} : TextOf(j) = TextOf(k)
        \/ TextOf(k) \in DOMAIN apiKeys /\ apiKeys[TextOf(k)] = k

(* A subscribed chat is pinged again and again until it is unsubscribed,   *)
(* however slowly OpenChat answers and whatever it answers.                *)
SubscribedIsPinged ==
    \A k \in Keys, t \in Texts :
        (t.kind = "chat" /\ t \in Subscribed(k))
            ~> (t \notin Subscribed(k) \/ InFlight(k, t))

(* ping.ts says of a refusal "this key is probably revoked so let's remove *)
(* the subscription": the scope is no longer subscribed under that key.    *)
RefusedIsUnsubscribed ==
    [][\A c \in calls : c.reply = "not_authorized" /\ c \notin calls'
           => c.scope \notin Subscribed(c.key)']_vars
=============================================================================
