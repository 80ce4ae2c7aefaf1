--------------------------- MODULE MCBotCommands ---------------------------
(***************************************************************************)
(* An instance of BotCommands for TLC: a request of any kind, and another  *)
(* one beside it.                                                          *)
(***************************************************************************)
EXTENDS BotCommands

CONSTANTS p1, r1, r2

MCRuns == {r1, r2}

LOCAL ask(job, token, complete, scope, granted) ==
    [job |-> job, token |-> token, complete |-> complete, scope |-> scope, granted |-> granted]

LOCAL asked(jobs, token, complete, scope) ==
    {ask(job, token, complete, scope, Declared(job)) : job \in jobs}

(* API keys with and without the permission that a text needs *)
LOCAL keys == SUBSET {"Text", "Image"}

LOCAL allRequests ==
    asked(Commands \cup Actions \cup {"unknown"}, "valid", TRUE, "chat")
    \cup asked(Searches \cup Thinkers \cup Immediate \cup {"delete_channel"}, "valid", FALSE, "chat")
    \cup asked({"file", "image", "imagine", "chat_details", "chat_events", "song"},
               "valid", TRUE, "community")
    \cup {ask("execute_action", "valid", TRUE, "chat", granted) : granted \in keys}
    \cup asked({"song"}, "none", TRUE, "chat") \cup asked({"song"}, "invalid", TRUE, "chat")

MCRequests ==
    [r \in MCRuns |-> IF r = r1 THEN allRequests ELSE asked({"news"}, "valid", TRUE, "chat")]
=============================================================================
