---------------------------- MODULE MappingProofs ----------------------------
(***************************************************************************)
(* What the mappers of the TypeScript SDK make of any value that satisfies *)
(* its schema: arguments that satisfy theirs, answers of the kinds that    *)
(* the SDK declares, and what was filled in when it is read back.          *)
(***************************************************************************)
EXTENDS BotClient, MapTheorems, FiniteSetTheorems, WellFoundedInduction

-----------------------------------------------------------------------------
(* The arguments of requests *)

(* The operations of a request *)
LEMMA RequestOps ==
    ASSUME NEW request \in Requests
    PROVE  /\ request.op \in Queries \cup Updates
           /\ request.op = "sendMessage" => request.message \in MessageDraft
           /\ request.op = "createChannel" => request.channel \in ChannelDraft
<1>1. request \in ClientRequests
  BY BotClientAssumption
<1> QED
  BY <1>1 DEF ClientRequests, Queries, Updates

(* What is made of the elements of a sequence, one by one, is a sequence.  *)
LEMMA SeqOfParts ==
    ASSUME NEW S, NEW T, NEW seq \in Seq(S), NEW f, f = [i \in DOMAIN seq |-> f[i]],
           \A i \in DOMAIN seq : f[i] \in T
    PROVE  f \in Seq(T) /\ Len(f) = Len(seq)
<1>1. DOMAIN seq = 1 .. Len(seq) /\ Len(seq) \in Nat
  OBVIOUS
<1>2. f \in [1 .. Len(seq) -> T]
  BY <1>1
<1> QED
  BY <1>1, <1>2

(* What is built of parts of which none throws, is these parts.            *)
LEMMA BuiltOf ==
    ASSUME NEW f, Built(f) # Thrown
    PROVE  Built(f) = f /\ \A x \in DOMAIN f : f[x] # Thrown
BY DEF Built

LEMMA TokenParses == ApiAuthToken(Auth) \in Wire!AuthToken
<1>1. Auth.kind \in {"api_key", "command_jwt"} /\ Auth.token \in STRING
  BY BotClientAssumption
<1> QED
  BY <1>1 DEF ApiAuthToken, Wire!AuthToken, Wire!Tagged

LEMMA RoleParses ==
    ASSUME NEW role \in Domain!PermissionRole
    PROVE  ApiPermissionRole(role) \in Wire!GroupPermissionRole
BY DEF Domain!PermissionRole, ApiPermissionRole, Wire!GroupPermissionRole

LEMMA OptionalRoleParses ==
    ASSUME NEW role \in Domain!Opt(Domain!PermissionRole)
    PROVE  Optional(role, ApiPermissionRole) \in Wire!Opt(Wire!GroupPermissionRole)
BY RoleParses DEF Domain!Opt, Optional, Wire!Opt

LEMMA CustomParses ==
    ASSUME NEW custom \in Seq(Domain!CustomPermission)
    PROVE  Mapped(custom,
                  LAMBDA p : [subtype |-> p.subtype, role |-> ApiPermissionRole(p.role)])
                \in Seq(Wire!CustomPermission)
<1> DEFINE f == [i \in DOMAIN custom |-> [subtype |-> custom[i].subtype,
                                          role |-> ApiPermissionRole(custom[i].role)]]
<1>1. \A i \in DOMAIN custom : f[i] \in Wire!CustomPermission
  <2> SUFFICES ASSUME NEW i \in DOMAIN custom
               PROVE  [subtype |-> custom[i].subtype,
                       role |-> ApiPermissionRole(custom[i].role)] \in Wire!CustomPermission
    OBVIOUS
  <2>1. custom[i] \in Domain!CustomPermission
    OBVIOUS
  <2> QED
    BY <2>1, RoleParses DEF Domain!CustomPermission, Wire!CustomPermission
<1>2. Mapped(custom, LAMBDA p : [subtype |-> p.subtype, role |-> ApiPermissionRole(p.role)])
        = Built(f)
  BY DEF Mapped
<1>3. DOMAIN f = DOMAIN custom /\ f = [i \in DOMAIN custom |-> f[i]]
  OBVIOUS
<1> HIDE DEF f
<1>4. Built(f) = f
  BY <1>1, <1>3, ValuesAssumption DEF Built
<1> QED
  BY <1>1, <1>2, <1>3, <1>4, SeqOfParts

LEMMA MessagePermissionsParse ==
    ASSUME NEW permissions \in Domain!MessagePermissions
    PROVE  ApiMessagePermissions(permissions) \in Wire!MessagePermissions
<1> DEFINE custom == Mapped(permissions.custom,
                            LAMBDA p : [subtype |-> p.subtype, role |-> ApiPermissionRole(p.role)])
           role(value) == Optional(value, ApiPermissionRole)
<1>1. custom \in Seq(Wire!CustomPermission)
  BY CustomParses DEF Domain!MessagePermissions
<1>2. ApiPermissionRole(permissions.default) \in Wire!GroupPermissionRole
  BY RoleParses DEF Domain!MessagePermissions
<1>3. \A value \in Domain!Opt(Domain!PermissionRole) :
        role(value) \in Wire!Opt(Wire!GroupPermissionRole)
  BY OptionalRoleParses
<1>4. ApiMessagePermissions(permissions)
        = [audio |-> role(permissions.audio), video |-> role(permissions.video),
           video_call |-> role(permissions.videoCall), custom |-> custom,
           file |-> role(permissions.file), poll |-> role(permissions.poll),
           text |-> role(permissions.text), crypto |-> role(permissions.crypto),
           giphy |-> role(permissions.giphy),
           default |-> ApiPermissionRole(permissions.default),
           image |-> role(permissions.image), prize |-> role(permissions.prize),
           p2p_swap |-> role(permissions.p2pSwap)]
  BY DEF ApiMessagePermissions
<1> HIDE DEF custom, role
<1> QED
  BY <1>1, <1>2, <1>3, <1>4 DEF Domain!MessagePermissions, Wire!MessagePermissions

LEMMA PermissionsParse ==
    ASSUME NEW permissions \in Domain!GroupPermissions
    PROVE  ApiGroupPermissions(permissions) \in Wire!GroupPermissions
<1>1. \A role \in Domain!PermissionRole : ApiPermissionRole(role) \in Wire!GroupPermissionRole
  BY RoleParses
<1>2. ApiMessagePermissions(permissions.messagePermissions) \in Wire!MessagePermissions
  BY MessagePermissionsParse DEF Domain!GroupPermissions
<1>3. Optional(permissions.threadPermissions, ApiMessagePermissions)
        \in Wire!Opt(Wire!MessagePermissions)
  BY MessagePermissionsParse DEF Domain!GroupPermissions, Domain!Opt, Optional, Wire!Opt
<1> QED
  BY <1>1, <1>2, <1>3 DEF Domain!GroupPermissions, ApiGroupPermissions, Wire!GroupPermissions

LEMMA CredentialArgumentsParse ==
    ASSUME NEW arguments \in Domain!Opt(Domain!RecordOf([string : STRING] \cup [number : Int]))
    PROVE  ApiCredentialArguments(arguments)
                \in Wire!RecordOf(Wire!VerifiedCredentialArgumentValue)
<1> DEFINE given == OrElse(arguments, <<>>)
           value(x) == IF "number" \in DOMAIN x THEN [tag |-> "Int", value |-> x.number]
                       ELSE [tag |-> "String", value |-> x.string]
           f == [i \in DOMAIN given |-> <<given[i][1], value(given[i][2])>>]
           Given == STRING \X ([string : STRING] \cup [number : Int])
           Values == STRING \X Wire!VerifiedCredentialArgumentValue
<1>1. given \in Seq(Given)
  BY DEF OrElse, Domain!Opt, Domain!RecordOf
<1>2. ASSUME NEW x \in [string : STRING] \cup [number : Int]
      PROVE  value(x) \in Wire!VerifiedCredentialArgumentValue
  BY DEF Wire!VerifiedCredentialArgumentValue, Wire!Tagged
<1>3. ApiCredentialArguments(arguments) = f
  BY DEF ApiCredentialArguments
<1> HIDE DEF given, value
<1>4. \A i \in DOMAIN given : f[i] \in Values
  BY <1>1, <1>2
<1>5. f = [i \in DOMAIN given |-> f[i]]
  OBVIOUS
<1> HIDE DEF f, Values, Given
<1>6. f \in Seq(Values)
  BY <1>1, <1>4, <1>5, SeqOfParts
<1> QED
  BY <1>3, <1>6 DEF Wire!RecordOf, Wire!Pair, Values

(* A gate that OpenChat knows is sent as one of the schema's.              *)
LEMMA LeafParses ==
    ASSUME NEW gate \in Domain!LeafGate
    PROVE  ApiLeafAccessGate(gate) \in Wire!AccessGateNonComposite \cup {Thrown}
<1>1. CASE gate.kind \in Range(LiteralGates)
  <2> DEFINE name == CHOOSE tag \in DOMAIN LiteralGates : LiteralGates[tag] = gate.kind
  <2>1. name \in DOMAIN LiteralGates
    BY <1>1 DEF Range
  <2>2. gate.kind \notin {"neuron_gate", "payment_gate", "credential_gate",
                         "token_balance_gate"}
    BY <1>1 DEF Range, LiteralGates
  <2>3. ApiLeafAccessGate(gate) = [tag |-> name]
    BY <1>1, <2>2, Zenon DEF ApiLeafAccessGate
  <2> HIDE DEF name
  <2> QED
    BY <2>1, <2>3 DEF LiteralGates, Wire!AccessGateNonComposite, Wire!Literals
<1>2. CASE gate.kind \notin Range(LiteralGates) /\ gate \in Domain!NeuronGate
  BY <1>2 DEF Domain!NeuronGate, ApiLeafAccessGate, Domain!Opt, PrincipalStringToBytes,
              Wire!AccessGateNonComposite, Wire!Tagged, Wire!SnsNeuronGate, Wire!Opt,
              Wire!TSPrincipal
<1>3. CASE gate.kind \notin Range(LiteralGates) /\ gate \in Domain!PaymentGate
  BY <1>3 DEF Domain!PaymentGate, ApiLeafAccessGate, PrincipalStringToBytes,
              Wire!AccessGateNonComposite, Wire!Tagged, Wire!PaymentGate, Wire!TSPrincipal
<1>4. CASE gate.kind \notin Range(LiteralGates) /\ gate \in Domain!CredentialGate
  <2> DEFINE credential == gate.credential
             value == [credential_name |-> credential.credentialName,
                       issuer_canister_id |-> PrincipalStringToBytes(credential.issuerCanisterId),
                       issuer_origin |-> credential.issuerOrigin,
                       credential_type |-> credential.credentialType,
                       credential_arguments |->
                            ApiCredentialArguments(credential.credentialArguments)]
  <2>1. ApiLeafAccessGate(gate) = [tag |-> "VerifiedCredential", value |-> value]
    BY <1>4 DEF Domain!CredentialGate, ApiLeafAccessGate
  <2>2. credential \in Domain!Credential
    BY <1>4 DEF Domain!CredentialGate
  <2> HIDE DEF credential
  <2>3. value \in Wire!VerifiedCredentialGate
    BY <2>2, CredentialArgumentsParse
       DEF Domain!Credential, PrincipalStringToBytes, Wire!VerifiedCredentialGate,
           Wire!TSPrincipal
  <2> HIDE DEF value
  <2> QED
    BY <2>1, <2>3 DEF Wire!AccessGateNonComposite, Wire!Tagged
<1>5. CASE gate.kind \notin Range(LiteralGates) /\ gate \in Domain!TokenBalanceGate
  BY <1>5 DEF Domain!TokenBalanceGate, ApiLeafAccessGate, PrincipalStringToBytes,
              Wire!AccessGateNonComposite, Wire!Tagged, Wire!TokenBalanceGate, Wire!TSPrincipal
<1>6. CASE /\ gate.kind \notin Range(LiteralGates)
           /\ gate.kind \in {"diamond_gate", "lifetime_diamond_gate", "nft_gate",
                             "unique_person_gate", "locked_gate", "referred_by_member_gate"}
  BY <1>6 DEF ApiLeafAccessGate
<1> QED
  BY <1>1, <1>2, <1>3, <1>4, <1>5, <1>6 DEF Domain!LeafGate, Domain!Kinds

LEMMA GateParses ==
    ASSUME NEW gate \in Domain!AccessGate, ApiAccessGate(gate) # Thrown
    PROVE  ApiAccessGate(gate) \in Wire!AccessGate
<1>1. CASE gate.kind = "composite_gate"
  <2> DEFINE inner == Mapped(gate.gates, ApiLeafAccessGate)
             f == [i \in DOMAIN gate.gates |-> ApiLeafAccessGate(gate.gates[i])]
  <2>1. gate.gates \in Seq(Domain!LeafGate)
    BY <1>1 DEF Domain!AccessGate, Domain!LeafGate, Domain!Kinds, Domain!NeuronGate,
                Domain!PaymentGate, Domain!CredentialGate, Domain!TokenBalanceGate,
                Domain!CompositeGate
  <2>2. inner = Built(f)
    BY DEF Mapped
  <2>3. /\ inner # Thrown
        /\ ApiAccessGate(gate)
            = [tag |-> "Composite", value |-> [and |-> gate.operator = "and", inner |-> inner]]
    BY <1>1 DEF ApiAccessGate
  <2>4. \A i \in DOMAIN gate.gates : f[i] \in Wire!AccessGateNonComposite \cup {Thrown}
    BY <2>1, LeafParses
  <2>5. f = [i \in DOMAIN gate.gates |-> f[i]]
    OBVIOUS
  <2> HIDE DEF inner, f
  <2>6. inner = f /\ \A i \in DOMAIN gate.gates : f[i] \in Wire!AccessGateNonComposite
    BY <2>2, <2>3, <2>4, <2>5, BuiltOf
  <2>7. inner \in Seq(Wire!AccessGateNonComposite)
    BY <2>1, <2>5, <2>6, SeqOfParts
  <2> QED
    BY <2>3, <2>7 DEF Wire!AccessGate, Wire!Tagged, Wire!CompositeGate
<1>2. CASE gate.kind # "composite_gate"
  <2>1. gate \in Domain!LeafGate /\ ApiAccessGate(gate) = ApiLeafAccessGate(gate)
    BY <1>2 DEF Domain!AccessGate, Domain!CompositeGate, ApiAccessGate
  <2> QED
    BY <2>1, LeafParses DEF Wire!AccessGate
<1> QED
  BY <1>1, <1>2

LEMMA GateConfigParses ==
    ASSUME NEW config \in Domain!AccessGateConfig, ApiAccessGateConfig(config) # Thrown
    PROVE  ApiAccessGateConfig(config) \in Wire!AccessGateConfig
<1> DEFINE f == [gate |-> ApiAccessGate(config.gate), expiry |-> config.expiry]
<1>1. ApiAccessGateConfig(config) = Built(f)
  BY DEF ApiAccessGateConfig
<1>2. f.gate = ApiAccessGate(config.gate) /\ f.expiry = config.expiry
      /\ DOMAIN f = {"gate", "expiry"} /\ f = [gate |-> f.gate, expiry |-> f.expiry]
  OBVIOUS
<1> HIDE DEF f
<1>3. Built(f) = f /\ f.gate # Thrown
  BY <1>1, <1>2, BuiltOf
<1>4. f.gate \in Wire!AccessGate
  BY <1>2, <1>3, GateParses DEF Domain!AccessGateConfig
<1> QED
  BY <1>1, <1>2, <1>3, <1>4 DEF Domain!AccessGateConfig, Domain!Opt, Wire!AccessGateConfig, Wire!Opt

LEMMA ChannelParses ==
    ASSUME NEW channel \in ChannelDraft, ChannelInputArgs(channel, Auth) # Thrown
    PROVE  /\ ChannelInputArgs(channel, Auth) \in Wire!BotCreateChannelArgs
           /\ ChannelInputArgs(channel, Auth).permissions \in Wire!GroupPermissions
<1> DEFINE permissions == ApiGroupPermissions(channel.permissions)
           gate == Optional(channel.gateConfig, ApiAccessGateConfig)
           token == ApiAuthToken(Auth)
           avatar == Optional(channel.avatar,
                              LAMBDA data : [data |-> data, mime_type |-> "image/jpg"])
           f == [is_public |-> channel.isPublic, permissions |-> permissions,
                 gate_config |-> gate, auth_token |-> token,
                 external_url |-> channel.externalUrl, name |-> channel.name,
                 description |-> channel.description, events_ttl |-> channel.eventsTtl,
                 messages_visible_to_non_members |-> channel.messagesVisibleToNonMembers,
                 history_visible_to_new_joiners |-> channel.historyVisibleToNewJoiners,
                 rules |-> channel.rules, avatar |-> avatar]
<1>1. ChannelInputArgs(channel, Auth) = Built(f)
  BY DEF ChannelInputArgs
<1>2. permissions \in Wire!GroupPermissions
  BY PermissionsParse DEF ChannelDraft
<1>3. token \in Wire!AuthToken
  BY TokenParses
<1>4. avatar \in Wire!Opt([mime_type : STRING, data : STRING])
  <2>1. channel.avatar \in STRING \cup {Missing}
    BY DEF ChannelDraft
  <2>2. avatar = IF channel.avatar = Missing THEN Missing
                 ELSE [data |-> channel.avatar, mime_type |-> "image/jpg"]
    BY DEF Optional
  <2> HIDE DEF avatar
  <2>3. CASE channel.avatar = Missing
    BY <2>2, <2>3 DEF Wire!Opt
  <2>4. CASE channel.avatar # Missing
    <3>1. channel.avatar \in STRING
      BY <2>1, <2>4
    <3>2. avatar = [data |-> channel.avatar, mime_type |-> "image/jpg"]
      BY <2>2, <2>4
    <3> QED
      BY <3>1, <3>2, MimeAssumption DEF Wire!Opt
  <2> QED
    BY <2>3, <2>4
<1>5. channel.gateConfig \in Domain!AccessGateConfig \cup {Missing}
  BY DEF ChannelDraft
<1>6. gate # Thrown => gate \in Wire!Opt(Wire!AccessGateConfig)
  BY <1>5, GateConfigParses DEF Optional, Wire!Opt
<1> HIDE DEF permissions, gate, token, avatar
<1>7. "gate_config" \in DOMAIN f /\ f.gate_config = gate /\ f.permissions = permissions
  OBVIOUS
<1>8. gate # Thrown => f \in Wire!BotCreateChannelArgs
  BY <1>2, <1>3, <1>4, <1>6 DEF ChannelDraft, Wire!BotCreateChannelArgs, Wire!Opt
<1> HIDE DEF f
<1> QED
  BY <1>1, <1>2, <1>7, <1>8, BuiltOf

LEMMA MessageParses ==
    ASSUME NEW message \in MessageDraft
    PROVE  MessageInputArgs(message, Auth) \in Wire!BotSendMessageArgs
BY TokenParses
   DEF MessageDraft, ChannelIds, MessageInputArgs, Wire!BotSendMessageArgs, Wire!Opt

LEMMA CriteriaParse ==
    ASSUME NEW criteria \in Domain!ChatEventsCriteria
    PROVE  ApiChatEventsCriteria(criteria) \in Wire!EventsSelectionCriteria
<1>1. CASE criteria.kind = "chat_events_page"
  BY <1>1 DEF Domain!ChatEventsCriteria, ApiChatEventsCriteria, Wire!EventsSelectionCriteria,
              Wire!Tagged
<1>2. CASE criteria.kind = "chat_events_by_index"
  BY <1>2 DEF Domain!ChatEventsCriteria, ApiChatEventsCriteria, Wire!EventsSelectionCriteria,
              Wire!Tagged
<1>3. CASE criteria.kind = "chat_events_window"
  BY <1>3 DEF Domain!ChatEventsCriteria, ApiChatEventsCriteria, Wire!EventsSelectionCriteria,
              Wire!Tagged
<1> QED
  BY <1>1, <1>2, <1>3 DEF Domain!ChatEventsCriteria

(* What is made of a request throws or satisfies the schema.               *)
LEMMA ArgsParse ==
    ASSUME NEW request \in Requests, ArgsOf(request) # Thrown
    PROVE  Parses(request, ArgsOf(request))
<1>1. request \in ClientRequests
  BY BotClientAssumption
<1>2. CASE request.op = "sendMessage"
  BY <1>2, RequestOps, MessageParses DEF ArgsOf, Parses
<1>3. CASE request.op = "createChannel"
  <2>1. ArgsOf(request) = ChannelInputArgs(request.channel, Auth)
    BY <1>3 DEF ArgsOf
  <2>2. request.channel \in ChannelDraft
    BY <1>3, RequestOps
  <2>3. ArgsOf(request) \in Wire!BotCreateChannelArgs
    BY <2>1, <2>2, ChannelParses
  <2> QED
    BY <1>3, <2>3 DEF Parses
<1>4. CASE request.op = "deleteChannel"
  BY <1>1, <1>4, TokenParses
     DEF ClientRequests, ChannelIds, ArgsOf, Parses, Wire!BotDeleteChannelArgs
<1>5. CASE request.op = "chatDetails"
  BY <1>1, <1>5, TokenParses
     DEF ClientRequests, ChannelIds, ArgsOf, Parses, Wire!BotChatDetailsArgs, Wire!Opt
<1>6. CASE request.op = "chatEvents"
  <2>1. request.criteria \in Domain!ChatEventsCriteria
        /\ request.channelId \in Nat \cup {Missing}
    BY <1>1, <1>6 DEF ClientRequests, ChannelIds
  <2>2. ApiChatEventsCriteria(request.criteria) \in Wire!EventsSelectionCriteria
    BY <2>1, CriteriaParse
  <2> QED
    BY <1>6, <2>1, <2>2, TokenParses DEF ArgsOf, Parses, Wire!BotChatEventsArgs, Wire!Opt
<1> QED
  BY <1>2, <1>3, <1>4, <1>5, <1>6, RequestOps DEF Queries, Updates

-----------------------------------------------------------------------------
(* What is read of what was set *)

LEMMA Roles ==
    /\ \A role \in Domain!PermissionRole :
        PermissionRole(ApiPermissionRole(role)) = role /\ role # Missing
    /\ \A role \in Wire!GroupPermissionRole : role # Missing
<1>1. \A role \in Domain!PermissionRole : PermissionRole(ApiPermissionRole(role)) = role
  BY DEF Domain!PermissionRole, ApiPermissionRole, PermissionRole
<1> QED
  BY <1>1, ValuesAssumption

LEMMA OptionalRoles ==
    ASSUME NEW role \in Domain!Opt(Domain!PermissionRole)
    PROVE  RoleOrNone(Optional(role, ApiPermissionRole)) = OrElse(role, "none")
<1>1. CASE role = Missing
  BY <1>1 DEF RoleOrNone, Optional, OrElse
<1>2. CASE role # Missing
  <2>1. role \in Domain!PermissionRole
    BY <1>2 DEF Domain!Opt
  <2>2. ApiPermissionRole(role) # Missing
    BY <2>1, Roles, RoleParses
  <2> QED
    BY <1>2, <2>1, <2>2, Roles DEF RoleOrNone, Optional, OrElse
<1> QED
  BY <1>1, <1>2

(* The roles of custom messages are mapped one by one, there and back.     *)
ApiCustom(custom) ==
    Mapped(custom, LAMBDA p : [subtype |-> p.subtype, role |-> ApiPermissionRole(p.role)])
DomainCustom(custom) ==
    Mapped(custom, LAMBDA p : [subtype |-> p.subtype, role |-> PermissionRole(p.role)])

LEMMA CustomRoles ==
    ASSUME NEW custom \in Seq(Domain!CustomPermission)
    PROVE  DomainCustom(ApiCustom(custom)) = custom
<1> DEFINE f == [i \in DOMAIN custom |-> [subtype |-> custom[i].subtype,
                                          role |-> ApiPermissionRole(custom[i].role)]]
           g == [i \in DOMAIN f |-> [subtype |-> f[i].subtype, role |-> PermissionRole(f[i].role)]]
<1>1. \A i \in DOMAIN custom :
        /\ custom[i] = [subtype |-> custom[i].subtype, role |-> custom[i].role]
        /\ custom[i].subtype \in STRING /\ custom[i].role \in Domain!PermissionRole
        /\ custom[i] # Thrown
  <2>1. \A i \in DOMAIN custom : custom[i] \in Domain!CustomPermission
    OBVIOUS
  <2>2. Thrown \notin Domain!CustomPermission
    BY ValuesAssumption
  <2>3. ASSUME NEW p \in Domain!CustomPermission
        PROVE  /\ p = [subtype |-> p.subtype, role |-> p.role]
               /\ p.subtype \in STRING /\ p.role \in Domain!PermissionRole
    BY DEF Domain!CustomPermission
  <2> QED
    BY <2>1, <2>2, <2>3
<1>2. ApiCustom(custom) = Built(f)
  BY DEF ApiCustom, Mapped
<1>3. DOMAIN f = DOMAIN custom
      /\ \A i \in DOMAIN custom : f[i] = [subtype |-> custom[i].subtype,
                                          role |-> ApiPermissionRole(custom[i].role)]
  OBVIOUS
<1> HIDE DEF f
<1>4. \A i \in DOMAIN custom : f[i] \in Wire!CustomPermission
  BY <1>1, <1>3, RoleParses DEF Wire!CustomPermission
<1>5. Built(f) = f
  BY <1>3, <1>4, ValuesAssumption DEF Built
<1>6. \A i \in DOMAIN custom : g[i] = custom[i]
  BY <1>1, <1>3, Roles
<1>7. g = custom
  BY <1>3, <1>6
<1>8. DomainCustom(f) = Built(g)
  BY DEF DomainCustom, Mapped
<1> HIDE DEF g
<1>9. Built(g) = g
  BY <1>1, <1>7 DEF Built
<1> QED
  BY <1>2, <1>5, <1>7, <1>8, <1>9

LEMMA MessageRoles ==
    ASSUME NEW permissions \in Domain!MessagePermissions
    PROVE  MessagePermissions(ApiMessagePermissions(permissions)) = ReadRoles(permissions)
<1> DEFINE role(value) == Optional(value, ApiPermissionRole)
           read(value) == OrElse(value, "none")
           api == ApiMessagePermissions(permissions)
<1>1. api = [audio |-> role(permissions.audio), video |-> role(permissions.video),
             video_call |-> role(permissions.videoCall), custom |-> ApiCustom(permissions.custom),
             file |-> role(permissions.file), poll |-> role(permissions.poll),
             text |-> role(permissions.text), crypto |-> role(permissions.crypto),
             giphy |-> role(permissions.giphy),
             default |-> ApiPermissionRole(permissions.default),
             image |-> role(permissions.image), prize |-> role(permissions.prize),
             p2p_swap |-> role(permissions.p2pSwap)]
  BY DEF ApiMessagePermissions, ApiCustom
<1>2. \A value \in Domain!Opt(Domain!PermissionRole) : RoleOrNone(role(value)) = read(value)
  BY OptionalRoles
<1>3. permissions.custom \in Seq(Domain!CustomPermission)
  BY DEF Domain!MessagePermissions
<1>4. DomainCustom(ApiCustom(permissions.custom)) = read(permissions.custom)
  BY <1>3, CustomRoles, ValuesAssumption DEF OrElse
<1>5. permissions.default \in Domain!PermissionRole
  BY DEF Domain!MessagePermissions
<1>6. RoleOrNone(ApiPermissionRole(permissions.default)) = read(permissions.default)
  <2>1. ApiPermissionRole(permissions.default) # Missing /\ permissions.default # Missing
    BY <1>5, Roles, RoleParses
  <2> QED
    BY <1>5, <2>1, Roles DEF RoleOrNone, Optional, OrElse
<1>7. MessagePermissions(api)
        = [audio |-> RoleOrNone(api.audio), video |-> RoleOrNone(api.video),
           videoCall |-> RoleOrNone(api.video_call), custom |-> DomainCustom(api.custom),
           file |-> RoleOrNone(api.file), poll |-> RoleOrNone(api.poll),
           text |-> RoleOrNone(api.text), crypto |-> RoleOrNone(api.crypto),
           giphy |-> RoleOrNone(api.giphy), default |-> RoleOrNone(api.default),
           image |-> RoleOrNone(api.image), prize |-> RoleOrNone(api.prize),
           p2pSwap |-> RoleOrNone(api.p2p_swap)]
  BY DEF MessagePermissions, DomainCustom
<1> HIDE DEF api, role, read
<1>8. MessagePermissions(api)
        = [audio |-> read(permissions.audio), video |-> read(permissions.video),
           videoCall |-> read(permissions.videoCall), custom |-> read(permissions.custom),
           file |-> read(permissions.file), poll |-> read(permissions.poll),
           text |-> read(permissions.text), crypto |-> read(permissions.crypto),
           giphy |-> read(permissions.giphy), default |-> read(permissions.default),
           image |-> read(permissions.image), prize |-> read(permissions.prize),
           p2pSwap |-> read(permissions.p2pSwap)]
  BY <1>1, <1>2, <1>4, <1>6, <1>7 DEF Domain!MessagePermissions
<1>9. DOMAIN permissions = {"audio", "video", "videoCall", "custom", "file", "poll", "text",
                            "crypto", "giphy", "default", "image", "prize", "p2pSwap"}
  BY DEF Domain!MessagePermissions
<1>10. ReadRoles(permissions) = [p \in DOMAIN permissions |-> read(permissions[p])]
  BY DEF ReadRoles, read
<1>11. ReadRoles(permissions)
        = [audio |-> read(permissions.audio), video |-> read(permissions.video),
           videoCall |-> read(permissions.videoCall), custom |-> read(permissions.custom),
           file |-> read(permissions.file), poll |-> read(permissions.poll),
           text |-> read(permissions.text), crypto |-> read(permissions.crypto),
           giphy |-> read(permissions.giphy), default |-> read(permissions.default),
           image |-> read(permissions.image), prize |-> read(permissions.prize),
           p2pSwap |-> read(permissions.p2pSwap)]
  BY <1>9, <1>10
<1> QED
  BY <1>8, <1>11 DEF api

LEMMA PermissionsReadBack ==
    ASSUME NEW permissions \in Domain!GroupPermissions
    PROVE  GroupPermissions(ApiGroupPermissions(permissions)) = ReadPermissions(permissions)
<1> DEFINE api == ApiGroupPermissions(permissions)
           messages == ReadRoles(permissions.messagePermissions)
           threads == Optional(permissions.threadPermissions, ReadRoles)
           read(value) == PermissionRole(ApiPermissionRole(value))
<1>1. MessagePermissions(api.message_permissions) = messages
  BY MessageRoles DEF ApiGroupPermissions, Domain!GroupPermissions
<1>2. Optional(api.thread_permissions, MessagePermissions) = threads
  <2>1. api.thread_permissions = Optional(permissions.threadPermissions, ApiMessagePermissions)
    BY DEF ApiGroupPermissions
  <2> HIDE DEF api
  <2>2. CASE permissions.threadPermissions = Missing
    BY <2>1, <2>2 DEF Optional
  <2>3. CASE permissions.threadPermissions # Missing
    <3>1. permissions.threadPermissions \in Domain!MessagePermissions
      BY <2>3 DEF Domain!GroupPermissions, Domain!Opt
    <3>2. api.thread_permissions = ApiMessagePermissions(permissions.threadPermissions)
      BY <2>1, <2>3 DEF Optional
    <3>3. api.thread_permissions # Missing
      BY <3>1, <3>2, MessagePermissionsParse, ValuesAssumption
    <3> QED
      BY <2>3, <3>1, <3>2, <3>3, MessageRoles DEF Optional
  <2> QED
    BY <2>2, <2>3
<1>3. \A role \in Domain!PermissionRole : read(role) = role
  BY Roles
<1> HIDE DEF messages, threads
<1>4. GroupPermissions(api)
        = [changeRoles |-> read(permissions.changeRoles),
           updateGroup |-> read(permissions.updateGroup),
           addMembers |-> read(permissions.addMembers),
           inviteUsers |-> read(permissions.inviteUsers),
           removeMembers |-> read(permissions.removeMembers),
           deleteMessages |-> read(permissions.deleteMessages),
           pinMessages |-> read(permissions.pinMessages),
           reactToMessages |-> read(permissions.reactToMessages),
           mentionAllMembers |-> read(permissions.mentionAllMembers),
           startVideoCall |-> read(permissions.startVideoCall),
           messagePermissions |-> MessagePermissions(api.message_permissions),
           threadPermissions |-> Optional(api.thread_permissions, MessagePermissions)]
  BY DEF GroupPermissions, ApiGroupPermissions
<1> HIDE DEF api, read
<1>5. GroupPermissions(api)
        = [changeRoles |-> permissions.changeRoles, updateGroup |-> permissions.updateGroup,
           addMembers |-> permissions.addMembers, inviteUsers |-> permissions.inviteUsers,
           removeMembers |-> permissions.removeMembers,
           deleteMessages |-> permissions.deleteMessages,
           pinMessages |-> permissions.pinMessages,
           reactToMessages |-> permissions.reactToMessages,
           mentionAllMembers |-> permissions.mentionAllMembers,
           startVideoCall |-> permissions.startVideoCall,
           messagePermissions |-> messages, threadPermissions |-> threads]
  BY <1>1, <1>2, <1>3, <1>4 DEF Domain!GroupPermissions
<1>6. ReadPermissions(permissions)
        = [permissions EXCEPT !.messagePermissions = messages, !.threadPermissions = threads]
  BY DEF ReadPermissions, messages, threads
<1>7. ReadPermissions(permissions)
        = [changeRoles |-> permissions.changeRoles, updateGroup |-> permissions.updateGroup,
           addMembers |-> permissions.addMembers, inviteUsers |-> permissions.inviteUsers,
           removeMembers |-> permissions.removeMembers,
           deleteMessages |-> permissions.deleteMessages,
           pinMessages |-> permissions.pinMessages,
           reactToMessages |-> permissions.reactToMessages,
           mentionAllMembers |-> permissions.mentionAllMembers,
           startVideoCall |-> permissions.startVideoCall,
           messagePermissions |-> messages, threadPermissions |-> threads]
  BY <1>6 DEF Domain!GroupPermissions
<1> QED
  BY <1>5, <1>7 DEF api

(* The arguments of a credential that has any                              *)
LEMMA ArgumentsReadBack ==
    ASSUME NEW arguments \in Domain!RecordOf([string : STRING] \cup [number : Int]),
           arguments # Missing
    PROVE  CredentialArguments(ApiCredentialArguments(arguments)) = arguments
<1> DEFINE Value == [string : STRING] \cup [number : Int]
           api(x) == IF "number" \in DOMAIN x THEN [tag |-> "Int", value |-> x.number]
                     ELSE [tag |-> "String", value |-> x.string]
           read(x) == IF x.tag = "String" THEN [string |-> x.value] ELSE [number |-> x.value]
           f == [i \in DOMAIN arguments |-> <<arguments[i][1], api(arguments[i][2])>>]
           g == [i \in DOMAIN f |-> <<f[i][1], read(f[i][2])>>]
<1>1. arguments \in Seq(STRING \X Value)
  BY DEF Domain!RecordOf
<1>2. ApiCredentialArguments(arguments) = f
  BY DEF ApiCredentialArguments, OrElse
<1>3. CredentialArguments(f) = g
  BY DEF CredentialArguments
<1>4. ASSUME NEW x \in Value
      PROVE  read(api(x)) = x
  BY <1>4
<1> HIDE DEF api, read
<1>5. \A i \in DOMAIN arguments : arguments[i] \in STRING \X Value
  BY <1>1
<1>6. DOMAIN f = DOMAIN arguments
      /\ \A i \in DOMAIN arguments : f[i] = <<arguments[i][1], api(arguments[i][2])>>
  OBVIOUS
<1> HIDE DEF f
<1>7. \A i \in DOMAIN arguments : g[i] = arguments[i]
  <2> SUFFICES ASSUME NEW i \in DOMAIN arguments
               PROVE  <<f[i][1], read(f[i][2])>> = arguments[i]
    BY <1>6
  <2>1. /\ arguments[i] = <<arguments[i][1], arguments[i][2]>>
        /\ arguments[i][2] \in Value
    BY <1>5
  <2>2. f[i][1] = arguments[i][1] /\ f[i][2] = api(arguments[i][2])
    BY <1>6
  <2> QED
    BY <1>4, <2>1, <2>2
<1>8. g = arguments
  BY <1>1, <1>6, <1>7
<1> QED
  BY <1>2, <1>3, <1>8

LEMMA PrincipalReadsBack ==
    ASSUME NEW principal \in Principals
    PROVE  PrincipalBytesToString(PrincipalStringToBytes(principal)) = principal
<1>1. [bytes |-> principal] \in Wire!TSPrincipal
  BY DEF Wire!TSPrincipal
<1>2. [bytes |-> principal] \notin Principals
  BY <1>1, ValuesAssumption
<1> QED
  BY <1>2 DEF PrincipalBytesToString, PrincipalStringToBytes

LEMMA LeafReadsBack ==
    ASSUME NEW gate \in Domain!LeafGate, ApiLeafAccessGate(gate) # Thrown
    PROVE  /\ LeafGate(ApiLeafAccessGate(gate)) = ReadLeafGate(gate)
           /\ LeafGate(ApiLeafAccessGate(gate)) # Thrown
           /\ ApiLeafAccessGate(gate).tag # "Composite"
<1> DEFINE api == ApiLeafAccessGate(gate)
<1>1. CASE gate.kind \in Range(LiteralGates)
  <2> DEFINE name == CHOOSE tag \in DOMAIN LiteralGates : LiteralGates[tag] = gate.kind
  <2>1. name \in DOMAIN LiteralGates /\ LiteralGates[name] = gate.kind
    BY <1>1 DEF Range
  <2>2. gate.kind \notin {"neuron_gate", "payment_gate", "credential_gate",
                         "token_balance_gate"}
    BY <1>1 DEF Range, LiteralGates
  <2>3. api = [tag |-> name]
    BY <1>1, <2>2, Zenon DEF ApiLeafAccessGate
  <2> HIDE DEF name, api
  <2>4. gate = [kind |-> gate.kind]
    BY <2>2 DEF Domain!LeafGate, Domain!Kinds, Domain!NeuronGate, Domain!PaymentGate,
                Domain!CredentialGate, Domain!TokenBalanceGate
  <2>5. name \in {"DiamondMember", "LifetimeDiamondMember", "UniquePerson", "Locked",
                  "ReferredByMember"}
    BY <2>1 DEF LiteralGates
  <2>6. LeafGate(api) = [kind |-> LiteralGates[name]]
    <3>1. api.tag = name
      BY <2>3
    <3>2. name \notin {"SnsNeuron", "VerifiedCredential", "Payment", "TokenBalance"}
      BY <2>5
    <3> QED
      BY <2>1, <3>1, <3>2, Zenon DEF LeafGate
  <2>7. ReadLeafGate(gate) = gate
    BY <2>2 DEF ReadLeafGate
  <2> QED
    BY <2>1, <2>3, <2>4, <2>5, <2>6, <2>7, ValuesAssumption DEF api
<1>2. CASE gate.kind \notin Range(LiteralGates) /\ gate \in Domain!NeuronGate
  <2> DEFINE p == gate.governanceCanister
  <2>1. gate = [kind |-> "neuron_gate", governanceCanister |-> p,
                minStakeE8s |-> gate.minStakeE8s, minDissolveDelay |-> gate.minDissolveDelay]
        /\ p \in Principals
    BY <1>2 DEF Domain!NeuronGate
  <2>2. api = [tag |-> "SnsNeuron",
               value |-> [governance_canister_id |-> PrincipalStringToBytes(p),
                          min_stake_e8s |-> gate.minStakeE8s,
                          min_dissolve_delay |-> gate.minDissolveDelay]]
    BY <1>2, <2>1 DEF ApiLeafAccessGate
  <2> HIDE DEF api, p
  <2>3. LeafGate(api) = [kind |-> "neuron_gate", minDissolveDelay |-> gate.minDissolveDelay,
                         minStakeE8s |-> gate.minStakeE8s,
                         governanceCanister |->
                            PrincipalBytesToString(PrincipalStringToBytes(p))]
    BY <2>2 DEF LeafGate, LiteralGates
  <2>4. LeafGate(api) = gate /\ ReadLeafGate(gate) = gate /\ api.tag = "SnsNeuron"
    BY <2>1, <2>2, <2>3, PrincipalReadsBack DEF ReadLeafGate
  <2> QED
    BY <2>4, ValuesAssumption DEF api
<1>3. CASE gate.kind \notin Range(LiteralGates) /\ gate \in Domain!PaymentGate
  <2> DEFINE p == gate.ledgerCanister
  <2>1. gate = [kind |-> "payment_gate", ledgerCanister |-> p, amount |-> gate.amount,
                fee |-> gate.fee]
        /\ p \in Principals
    BY <1>3 DEF Domain!PaymentGate
  <2>2. api = [tag |-> "Payment",
               value |-> [ledger_canister_id |-> PrincipalStringToBytes(p),
                          amount |-> gate.amount, fee |-> gate.fee]]
    BY <1>3, <2>1 DEF ApiLeafAccessGate
  <2> HIDE DEF api, p
  <2>3. LeafGate(api) = [kind |-> "payment_gate",
                         ledgerCanister |-> PrincipalBytesToString(PrincipalStringToBytes(p)),
                         amount |-> gate.amount, fee |-> gate.fee]
    BY <2>2 DEF LeafGate, LiteralGates
  <2>4. LeafGate(api) = gate /\ ReadLeafGate(gate) = gate /\ api.tag = "Payment"
    BY <2>1, <2>2, <2>3, PrincipalReadsBack DEF ReadLeafGate
  <2> QED
    BY <2>4, ValuesAssumption DEF api
<1>4. CASE gate.kind \notin Range(LiteralGates) /\ gate \in Domain!CredentialGate
  <2> DEFINE credential == gate.credential
             p == credential.issuerCanisterId
             arguments == credential.credentialArguments
             sent == ApiCredentialArguments(arguments)
             back == IF sent = <<>> THEN Missing ELSE CredentialArguments(sent)
             read == [issuerCanisterId |-> PrincipalBytesToString(PrincipalStringToBytes(p)),
                      issuerOrigin |-> credential.issuerOrigin,
                      credentialType |-> credential.credentialType,
                      credentialName |-> credential.credentialName,
                      credentialArguments |-> back]
  <2>1. /\ gate = [kind |-> "credential_gate", credential |-> credential]
        /\ credential \in Domain!Credential
    BY <1>4 DEF Domain!CredentialGate
  <2>2. api = [tag |-> "VerifiedCredential",
               value |-> [credential_name |-> credential.credentialName,
                          issuer_canister_id |-> PrincipalStringToBytes(p),
                          issuer_origin |-> credential.issuerOrigin,
                          credential_type |-> credential.credentialType,
                          credential_arguments |-> sent]]
    BY <1>4, <2>1 DEF ApiLeafAccessGate
  <2> HIDE DEF api, sent
  <2>3. LeafGate(api) = [kind |-> "credential_gate", credential |-> read]
    BY <2>2 DEF LeafGate, LiteralGates
  <2> HIDE DEF credential
  <2>4. /\ credential = [issuerCanisterId |-> p, issuerOrigin |-> credential.issuerOrigin,
                         credentialType |-> credential.credentialType,
                         credentialName |-> credential.credentialName,
                         credentialArguments |-> arguments]
        /\ p \in Principals
        /\ arguments \in Domain!Opt(Domain!RecordOf([string : STRING] \cup [number : Int]))
    BY <2>1 DEF Domain!Credential
  <2> HIDE DEF p, arguments
  <2>5. back = IF arguments = <<>> THEN Missing ELSE arguments
    <3>1. CASE arguments = Missing
      BY <3>1 DEF sent, ApiCredentialArguments, OrElse
    <3>2. CASE arguments # Missing
      <4>1. arguments \in Domain!RecordOf([string : STRING] \cup [number : Int])
        BY <2>4, <3>2 DEF Domain!Opt
      <4>2. CredentialArguments(sent) = arguments
        BY <3>2, <4>1, ArgumentsReadBack DEF sent
      <4>3. arguments = <<>> <=> sent = <<>>
        <5>1. DOMAIN sent = DOMAIN arguments
          BY <3>2 DEF sent, ApiCredentialArguments, OrElse
        <5>2. sent \in Seq(Wire!Pair(STRING, Wire!VerifiedCredentialArgumentValue))
          BY <2>4, CredentialArgumentsParse DEF sent, Wire!RecordOf
        <5>3. arguments \in Seq(STRING \X ([string : STRING] \cup [number : Int]))
          BY <4>1 DEF Domain!RecordOf
        <5> QED
          BY <5>1, <5>2, <5>3
      <4> QED
        BY <4>2, <4>3
    <3> QED
      BY <3>1, <3>2
  <2> HIDE DEF back
  <2>6. ReadLeafGate(gate)
          = [kind |-> "credential_gate",
             credential |-> [credential EXCEPT !.credentialArguments = back]]
    <3>1. CASE arguments = <<>>
      <4>1. ReadLeafGate(gate) = [gate EXCEPT !.credential.credentialArguments = Missing]
        BY <2>1, <3>1 DEF ReadLeafGate, arguments, credential
      <4> QED
        BY <2>1, <2>5, <3>1, <4>1
    <3>2. CASE arguments # <<>>
      <4>1. ReadLeafGate(gate) = gate
        BY <2>1, <3>2 DEF ReadLeafGate, arguments, credential
      <4> QED
        BY <2>1, <2>4, <2>5, <3>2, <4>1
    <3> QED
      BY <3>1, <3>2
  <2>7. read = [credential EXCEPT !.credentialArguments = back]
    BY <2>4, PrincipalReadsBack
  <2>8. LeafGate(api) = ReadLeafGate(gate)
    BY <2>3, <2>6, <2>7
  <2>9. LeafGate(api) # Thrown
    <3>1. back \in Domain!Opt(Domain!RecordOf([string : STRING] \cup [number : Int]))
      BY <2>4, <2>5 DEF Domain!Opt
    <3>2. read \in Domain!Credential
      BY <2>1, <2>4, <3>1, PrincipalReadsBack DEF Domain!Credential
    <3> HIDE DEF read
    <3>3. LeafGate(api) \in Domain!LeafGate
      BY <2>3, <3>2 DEF Domain!LeafGate, Domain!CredentialGate
    <3> QED
      BY <3>3, ValuesAssumption
  <2> QED
    BY <2>2, <2>8, <2>9 DEF api
<1>5. CASE gate.kind \notin Range(LiteralGates) /\ gate \in Domain!TokenBalanceGate
  <2> DEFINE p == gate.ledgerCanister
  <2>1. gate = [kind |-> "token_balance_gate", ledgerCanister |-> p,
                minBalance |-> gate.minBalance]
        /\ p \in Principals
    BY <1>5 DEF Domain!TokenBalanceGate
  <2>2. api = [tag |-> "TokenBalance",
               value |-> [ledger_canister_id |-> PrincipalStringToBytes(p),
                          min_balance |-> gate.minBalance]]
    BY <1>5, <2>1 DEF ApiLeafAccessGate
  <2> HIDE DEF api, p
  <2>3. LeafGate(api) = [kind |-> "token_balance_gate",
                         ledgerCanister |-> PrincipalBytesToString(PrincipalStringToBytes(p)),
                         minBalance |-> gate.minBalance]
    BY <2>2 DEF LeafGate, LiteralGates
  <2>4. LeafGate(api) = gate /\ ReadLeafGate(gate) = gate /\ api.tag = "TokenBalance"
    BY <2>1, <2>2, <2>3, PrincipalReadsBack DEF ReadLeafGate
  <2> QED
    BY <2>4, ValuesAssumption DEF api
<1>6. CASE /\ gate.kind \notin Range(LiteralGates)
           /\ gate.kind \in {"diamond_gate", "lifetime_diamond_gate", "nft_gate",
                             "unique_person_gate", "locked_gate", "referred_by_member_gate"}
  BY <1>6 DEF ApiLeafAccessGate
<1> QED
  BY <1>1, <1>2, <1>3, <1>4, <1>5, <1>6 DEF Domain!LeafGate, Domain!Kinds

LEMMA GateReadsBack ==
    ASSUME NEW gate \in Domain!AccessGate, ApiAccessGate(gate) # Thrown
    PROVE  AccessGate(ApiAccessGate(gate)) = ReadGate(gate)
<1>1. CASE gate.kind = "composite_gate"
  <2> DEFINE gates == gate.gates
             f == [i \in DOMAIN gates |-> ApiLeafAccessGate(gates[i])]
             g == [i \in DOMAIN f |-> LeafGate(f[i])]
             read == [i \in DOMAIN gates |-> ReadLeafGate(gates[i])]
             inner == Mapped(gates, ApiLeafAccessGate)
  <2>1. /\ gate = [kind |-> "composite_gate", gates |-> gates, operator |-> gate.operator]
        /\ gates \in Seq(Domain!LeafGate) /\ gate.operator \in {"and", "or"}
    BY <1>1 DEF Domain!AccessGate, Domain!LeafGate, Domain!Kinds, Domain!NeuronGate,
                Domain!PaymentGate, Domain!CredentialGate, Domain!TokenBalanceGate,
                Domain!CompositeGate
  <2>2. /\ inner # Thrown
        /\ ApiAccessGate(gate)
            = [tag |-> "Composite", value |-> [and |-> gate.operator = "and", inner |-> inner]]
    BY <1>1 DEF ApiAccessGate
  <2>3. inner = Built(f)
    BY DEF Mapped
  <2>4. AccessGate(ApiAccessGate(gate))
          = [kind |-> "composite_gate", operator |-> gate.operator,
             gates |-> Mapped(inner, LeafGate)]
    <3> DEFINE both == gate.operator = "and"
               value == [and |-> both, inner |-> inner]
    <3>1. ApiAccessGate(gate) = [tag |-> "Composite", value |-> value]
      BY <2>2
    <3> HIDE DEF inner, both
    <3>2. value.and = both /\ value.inner = inner
      OBVIOUS
    <3> HIDE DEF value
    <3>3. AccessGate(ApiAccessGate(gate))
            = [kind |-> "composite_gate", operator |-> IF value.and THEN "and" ELSE "or",
               gates |-> Mapped(value.inner, LeafGate)]
      BY <3>1 DEF AccessGate
    <3>4. (IF value.and THEN "and" ELSE "or") = gate.operator
      BY <2>1, <3>2, Zenon DEF both
    <3> QED
      BY <3>2, <3>3, <3>4
  <2>5. ReadGate(gate)
          = [kind |-> "composite_gate", gates |-> read, operator |-> gate.operator]
    <3>1. ReadGate(gate) = [gate EXCEPT !.gates = read]
      BY <1>1 DEF ReadGate
    <3> HIDE DEF read, gates
    <3> QED
      BY <2>1, <3>1
  <2>6. \A i \in DOMAIN gates : gates[i] \in Domain!LeafGate
    BY <2>1
  <2>7. DOMAIN f = DOMAIN gates /\ \A i \in DOMAIN gates : f[i] = ApiLeafAccessGate(gates[i])
    OBVIOUS
  <2> HIDE DEF f, inner, gates
  <2>8. inner = f /\ \A i \in DOMAIN gates : f[i] # Thrown
    BY <2>2, <2>3, <2>7, BuiltOf
  <2>9. \A i \in DOMAIN gates : g[i] = ReadLeafGate(gates[i]) /\ g[i] # Thrown
    BY <2>6, <2>7, <2>8, LeafReadsBack
  <2>10. Mapped(f, LeafGate) = Built(g)
    BY DEF Mapped
  <2>11. g = read
    BY <2>7, <2>9
  <2>12. DOMAIN g = DOMAIN gates
    BY <2>7
  <2> HIDE DEF g, read
  <2>13. Built(g) = g
    BY <2>9, <2>12 DEF Built
  <2> QED
    BY <2>4, <2>5, <2>8, <2>10, <2>11, <2>13
<1>2. CASE gate.kind # "composite_gate"
  <2>1. gate \in Domain!LeafGate /\ ApiAccessGate(gate) = ApiLeafAccessGate(gate)
    BY <1>2 DEF Domain!AccessGate, Domain!CompositeGate, ApiAccessGate
  <2>2. ReadGate(gate) = ReadLeafGate(gate)
    BY <1>2 DEF ReadGate
  <2>3. AccessGate(ApiLeafAccessGate(gate)) = LeafGate(ApiLeafAccessGate(gate))
    BY <2>1, LeafReadsBack DEF AccessGate
  <2> QED
    BY <2>1, <2>2, <2>3, LeafReadsBack
<1> QED
  BY <1>1, <1>2

LEMMA ConfigReadsBack ==
    ASSUME NEW config \in Domain!AccessGateConfig, ApiAccessGateConfig(config) # Thrown
    PROVE  AccessGateConfig(ApiAccessGateConfig(config)) = ReadGateConfig(config)
<1> DEFINE f == [gate |-> ApiAccessGate(config.gate), expiry |-> config.expiry]
<1>1. ApiAccessGateConfig(config) = Built(f)
  BY DEF ApiAccessGateConfig
<1>2. f.gate = ApiAccessGate(config.gate) /\ f.expiry = config.expiry
      /\ DOMAIN f = {"gate", "expiry"}
  OBVIOUS
<1> HIDE DEF f
<1>3. Built(f) = f /\ f.gate # Thrown
  BY <1>1, <1>2, BuiltOf
<1>4. config = [gate |-> config.gate, expiry |-> config.expiry]
      /\ config.gate \in Domain!AccessGate
  BY DEF Domain!AccessGateConfig
<1>5. AccessGate(f.gate) = ReadGate(config.gate)
  BY <1>2, <1>3, <1>4, GateReadsBack
<1>6. AccessGateConfig(f) = [gate |-> ReadGate(config.gate), expiry |-> config.expiry]
  BY <1>2, <1>5 DEF AccessGateConfig
<1>7. ReadGateConfig(config) = [gate |-> ReadGate(config.gate), expiry |-> config.expiry]
  <2>1. ReadGateConfig(config) = [config EXCEPT !.gate = ReadGate(config.gate)]
    BY DEF ReadGateConfig
  <2> QED
    BY <1>4, <2>1
<1> QED
  BY <1>1, <1>3, <1>6, <1>7

(* What is read of the details of a channel, against what was filled in    *)
ReadsBack(read, channel) ==
    /\ \A field \in {"name", "description", "isPublic", "historyVisibleToNewJoiners",
                     "messagesVisibleToNonMembers", "eventsTtl", "externalUrl"} :
            read[field] = channel[field]
    /\ read.gateConfig = Optional(channel.gateConfig, ReadGateConfig)
    /\ read.rules.text = channel.rules.text /\ read.rules.enabled = channel.rules.enabled
    /\ (read.avatarId = Missing) = (channel.avatar = Missing)
    /\ read.permissions = ReadPermissions(channel.permissions)

LEMMA DetailsReadBack ==
    ASSUME NEW channel \in ChannelDraft, ChannelInputArgs(channel, Auth) # Thrown
    PROVE  ReadsBack(ChatDetails(DetailsOf(ChannelInputArgs(channel, Auth))), channel)
<1> DEFINE gate == Optional(channel.gateConfig, ApiAccessGateConfig)
           permissions == ApiGroupPermissions(channel.permissions)
           token == ApiAuthToken(Auth)
           avatar == Optional(channel.avatar,
                              LAMBDA data : [data |-> data, mime_type |-> "image/jpg"])
           args == [is_public |-> channel.isPublic, permissions |-> permissions,
                    gate_config |-> gate, auth_token |-> token,
                    external_url |-> channel.externalUrl, name |-> channel.name,
                    description |-> channel.description, events_ttl |-> channel.eventsTtl,
                    messages_visible_to_non_members |-> channel.messagesVisibleToNonMembers,
                    history_visible_to_new_joiners |-> channel.historyVisibleToNewJoiners,
                    rules |-> channel.rules, avatar |-> avatar]
           details == DetailsOf(args)
           read == ChatDetails(details)
<1>1. ChannelInputArgs(channel, Auth) = Built(args)
  BY DEF ChannelInputArgs
<1> HIDE DEF gate, permissions, token, avatar
<1>2. "gate_config" \in DOMAIN args /\ args.gate_config = gate
  OBVIOUS
<1>3. Built(args) = args /\ gate # Thrown
  <2> HIDE DEF args
  <2> QED
    BY <1>1, <1>2, BuiltOf
<1>4. /\ details.name = channel.name /\ details.description = channel.description
      /\ details.is_public = channel.isPublic /\ details.events_ttl = channel.eventsTtl
      /\ details.history_visible_to_new_joiners = channel.historyVisibleToNewJoiners
      /\ details.messages_visible_to_non_members = channel.messagesVisibleToNonMembers
      /\ details.external_url = channel.externalUrl /\ details.gate_config = gate
      /\ details.permissions = permissions
      /\ details.rules.text = channel.rules.text /\ details.rules.enabled = channel.rules.enabled
      /\ details.avatar_id = Optional(avatar, LAMBDA a : 1)
  BY DEF DetailsOf
<1> HIDE DEF details
<1>5. /\ read.name = details.name /\ read.description = details.description
      /\ read.isPublic = details.is_public /\ read.eventsTtl = details.events_ttl
      /\ read.historyVisibleToNewJoiners = details.history_visible_to_new_joiners
      /\ read.messagesVisibleToNonMembers = details.messages_visible_to_non_members
      /\ read.externalUrl = details.external_url /\ read.rules = details.rules
      /\ read.gateConfig = Optional(details.gate_config, AccessGateConfig)
      /\ read.permissions = GroupPermissions(details.permissions)
      /\ read.avatarId = details.avatar_id
  BY DEF ChatDetails
<1>6. (details.avatar_id = Missing) = (channel.avatar = Missing)
  <2>1. CASE channel.avatar = Missing
    BY <1>4, <2>1 DEF avatar, Optional
  <2>2. CASE channel.avatar # Missing
    <3>1. avatar = [data |-> channel.avatar, mime_type |-> "image/jpg"]
      BY <2>2 DEF avatar, Optional
    <3>2. channel.avatar \in STRING
      BY <2>2 DEF ChannelDraft
    <3>3. avatar \in [mime_type : STRING, data : STRING]
      BY <3>1, <3>2, MimeAssumption
    <3>4. avatar # Missing /\ 1 # Missing
      BY <3>3, ValuesAssumption
    <3> QED
      BY <1>4, <2>2, <3>4 DEF Optional
  <2> QED
    BY <2>1, <2>2
<1>7. Optional(gate, AccessGateConfig) = Optional(channel.gateConfig, ReadGateConfig)
  <2>1. CASE channel.gateConfig = Missing
    BY <2>1 DEF gate, Optional
  <2>2. CASE channel.gateConfig # Missing
    <3>1. channel.gateConfig \in Domain!AccessGateConfig
      BY <2>2 DEF ChannelDraft
    <3>2. gate = ApiAccessGateConfig(channel.gateConfig)
      BY <2>2 DEF gate, Optional
    <3>3. gate \in Wire!AccessGateConfig
      BY <1>3, <3>1, <3>2, GateConfigParses
    <3>4. gate # Missing
      BY <3>3, ValuesAssumption
    <3>5. AccessGateConfig(gate) = ReadGateConfig(channel.gateConfig)
      BY <1>3, <3>1, <3>2, ConfigReadsBack
    <3> QED
      BY <2>2, <3>4, <3>5 DEF Optional
  <2> QED
    BY <2>1, <2>2
<1>8. GroupPermissions(permissions) = ReadPermissions(channel.permissions)
  BY PermissionsReadBack DEF permissions, ChannelDraft
<1>9. ReadsBack(read, channel)
  <2> HIDE DEF read
  <2> QED
    BY <1>4, <1>5, <1>6, <1>7, <1>8 DEF ReadsBack
<1> HIDE DEF args
<1> QED
  BY <1>1, <1>3, <1>9 DEF details

-----------------------------------------------------------------------------
(* What is read of messages that were sent *)

LEMMA ContentReadsBack ==
    ASSUME NEW draft \in Wire!BotMessageContent, NEW sender
    PROVE  ReadsAs(MessageContent(draft, sender), draft)
<1> DEFINE filled == draft.value
           content == MessageContent(draft, sender)
<1>1. CASE draft.tag = "Text"
  <2>1. content = TextContent(filled)
    BY <1>1 DEF MessageContent
  <2> QED
    BY <1>1, <2>1 DEF ReadsAs, TextContent
<1>2. CASE draft.tag = "Image"
  <2>1. content = ImageContent(filled)
    BY <1>2 DEF MessageContent
  <2> QED
    BY <1>2, <2>1 DEF ReadsAs, ImageContent
<1>3. CASE draft.tag = "File"
  <2>1. content = FileContent(filled)
    BY <1>3 DEF MessageContent
  <2> QED
    BY <1>3, <2>1 DEF ReadsAs, FileContent
<1>4. CASE draft.tag = "Audio"
  <2>1. content = AudioContent(filled)
    BY <1>4 DEF MessageContent
  <2> QED
    BY <1>4, <2>1 DEF ReadsAs, AudioContent
<1>5. CASE draft.tag = "Video"
  <2>1. content = VideoContent(filled)
    BY <1>5 DEF MessageContent
  <2> QED
    BY <1>5, <2>1 DEF ReadsAs, VideoContent
<1>6. CASE draft.tag = "Giphy"
  <2>1. content = GiphyContent(filled)
    BY <1>6 DEF MessageContent
  <2> QED
    BY <1>6, <2>1 DEF ReadsAs, GiphyContent
<1>7. CASE draft.tag = "Poll"
  <2>1. content = PollContent(filled)
    BY <1>7 DEF MessageContent
  <2> QED
    BY <1>7, <2>1 DEF ReadsAs, PollContent, PollConfig
<1> QED
  BY <1>1, <1>2, <1>3, <1>4, <1>5, <1>6, <1>7 DEF Wire!BotMessageContent, Wire!Tagged

LEMMA EventReadsBack ==
    ASSUME NEW draft \in MessageDraft, NEW index \in Nat,
           Event(Sent(MessageInputArgs(draft, Auth), index)) # Thrown
    PROVE  LET read == Event(Sent(MessageInputArgs(draft, Auth), index))
           IN  /\ ReadsAs(read.content, draft.content)
               /\ read.blockLevelMarkdown = draft.blockLevelMarkdown
               /\ read.botContext.finalised = draft.finalised
               /\ draft.messageId \in 0 .. Width64 - 1 => read.messageId = draft.messageId
<1> DEFINE args == MessageInputArgs(draft, Auth)
           event == Sent(args, index)
           read == Event(event)
           value == event.value
           content == MessageContent(value.content, PrincipalBytesToString(value.sender))
           context == [command |-> Missing, finalised |-> draft.finalised]
<1>1. /\ args.content = draft.content /\ args.finalised = draft.finalised
      /\ args.message_id = draft.messageId
      /\ args.block_level_markdown = draft.blockLevelMarkdown
  BY DEF MessageInputArgs
<1> HIDE DEF args
<1>2. /\ event.tag = "Message" /\ value.content = draft.content
      /\ value.bot_context = context
      /\ value.block_level_markdown = draft.blockLevelMarkdown
      /\ value.message_id = OrElse(draft.messageId, Width64 + index)
  BY <1>1 DEF Sent
<1> HIDE DEF event
<1>3. read = Message(value)
  BY <1>2 DEF Event
<1>4. read # Thrown
  BY DEF event, args
<1> HIDE DEF read, value
<1>5. /\ read.content = content
      /\ read.blockLevelMarkdown = value.block_level_markdown
      /\ read.messageId = ToBigInt64(value.message_id)
      /\ read.botContext = Optional(value.bot_context, BotMessageContext)
  <2> HIDE DEF content
  <2>1. Message(value)
          = [kind |-> "message", content |-> content,
             sender |-> PrincipalBytesToString(value.sender),
             repliesTo |-> Optional(value.replies_to, ReplyContext),
             messageId |-> ToBigInt64(value.message_id),
             messageIndex |-> value.message_index,
             reactions |-> Reactions(value.reactions), tips |-> Tips(value.tips),
             edited |-> value.edited, forwarded |-> value.forwarded,
             deleted |-> content.kind = "deleted_content",
             thread |-> Optional(value.thread_summary, ThreadSummary),
             blockLevelMarkdown |-> value.block_level_markdown,
             botContext |-> Optional(value.bot_context, BotMessageContext)]
    BY <1>3, <1>4 DEF Message, content
  <2> QED
    BY <1>3, <2>1
<1>6. ReadsAs(content, draft.content)
  BY <1>2, ContentReadsBack DEF MessageDraft
<1>7. read.botContext.finalised = draft.finalised
  <2>1. context \in Wire!BotMessageContext
    BY DEF MessageDraft, Wire!BotMessageContext, Wire!Opt
  <2>2. context # Missing
    BY <2>1, ValuesAssumption
  <2>3. BotMessageContext(context).finalised = draft.finalised
    BY DEF BotMessageContext
  <2> HIDE DEF context
  <2>4. read.botContext = BotMessageContext(context)
    BY <1>2, <1>5, <2>2 DEF Optional
  <2> QED
    BY <2>3, <2>4
<1>8. ASSUME draft.messageId \in 0 .. Width64 - 1
      PROVE  read.messageId = draft.messageId
  <2>1. draft.messageId # Missing
    BY <1>8, ValuesAssumption, MappingAssumption
  <2>2. value.message_id = draft.messageId
    BY <1>2, <2>1 DEF OrElse
  <2> QED
    BY <1>5, <1>8, <2>2, MappingAssumption DEF ToBigInt64
<1> QED
  BY <1>2, <1>5, <1>6, <1>7, <1>8 DEF read, event, args

-----------------------------------------------------------------------------
(* Numbers: what is read of a memo is one, and there is a largest of those *)
(* under a bound                                                           *)

(* Of any natural numbers there is a least. *)
LEMMA LeastNat ==
    ASSUME NEW S, S \subseteq Nat, S # {}
    PROVE  \E n \in S : \A m \in S : n <= m
<1> DEFINE R == {ss \in Nat \X Nat : ss[1] < ss[2]}
<1>1. IsWellFoundedOn(R, Nat)
  BY NatLessThanWellFounded DEF OpToRel
<1>2. \A m, n \in Nat : <<m, n>> \notin R => n <= m
  OBVIOUS
<1> HIDE DEF R
<1>3. PICK n \in S : \A m \in S : ~ (<<m, n>> \in R)
  BY <1>1, WFMin
<1> QED
  BY <1>2, <1>3

(* Induction, over a set of numbers rather than a predicate of them *)
LEMMA Induct ==
    ASSUME NEW S, 0 \in S, \A n \in Nat : n \in S => n + 1 \in S
    PROVE  Nat \subseteq S
<1> SUFFICES ASSUME Nat \ S # {} PROVE FALSE
  OBVIOUS
<1>1. PICK n \in Nat \ S : \A m \in Nat \ S : n <= m
  BY LeastNat
<1>2. n - 1 \in Nat /\ n - 1 \in S
  BY <1>1
<1> QED
  BY <1>1, <1>2

(* Numbers under a bound have a largest one. *)
LEMMA MaxOf ==
    ASSUME NEW S, S \subseteq Nat, S # {}, NEW n \in Nat, \A i \in S : i <= n
    PROVE  Max(S) \in S /\ \A i \in S : i <= Max(S)
<1> DEFINE B == {b \in Nat : \A i \in S : i <= b}
<1>1. PICK b \in B : \A c \in B : b <= c
  <2>1. B \subseteq Nat /\ B # {}
    OBVIOUS
  <2> HIDE DEF B
  <2> QED
    BY <2>1, LeastNat
<1>2. b \in S
  <2> SUFFICES ASSUME b \notin S PROVE FALSE
    OBVIOUS
  <2>1. \A i \in S : i <= b - 1 /\ b - 1 \in Nat
    BY <1>1
  <2>2. b - 1 \in B
    BY <2>1
  <2> QED
    BY <1>1, <2>2
<1>3. \E x \in S : \A y \in S : x >= y
  BY <1>1, <1>2
<1> QED
  BY <1>3 DEF Max

(* An element of a sequence *)
LEMMA ElementOf ==
    ASSUME NEW T, NEW seq \in Seq(T), NEW i \in Nat, 1 <= i, i <= Len(seq)
    PROVE  seq[i] \in T
OBVIOUS

(* Bytes are natural numbers. *)
LEMMA BytesAreNumbers ==
    ASSUME NEW bytes \in Seq(0..255), NEW i \in Nat, 1 <= i, i <= Len(bytes)
    PROVE  bytes[i] \in Nat
<1> DEFINE T == 0..255
<1>1. \A n \in T : n \in Nat
  OBVIOUS
<1> HIDE DEF T
<1>2. bytes[i] \in T
  BY ElementOf DEF T
<1> QED
  BY <1>1, <1>2

(* The number of bytes that are not empty is a number. *)
LEMMA NumberOfBytes ==
    ASSUME NEW bytes \in Seq(0..255), bytes # <<>>
    PROVE  BytesToBigint(bytes) \in Nat
<1> DEFINE L == Len(bytes)
           Step(f, i) == IF i = 0 THEN 0 ELSE 256 * f[i - 1] + bytes[i]
           Eq(f, n) == f = [i \in 0 .. n |-> Step(f, i)]
           Has(n) == \E f \in [0 .. n -> Nat] : Eq(f, n)
           S == {n \in Nat : n <= L => Has(n)}
           g == CHOOSE f : Eq(f, L)
           N == {n \in Nat : n <= L => g[n] \in Nat}
<1>1. L \in Nat
  OBVIOUS
<1>2. \A i \in Nat : 1 <= i /\ i <= L => bytes[i] \in Nat
  <2> HIDE DEF Step, Eq, Has, S, g, N
  <2> QED
    BY BytesAreNumbers
<1>3. BytesToBigint(bytes) = g[L]
  BY DEF BytesToBigint
<1> HIDE DEF L
<1>4. 0 \in S
  <2> DEFINE f == [i \in 0 .. 0 |-> 0]
  <2>1. f \in [0 .. 0 -> Nat] /\ Eq(f, 0)
    OBVIOUS
  <2> HIDE DEF f, Eq
  <2> QED
    BY <2>1
<1>5. ASSUME NEW n \in Nat, n \in S, n + 1 <= L PROVE Has(n + 1)
  <2>1. Has(n)
    <3> HIDE DEF Has
    <3> QED
      BY <1>1, <1>5
  <2>2. PICK f \in [0 .. n -> Nat] : Eq(f, n)
    <3> HIDE DEF Eq
    <3> QED
      BY <2>1
  <2> DEFINE h == [i \in 0 .. n + 1 |-> IF i = n + 1 THEN 256 * f[n] + bytes[n + 1] ELSE f[i]]
  <2>3. bytes[n + 1] \in Nat /\ f[n] \in Nat
    BY <1>1, <1>2, <1>5, <2>2
  <2>4. h \in [0 .. n + 1 -> Nat]
    BY <2>3, <2>2
  <2>5. ASSUME NEW i \in 0 .. n + 1 PROVE h[i] = Step(h, i)
    <3>1. CASE i = n + 1
      BY <3>1
    <3>2. CASE i # n + 1
      <4>1. i \in 0 .. n /\ (i # 0 => i - 1 \in 0 .. n)
        BY <3>2
      <4>2. f[i] = Step(f, i)
        BY <2>2, <4>1
      <4>3. h[i] = f[i] /\ (i # 0 => h[i - 1] = f[i - 1])
        BY <4>1
      <4> QED
        BY <4>2, <4>3
    <3> QED
      BY <3>1, <3>2
  <2>6. h = [i \in 0 .. n + 1 |-> h[i]]
    OBVIOUS
  <2> HIDE DEF h
  <2>7. Eq(h, n + 1)
    BY <2>5, <2>6
  <2> QED
    BY <2>4, <2>7
<1>6. L \in S
  <2> HIDE DEF Has
  <2>1. \A n \in Nat : n \in S => n + 1 \in S
    BY <1>5
  <2> HIDE DEF S
  <2> QED
    BY <1>1, <1>4, <2>1, Induct
<1>7. Eq(g, L)
  <2>1. \E f : Eq(f, L)
    BY <1>1, <1>6
  <2> HIDE DEF Eq
  <2> QED
    BY <2>1
<1> HIDE DEF g
<1>8. 0 \in N
  BY <1>1, <1>7
<1>9. ASSUME NEW n \in Nat, n \in N PROVE n + 1 \in N
  <2> SUFFICES ASSUME n + 1 <= L PROVE g[n + 1] \in Nat
    OBVIOUS
  <2>1. g[n + 1] = 256 * g[n] + bytes[n + 1]
    BY <1>1, <1>7
  <2>2. g[n] \in Nat /\ bytes[n + 1] \in Nat
    BY <1>1, <1>2, <1>9
  <2> QED
    BY <2>1, <2>2
<1>10. L \in N
  <2> HIDE DEF N
  <2> QED
    BY <1>1, <1>8, <1>9, Induct
<1> QED
  BY <1>3, <1>1, <1>10

-----------------------------------------------------------------------------
(* Parts of what is read *)

(* What is made of a sequence has its places; none of its parts throws.    *)
LEMMA MappedParts ==
    ASSUME NEW S, NEW T, NEW seq \in Seq(S), NEW f, f = [i \in DOMAIN seq |-> f[i]],
           \A i \in DOMAIN seq : f[i] \in T, Thrown \notin T
    PROVE  Built(f) = f /\ Built(f) \in Seq(T) /\ Len(Built(f)) = Len(seq)
<1>1. f \in Seq(T) /\ Len(f) = Len(seq)
  BY SeqOfParts
<1>2. Built(f) = f
  BY DEF Built
<1> QED
  BY <1>1, <1>2

(* The bytes of principals are read as their texts. *)
LEMMA PrincipalDeclared ==
    ASSUME NEW value \in Wire!TSPrincipal
    PROVE  PrincipalBytesToString(value) \in Principals
<1>1. value \notin Principals
  BY ValuesAssumption
<1> QED
  BY <1>1 DEF PrincipalBytesToString, Wire!TSPrincipal

(* So are those of a list of principals, *)
LEMMA PrincipalsDeclared ==
    ASSUME NEW values \in Seq(Wire!TSPrincipal)
    PROVE  PrincipalTexts(values) \in Seq(Principals)
<1> DEFINE f == [i \in DOMAIN values |-> PrincipalBytesToString(values[i])]
<1>1. PrincipalTexts(values) = Built(f)
  BY DEF PrincipalTexts, Mapped
<1>2. \A i \in DOMAIN values : f[i] \in Principals
  BY PrincipalDeclared
<1>3. f = [i \in DOMAIN values |-> f[i]]
  OBVIOUS
<1>4. Thrown \notin Principals
  BY ValuesAssumption
<1> HIDE DEF f
<1> QED
  BY <1>1, <1>2, <1>3, <1>4, MappedParts

(* and of a set of them. *)
LEMMA PrincipalSetDeclared ==
    ASSUME NEW values \in Seq(Wire!TSPrincipal)
    PROVE  ToSet(PrincipalTexts(values)) \in SUBSET Principals
<1> DEFINE texts == PrincipalTexts(values)
<1>1. texts \in Seq(Principals)
  BY PrincipalsDeclared
<1> HIDE DEF texts
<1>2. \A i \in DOMAIN texts : texts[i] \in Principals
  BY <1>1
<1>3. ToSet(texts) = {texts[i] : i \in DOMAIN texts}
  BY DEF ToSet
<1> QED
  BY <1>2, <1>3 DEF texts

(* Roles, permissions and gates *)
LEMMA RoleDeclared ==
    ASSUME NEW role \in Wire!GroupPermissionRole \cup Wire!GroupRole
    PROVE  PermissionRole(role) \in Domain!PermissionRole
BY DEF Wire!GroupPermissionRole, Wire!GroupRole, PermissionRole, Domain!PermissionRole

(* A role of messages that is not there is read as none. *)
LEMMA OptionalRoleDeclared ==
    ASSUME NEW role \in Wire!Opt(Wire!GroupPermissionRole)
    PROVE  RoleOrNone(role) \in Domain!PermissionRole
<1>1. CASE role = Missing
  BY <1>1 DEF RoleOrNone, Optional, OrElse, Domain!PermissionRole
<1>2. CASE role # Missing
  <2>1. PermissionRole(role) \in Domain!PermissionRole
    BY <1>2, RoleDeclared DEF Wire!Opt
  <2>2. PermissionRole(role) # Missing
    BY <2>1, Roles
  <2> QED
    BY <1>2, <2>1, <2>2 DEF RoleOrNone, Optional, OrElse
<1> QED
  BY <1>1, <1>2

LEMMA CustomDeclared ==
    ASSUME NEW custom \in Seq(Wire!CustomPermission)
    PROVE  DomainCustom(custom) \in Seq(Domain!CustomPermission)
<1> DEFINE read(p) == [subtype |-> p.subtype, role |-> PermissionRole(p.role)]
           f == [i \in DOMAIN custom |-> read(custom[i])]
<1>1. DomainCustom(custom) = Built(f)
  BY DEF DomainCustom, Mapped
<1>2. ASSUME NEW p \in Wire!CustomPermission
      PROVE  read(p) \in Domain!CustomPermission
  BY RoleDeclared DEF Wire!CustomPermission, Domain!CustomPermission
<1> HIDE DEF read
<1>3. \A i \in DOMAIN custom : f[i] \in Domain!CustomPermission
  BY <1>2
<1>4. f = [i \in DOMAIN custom |-> f[i]]
  OBVIOUS
<1>5. Thrown \notin Domain!CustomPermission
  BY ValuesAssumption
<1> HIDE DEF f
<1> QED
  BY <1>1, <1>3, <1>4, <1>5, MappedParts

LEMMA MessagePermissionsDeclared ==
    ASSUME NEW api \in Wire!MessagePermissions
    PROVE  MessagePermissions(api) \in Domain!MessagePermissions
<1>1. DomainCustom(api.custom) \in Seq(Domain!CustomPermission)
  BY CustomDeclared DEF Wire!MessagePermissions
<1>2. \A role \in Wire!Opt(Wire!GroupPermissionRole) : RoleOrNone(role) \in Domain!PermissionRole
  BY OptionalRoleDeclared
<1>3. MessagePermissions(api)
        = [audio |-> RoleOrNone(api.audio), video |-> RoleOrNone(api.video),
           videoCall |-> RoleOrNone(api.video_call), custom |-> DomainCustom(api.custom),
           file |-> RoleOrNone(api.file), poll |-> RoleOrNone(api.poll),
           text |-> RoleOrNone(api.text), crypto |-> RoleOrNone(api.crypto),
           giphy |-> RoleOrNone(api.giphy), default |-> RoleOrNone(api.default),
           image |-> RoleOrNone(api.image), prize |-> RoleOrNone(api.prize),
           p2pSwap |-> RoleOrNone(api.p2p_swap)]
  BY DEF MessagePermissions, DomainCustom
<1>4. \A role \in Wire!GroupPermissionRole : role \in Wire!Opt(Wire!GroupPermissionRole)
  BY DEF Wire!Opt
<1> QED
  BY <1>1, <1>2, <1>3, <1>4 DEF Wire!MessagePermissions, Domain!MessagePermissions, Domain!Opt

LEMMA PermissionsDeclared ==
    ASSUME NEW api \in Wire!GroupPermissions
    PROVE  GroupPermissions(api) \in Domain!GroupPermissions
<1>1. \A role \in Wire!GroupPermissionRole : PermissionRole(role) \in Domain!PermissionRole
  BY RoleDeclared
<1>2. MessagePermissions(api.message_permissions) \in Domain!MessagePermissions
  BY MessagePermissionsDeclared DEF Wire!GroupPermissions
<1>3. Optional(api.thread_permissions, MessagePermissions)
        \in Domain!Opt(Domain!MessagePermissions)
  BY MessagePermissionsDeclared DEF Wire!GroupPermissions, Wire!Opt, Optional, Domain!Opt
<1> QED
  BY <1>1, <1>2, <1>3 DEF GroupPermissions, Wire!GroupPermissions, Domain!GroupPermissions

LEMMA CredentialArgumentsDeclared ==
    ASSUME NEW arguments \in Wire!RecordOf(Wire!VerifiedCredentialArgumentValue)
    PROVE  CredentialArguments(arguments)
                \in Domain!RecordOf([string : STRING] \cup [number : Int])
<1> DEFINE Value == [string : STRING] \cup [number : Int]
           read(x) == IF x.tag = "String" THEN [string |-> x.value] ELSE [number |-> x.value]
           f == [i \in DOMAIN arguments |-> <<arguments[i][1], read(arguments[i][2])>>]
           Given == STRING \X Wire!VerifiedCredentialArgumentValue
           Values == STRING \X Value
<1>1. arguments \in Seq(Given)
  BY DEF Wire!RecordOf, Wire!Pair
<1>2. ASSUME NEW x \in Wire!VerifiedCredentialArgumentValue
      PROVE  read(x) \in Value
  BY DEF Wire!VerifiedCredentialArgumentValue, Wire!Tagged
<1>3. CredentialArguments(arguments) = f
  BY DEF CredentialArguments
<1> HIDE DEF read, Value
<1>4. \A i \in DOMAIN arguments : f[i] \in Values
  BY <1>1, <1>2
<1>5. f = [i \in DOMAIN arguments |-> f[i]]
  OBVIOUS
<1> HIDE DEF f, Values, Given
<1>6. f \in Seq(Values)
  BY <1>1, <1>4, <1>5, SeqOfParts
<1> QED
  BY <1>3, <1>6 DEF Domain!RecordOf, Values, Value

LEMMA LeafDeclared ==
    ASSUME NEW api \in Wire!AccessGateNonComposite
    PROVE  LeafGate(api) \in Domain!LeafGate
<1>1. CASE api \in Wire!Literals({"DiamondMember", "LifetimeDiamondMember", "UniquePerson",
                                  "Locked", "ReferredByMember"})
  <2>1. api.tag \in DOMAIN LiteralGates
        /\ api.tag \notin {"SnsNeuron", "VerifiedCredential", "Payment", "TokenBalance"}
    BY <1>1 DEF Wire!Literals, LiteralGates
  <2>2. LeafGate(api) = [kind |-> LiteralGates[api.tag]]
    BY <2>1, Zenon DEF LeafGate
  <2>3. LiteralGates[api.tag] \in {"diamond_gate", "lifetime_diamond_gate",
                                   "unique_person_gate", "locked_gate",
                                   "referred_by_member_gate"}
    BY <2>1 DEF LiteralGates
  <2> QED
    BY <2>2, <2>3 DEF Domain!LeafGate, Domain!Kinds
<1>2. CASE api \in Wire!Tagged("SnsNeuron", Wire!SnsNeuronGate)
  <2>1. /\ api.value.governance_canister_id \in Wire!TSPrincipal
        /\ api.value.min_stake_e8s \in Domain!Opt(Nat)
        /\ api.value.min_dissolve_delay \in Domain!Opt(Nat)
    BY <1>2 DEF Wire!Tagged, Wire!SnsNeuronGate, Wire!Opt, Domain!Opt
  <2>2. LeafGate(api) = [kind |-> "neuron_gate",
             minDissolveDelay |-> api.value.min_dissolve_delay,
             minStakeE8s |-> api.value.min_stake_e8s,
             governanceCanister |-> PrincipalBytesToString(api.value.governance_canister_id)]
    BY <1>2 DEF Wire!Tagged, LeafGate, LiteralGates
  <2>3. LeafGate(api) \in Domain!NeuronGate
    BY <2>1, <2>2, PrincipalDeclared DEF Domain!NeuronGate
  <2> QED
    BY <2>3 DEF Domain!LeafGate
<1>3. CASE api \in Wire!Tagged("VerifiedCredential", Wire!VerifiedCredentialGate)
  <2> DEFINE given == api.value
             arguments == IF given.credential_arguments = <<>> THEN Missing
                          ELSE CredentialArguments(given.credential_arguments)
             credential == [issuerCanisterId |-> PrincipalBytesToString(given.issuer_canister_id),
                            issuerOrigin |-> given.issuer_origin,
                            credentialType |-> given.credential_type,
                            credentialName |-> given.credential_name,
                            credentialArguments |-> arguments]
  <2>1. given \in Wire!VerifiedCredentialGate /\ api.tag = "VerifiedCredential"
    BY <1>3 DEF Wire!Tagged
  <2>2. LeafGate(api) = [kind |-> "credential_gate", credential |-> credential]
    BY <2>1 DEF LeafGate, LiteralGates
  <2> HIDE DEF given
  <2>3. arguments \in Domain!Opt(Domain!RecordOf([string : STRING] \cup [number : Int]))
    BY <2>1, CredentialArgumentsDeclared DEF Wire!VerifiedCredentialGate, Domain!Opt
  <2> HIDE DEF arguments
  <2>4. credential \in Domain!Credential
    BY <2>1, <2>3, PrincipalDeclared DEF Wire!VerifiedCredentialGate, Domain!Credential
  <2> HIDE DEF credential
  <2>5. LeafGate(api) \in Domain!CredentialGate
    BY <2>2, <2>4 DEF Domain!CredentialGate
  <2> QED
    BY <2>5 DEF Domain!LeafGate
<1>4. CASE api \in Wire!Tagged("Payment", Wire!PaymentGate)
  <2>1. /\ api.value.ledger_canister_id \in Wire!TSPrincipal
        /\ api.value.amount \in Nat /\ api.value.fee \in Nat
    BY <1>4 DEF Wire!Tagged, Wire!PaymentGate
  <2>2. LeafGate(api) = [kind |-> "payment_gate",
             ledgerCanister |-> PrincipalBytesToString(api.value.ledger_canister_id),
             amount |-> api.value.amount, fee |-> api.value.fee]
    BY <1>4 DEF Wire!Tagged, LeafGate, LiteralGates
  <2>3. LeafGate(api) \in Domain!PaymentGate
    BY <2>1, <2>2, PrincipalDeclared DEF Domain!PaymentGate
  <2> QED
    BY <2>3 DEF Domain!LeafGate
<1>5. CASE api \in Wire!Tagged("TokenBalance", Wire!TokenBalanceGate)
  <2>1. /\ api.value.ledger_canister_id \in Wire!TSPrincipal
        /\ api.value.min_balance \in Nat
    BY <1>5 DEF Wire!Tagged, Wire!TokenBalanceGate
  <2>2. LeafGate(api) = [kind |-> "token_balance_gate",
             ledgerCanister |-> PrincipalBytesToString(api.value.ledger_canister_id),
             minBalance |-> api.value.min_balance]
    BY <1>5 DEF Wire!Tagged, LeafGate, LiteralGates
  <2>3. LeafGate(api) \in Domain!TokenBalanceGate
    BY <2>1, <2>2, PrincipalDeclared DEF Domain!TokenBalanceGate
  <2> QED
    BY <2>3 DEF Domain!LeafGate
<1> QED
  BY <1>1, <1>2, <1>3, <1>4, <1>5 DEF Wire!AccessGateNonComposite

LEMMA GateDeclared ==
    ASSUME NEW api \in Wire!AccessGate
    PROVE  AccessGate(api) \in Domain!AccessGate
<1>1. CASE api \in Wire!Tagged("Composite", Wire!CompositeGate)
  <2> DEFINE inner == api.value.inner
             f == [i \in DOMAIN inner |-> LeafGate(inner[i])]
             operator == IF api.value.and THEN "and" ELSE "or"
  <2>1. inner \in Seq(Wire!AccessGateNonComposite) /\ api.tag = "Composite"
    BY <1>1 DEF Wire!Tagged, Wire!CompositeGate
  <2>2. AccessGate(api) = [kind |-> "composite_gate", operator |-> operator,
                           gates |-> Built(f)]
    BY <2>1 DEF AccessGate, Mapped
  <2>3. operator \in {"and", "or"}
    OBVIOUS
  <2> HIDE DEF inner, operator
  <2>4. \A i \in DOMAIN inner : f[i] \in Domain!LeafGate
    BY <2>1, LeafDeclared
  <2>5. f = [i \in DOMAIN inner |-> f[i]] /\ Thrown \notin Domain!LeafGate
    BY ValuesAssumption
  <2> HIDE DEF f
  <2>6. Built(f) \in Seq(Domain!LeafGate)
    BY <2>1, <2>4, <2>5, MappedParts
  <2>7. AccessGate(api) \in Domain!CompositeGate
    BY <2>2, <2>3, <2>6 DEF Domain!CompositeGate
  <2> QED
    BY <2>7 DEF Domain!AccessGate
<1>2. CASE api \in Wire!AccessGateNonComposite
  <2>1. api.tag # "Composite"
    BY <1>2 DEF Wire!AccessGateNonComposite, Wire!Literals, Wire!Tagged
  <2> QED
    BY <1>2, <2>1, LeafDeclared DEF AccessGate, Domain!AccessGate
<1> QED
  BY <1>1, <1>2 DEF Wire!AccessGate

LEMMA GateConfigDeclared ==
    ASSUME NEW api \in Wire!AccessGateConfig
    PROVE  AccessGateConfig(api) \in Domain!AccessGateConfig
BY GateDeclared
   DEF Wire!AccessGateConfig, Wire!Opt, AccessGateConfig, Domain!AccessGateConfig, Domain!Opt

-----------------------------------------------------------------------------
(* Contents of messages, one kind at a time *)

(* Missing and Thrown are none of what the fields of a record hold.        *)
LEMMA NoValue ==
    ASSUME NEW x \in {Missing, Thrown}
    PROVE  /\ x \notin Nat /\ x \notin STRING /\ x \notin Principals /\ x # <<>>
           /\ x \notin {"completed", "failed", "crypto_content", "prize_winner_content",
                        "success"}
<1>1. x \notin Nat /\ x \notin STRING /\ x \notin Principals
  BY ValuesAssumption
<1>2. x \notin {"completed", "failed", "crypto_content", "prize_winner_content", "success"}
  BY ValuesAssumption
<1>3. x \notin Wire!TSBytes /\ <<>> \in Wire!TSBytes
  BY ValuesAssumption DEF Wire!TSBytes
<1> QED
  BY <1>1, <1>2, <1>3

(* A record of parts none of which throws is built, *)
LEMMA BuiltWhole ==
    ASSUME NEW f, \A x \in DOMAIN f : f[x] # Thrown
    PROVE  Built(f) = f
BY DEF Built

(* and one with a part that throws, throws. *)
LEMMA BuiltThrows ==
    ASSUME NEW f, NEW x \in DOMAIN f, f[x] = Thrown
    PROVE  Built(f) = Thrown
BY DEF Built

(* Contents without parts that throw *)
LEMMA BlobDeclared ==
    ASSUME NEW value \in Wire!Opt(Wire!BlobReference)
    PROVE  Optional(value, BlobReference) \in Domain!Opt(Domain!BlobReference)
<1>1. ASSUME NEW blob \in Wire!BlobReference
      PROVE  BlobReference(blob) \in Domain!BlobReference
  BY PrincipalDeclared DEF Wire!BlobReference, BlobReference, Domain!BlobReference
<1> QED
  BY <1>1 DEF Wire!Opt, Optional, Domain!Opt

LEMMA FileDeclared ==
    ASSUME NEW value \in Wire!FileContent
    PROVE  FileContent(value) \in Domain!FileContent
BY BlobDeclared DEF Wire!FileContent, FileContent, Domain!FileContent, Wire!Opt, Domain!Opt

LEMMA AudioDeclared ==
    ASSUME NEW value \in Wire!AudioContent
    PROVE  AudioContent(value) \in Domain!AudioContent
BY BlobDeclared DEF Wire!AudioContent, AudioContent, Domain!AudioContent, Wire!Opt, Domain!Opt

LEMMA ImageDeclared ==
    ASSUME NEW value \in Wire!ImageContent
    PROVE  ImageContent(value) \in Domain!ImageContent
BY BlobDeclared DEF Wire!ImageContent, ImageContent, Domain!ImageContent, Wire!Opt, Domain!Opt

LEMMA VideoDeclared ==
    ASSUME NEW value \in Wire!VideoContent
    PROVE  VideoContent(value) \in Domain!VideoContent
<1>1. /\ Optional(value.video_blob_reference, BlobReference) \in Domain!Opt(Domain!BlobReference)
      /\ Optional(value.image_blob_reference, BlobReference) \in Domain!Opt(Domain!BlobReference)
  BY BlobDeclared DEF Wire!VideoContent
<1> QED
  BY <1>1 DEF Wire!VideoContent, VideoContent, Domain!VideoContent, Domain!DataContent,
              Wire!Opt, Domain!Opt

LEMMA DeletedDeclared ==
    ASSUME NEW value \in Wire!DeletedBy
    PROVE  DeletedContent(value) \in Domain!DeletedContent
BY PrincipalDeclared DEF Wire!DeletedBy, DeletedContent, Domain!DeletedContent

LEMMA GiphyDeclared ==
    ASSUME NEW value \in Wire!GiphyContent
    PROVE  GiphyContent(value) \in Domain!GiphyContent
<1>1. ASSUME NEW variant \in Wire!GiphyImageVariant
      PROVE  GiphyImageVariant(variant) \in Domain!GiphyImage
  BY DEF Wire!GiphyImageVariant, GiphyImageVariant, Domain!GiphyImage
<1> QED
  BY <1>1 DEF Wire!GiphyContent, GiphyContent, Domain!GiphyContent, Wire!Opt, Domain!Opt

LEMMA VotesDeclared ==
    ASSUME NEW value \in Wire!TotalVotes
    PROVE  TotalPollVotes(value) \in Domain!TotalPollVotes
<1>1. CASE value \in Wire!Tagged("Visible", Wire!RecordOf(Seq(Wire!TSPrincipal)))
  <2> DEFINE given == value.value
             f == [i \in DOMAIN given |-> <<given[i][1], PrincipalTexts(given[i][2])>>]
             Given == STRING \X Seq(Wire!TSPrincipal)
             Values == STRING \X Seq(Principals)
  <2>1. given \in Seq(Given) /\ value.tag = "Visible"
    BY <1>1 DEF Wire!Tagged, Wire!RecordOf, Wire!Pair
  <2>2. TotalPollVotes(value) = [kind |-> "visible_poll_votes", votes |-> f]
    BY <2>1 DEF TotalPollVotes
  <2> HIDE DEF given
  <2>3. \A i \in DOMAIN given : f[i] \in Values
    BY <2>1, PrincipalsDeclared
  <2>4. f = [i \in DOMAIN given |-> f[i]]
    OBVIOUS
  <2> HIDE DEF f, Values, Given
  <2>5. f \in Seq(Values)
    BY <2>1, <2>3, <2>4, SeqOfParts
  <2>6. TotalPollVotes(value) \in Domain!VisiblePollVotes
    BY <2>2, <2>5 DEF Domain!VisiblePollVotes, Domain!RecordOf, Values
  <2> QED
    BY <2>6 DEF Domain!TotalPollVotes
<1>2. CASE value \in Wire!Tagged("Anonymous", Wire!RecordOf(Nat))
  <2>1. TotalPollVotes(value) \in Domain!AnonymousPollVotes
    BY <1>2 DEF Wire!Tagged, Wire!RecordOf, Wire!Pair, TotalPollVotes,
                Domain!AnonymousPollVotes, Domain!RecordOf
  <2> QED
    BY <2>1 DEF Domain!TotalPollVotes
<1>3. CASE value \in Wire!Tagged("Hidden", Nat)
  BY <1>3 DEF Wire!Tagged, TotalPollVotes, Domain!HiddenPollVotes, Domain!TotalPollVotes
<1> QED
  BY <1>1, <1>2, <1>3 DEF Wire!TotalVotes

LEMMA PollDeclared ==
    ASSUME NEW value \in Wire!PollContent
    PROVE  PollContent(value) \in Domain!PollContent
<1>1. PollConfig(value.config) \in Domain!PollConfig
  <2>1. value.config \in Wire!PollConfig
    BY DEF Wire!PollContent
  <2> QED
    BY <2>1 DEF Wire!PollConfig, PollConfig, Domain!PollConfig, Wire!Opt, Domain!Opt
<1>2. TotalPollVotes(value.votes.total) \in Domain!TotalPollVotes
      /\ value.votes.user \in Seq(Nat) /\ value.ended \in BOOLEAN
  BY VotesDeclared DEF Wire!PollContent, Wire!PollVotes
<1>3. [total |-> TotalPollVotes(value.votes.total), user |-> value.votes.user]
        \in Domain!PollVotes
  BY <1>2 DEF Domain!PollVotes
<1> QED
  BY <1>1, <1>2, <1>3 DEF PollContent, Domain!PollContent

(* A tally is kept in hundredths. *)
LEMMA Quotient ==
    ASSUME NEW n \in Nat, NEW d \in Nat \ {0}
    PROVE  n \div d \in Nat
OBVIOUS

LEMMA TallyDeclared ==
    ASSUME NEW value \in Wire!Tally
    PROVE  Tally(value) \in Domain!Tally
<1>1. /\ value.yes \div E8s \in Nat /\ value.no \div E8s \in Nat
      /\ value.total \div E8s \in Nat /\ value.timestamp \in Nat
  BY MappingAssumption, Quotient DEF Wire!Tally
<1> QED
  BY <1>1 DEF Tally, Domain!Tally

LEMMA ProposalDeclared ==
    ASSUME NEW value \in Wire!Proposal
    PROVE  Proposal(value) \in Domain!NnsProposal \cup Domain!SnsProposal
<1> DEFINE p == value.value
<1>1. ASSUME NEW status \in Wire!ProposalDecisionStatus
      PROVE  ProposalDecisionStatus(status) \in Domain!ProposalDecisionStatus
  BY DEF Wire!ProposalDecisionStatus, ProposalDecisionStatus, Domain!ProposalDecisionStatus
<1>2. ASSUME NEW status \in Wire!ProposalRewardStatus
      PROVE  ProposalRewardStatus(status) \in Domain!ProposalRewardStatus
  BY DEF Wire!ProposalRewardStatus, ProposalRewardStatus, Domain!ProposalRewardStatus
<1>3. CASE value \in Wire!Tagged("NNS", Wire!NnsProposal)
  <2>1. p \in Wire!NnsProposal /\ value.tag = "NNS"
    BY <1>3 DEF Wire!Tagged
  <2> HIDE DEF p
  <2>2. /\ ProposalDecisionStatus(p.status) \in Domain!ProposalDecisionStatus
        /\ ProposalRewardStatus(p.reward_status) \in Domain!ProposalRewardStatus
        /\ Tally(p.tally) \in Domain!Tally
    BY <1>1, <1>2, <2>1, TallyDeclared DEF Wire!NnsProposal
  <2>3. Proposal(value) =
            [kind |-> "nns", id |-> p.id, topic |-> p.topic,
             proposer |-> [decimal |-> p.proposer], title |-> p.title, summary |-> p.summary,
             url |-> p.url, status |-> ProposalDecisionStatus(p.status),
             rewardStatus |-> ProposalRewardStatus(p.reward_status), tally |-> Tally(p.tally),
             lastUpdated |-> p.last_updated, created |-> p.created, deadline |-> p.deadline,
             payloadTextRendering |-> p.payload_text_rendering,
             minYesPercentageOfTotal |-> 3, minYesPercentageOfExercised |-> 50]
    BY <2>1 DEF Proposal, p
  <2>4. Proposal(value) \in Domain!NnsProposal
    BY <2>1, <2>2, <2>3 DEF Wire!NnsProposal, Domain!NnsProposal, Wire!Opt, Domain!Opt
  <2> QED
    BY <2>4
<1>4. CASE value \in Wire!Tagged("SNS", Wire!SnsProposal)
  <2>1. p \in Wire!SnsProposal /\ value.tag = "SNS"
    BY <1>4 DEF Wire!Tagged
  <2> HIDE DEF p
  <2>2. /\ ProposalDecisionStatus(p.status) \in Domain!ProposalDecisionStatus
        /\ ProposalRewardStatus(p.reward_status) \in Domain!ProposalRewardStatus
        /\ Tally(p.tally) \in Domain!Tally
    BY <1>1, <1>2, <2>1, TallyDeclared DEF Wire!SnsProposal
  <2>3. /\ p.minimum_yes_proportion_of_total \div 100 \in Nat
        /\ p.minimum_yes_proportion_of_exercised \div 100 \in Nat
    BY <2>1 DEF Wire!SnsProposal
  <2>4. BytesToHexString(p.proposer) \in [hex : Seq(0..255)]
    BY <2>1 DEF Wire!SnsProposal, Wire!TSBytes, BytesToHexString
  <2>5. Proposal(value) =
            [kind |-> "sns", id |-> p.id, action |-> p.action,
             proposer |-> BytesToHexString(p.proposer), title |-> p.title,
             summary |-> p.summary, url |-> p.url,
             status |-> ProposalDecisionStatus(p.status),
             rewardStatus |-> ProposalRewardStatus(p.reward_status), tally |-> Tally(p.tally),
             lastUpdated |-> p.last_updated, created |-> p.created, deadline |-> p.deadline,
             payloadTextRendering |-> p.payload_text_rendering,
             minYesPercentageOfTotal |-> p.minimum_yes_proportion_of_total \div 100,
             minYesPercentageOfExercised |-> p.minimum_yes_proportion_of_exercised \div 100]
    BY <2>1 DEF Proposal, p
  <2>6. Proposal(value) \in Domain!SnsProposal
    BY <2>1, <2>2, <2>3, <2>4, <2>5
       DEF Wire!SnsProposal, Domain!SnsProposal, Wire!Opt, Domain!Opt
  <2> QED
    BY <2>6
<1> QED
  BY <1>3, <1>4 DEF Wire!Proposal

LEMMA ProposalContentDeclared ==
    ASSUME NEW value \in Wire!ProposalContent
    PROVE  ProposalContent(value) \in Domain!ProposalContent
BY ProposalDeclared, PrincipalDeclared
   DEF Wire!ProposalContent, ProposalContent, Domain!ProposalContent, Wire!Opt, Domain!Opt

LEMMA RemindersDeclared ==
    /\ \A value \in Wire!MessageReminderCreatedContent :
        MessageReminderCreated(value) \in Domain!MessageReminderCreatedContent
    /\ \A value \in Wire!MessageReminderContent :
        MessageReminder(value) \in Domain!MessageReminderContent
<1>1. \A value \in Wire!MessageReminderCreatedContent :
        MessageReminderCreated(value) \in Domain!MessageReminderCreatedContent
  BY DEF Wire!MessageReminderCreatedContent, MessageReminderCreated,
         Domain!MessageReminderCreatedContent, Wire!Opt, Domain!Opt
<1>2. \A value \in Wire!MessageReminderContent :
        MessageReminder(value) \in Domain!MessageReminderContent
  BY DEF Wire!MessageReminderContent, MessageReminder, Domain!MessageReminderContent,
         Wire!Opt, Domain!Opt
<1> QED
  BY <1>1, <1>2

LEMMA ReportedDeclared ==
    ASSUME NEW value \in Wire!ReportedMessage
    PROVE  ReportedMessage(value) \in Domain!ReportedMessageContent
<1> DEFINE read(r) == [notes |-> r.notes, reasonCode |-> r.reason_code,
                       timestamp |-> r.timestamp,
                       reportedBy |-> PrincipalBytesToString(r.reported_by)]
           reports == value.reports
           f == [i \in DOMAIN reports |-> read(reports[i])]
<1>1. reports \in Seq(Wire!MessageReport) /\ value.count \in Nat
  BY DEF Wire!ReportedMessage
<1>2. ReportedMessage(value) = [kind |-> "reported_message_content", total |-> value.count,
                                reports |-> Built(f)]
  BY DEF ReportedMessage, Mapped
<1>3. ASSUME NEW r \in Wire!MessageReport PROVE read(r) \in Domain!MessageReport
  BY PrincipalDeclared DEF Wire!MessageReport, Domain!MessageReport, Wire!Opt, Domain!Opt
<1> HIDE DEF read, reports
<1>4. \A i \in DOMAIN reports : f[i] \in Domain!MessageReport
  BY <1>1, <1>3
<1>5. f = [i \in DOMAIN reports |-> f[i]] /\ Thrown \notin Domain!MessageReport
  BY ValuesAssumption
<1> HIDE DEF f
<1>6. Built(f) \in Seq(Domain!MessageReport)
  BY <1>1, <1>4, <1>5, MappedParts
<1> QED
  BY <1>1, <1>2, <1>6 DEF Domain!ReportedMessageContent

LEMMA VideoCallDeclared ==
    ASSUME NEW value \in Wire!VideoCallContent
    PROVE  VideoCallContent(value) \in Domain!VideoCallContent
<1> DEFINE read(p) == [userId |-> PrincipalBytesToString(p.user_id), joined |-> p.joined]
           given == value.participants
           f == [i \in DOMAIN given |-> read(given[i])]
<1>1. given \in Seq(Wire!CallParticipant)
  BY DEF Wire!VideoCallContent
<1>2. VideoCallContent(value)
        = [kind |-> "video_call_content", ended |-> value.ended, participants |-> Built(f),
           callType |-> VideoCallType(value.call_type)]
  BY DEF VideoCallContent, Mapped
<1>3. ASSUME NEW p \in Wire!CallParticipant PROVE read(p) \in Domain!VideoCallParticipant
  BY PrincipalDeclared DEF Wire!CallParticipant, Domain!VideoCallParticipant
<1> HIDE DEF read, given
<1>4. \A i \in DOMAIN given : f[i] \in Domain!VideoCallParticipant
  BY <1>1, <1>3
<1>5. f = [i \in DOMAIN given |-> f[i]] /\ Thrown \notin Domain!VideoCallParticipant
  BY ValuesAssumption
<1> HIDE DEF f
<1>6. Built(f) \in Seq(Domain!VideoCallParticipant)
  BY <1>1, <1>4, <1>5, MappedParts
<1>7. value.ended \in Domain!Opt(Nat) /\ VideoCallType(value.call_type) \in Domain!VideoCallType
  BY DEF Wire!VideoCallContent, Wire!Opt, Domain!Opt, VideoCallType, Domain!VideoCallType
<1> QED
  BY <1>2, <1>6, <1>7 DEF Domain!VideoCallContent

-----------------------------------------------------------------------------
(* Contents that carry a transfer *)

(* The number of a memo is read unless there is none in it. *)
LEMMA MemoRead ==
    ASSUME NEW transfer,
           transfer.tag = "NNS" => transfer.value.memo \in Nat,
           transfer.tag # "NNS" => transfer.value.memo \in Wire!Opt(Wire!TSBytes)
    PROVE  IF EmptyMemo(transfer) THEN TransferMemo(transfer) = Thrown
           ELSE TransferMemo(transfer) \in Nat
<1> DEFINE memo == transfer.value.memo
<1>1. CASE transfer.tag = "NNS"
  BY <1>1 DEF EmptyMemo, TransferMemo
<1>2. CASE transfer.tag # "NNS" /\ memo = Missing
  <2>1. ~EmptyMemo(transfer)
    BY <1>2, NoValue DEF EmptyMemo
  <2>2. TransferMemo(transfer) = 0
    BY <1>2 DEF TransferMemo, Optional, OrElse
  <2> QED
    BY <2>1, <2>2
<1>3. CASE transfer.tag # "NNS" /\ memo # Missing
  <2>1. memo \in Seq(0..255)
    BY <1>3 DEF Wire!Opt, Wire!TSBytes
  <2>2. TransferMemo(transfer) = OrElse(BytesToBigint(memo), 0)
    BY <1>3 DEF TransferMemo, Optional
  <2>3. EmptyMemo(transfer) <=> memo = <<>>
    BY <1>3 DEF EmptyMemo
  <2> HIDE DEF memo
  <2>4. CASE memo = <<>>
    <3>1. BytesToBigint(memo) = Thrown
      BY <2>4 DEF BytesToBigint
    <3> QED
      BY <2>2, <2>3, <2>4, <3>1, MappingAssumption DEF OrElse
  <2>5. CASE memo # <<>>
    <3>1. BytesToBigint(memo) \in Nat
      BY <2>1, <2>5, NumberOfBytes
    <3> QED
      BY <2>2, <2>3, <2>5, <3>1, NoValue DEF OrElse
  <2> QED
    BY <2>4, <2>5
<1> QED
  BY <1>1, <1>2, <1>3

(* A transfer is read as declared if there is a number in its memo. *)
LEMMA CompletedDeclared ==
    ASSUME NEW value \in Wire!CompletedCryptoTransaction, NEW sender \in Principals,
           NEW recipient \in Principals
    PROVE  IF EmptyMemo(value) THEN CompletedCryptoTransfer(value, sender, recipient) = Thrown
           ELSE CompletedCryptoTransfer(value, sender, recipient)
                    \in Domain!CompletedCryptocurrencyTransfer
<1> DEFINE given == value.value
           ledger == PrincipalBytesToString(given.ledger)
           memo == TransferMemo(value)
           f == [kind |-> "completed", ledger |-> ledger, recipient |-> recipient,
                 sender |-> sender, amountE8s |-> given.amount, feeE8s |-> given.fee,
                 memo |-> memo, blockIndex |-> given.block_index]
<1>1. /\ given.ledger \in Wire!TSPrincipal /\ given.amount \in Nat /\ given.fee \in Nat
      /\ given.block_index \in Nat
      /\ value.tag = "NNS" => given.memo \in Nat
      /\ value.tag # "NNS" => given.memo \in Wire!Opt(Wire!TSBytes)
  BY DEF Wire!CompletedCryptoTransaction, Wire!Tagged, Wire!CompletedCryptoTransactionNNS,
         Wire!CompletedCryptoTransactionICRC1, Wire!CompletedCryptoTransactionICRC2
<1>2. ledger \in Principals
  BY <1>1, PrincipalDeclared
<1>3. IF EmptyMemo(value) THEN memo = Thrown ELSE memo \in Nat
  BY <1>1, MemoRead
<1>4. CompletedCryptoTransfer(value, sender, recipient) = Built(f)
  BY DEF CompletedCryptoTransfer
<1> HIDE DEF given, ledger, memo
<1>5. CASE EmptyMemo(value)
  <2>1. "memo" \in DOMAIN f /\ f["memo"] = Thrown
    BY <1>3, <1>5
  <2> HIDE DEF f
  <2> QED
    BY <1>4, <1>5, <2>1, BuiltThrows
<1>6. CASE ~EmptyMemo(value)
  <2>1. f \in Domain!CompletedCryptocurrencyTransfer
    BY <1>1, <1>2, <1>3, <1>6 DEF Domain!CompletedCryptocurrencyTransfer
  <2>2. \A x \in DOMAIN f : f[x] # Thrown
    <3>1. /\ ledger # Thrown /\ recipient # Thrown /\ sender # Thrown
          /\ given.amount # Thrown /\ given.fee # Thrown /\ memo # Thrown
          /\ given.block_index # Thrown /\ "completed" # Thrown
      BY <1>1, <1>2, <1>3, <1>6, NoValue
    <3> QED
      BY <3>1
  <2> HIDE DEF f
  <2> QED
    BY <1>4, <1>6, <2>1, <2>2, BuiltWhole
<1> QED
  BY <1>5, <1>6

LEMMA FailedDeclared ==
    ASSUME NEW value \in Wire!FailedCryptoTransaction, NEW recipient \in Principals
    PROVE  IF EmptyMemo(value) THEN FailedCryptoTransfer(value, recipient) = Thrown
           ELSE FailedCryptoTransfer(value, recipient) \in Domain!FailedCryptocurrencyTransfer
<1> DEFINE given == value.value
           ledger == PrincipalBytesToString(given.ledger)
           memo == TransferMemo(value)
           f == [kind |-> "failed", ledger |-> ledger, recipient |-> recipient,
                 amountE8s |-> given.amount, feeE8s |-> given.fee, memo |-> memo,
                 errorMessage |-> given.error_message]
<1>1. /\ given.ledger \in Wire!TSPrincipal /\ given.amount \in Nat /\ given.fee \in Nat
      /\ given.error_message \in STRING
      /\ value.tag = "NNS" => given.memo \in Nat
      /\ value.tag # "NNS" => given.memo \in Wire!Opt(Wire!TSBytes)
  BY DEF Wire!FailedCryptoTransaction, Wire!Tagged, Wire!FailedCryptoTransactionNNS,
         Wire!FailedCryptoTransactionICRC1, Wire!FailedCryptoTransactionICRC2
<1>2. ledger \in Principals
  BY <1>1, PrincipalDeclared
<1>3. IF EmptyMemo(value) THEN memo = Thrown ELSE memo \in Nat
  BY <1>1, MemoRead
<1>4. FailedCryptoTransfer(value, recipient) = Built(f)
  BY DEF FailedCryptoTransfer
<1> HIDE DEF given, ledger, memo
<1>5. CASE EmptyMemo(value)
  <2>1. "memo" \in DOMAIN f /\ f["memo"] = Thrown
    BY <1>3, <1>5
  <2> HIDE DEF f
  <2> QED
    BY <1>4, <1>5, <2>1, BuiltThrows
<1>6. CASE ~EmptyMemo(value)
  <2>1. f \in Domain!FailedCryptocurrencyTransfer
    BY <1>1, <1>2, <1>3, <1>6 DEF Domain!FailedCryptocurrencyTransfer
  <2>2. \A x \in DOMAIN f : f[x] # Thrown
    <3>1. /\ ledger # Thrown /\ recipient # Thrown /\ given.amount # Thrown
          /\ given.fee # Thrown /\ memo # Thrown /\ given.error_message # Thrown
          /\ "failed" # Thrown
      BY <1>1, <1>2, <1>3, <1>6, NoValue
    <3> QED
      BY <3>1
  <2> HIDE DEF f
  <2> QED
    BY <1>4, <1>6, <2>1, <2>2, BuiltWhole
<1> QED
  BY <1>5, <1>6

(* No transfer that is pending is read, since its token has another name.  *)
LEMMA PendingThrows ==
    ASSUME NEW value \in Wire!PendingCryptoTransaction, NEW recipient
    PROVE  PendingCryptoTransfer(value, recipient) = Thrown
<1> DEFINE given == value.value
           token == Token(Field(given, "token"))
<1>1. "token" \notin DOMAIN given
  BY DEF Wire!PendingCryptoTransaction, Wire!Tagged, Wire!PendingCryptoTransactionNNS,
         Wire!PendingCryptoTransactionICRC1, Wire!PendingCryptoTransactionICRC2
<1>2. token = Thrown
  BY <1>1 DEF Field, Token
<1> HIDE DEF token
<1>3. CASE value.tag = "NNS"
  <2> DEFINE f == [kind |-> "pending", ledger |-> PrincipalBytesToString(given.ledger),
                   token |-> token, recipient |-> recipient, amountE8s |-> given.amount,
                   feeE8s |-> given.fee, memo |-> given.memo,
                   createdAtNanos |-> given.created]
  <2>1. PendingCryptoTransfer(value, recipient) = Built(f)
    BY <1>3 DEF PendingCryptoTransfer, token
  <2>2. "token" \in DOMAIN f /\ f["token"] = Thrown
    BY <1>2
  <2> HIDE DEF f
  <2> QED
    BY <2>1, <2>2, BuiltThrows
<1>4. CASE value.tag = "ICRC1"
  <2> DEFINE f == [kind |-> "pending", ledger |-> PrincipalBytesToString(given.ledger),
                   token |-> token, recipient |-> recipient, amountE8s |-> given.amount,
                   feeE8s |-> given.fee, memo |-> Optional(given.memo, BytesToBigint),
                   createdAtNanos |-> given.created]
  <2>1. PendingCryptoTransfer(value, recipient) = Built(f)
    BY <1>4 DEF PendingCryptoTransfer, token
  <2>2. "token" \in DOMAIN f /\ f["token"] = Thrown
    BY <1>2
  <2> HIDE DEF f
  <2> QED
    BY <2>1, <2>2, BuiltThrows
<1>5. CASE value.tag \notin {"NNS", "ICRC1"}
  BY <1>5 DEF PendingCryptoTransfer
<1> QED
  BY <1>3, <1>4, <1>5

UnreadableTransfer(transfer) == transfer.tag = "Pending" \/ EmptyMemo(transfer.value)

LEMMA TransferDeclared ==
    ASSUME NEW value \in Wire!CryptoTransaction, NEW sender \in Principals,
           NEW recipient \in Principals
    PROVE  IF UnreadableTransfer(value) THEN CryptoTransfer(value, sender, recipient) = Thrown
           ELSE CryptoTransfer(value, sender, recipient)
                    \in Domain!CompletedCryptocurrencyTransfer
                        \cup Domain!FailedCryptocurrencyTransfer
<1>1. CASE value \in Wire!Tagged("Pending", Wire!PendingCryptoTransaction)
  <2>1. value.tag = "Pending" /\ value.value \in Wire!PendingCryptoTransaction
    BY <1>1 DEF Wire!Tagged
  <2> QED
    BY <2>1, PendingThrows DEF CryptoTransfer, UnreadableTransfer
<1>2. CASE value \in Wire!Tagged("Completed", Wire!CompletedCryptoTransaction)
  <2>1. value.tag = "Completed" /\ value.value \in Wire!CompletedCryptoTransaction
    BY <1>2 DEF Wire!Tagged
  <2> QED
    BY <2>1, CompletedDeclared DEF CryptoTransfer, UnreadableTransfer
<1>3. CASE value \in Wire!Tagged("Failed", Wire!FailedCryptoTransaction)
  <2>1. value.tag = "Failed" /\ value.value \in Wire!FailedCryptoTransaction
    BY <1>3 DEF Wire!Tagged
  <2> QED
    BY <2>1, FailedDeclared DEF CryptoTransfer, UnreadableTransfer
<1> QED
  BY <1>1, <1>2, <1>3 DEF Wire!CryptoTransaction

(* Of crypto contents those are read that are settled and have a memo. *)
LEMMA CryptoDeclared ==
    ASSUME NEW value \in Wire!CryptoContent, NEW sender \in Principals
    PROVE  IF UnreadableTransfer(value.transfer) THEN CryptoContent(value, sender) = Thrown
           ELSE CryptoContent(value, sender) \in Domain!CryptocurrencyContent
<1> DEFINE recipient == PrincipalBytesToString(value.recipient)
           transfer == CryptoTransfer(value.transfer, sender, recipient)
           f == [kind |-> "crypto_content", caption |-> value.caption, transfer |-> transfer]
           Transfers == Domain!CompletedCryptocurrencyTransfer
                            \cup Domain!FailedCryptocurrencyTransfer
<1>1. value.transfer \in Wire!CryptoTransaction /\ value.caption \in Domain!Opt(STRING)
  BY DEF Wire!CryptoContent, Wire!Opt, Domain!Opt
<1>2. recipient \in Principals
  BY PrincipalDeclared DEF Wire!CryptoContent
<1>3. IF UnreadableTransfer(value.transfer) THEN transfer = Thrown ELSE transfer \in Transfers
  <2> HIDE DEF recipient
  <2> QED
    BY <1>1, <1>2, TransferDeclared
<1>4. CryptoContent(value, sender) = Built(f)
  BY DEF CryptoContent
<1> HIDE DEF transfer
<1>5. CASE UnreadableTransfer(value.transfer)
  <2>1. "transfer" \in DOMAIN f /\ f["transfer"] = Thrown
    BY <1>3, <1>5
  <2> HIDE DEF f
  <2> QED
    BY <1>4, <1>5, <2>1, BuiltThrows
<1>6. CASE ~UnreadableTransfer(value.transfer)
  <2>1. f \in Domain!CryptocurrencyContent
    BY <1>1, <1>3, <1>6 DEF Domain!CryptocurrencyContent
  <2>2. transfer # Thrown
    BY <1>3, <1>6, ValuesAssumption
  <2>3. value.caption # Thrown /\ "crypto_content" # Thrown
    BY <1>1, NoValue, MappingAssumption DEF Domain!Opt
  <2>4. \A x \in DOMAIN f : f[x] # Thrown
    BY <2>2, <2>3
  <2> HIDE DEF f
  <2> QED
    BY <1>4, <1>6, <2>1, <2>4, BuiltWhole
<1> QED
  BY <1>5, <1>6

LEMMA PrizeWinnerDeclared ==
    ASSUME NEW value \in Wire!PrizeWinnerContent, NEW sender \in Principals
    PROVE  IF EmptyMemo(value.transaction) THEN PrizeWinnerContent(sender, value) = Thrown
           ELSE PrizeWinnerContent(sender, value) \in Domain!PrizeWinnerContent
<1> DEFINE winner == PrincipalBytesToString(value.winner)
           transaction == CompletedCryptoTransfer(value.transaction, sender, winner)
           f == [kind |-> "prize_winner_content", transaction |-> transaction,
                 prizeMessageIndex |-> value.prize_message]
<1>1. value.transaction \in Wire!CompletedCryptoTransaction /\ value.prize_message \in Nat
  BY DEF Wire!PrizeWinnerContent
<1>2. winner \in Principals
  BY PrincipalDeclared DEF Wire!PrizeWinnerContent
<1>3. IF EmptyMemo(value.transaction) THEN transaction = Thrown
      ELSE transaction \in Domain!CompletedCryptocurrencyTransfer
  <2> HIDE DEF winner
  <2> QED
    BY <1>1, <1>2, CompletedDeclared
<1>4. PrizeWinnerContent(sender, value) = Built(f)
  BY DEF PrizeWinnerContent
<1> HIDE DEF transaction
<1>5. CASE EmptyMemo(value.transaction)
  <2>1. "transaction" \in DOMAIN f /\ f["transaction"] = Thrown
    BY <1>3, <1>5
  <2> HIDE DEF f
  <2> QED
    BY <1>4, <1>5, <2>1, BuiltThrows
<1>6. CASE ~EmptyMemo(value.transaction)
  <2>1. f \in Domain!PrizeWinnerContent
    BY <1>1, <1>3, <1>6 DEF Domain!PrizeWinnerContent
  <2>2. transaction # Thrown
    BY <1>3, <1>6, ValuesAssumption
  <2>3. value.prize_message # Thrown /\ "prize_winner_content" # Thrown
    BY <1>1, NoValue
  <2>4. \A x \in DOMAIN f : f[x] # Thrown
    BY <2>2, <2>3
  <2> HIDE DEF f
  <2> QED
    BY <1>4, <1>6, <2>1, <2>4, BuiltWhole
<1> QED
  BY <1>5, <1>6

(* Prizes and swaps name a token: none is read. *)
LEMMA PrizeThrows ==
    ASSUME NEW value \in Wire!PrizeContent
    PROVE  PrizeContent(value) = Thrown
<1> DEFINE token == Token(Field(value, "token"))
           f == [kind |-> "prize_content", prizesRemaining |-> value.prizes_remaining,
                 prizesPending |-> value.prizes_pending, diamondOnly |-> value.diamond_only,
                 lifetimeDiamondOnly |-> value.lifetime_diamond_only,
                 uniquePersonOnly |-> value.unique_person_only,
                 streakOnly |-> value.streak_only, winners |-> PrincipalTexts(value.winners),
                 token |-> token, endDate |-> value.end_date, caption |-> value.caption]
<1>1. "token" \notin DOMAIN value
  BY DEF Wire!PrizeContent
<1>2. token = Thrown
  BY <1>1 DEF Field, Token
<1>3. PrizeContent(value) = Built(f)
  BY DEF PrizeContent
<1> HIDE DEF token
<1>4. "token" \in DOMAIN f /\ f["token"] = Thrown
  BY <1>2
<1> HIDE DEF f
<1> QED
  BY <1>3, <1>4, BuiltThrows

LEMMA SwapThrows ==
    ASSUME NEW value \in Wire!P2PSwapContent
    PROVE  P2PSwapContent(value) = Thrown
<1> DEFINE info == value.token0
           symbol == Token(Field(info, "token"))
           f == [fee |-> info.fee, decimals |-> info.decimals, symbol |-> symbol,
                 ledger |-> PrincipalBytesToString(info.ledger)]
           token0 == TokenInfo(info)
           g == [kind |-> "p2p_swap_content", token0 |-> token0,
                 token1 |-> TokenInfo(value.token1), token0Amount |-> value.token0_amount,
                 token1Amount |-> value.token1_amount, caption |-> value.caption,
                 expiresAt |-> value.expires_at, status |-> P2PTradeStatus(value.status),
                 swapId |-> value.swap_id, token0TxnIn |-> value.token0_txn_in]
<1>1. "token" \notin DOMAIN info
  BY DEF Wire!P2PSwapContent, Wire!TokenInfo
<1>2. symbol = Thrown
  BY <1>1 DEF Field, Token
<1>3. token0 = Built(f)
  BY DEF TokenInfo
<1>4. P2PSwapContent(value) = Built(g)
  BY DEF P2PSwapContent
<1> HIDE DEF symbol, token0
<1>5. "symbol" \in DOMAIN f /\ f["symbol"] = Thrown
  BY <1>2
<1> HIDE DEF f
<1>6. token0 = Thrown
  BY <1>3, <1>5, BuiltThrows
<1>7. "token0" \in DOMAIN g /\ g["token0"] = Thrown
  BY <1>6
<1> HIDE DEF g
<1> QED
  BY <1>4, <1>7, BuiltThrows

(* Custom contents are read if their kind is known and their data whole. *)
LEMMA CustomContentDeclared ==
    ASSUME NEW value \in Wire!CustomContent
    PROVE  IF value.kind # "user_referral_card"
              /\ (value.kind = "meme_fighter" => value.data = Missing)
           THEN CustomContent(value) = Thrown
           ELSE CustomContent(value)
                    \in Domain!MemeFighterContent \cup Domain!Kinds({"user_referral_card"})
<1>1. CASE value.kind = "meme_fighter" /\ value.data # Missing
  <2>1. value.data \in Wire!MemeFighterJson
    BY <1>1 DEF Wire!CustomContent, Wire!Opt
  <2>2. MemeFighterContent(value.data) \in Domain!MemeFighterContent
    BY <2>1 DEF Wire!MemeFighterJson, MemeFighterContent, Domain!MemeFighterContent
  <2> QED
    BY <1>1, <2>2 DEF CustomContent
<1>2. CASE value.kind = "meme_fighter" /\ value.data = Missing
  BY <1>2 DEF CustomContent
<1>3. CASE value.kind = "user_referral_card"
  BY <1>3 DEF CustomContent, Domain!Kinds
<1>4. CASE value.kind \notin {"meme_fighter", "user_referral_card"}
  BY <1>4 DEF CustomContent
<1> QED
  BY <1>1, <1>2, <1>3, <1>4

-----------------------------------------------------------------------------
(* Contents of any kind *)

LEMMA TextDeclared ==
    ASSUME NEW value \in Wire!TextContent
    PROVE  TextContent(value) \in Domain!TextContent
BY DEF Wire!TextContent, TextContent, Domain!TextContent

(* A content is read as one of those declared, or it is one of those that  *)
(* the properties call unreadable, and throws.                             *)
LEMMA ContentDeclared ==
    ASSUME NEW content \in Wire!MessageContent, NEW sender \in Principals
    PROVE  IF UnreadableContent(content) THEN MessageContent(content, sender) = Thrown
           ELSE MessageContent(content, sender) \in Domain!MessageContent
<1> DEFINE given == content.value
           read == MessageContent(content, sender)
<1>1. CASE content \in Wire!Tagged("Text", Wire!TextContent)
  <2>1. content.tag = "Text" /\ given \in Wire!TextContent
    BY <1>1 DEF Wire!Tagged
  <2>2. read = TextContent(given) /\ ~UnreadableContent(content)
    BY <2>1 DEF MessageContent, UnreadableContent
  <2>3. TextContent(given) \in Domain!TextContent
    BY <2>1, TextDeclared
  <2> QED
    BY <2>2, <2>3 DEF Domain!MessageContent
<1>2. CASE content \in Wire!Tagged("Image", Wire!ImageContent)
  <2>1. content.tag = "Image" /\ given \in Wire!ImageContent
    BY <1>2 DEF Wire!Tagged
  <2>2. read = ImageContent(given) /\ ~UnreadableContent(content)
    BY <2>1 DEF MessageContent, UnreadableContent
  <2>3. ImageContent(given) \in Domain!ImageContent
    BY <2>1, ImageDeclared
  <2> QED
    BY <2>2, <2>3 DEF Domain!MessageContent
<1>3. CASE content \in Wire!Tagged("Video", Wire!VideoContent)
  <2>1. content.tag = "Video" /\ given \in Wire!VideoContent
    BY <1>3 DEF Wire!Tagged
  <2>2. read = VideoContent(given) /\ ~UnreadableContent(content)
    BY <2>1 DEF MessageContent, UnreadableContent
  <2>3. VideoContent(given) \in Domain!VideoContent
    BY <2>1, VideoDeclared
  <2> QED
    BY <2>2, <2>3 DEF Domain!MessageContent
<1>4. CASE content \in Wire!Tagged("Audio", Wire!AudioContent)
  <2>1. content.tag = "Audio" /\ given \in Wire!AudioContent
    BY <1>4 DEF Wire!Tagged
  <2>2. read = AudioContent(given) /\ ~UnreadableContent(content)
    BY <2>1 DEF MessageContent, UnreadableContent
  <2>3. AudioContent(given) \in Domain!AudioContent
    BY <2>1, AudioDeclared
  <2> QED
    BY <2>2, <2>3 DEF Domain!MessageContent
<1>5. CASE content \in Wire!Tagged("File", Wire!FileContent)
  <2>1. content.tag = "File" /\ given \in Wire!FileContent
    BY <1>5 DEF Wire!Tagged
  <2>2. read = FileContent(given) /\ ~UnreadableContent(content)
    BY <2>1 DEF MessageContent, UnreadableContent
  <2>3. FileContent(given) \in Domain!FileContent
    BY <2>1, FileDeclared
  <2> QED
    BY <2>2, <2>3 DEF Domain!MessageContent
<1>6. CASE content \in Wire!Tagged("Poll", Wire!PollContent)
  <2>1. content.tag = "Poll" /\ given \in Wire!PollContent
    BY <1>6 DEF Wire!Tagged
  <2>2. read = PollContent(given) /\ ~UnreadableContent(content)
    BY <2>1 DEF MessageContent, UnreadableContent
  <2>3. PollContent(given) \in Domain!PollContent
    BY <2>1, PollDeclared
  <2> QED
    BY <2>2, <2>3 DEF Domain!MessageContent
<1>7. CASE content \in Wire!Tagged("Deleted", Wire!DeletedBy)
  <2>1. content.tag = "Deleted" /\ given \in Wire!DeletedBy
    BY <1>7 DEF Wire!Tagged
  <2>2. read = DeletedContent(given) /\ ~UnreadableContent(content)
    BY <2>1 DEF MessageContent, UnreadableContent
  <2>3. DeletedContent(given) \in Domain!DeletedContent
    BY <2>1, DeletedDeclared
  <2> QED
    BY <2>2, <2>3 DEF Domain!MessageContent
<1>8. CASE content \in Wire!Tagged("Giphy", Wire!GiphyContent)
  <2>1. content.tag = "Giphy" /\ given \in Wire!GiphyContent
    BY <1>8 DEF Wire!Tagged
  <2>2. read = GiphyContent(given) /\ ~UnreadableContent(content)
    BY <2>1 DEF MessageContent, UnreadableContent
  <2>3. GiphyContent(given) \in Domain!GiphyContent
    BY <2>1, GiphyDeclared
  <2> QED
    BY <2>2, <2>3 DEF Domain!MessageContent
<1>9. CASE content \in Wire!Tagged("GovernanceProposal", Wire!ProposalContent)
  <2>1. content.tag = "GovernanceProposal" /\ given \in Wire!ProposalContent
    BY <1>9 DEF Wire!Tagged
  <2>2. read = ProposalContent(given) /\ ~UnreadableContent(content)
    BY <2>1 DEF MessageContent, UnreadableContent
  <2>3. ProposalContent(given) \in Domain!ProposalContent
    BY <2>1, ProposalContentDeclared
  <2> QED
    BY <2>2, <2>3 DEF Domain!MessageContent
<1>10. CASE content \in Wire!Tagged("MessageReminderCreated", Wire!MessageReminderCreatedContent)
  <2>1. content.tag = "MessageReminderCreated" /\ given \in Wire!MessageReminderCreatedContent
    BY <1>10 DEF Wire!Tagged
  <2>2. read = MessageReminderCreated(given) /\ ~UnreadableContent(content)
    BY <2>1 DEF MessageContent, UnreadableContent
  <2>3. MessageReminderCreated(given) \in Domain!MessageReminderCreatedContent
    BY <2>1, RemindersDeclared
  <2> QED
    BY <2>2, <2>3 DEF Domain!MessageContent
<1>11. CASE content \in Wire!Tagged("MessageReminder", Wire!MessageReminderContent)
  <2>1. content.tag = "MessageReminder" /\ given \in Wire!MessageReminderContent
    BY <1>11 DEF Wire!Tagged
  <2>2. read = MessageReminder(given) /\ ~UnreadableContent(content)
    BY <2>1 DEF MessageContent, UnreadableContent
  <2>3. MessageReminder(given) \in Domain!MessageReminderContent
    BY <2>1, RemindersDeclared
  <2> QED
    BY <2>2, <2>3 DEF Domain!MessageContent
<1>12. CASE content \in Wire!Tagged("ReportedMessage", Wire!ReportedMessage)
  <2>1. content.tag = "ReportedMessage" /\ given \in Wire!ReportedMessage
    BY <1>12 DEF Wire!Tagged
  <2>2. read = ReportedMessage(given) /\ ~UnreadableContent(content)
    BY <2>1 DEF MessageContent, UnreadableContent
  <2>3. ReportedMessage(given) \in Domain!ReportedMessageContent
    BY <2>1, ReportedDeclared
  <2> QED
    BY <2>2, <2>3 DEF Domain!MessageContent
<1>13. CASE content \in Wire!Tagged("VideoCall", Wire!VideoCallContent)
  <2>1. content.tag = "VideoCall" /\ given \in Wire!VideoCallContent
    BY <1>13 DEF Wire!Tagged
  <2>2. read = VideoCallContent(given) /\ ~UnreadableContent(content)
    BY <2>1 DEF MessageContent, UnreadableContent
  <2>3. VideoCallContent(given) \in Domain!VideoCallContent
    BY <2>1, VideoCallDeclared
  <2> QED
    BY <2>2, <2>3 DEF Domain!MessageContent
<1>14. CASE content \in Wire!Tagged("Crypto", Wire!CryptoContent)
  <2>1. content.tag = "Crypto" /\ given \in Wire!CryptoContent
    BY <1>14 DEF Wire!Tagged
  <2>2. read = CryptoContent(given, sender)
    BY <2>1 DEF MessageContent
  <2>3. UnreadableContent(content) <=> (UnreadableTransfer(given.transfer))
    BY <2>1 DEF UnreadableContent, UnreadableTransfer
  <2> HIDE DEF read
  <2>4. IF UnreadableContent(content) THEN read = Thrown
        ELSE read \in Domain!CryptocurrencyContent
    BY <2>1, <2>2, <2>3, CryptoDeclared
  <2> QED
    BY <2>4 DEF Domain!MessageContent, read
<1>15. CASE content \in Wire!Tagged("PrizeWinner", Wire!PrizeWinnerContent)
  <2>1. content.tag = "PrizeWinner" /\ given \in Wire!PrizeWinnerContent
    BY <1>15 DEF Wire!Tagged
  <2>2. read = PrizeWinnerContent(sender, given)
    BY <2>1 DEF MessageContent
  <2>3. UnreadableContent(content) <=> (EmptyMemo(given.transaction))
    BY <2>1 DEF UnreadableContent
  <2> HIDE DEF read
  <2>4. IF UnreadableContent(content) THEN read = Thrown
        ELSE read \in Domain!PrizeWinnerContent
    BY <2>1, <2>2, <2>3, PrizeWinnerDeclared
  <2> QED
    BY <2>4 DEF Domain!MessageContent, read
<1>16. CASE content \in Wire!Tagged("Custom", Wire!CustomContent)
  <2>1. content.tag = "Custom" /\ given \in Wire!CustomContent
    BY <1>16 DEF Wire!Tagged
  <2>2. read = CustomContent(given)
    BY <2>1 DEF MessageContent
  <2>3. UnreadableContent(content) <=> (given.kind # "user_referral_card"
                                    /\ (given.kind = "meme_fighter" => given.data = Missing))
    BY <2>1 DEF UnreadableContent
  <2> HIDE DEF read
  <2>4. IF UnreadableContent(content) THEN read = Thrown
        ELSE read \in Domain!MemeFighterContent \cup Domain!Kinds({"user_referral_card"})
    BY <2>1, <2>2, <2>3, CustomContentDeclared
  <2> QED
    BY <2>4 DEF Domain!MessageContent, read
<1>17. CASE content \in Wire!Tagged("Prize", Wire!PrizeContent)
  <2>1. content.tag = "Prize" /\ given \in Wire!PrizeContent
    BY <1>17 DEF Wire!Tagged
  <2>2. read = PrizeContent(given) /\ UnreadableContent(content)
    BY <2>1 DEF MessageContent, UnreadableContent
  <2> QED
    BY <2>1, <2>2, PrizeThrows
<1>18. CASE content \in Wire!Tagged("P2PSwap", Wire!P2PSwapContent)
  <2>1. content.tag = "P2PSwap" /\ given \in Wire!P2PSwapContent
    BY <1>18 DEF Wire!Tagged
  <2>2. read = P2PSwapContent(given) /\ UnreadableContent(content)
    BY <2>1 DEF MessageContent, UnreadableContent
  <2> QED
    BY <2>1, <2>2, SwapThrows
<1> QED
  BY <1>1, <1>2, <1>3, <1>4, <1>5, <1>6, <1>7, <1>8, <1>9, <1>10, <1>11, <1>12, <1>13, <1>14,
     <1>15, <1>16, <1>17, <1>18
     DEF Wire!MessageContent

-----------------------------------------------------------------------------
(* Messages *)

(* Numbers are cut to a width. *)
LEMMA Remainder ==
    ASSUME NEW n \in Nat, NEW d \in Nat \ {0}
    PROVE  n % d \in Nat
OBVIOUS

LEMMA IdsDeclared ==
    ASSUME NEW n \in Nat
    PROVE  ToBigInt32(n) \in Nat /\ ToBigInt64(n) \in Nat
BY MappingAssumption, Remainder DEF ToBigInt32, ToBigInt64

LEMMA SourceDeclared ==
    ASSUME NEW context \in Wire!Pair(Wire!Chat, Wire!Opt(Nat))
    PROVE  ReplySourceContext(context) \in Domain!MessageContext
<1> DEFINE chat == context[1]
           thread == context[2]
           read == ReplySourceContext(context)
<1>1. chat \in Wire!Chat /\ thread \in Domain!Opt(Nat)
  BY DEF Wire!Pair, Wire!Opt, Domain!Opt
<1>2. CASE chat \in Wire!Tagged("Direct", Wire!TSPrincipal)
  <2>1. chat.tag = "Direct" /\ PrincipalBytesToString(chat.value) \in Principals
    BY <1>2, PrincipalDeclared DEF Wire!Tagged
  <2>2. read = [chatId |-> [kind |-> "direct_chat",
                            userId |-> PrincipalBytesToString(chat.value)],
                threadRootMessageIndex |-> Missing]
    BY <2>1 DEF ReplySourceContext
  <2>3. [kind |-> "direct_chat", userId |-> PrincipalBytesToString(chat.value)]
            \in Domain!ChatIdentifier
    BY <2>1 DEF Domain!ChatIdentifier
  <2> QED
    BY <2>2, <2>3 DEF Domain!MessageContext, Domain!Opt
<1>3. CASE chat \in Wire!Tagged("Group", Wire!TSPrincipal)
  <2>1. chat.tag = "Group" /\ PrincipalBytesToString(chat.value) \in Principals
    BY <1>3, PrincipalDeclared DEF Wire!Tagged
  <2>2. read = [chatId |-> [kind |-> "group_chat",
                            groupId |-> PrincipalBytesToString(chat.value)],
                threadRootMessageIndex |-> thread]
    BY <2>1 DEF ReplySourceContext
  <2>3. [kind |-> "group_chat", groupId |-> PrincipalBytesToString(chat.value)]
            \in Domain!ChatIdentifier
    BY <2>1 DEF Domain!ChatIdentifier
  <2> QED
    BY <1>1, <2>2, <2>3 DEF Domain!MessageContext
<1>4. CASE chat \in Wire!Tagged("Channel", Wire!Pair(Wire!TSPrincipal, Nat))
  <2>1. /\ chat.tag = "Channel" /\ chat.value[1] \in Wire!TSPrincipal
        /\ chat.value[2] \in Nat
    BY <1>4 DEF Wire!Tagged, Wire!Pair
  <2>2. PrincipalBytesToString(chat.value[1]) \in Principals /\ ToBigInt32(chat.value[2]) \in Nat
    BY <2>1, PrincipalDeclared, IdsDeclared
  <2>3. read = [chatId |-> [kind |-> "channel",
                            communityId |-> PrincipalBytesToString(chat.value[1]),
                            channelId |-> ToBigInt32(chat.value[2])],
                threadRootMessageIndex |-> thread]
    BY <2>1 DEF ReplySourceContext
  <2>4. [kind |-> "channel", communityId |-> PrincipalBytesToString(chat.value[1]),
         channelId |-> ToBigInt32(chat.value[2])]
            \in Domain!ChatIdentifier
    BY <2>2 DEF Domain!ChatIdentifier
  <2> QED
    BY <1>1, <2>3, <2>4 DEF Domain!MessageContext
<1> QED
  BY <1>1, <1>2, <1>3, <1>4 DEF Wire!Chat

LEMMA ReplyDeclared ==
    ASSUME NEW value \in Wire!ReplyContext
    PROVE  ReplyContext(value) \in Domain!ReplyContext
<1>1. Optional(value.chat_if_other, ReplySourceContext) \in Domain!Opt(Domain!MessageContext)
  BY SourceDeclared DEF Wire!ReplyContext, Wire!Opt, Optional, Domain!Opt
<1> QED
  BY <1>1 DEF Wire!ReplyContext, ReplyContext, Domain!ReplyContext

LEMMA ReactionsDeclared ==
    ASSUME NEW value \in Seq(Wire!Pair(STRING, Seq(Wire!TSPrincipal)))
    PROVE  Reactions(value) \in Seq(Domain!Reaction)
<1> DEFINE read(r) == [reaction |-> r[1], userIds |-> ToSet(PrincipalTexts(r[2]))]
           Given == Wire!Pair(STRING, Seq(Wire!TSPrincipal))
           f == [i \in DOMAIN value |-> read(value[i])]
<1>1. Reactions(value) = Built(f)
  BY DEF Reactions, Mapped
<1>2. ASSUME NEW r \in Given PROVE read(r) \in Domain!Reaction
  <2>1. r[1] \in STRING /\ r[2] \in Seq(Wire!TSPrincipal)
    BY DEF Wire!Pair
  <2>2. ToSet(PrincipalTexts(r[2])) \in SUBSET Principals
    BY <2>1, PrincipalSetDeclared
  <2> QED
    BY <2>1, <2>2 DEF Domain!Reaction
<1> HIDE DEF read, Given
<1>3. \A i \in DOMAIN value : f[i] \in Domain!Reaction
  <2>1. \A i \in DOMAIN value : value[i] \in Given
    BY DEF Given
  <2> QED
    BY <1>2, <2>1
<1>4. f = [i \in DOMAIN value |-> f[i]] /\ Thrown \notin Domain!Reaction
  BY ValuesAssumption
<1> HIDE DEF f
<1> QED
  BY <1>1, <1>3, <1>4, MappedParts

(* The places of the entries for a key, and an object of amounts            *)
PlacesOf(entries, key) ==
    {i \in DOMAIN entries : PrincipalBytesToString(entries[i][1]) = key}
Amounts(entries) == ObjectOf(entries, LAMBDA amount : amount)

(* The entry that is kept for a key is one of those made for it. *)
LEMMA LastEntry ==
    ASSUME NEW V, NEW entries \in Seq(Wire!Pair(Wire!TSPrincipal, V)), NEW key,
           PlacesOf(entries, key) # {}
    PROVE  entries[Max(PlacesOf(entries, key))][2] \in V
<1> DEFINE places == PlacesOf(entries, key)
<1>1. DOMAIN entries = 1 .. Len(entries) /\ Len(entries) \in Nat
  OBVIOUS
<1>2. places \subseteq DOMAIN entries
  BY DEF PlacesOf
<1> HIDE DEF places
<1>3. places \subseteq Nat /\ \A i \in places : i <= Len(entries)
  BY <1>1, <1>2
<1>4. Max(places) \in places
  BY <1>1, <1>3, MaxOf DEF places
<1>5. entries[Max(places)] \in Wire!Pair(Wire!TSPrincipal, V)
  BY <1>2, <1>4
<1> QED
  BY <1>5 DEF Wire!Pair, places

(* The amounts of a token's tips, one for each user *)
LEMMA AmountsDeclared ==
    ASSUME NEW entries \in Seq(Wire!Pair(Wire!TSPrincipal, Nat))
    PROVE  Amounts(entries) \in Domain!ObjectOf(Principals, Nat)
<1> DEFINE kept(key) == IF PlacesOf(entries, key) = {} THEN Missing
                        ELSE entries[Max(PlacesOf(entries, key))][2]
<1>1. Amounts(entries) = [key \in Principals |-> kept(key)]
  BY DEF Amounts, ObjectOf, PlacesOf
<1>2. ASSUME NEW key \in Principals PROVE kept(key) \in Domain!Opt(Nat)
  BY LastEntry DEF Domain!Opt
<1> HIDE DEF kept
<1> QED
  BY <1>1, <1>2 DEF Domain!ObjectOf

(* Tips are read by token, or are missing. *)
LEMMA TipsDeclared ==
    ASSUME NEW tips \in Wire!Tips
    PROVE  Tips(tips) \in Domain!TipsReceived
<1> DEFINE Given == Seq(Wire!Pair(Wire!TSPrincipal, Nat))
           Kept == Domain!ObjectOf(Principals, Nat)
           last(key) == tips[Max(PlacesOf(tips, key))][2]
           kept(key) == IF PlacesOf(tips, key) = {} THEN Missing ELSE Amounts(last(key))
<1>1. Tips(tips) = [key \in Principals |-> kept(key)]
  BY DEF Tips, ObjectOf, PlacesOf, Amounts
<1>2. tips \in Seq(Wire!Pair(Wire!TSPrincipal, Given))
  BY DEF Wire!Tips, Wire!Pair
<1> HIDE DEF Given
<1>3. ASSUME NEW key, PlacesOf(tips, key) # {} PROVE Amounts(last(key)) \in Kept
  <2>1. last(key) \in Given
    BY <1>2, <1>3, LastEntry
  <2> HIDE DEF last
  <2> QED
    BY <2>1, AmountsDeclared DEF Given
<1> HIDE DEF last, Kept
<1>4. ASSUME NEW key \in Principals PROVE kept(key) \in Domain!Opt(Kept)
  BY <1>3 DEF Domain!Opt
<1> HIDE DEF kept
<1>5. Tips(tips) \in [Principals -> Domain!Opt(Kept)]
  BY <1>1, <1>4
<1> QED
  BY <1>5 DEF Domain!TipsReceived, Domain!ObjectOf, Kept

LEMMA ThreadDeclared ==
    ASSUME NEW value \in Wire!ThreadSummary
    PROVE  ThreadSummary(value) \in Domain!ThreadSummary
<1>1. ToSet(PrincipalTexts(value.participant_ids)) \in SUBSET Principals
  BY PrincipalSetDeclared DEF Wire!ThreadSummary
<1> QED
  BY <1>1 DEF Wire!ThreadSummary, ThreadSummary, Domain!ThreadSummary

LEMMA ArgDeclared ==
    ASSUME NEW api \in Wire!BotCommandArg
    PROVE  BotCommandArg(api) \in Domain!CommandArg
<1>1. api.name \in STRING /\ api.value \in Wire!BotCommandArgValue
  BY DEF Wire!BotCommandArg
<1>2. CASE api.value \in Wire!Tagged("String", STRING)
  BY <1>1, <1>2 DEF Wire!Tagged, BotCommandArg, Domain!CommandArg
<1>3. CASE api.value \in Wire!Tagged("Integer", Int)
  BY <1>1, <1>3 DEF Wire!Tagged, BotCommandArg, Domain!CommandArg
<1>4. CASE api.value \in Wire!Tagged("Decimal", Int)
  BY <1>1, <1>4 DEF Wire!Tagged, BotCommandArg, Domain!CommandArg
<1>5. CASE api.value \in Wire!Tagged("Boolean", BOOLEAN)
  BY <1>1, <1>5 DEF Wire!Tagged, BotCommandArg, Domain!CommandArg
<1>6. CASE api.value \in Wire!Tagged("User", Wire!TSPrincipal)
  BY <1>1, <1>6, PrincipalDeclared DEF Wire!Tagged, BotCommandArg, Domain!CommandArg
<1>7. CASE api.value \in Wire!Tagged("DateTime", Nat)
  BY <1>1, <1>7 DEF Wire!Tagged, BotCommandArg, Domain!CommandArg
<1> QED
  BY <1>1, <1>2, <1>3, <1>4, <1>5, <1>6, <1>7 DEF Wire!BotCommandArgValue

LEMMA ContextDeclared ==
    ASSUME NEW value \in Wire!BotMessageContext
    PROVE  BotMessageContext(value) \in Domain!BotMessageContext
<1> DEFINE read(c) == [name |-> c.name, args |-> Mapped(c.args, BotCommandArg),
                       initiator |-> PrincipalBytesToString(c.initiator)]
           command == Optional(value.command, read)
<1>1. BotMessageContext(value) = [finalised |-> value.finalised, command |-> command]
  BY DEF BotMessageContext
<1>2. ASSUME NEW c \in Wire!BotCommand PROVE read(c) \in Domain!BotContextCommand
  <2> DEFINE args == c.args
             f == [i \in DOMAIN args |-> BotCommandArg(args[i])]
  <2>1. /\ c.name \in STRING /\ args \in Seq(Wire!BotCommandArg)
        /\ PrincipalBytesToString(c.initiator) \in Principals
    BY PrincipalDeclared DEF Wire!BotCommand
  <2>2. Mapped(args, BotCommandArg) = Built(f)
    BY DEF Mapped
  <2>3. \A i \in DOMAIN args : f[i] \in Domain!CommandArg
    BY <2>1, ArgDeclared
  <2>4. f = [i \in DOMAIN args |-> f[i]] /\ Thrown \notin Domain!CommandArg
    BY ValuesAssumption
  <2> HIDE DEF f, args
  <2>5. Built(f) \in Seq(Domain!CommandArg)
    BY <2>1, <2>3, <2>4, MappedParts
  <2>6. read(c) = [name |-> c.name, args |-> Built(f),
                   initiator |-> PrincipalBytesToString(c.initiator)]
    BY <2>2 DEF args
  <2> QED
    BY <2>1, <2>5, <2>6 DEF Domain!BotContextCommand
<1> HIDE DEF read
<1>3. command \in Domain!Opt(Domain!BotContextCommand) /\ value.finalised \in BOOLEAN
  BY <1>2 DEF Wire!BotMessageContext, Wire!Opt, Optional, Domain!Opt
<1> HIDE DEF command
<1> QED
  BY <1>1, <1>3 DEF Domain!BotMessageContext

LEMMA MessageDeclared ==
    ASSUME NEW value \in Wire!Message
    PROVE  IF UnreadableContent(value.content) THEN Message(value) = Thrown
           ELSE Message(value) \in Domain!MessageEvent
<1> DEFINE sender == PrincipalBytesToString(value.sender)
           content == MessageContent(value.content, sender)
           replies == Optional(value.replies_to, ReplyContext)
           id == ToBigInt64(value.message_id)
           deleted == content.kind = "deleted_content"
           thread == Optional(value.thread_summary, ThreadSummary)
           context == Optional(value.bot_context, BotMessageContext)
<1>1. value.content \in Wire!MessageContent /\ sender \in Principals
  BY PrincipalDeclared DEF Wire!Message
<1>2. IF UnreadableContent(value.content) THEN content = Thrown
      ELSE content \in Domain!MessageContent
  <2> HIDE DEF sender
  <2> QED
    BY <1>1, ContentDeclared
<1>3. id \in Nat /\ Reactions(value.reactions) \in Seq(Domain!Reaction)
      /\ Tips(value.tips) \in Domain!TipsReceived
  BY IdsDeclared, ReactionsDeclared, TipsDeclared DEF Wire!Message
<1>4. replies \in Domain!Opt(Domain!ReplyContext)
  BY ReplyDeclared DEF Wire!Message, Wire!Opt, Optional, Domain!Opt
<1>5. thread \in Domain!Opt(Domain!ThreadSummary)
  BY ThreadDeclared DEF Wire!Message, Wire!Opt, Optional, Domain!Opt
<1>6. context \in Domain!Opt(Domain!BotMessageContext)
  BY ContextDeclared DEF Wire!Message, Wire!Opt, Optional, Domain!Opt
<1>7. /\ value.message_index \in Nat /\ value.edited \in BOOLEAN
      /\ value.forwarded \in BOOLEAN /\ value.block_level_markdown \in BOOLEAN
  BY DEF Wire!Message
<1>8. Message(value) =
        IF content = Thrown THEN Thrown
        ELSE [kind |-> "message", content |-> content, sender |-> sender,
              repliesTo |-> replies, messageId |-> id, messageIndex |-> value.message_index,
              reactions |-> Reactions(value.reactions), tips |-> Tips(value.tips),
              edited |-> value.edited, forwarded |-> value.forwarded,
              deleted |-> deleted, thread |-> thread,
              blockLevelMarkdown |-> value.block_level_markdown, botContext |-> context]
  BY DEF Message
<1>9. deleted \in BOOLEAN
  OBVIOUS
<1> HIDE DEF sender, content, replies, id, deleted, thread, context
<1>10. CASE UnreadableContent(value.content)
  BY <1>2, <1>8, <1>10
<1>11. CASE ~UnreadableContent(value.content)
  <2>1. content \in Domain!MessageContent /\ content # Thrown
    BY <1>2, <1>11, ValuesAssumption
  <2> QED
    BY <1>1, <1>3, <1>4, <1>5, <1>6, <1>7, <1>8, <1>9, <1>11, <2>1 DEF Domain!MessageEvent
<1> QED
  BY <1>10, <1>11

-----------------------------------------------------------------------------
(* Events *)

(* The events of OpenChat by the operators that map them                   *)
MembershipEvents ==
    Wire!Tagged("ParticipantsAdded",
                [user_ids : Seq(Wire!TSPrincipal), added_by : Wire!TSPrincipal])
    \cup Wire!Tagged("ParticipantsRemoved",
            [user_ids : Seq(Wire!TSPrincipal), removed_by : Wire!TSPrincipal])
    \cup Wire!Tagged("ParticipantJoined", [user_id : Wire!TSPrincipal])
    \cup Wire!Tagged("ParticipantLeft", [user_id : Wire!TSPrincipal])
    \cup Wire!Tagged("UsersBlocked",
            [user_ids : Seq(Wire!TSPrincipal), blocked_by : Wire!TSPrincipal])
    \cup Wire!Tagged("UsersUnblocked",
            [user_ids : Seq(Wire!TSPrincipal), unblocked_by : Wire!TSPrincipal])
    \cup Wire!Tagged("UsersInvited",
            [user_ids : Seq(Wire!TSPrincipal), invited_by : Wire!TSPrincipal])
    \cup Wire!Tagged("BotAdded", [user_id : Wire!TSPrincipal, added_by : Wire!TSPrincipal])
    \cup Wire!Tagged("BotRemoved", [user_id : Wire!TSPrincipal, removed_by : Wire!TSPrincipal])
    \cup Wire!Tagged("BotUpdated", [user_id : Wire!TSPrincipal, updated_by : Wire!TSPrincipal])
    \cup Wire!Tagged("RoleChanged", Wire!RoleChanged)

(* Events about members are read as declared, *)
LEMMA MembershipDeclared ==
    ASSUME NEW event \in MembershipEvents
    PROVE  MembershipEvent(event.tag, event.value) \in Domain!ChatEvent
<1> DEFINE v == event.value
           users == PrincipalTexts(v.user_ids)
           read == MembershipEvent(event.tag, v)
<1>1. CASE event \in Wire!Tagged("ParticipantsAdded",
               [user_ids : Seq(Wire!TSPrincipal), added_by : Wire!TSPrincipal])
  <2>1. /\ event.tag = "ParticipantsAdded"
        /\ users \in Seq(Principals)
        /\ PrincipalBytesToString(v.added_by) \in Principals
    BY <1>1, PrincipalDeclared, PrincipalsDeclared DEF Wire!Tagged
  <2>2. read = [kind |-> "members_added", userIds |-> users,
                addedBy |-> PrincipalBytesToString(v.added_by)]
    BY <2>1 DEF MembershipEvent
  <2> HIDE DEF read, users
  <2> QED
    BY <2>1, <2>2 DEF Domain!ChatEvent, read
<1>2. CASE event \in Wire!Tagged("ParticipantsRemoved",
               [user_ids : Seq(Wire!TSPrincipal), removed_by : Wire!TSPrincipal])
  <2>1. /\ event.tag = "ParticipantsRemoved"
        /\ users \in Seq(Principals)
        /\ PrincipalBytesToString(v.removed_by) \in Principals
    BY <1>2, PrincipalDeclared, PrincipalsDeclared DEF Wire!Tagged
  <2>2. read = [kind |-> "members_removed", userIds |-> users,
                removedBy |-> PrincipalBytesToString(v.removed_by)]
    BY <2>1 DEF MembershipEvent
  <2> HIDE DEF read, users
  <2> QED
    BY <2>1, <2>2 DEF Domain!ChatEvent, read
<1>3. CASE event \in Wire!Tagged("ParticipantJoined", [user_id : Wire!TSPrincipal])
  <2>1. event.tag = "ParticipantJoined" /\ PrincipalBytesToString(v.user_id) \in Principals
    BY <1>3, PrincipalDeclared DEF Wire!Tagged
  <2>2. read = [kind |-> "member_joined", userId |-> PrincipalBytesToString(v.user_id)]
    BY <2>1 DEF MembershipEvent
  <2> HIDE DEF read, users
  <2> QED
    BY <2>1, <2>2 DEF Domain!ChatEvent, read
<1>4. CASE event \in Wire!Tagged("ParticipantLeft", [user_id : Wire!TSPrincipal])
  <2>1. event.tag = "ParticipantLeft" /\ PrincipalBytesToString(v.user_id) \in Principals
    BY <1>4, PrincipalDeclared DEF Wire!Tagged
  <2>2. read = [kind |-> "member_left", userId |-> PrincipalBytesToString(v.user_id)]
    BY <2>1 DEF MembershipEvent
  <2> HIDE DEF read, users
  <2> QED
    BY <2>1, <2>2 DEF Domain!ChatEvent, read
<1>5. CASE event \in Wire!Tagged("UsersBlocked",
               [user_ids : Seq(Wire!TSPrincipal), blocked_by : Wire!TSPrincipal])
  <2>1. /\ event.tag = "UsersBlocked"
        /\ users \in Seq(Principals)
        /\ PrincipalBytesToString(v.blocked_by) \in Principals
    BY <1>5, PrincipalDeclared, PrincipalsDeclared DEF Wire!Tagged
  <2>2. read = [kind |-> "users_blocked", userIds |-> users,
                blockedBy |-> PrincipalBytesToString(v.blocked_by)]
    BY <2>1 DEF MembershipEvent
  <2> HIDE DEF read, users
  <2> QED
    BY <2>1, <2>2 DEF Domain!ChatEvent, read
<1>6. CASE event \in Wire!Tagged("UsersUnblocked",
               [user_ids : Seq(Wire!TSPrincipal), unblocked_by : Wire!TSPrincipal])
  <2>1. /\ event.tag = "UsersUnblocked"
        /\ users \in Seq(Principals)
        /\ PrincipalBytesToString(v.unblocked_by) \in Principals
    BY <1>6, PrincipalDeclared, PrincipalsDeclared DEF Wire!Tagged
  <2>2. read = [kind |-> "users_unblocked", userIds |-> users,
                unblockedBy |-> PrincipalBytesToString(v.unblocked_by)]
    BY <2>1 DEF MembershipEvent
  <2> HIDE DEF read, users
  <2> QED
    BY <2>1, <2>2 DEF Domain!ChatEvent, read
<1>7. CASE event \in Wire!Tagged("UsersInvited",
               [user_ids : Seq(Wire!TSPrincipal), invited_by : Wire!TSPrincipal])
  <2>1. /\ event.tag = "UsersInvited"
        /\ users \in Seq(Principals)
        /\ PrincipalBytesToString(v.invited_by) \in Principals
    BY <1>7, PrincipalDeclared, PrincipalsDeclared DEF Wire!Tagged
  <2>2. read = [kind |-> "users_invited", userIds |-> users,
                invitedBy |-> PrincipalBytesToString(v.invited_by)]
    BY <2>1 DEF MembershipEvent
  <2> HIDE DEF read, users
  <2> QED
    BY <2>1, <2>2 DEF Domain!ChatEvent, read
<1>8. CASE event \in Wire!Tagged("BotAdded",
               [user_id : Wire!TSPrincipal, added_by : Wire!TSPrincipal])
  <2>1. /\ event.tag = "BotAdded"
        /\ PrincipalBytesToString(v.user_id) \in Principals
        /\ PrincipalBytesToString(v.added_by) \in Principals
    BY <1>8, PrincipalDeclared DEF Wire!Tagged
  <2>2. read = [kind |-> "bot_added", userId |-> PrincipalBytesToString(v.user_id),
                addedBy |-> PrincipalBytesToString(v.added_by)]
    BY <2>1 DEF MembershipEvent
  <2> HIDE DEF read, users
  <2> QED
    BY <2>1, <2>2 DEF Domain!ChatEvent, read
<1>9. CASE event \in Wire!Tagged("BotRemoved",
               [user_id : Wire!TSPrincipal, removed_by : Wire!TSPrincipal])
  <2>1. /\ event.tag = "BotRemoved"
        /\ PrincipalBytesToString(v.user_id) \in Principals
        /\ PrincipalBytesToString(v.removed_by) \in Principals
    BY <1>9, PrincipalDeclared DEF Wire!Tagged
  <2>2. read = [kind |-> "bot_removed", userId |-> PrincipalBytesToString(v.user_id),
                removedBy |-> PrincipalBytesToString(v.removed_by)]
    BY <2>1 DEF MembershipEvent
  <2> HIDE DEF read, users
  <2> QED
    BY <2>1, <2>2 DEF Domain!ChatEvent, read
<1>10. CASE event \in Wire!Tagged("BotUpdated",
                [user_id : Wire!TSPrincipal, updated_by : Wire!TSPrincipal])
  <2>1. /\ event.tag = "BotUpdated"
        /\ PrincipalBytesToString(v.user_id) \in Principals
        /\ PrincipalBytesToString(v.updated_by) \in Principals
    BY <1>10, PrincipalDeclared DEF Wire!Tagged
  <2>2. read = [kind |-> "bot_updated", userId |-> PrincipalBytesToString(v.user_id),
                updatedBy |-> PrincipalBytesToString(v.updated_by)]
    BY <2>1 DEF MembershipEvent
  <2> HIDE DEF read, users
  <2> QED
    BY <2>1, <2>2 DEF Domain!ChatEvent, read
<1>11. CASE event \in Wire!Tagged("RoleChanged", Wire!RoleChanged)
  <2>1. /\ event.tag = "RoleChanged" /\ users \in Seq(Principals)
        /\ PrincipalBytesToString(v.changed_by) \in Principals
        /\ PermissionRole(v.old_role) \in Domain!PermissionRole
        /\ PermissionRole(v.new_role) \in Domain!PermissionRole
    BY <1>11, PrincipalDeclared, PrincipalsDeclared, RoleDeclared
       DEF Wire!Tagged, Wire!RoleChanged
  <2>2. read = [kind |-> "role_changed", userIds |-> users,
                changedBy |-> PrincipalBytesToString(v.changed_by),
                oldRole |-> PermissionRole(v.old_role), newRole |-> PermissionRole(v.new_role)]
    BY <2>1 DEF MembershipEvent
  <2> HIDE DEF read, users
  <2>3. read \in Domain!RoleChanged
    BY <2>1, <2>2 DEF Domain!RoleChanged
  <2> QED
    BY <2>3 DEF Domain!ChatEvent, read
<1> QED
  BY <1>1, <1>2, <1>3, <1>4, <1>5, <1>6, <1>7, <1>8, <1>9, <1>10, <1>11 DEF MembershipEvents

SettingsEvents ==
    Wire!Tagged("GroupNameChanged", Wire!ChangedBy)
    \cup Wire!Tagged("GroupDescriptionChanged", Wire!ChangedBy)
    \cup Wire!Tagged("AvatarChanged", Wire!ChangedBy)
    \cup Wire!Tagged("GroupRulesChanged",
            [enabled : BOOLEAN, prev_enabled : BOOLEAN, changed_by : Wire!TSPrincipal])
    \cup Wire!Tagged("PermissionsChanged", Wire!PermissionsChanged)
    \cup Wire!Tagged("GroupVisibilityChanged", Wire!GroupVisibilityChanged)
    \cup Wire!Tagged("GroupInviteCodeChanged",
            [change : Wire!GroupInviteCodeChange, changed_by : Wire!TSPrincipal])
    \cup Wire!Tagged("EventsTimeToLiveUpdated",
            [updated_by : Wire!TSPrincipal, new_ttl : Wire!Opt(Nat)])
    \cup Wire!Tagged("GroupGateUpdated", [updated_by : Wire!TSPrincipal])
    \cup Wire!Tagged("ExternalUrlUpdated",
            [updated_by : Wire!TSPrincipal, new_url : Wire!Opt(STRING)])

(* those about the settings of a chat too, *)
LEMMA SettingsDeclared ==
    ASSUME NEW event \in SettingsEvents
    PROVE  /\ SettingsEvent(event.tag, event.value) \in Domain!ChatEvent
           /\ MembershipEvent(event.tag, event.value) = Missing
<1> DEFINE v == event.value
           read == SettingsEvent(event.tag, v)
<1>1. CASE event \in Wire!Tagged("GroupNameChanged", Wire!ChangedBy)
  <2>1. /\ event.tag = "GroupNameChanged"
        /\ PrincipalBytesToString(v.changed_by) \in Principals
    BY <1>1, PrincipalDeclared DEF Wire!Tagged, Wire!ChangedBy
  <2>2. read = [kind |-> "name_changed", changedBy |-> PrincipalBytesToString(v.changed_by)]
    BY <2>1 DEF SettingsEvent
  <2>3. /\ MembershipEvent(event.tag, v) = Missing
    BY <2>1 DEF MembershipEvent
  <2> HIDE DEF read
  <2> QED
    BY <2>1, <2>2, <2>3 DEF Domain!ChatEvent, Domain!ByUser, read
<1>2. CASE event \in Wire!Tagged("GroupDescriptionChanged", Wire!ChangedBy)
  <2>1. /\ event.tag = "GroupDescriptionChanged"
        /\ PrincipalBytesToString(v.changed_by) \in Principals
    BY <1>2, PrincipalDeclared DEF Wire!Tagged, Wire!ChangedBy
  <2>2. read = [kind |-> "desc_changed", changedBy |-> PrincipalBytesToString(v.changed_by)]
    BY <2>1 DEF SettingsEvent
  <2>3. /\ MembershipEvent(event.tag, v) = Missing
    BY <2>1 DEF MembershipEvent
  <2> HIDE DEF read
  <2> QED
    BY <2>1, <2>2, <2>3 DEF Domain!ChatEvent, Domain!ByUser, read
<1>3. CASE event \in Wire!Tagged("AvatarChanged", Wire!ChangedBy)
  <2>1. /\ event.tag = "AvatarChanged"
        /\ PrincipalBytesToString(v.changed_by) \in Principals
    BY <1>3, PrincipalDeclared DEF Wire!Tagged, Wire!ChangedBy
  <2>2. read = [kind |-> "avatar_changed", changedBy |-> PrincipalBytesToString(v.changed_by)]
    BY <2>1 DEF SettingsEvent
  <2>3. /\ MembershipEvent(event.tag, v) = Missing
    BY <2>1 DEF MembershipEvent
  <2> HIDE DEF read
  <2> QED
    BY <2>1, <2>2, <2>3 DEF Domain!ChatEvent, Domain!ByUser, read
<1>4. CASE event \in Wire!Tagged("GroupRulesChanged",
               [enabled : BOOLEAN, prev_enabled : BOOLEAN, changed_by : Wire!TSPrincipal])
  <2>1. /\ event.tag = "GroupRulesChanged"
        /\ PrincipalBytesToString(v.changed_by) \in Principals
        /\ v.enabled \in BOOLEAN
        /\ v.prev_enabled \in BOOLEAN
    BY <1>4, PrincipalDeclared DEF Wire!Tagged
  <2>2. read = [kind |-> "rules_changed", changedBy |-> PrincipalBytesToString(v.changed_by),
                enabled |-> v.enabled, enabledPrev |-> v.prev_enabled]
    BY <2>1 DEF SettingsEvent
  <2>3. /\ MembershipEvent(event.tag, v) = Missing
    BY <2>1 DEF MembershipEvent
  <2> HIDE DEF read
  <2>4. read \in Domain!GroupRulesChanged
    BY <2>1, <2>2 DEF Domain!GroupRulesChanged
  <2> QED
    BY <2>3, <2>4 DEF Domain!ChatEvent, read
<1>5. CASE event \in Wire!Tagged("PermissionsChanged", Wire!PermissionsChanged)
  <2>1. /\ event.tag = "PermissionsChanged"
        /\ PrincipalBytesToString(v.changed_by) \in Principals
        /\ GroupPermissions(v.old_permissions_v2) \in Domain!GroupPermissions
        /\ GroupPermissions(v.new_permissions_v2) \in Domain!GroupPermissions
    BY <1>5, PrincipalDeclared, PermissionsDeclared DEF Wire!Tagged, Wire!PermissionsChanged
  <2>2. read = [kind |-> "permissions_changed",
                changedBy |-> PrincipalBytesToString(v.changed_by),
                oldPermissions |-> GroupPermissions(v.old_permissions_v2),
                newPermissions |-> GroupPermissions(v.new_permissions_v2)]
    BY <2>1 DEF SettingsEvent
  <2>3. /\ MembershipEvent(event.tag, v) = Missing
    BY <2>1 DEF MembershipEvent
  <2> HIDE DEF read
  <2>4. read \in Domain!PermissionsChanged
    BY <2>1, <2>2 DEF Domain!PermissionsChanged
  <2> QED
    BY <2>3, <2>4 DEF Domain!ChatEvent, read
<1>6. CASE event \in Wire!Tagged("GroupVisibilityChanged", Wire!GroupVisibilityChanged)
  <2>1. /\ event.tag = "GroupVisibilityChanged"
        /\ PrincipalBytesToString(v.changed_by) \in Principals
        /\ v.public \in Domain!Opt(BOOLEAN)
        /\ v.messages_visible_to_non_members \in Domain!Opt(BOOLEAN)
    BY <1>6, PrincipalDeclared DEF Wire!Tagged, Wire!GroupVisibilityChanged, Wire!Opt, Domain!Opt
  <2>2. read = [kind |-> "group_visibility_changed",
                changedBy |-> PrincipalBytesToString(v.changed_by), public |-> v.public,
                messagesVisibleToNonMembers |-> v.messages_visible_to_non_members]
    BY <2>1 DEF SettingsEvent
  <2>3. /\ MembershipEvent(event.tag, v) = Missing
    BY <2>1 DEF MembershipEvent
  <2> HIDE DEF read
  <2>4. read \in Domain!GroupVisibilityChanged
    BY <2>1, <2>2 DEF Domain!GroupVisibilityChanged
  <2> QED
    BY <2>3, <2>4 DEF Domain!ChatEvent, read
<1>7. CASE event \in Wire!Tagged("GroupInviteCodeChanged",
               [change : Wire!GroupInviteCodeChange, changed_by : Wire!TSPrincipal])
  <2>1. /\ event.tag = "GroupInviteCodeChanged"
        /\ PrincipalBytesToString(v.changed_by) \in Principals
        /\ InviteCodeChange(v.change) \in Domain!GroupInviteCodeChange
    BY <1>7, PrincipalDeclared DEF Wire!Tagged, InviteCodeChange, Domain!GroupInviteCodeChange
  <2>2. read = [kind |-> "group_invite_code_changed",
                changedBy |-> PrincipalBytesToString(v.changed_by),
                change |-> InviteCodeChange(v.change)]
    BY <2>1 DEF SettingsEvent
  <2>3. /\ MembershipEvent(event.tag, v) = Missing
    BY <2>1 DEF MembershipEvent
  <2> HIDE DEF read
  <2>4. read \in Domain!GroupInviteCodeChanged
    BY <2>1, <2>2 DEF Domain!GroupInviteCodeChanged
  <2> QED
    BY <2>3, <2>4 DEF Domain!ChatEvent, read
<1>8. CASE event \in Wire!Tagged("EventsTimeToLiveUpdated",
               [updated_by : Wire!TSPrincipal, new_ttl : Wire!Opt(Nat)])
  <2>1. /\ event.tag = "EventsTimeToLiveUpdated"
        /\ PrincipalBytesToString(v.updated_by) \in Principals
        /\ v.new_ttl \in Domain!Opt(Nat)
    BY <1>8, PrincipalDeclared DEF Wire!Tagged, Wire!Opt, Domain!Opt
  <2>2. read = [kind |-> "events_ttl_updated", updatedBy |-> PrincipalBytesToString(v.updated_by),
                newTimeToLive |-> v.new_ttl]
    BY <2>1 DEF SettingsEvent
  <2>3. /\ MembershipEvent(event.tag, v) = Missing
    BY <2>1 DEF MembershipEvent
  <2> HIDE DEF read
  <2> QED
    BY <2>1, <2>2, <2>3 DEF Domain!ChatEvent, read
<1>9. CASE event \in Wire!Tagged("GroupGateUpdated", [updated_by : Wire!TSPrincipal])
  <2>1. /\ event.tag = "GroupGateUpdated"
        /\ PrincipalBytesToString(v.updated_by) \in Principals
    BY <1>9, PrincipalDeclared DEF Wire!Tagged
  <2>2. read = [kind |-> "gate_updated", updatedBy |-> PrincipalBytesToString(v.updated_by)]
    BY <2>1 DEF SettingsEvent
  <2>3. /\ MembershipEvent(event.tag, v) = Missing
    BY <2>1 DEF MembershipEvent
  <2> HIDE DEF read
  <2> QED
    BY <2>1, <2>2, <2>3 DEF Domain!ChatEvent, read
<1>10. CASE event \in Wire!Tagged("ExternalUrlUpdated",
                [updated_by : Wire!TSPrincipal, new_url : Wire!Opt(STRING)])
  <2>1. /\ event.tag = "ExternalUrlUpdated"
        /\ PrincipalBytesToString(v.updated_by) \in Principals
        /\ v.new_url \in Domain!Opt(STRING)
    BY <1>10, PrincipalDeclared DEF Wire!Tagged, Wire!Opt, Domain!Opt
  <2>2. read = [kind |-> "external_url_updated",
                updatedBy |-> PrincipalBytesToString(v.updated_by),
                newUrl |-> v.new_url]
    BY <2>1 DEF SettingsEvent
  <2>3. /\ MembershipEvent(event.tag, v) = Missing
    BY <2>1 DEF MembershipEvent
  <2> HIDE DEF read
  <2> QED
    BY <2>1, <2>2, <2>3 DEF Domain!ChatEvent, read
<1> QED
  BY <1>1, <1>2, <1>3, <1>4, <1>5, <1>6, <1>7, <1>8, <1>9, <1>10 DEF SettingsEvents

LifeEvents ==
    Wire!Tagged("GroupChatCreated",
                [name : STRING, description : STRING, created_by : Wire!TSPrincipal])
    \cup Wire!Tagged("MessagePinned", [message_index : Nat, pinned_by : Wire!TSPrincipal])
    \cup Wire!Tagged("MessageUnpinned", [message_index : Nat, unpinned_by : Wire!TSPrincipal])
    \cup Wire!Tagged("ChatFrozen", [frozen_by : Wire!TSPrincipal, reason : Wire!Opt(STRING)])
    \cup Wire!Tagged("ChatUnfrozen", [unfrozen_by : Wire!TSPrincipal])
    \cup Wire!Tagged("MembersAddedToDefaultChannel", [count : Nat])

(* and those about a chat as a whole. *)
LEMMA LifeDeclared ==
    ASSUME NEW event \in LifeEvents
    PROVE  /\ ChatLifeEvent(event.tag, event.value) \in Domain!ChatEvent
           /\ MembershipEvent(event.tag, event.value) = Missing
           /\ SettingsEvent(event.tag, event.value) = Missing
<1> DEFINE v == event.value
           read == ChatLifeEvent(event.tag, v)
<1>1. CASE event \in Wire!Tagged("GroupChatCreated",
               [name : STRING, description : STRING, created_by : Wire!TSPrincipal])
  <2>1. /\ event.tag = "GroupChatCreated"
        /\ PrincipalBytesToString(v.created_by) \in Principals
        /\ v.name \in STRING
        /\ v.description \in STRING
    BY <1>1, PrincipalDeclared DEF Wire!Tagged
  <2>2. read = [kind |-> "group_chat_created", name |-> v.name,
                description |-> v.description,
                created_by |-> PrincipalBytesToString(v.created_by)]
    BY <2>1 DEF ChatLifeEvent
  <2>3. /\ MembershipEvent(event.tag, v) = Missing
        /\ SettingsEvent(event.tag, v) = Missing
    BY <2>1 DEF MembershipEvent, SettingsEvent
  <2> HIDE DEF read
  <2> QED
    BY <2>1, <2>2, <2>3 DEF Domain!ChatEvent, read
<1>2. CASE event \in Wire!Tagged("MessagePinned",
               [message_index : Nat, pinned_by : Wire!TSPrincipal])
  <2>1. /\ event.tag = "MessagePinned"
        /\ PrincipalBytesToString(v.pinned_by) \in Principals
        /\ v.message_index \in Nat
    BY <1>2, PrincipalDeclared DEF Wire!Tagged
  <2>2. read = [kind |-> "message_pinned", pinnedBy |-> PrincipalBytesToString(v.pinned_by),
                messageIndex |-> v.message_index]
    BY <2>1 DEF ChatLifeEvent
  <2>3. /\ MembershipEvent(event.tag, v) = Missing
        /\ SettingsEvent(event.tag, v) = Missing
    BY <2>1 DEF MembershipEvent, SettingsEvent
  <2> HIDE DEF read
  <2> QED
    BY <2>1, <2>2, <2>3 DEF Domain!ChatEvent, read
<1>3. CASE event \in Wire!Tagged("MessageUnpinned",
               [message_index : Nat, unpinned_by : Wire!TSPrincipal])
  <2>1. /\ event.tag = "MessageUnpinned"
        /\ PrincipalBytesToString(v.unpinned_by) \in Principals
        /\ v.message_index \in Nat
    BY <1>3, PrincipalDeclared DEF Wire!Tagged
  <2>2. read = [kind |-> "message_unpinned", unpinnedBy |-> PrincipalBytesToString(v.unpinned_by),
                messageIndex |-> v.message_index]
    BY <2>1 DEF ChatLifeEvent
  <2>3. /\ MembershipEvent(event.tag, v) = Missing
        /\ SettingsEvent(event.tag, v) = Missing
    BY <2>1 DEF MembershipEvent, SettingsEvent
  <2> HIDE DEF read
  <2> QED
    BY <2>1, <2>2, <2>3 DEF Domain!ChatEvent, read
<1>4. CASE event \in Wire!Tagged("ChatFrozen",
               [frozen_by : Wire!TSPrincipal, reason : Wire!Opt(STRING)])
  <2>1. /\ event.tag = "ChatFrozen"
        /\ PrincipalBytesToString(v.frozen_by) \in Principals
        /\ v.reason \in Domain!Opt(STRING)
    BY <1>4, PrincipalDeclared DEF Wire!Tagged, Wire!Opt, Domain!Opt
  <2>2. read = [kind |-> "chat_frozen", frozenBy |-> PrincipalBytesToString(v.frozen_by),
                reason |-> v.reason]
    BY <2>1 DEF ChatLifeEvent
  <2>3. /\ MembershipEvent(event.tag, v) = Missing
        /\ SettingsEvent(event.tag, v) = Missing
    BY <2>1 DEF MembershipEvent, SettingsEvent
  <2> HIDE DEF read
  <2> QED
    BY <2>1, <2>2, <2>3 DEF Domain!ChatEvent, read
<1>5. CASE event \in Wire!Tagged("ChatUnfrozen", [unfrozen_by : Wire!TSPrincipal])
  <2>1. /\ event.tag = "ChatUnfrozen"
        /\ PrincipalBytesToString(v.unfrozen_by) \in Principals
    BY <1>5, PrincipalDeclared DEF Wire!Tagged
  <2>2. read = [kind |-> "chat_unfrozen", unfrozenBy |-> PrincipalBytesToString(v.unfrozen_by)]
    BY <2>1 DEF ChatLifeEvent
  <2>3. /\ MembershipEvent(event.tag, v) = Missing
        /\ SettingsEvent(event.tag, v) = Missing
    BY <2>1 DEF MembershipEvent, SettingsEvent
  <2> HIDE DEF read
  <2> QED
    BY <2>1, <2>2, <2>3 DEF Domain!ChatEvent, read
<1>6. CASE event \in Wire!Tagged("MembersAddedToDefaultChannel", [count : Nat])
  <2>1. /\ event.tag = "MembersAddedToDefaultChannel"
        /\ v.count \in Nat
    BY <1>6 DEF Wire!Tagged
  <2>2. read = [kind |-> "members_added_to_default_channel", count |-> v.count]
    BY <2>1 DEF ChatLifeEvent
  <2>3. /\ MembershipEvent(event.tag, v) = Missing
        /\ SettingsEvent(event.tag, v) = Missing
    BY <2>1 DEF MembershipEvent, SettingsEvent
  <2> HIDE DEF read
  <2> QED
    BY <2>1, <2>2, <2>3 DEF Domain!ChatEvent, read
<1> QED
  BY <1>1, <1>2, <1>3, <1>4, <1>5, <1>6 DEF LifeEvents

(* An event is read as one of those declared, unless it is a message whose *)
(* content is unreadable.                                                  *)
LEMMA EventDeclared ==
    ASSUME NEW event \in Wire!ChatEvent
    PROVE  IF Unreadable(event) THEN Event(event) = Thrown
           ELSE Event(event) \in Domain!ChatEvent
<1> DEFINE mapped == OrElse(MembershipEvent(event.tag, event.value),
                         OrElse(SettingsEvent(event.tag, event.value),
                                ChatLifeEvent(event.tag, event.value)))
<1>1. CASE event \in Wire!Literals({"Empty", "FailedToDeserialize", "DirectChatCreated"})
  <2>1. event.tag \in {"Empty", "FailedToDeserialize", "DirectChatCreated"}
    BY <1>1 DEF Wire!Literals
  <2>2. Event(event) = [kind |-> IF event.tag = "DirectChatCreated" THEN "direct_chat_created"
                                 ELSE "empty"]
    BY <2>1 DEF Event
  <2> QED
    BY <2>1, <2>2 DEF Unreadable, Domain!ChatEvent, Domain!Kinds
<1>2. CASE event \in Wire!Tagged("Message", Wire!Message)
  <2>1. event.tag = "Message" /\ event.value \in Wire!Message
    BY <1>2 DEF Wire!Tagged
  <2>2. Event(event) = Message(event.value)
    BY <2>1 DEF Event
  <2>3. Unreadable(event) <=> UnreadableContent(event.value.content)
    BY <2>1 DEF Unreadable
  <2>4. IF Unreadable(event) THEN Event(event) = Thrown ELSE Event(event) \in Domain!MessageEvent
    BY <2>1, <2>2, <2>3, MessageDeclared
  <2> QED
    BY <2>4 DEF Domain!ChatEvent
<1>3. ASSUME event.tag \notin {"Empty", "FailedToDeserialize", "DirectChatCreated", "Message"}
      PROVE  Event(event) = mapped /\ ~Unreadable(event)
  BY <1>3 DEF Event, Unreadable
<1> HIDE DEF mapped
<1>4. CASE event \in MembershipEvents
  <2>1. event.tag \notin {"Empty", "FailedToDeserialize", "DirectChatCreated", "Message"}
    BY <1>4 DEF MembershipEvents, Wire!Tagged
  <2>2. MembershipEvent(event.tag, event.value) \in Domain!ChatEvent
    BY <1>4, MembershipDeclared
  <2>3. mapped = MembershipEvent(event.tag, event.value)
    BY <2>2, ValuesAssumption DEF OrElse, mapped
  <2> QED
    BY <1>3, <2>1, <2>2, <2>3
<1>5. CASE event \in SettingsEvents
  <2>1. event.tag \notin {"Empty", "FailedToDeserialize", "DirectChatCreated", "Message"}
    BY <1>5 DEF SettingsEvents, Wire!Tagged
  <2>2. /\ SettingsEvent(event.tag, event.value) \in Domain!ChatEvent
        /\ MembershipEvent(event.tag, event.value) = Missing
    BY <1>5, SettingsDeclared
  <2>3. mapped = SettingsEvent(event.tag, event.value)
    BY <2>2, ValuesAssumption DEF OrElse, mapped
  <2> QED
    BY <1>3, <2>1, <2>2, <2>3
<1>6. CASE event \in LifeEvents
  <2>1. event.tag \notin {"Empty", "FailedToDeserialize", "DirectChatCreated", "Message"}
    BY <1>6 DEF LifeEvents, Wire!Tagged
  <2>2. /\ ChatLifeEvent(event.tag, event.value) \in Domain!ChatEvent
        /\ MembershipEvent(event.tag, event.value) = Missing
        /\ SettingsEvent(event.tag, event.value) = Missing
    BY <1>6, LifeDeclared
  <2>3. mapped = ChatLifeEvent(event.tag, event.value)
    BY <2>2 DEF OrElse, mapped
  <2> QED
    BY <1>3, <2>1, <2>2, <2>3
<1> QED
  BY <1>1, <1>2, <1>4, <1>5, <1>6
     DEF Wire!ChatEvent, MembershipEvents, SettingsEvents, LifeEvents

-----------------------------------------------------------------------------
(* Pages of events, details of chats, and the answers to requests *)

(* An event of a page is read with its index, or throws if it is           *)
(* unreadable.                                                             *)
LEMMA WrapperDeclared ==
    ASSUME NEW value \in Wire!EventWrapperChatEvent
    PROVE  IF Unreadable(value.event) THEN EventWrapper(value) = Thrown
           ELSE /\ EventWrapper(value) \in Domain!ChatEventWrapper
                /\ EventWrapper(value).index = value.index
<1> DEFINE event == Event(value.event)
           f == [event |-> event, index |-> value.index, timestamp |-> value.timestamp,
                 expiresAt |-> value.expires_at]
<1>1. /\ value.event \in Wire!ChatEvent /\ value.index \in Nat /\ value.timestamp \in Nat
      /\ value.expires_at \in Domain!Opt(Nat)
  BY DEF Wire!EventWrapperChatEvent, Wire!Opt, Domain!Opt
<1>2. IF Unreadable(value.event) THEN event = Thrown ELSE event \in Domain!ChatEvent
  BY <1>1, EventDeclared
<1>3. EventWrapper(value) = Built(f)
  BY DEF EventWrapper
<1> HIDE DEF event
<1>4. CASE Unreadable(value.event)
  <2>1. "event" \in DOMAIN f /\ f["event"] = Thrown
    BY <1>2, <1>4
  <2> HIDE DEF f
  <2> QED
    BY <1>3, <1>4, <2>1, BuiltThrows
<1>5. CASE ~Unreadable(value.event)
  <2>1. f \in Domain!ChatEventWrapper /\ f.index = value.index
    BY <1>1, <1>2, <1>5 DEF Domain!ChatEventWrapper
  <2>2. event # Thrown
    BY <1>2, <1>5, ValuesAssumption
  <2>3. value.index # Thrown /\ value.timestamp # Thrown /\ value.expires_at # Thrown
    BY <1>1, NoValue, MappingAssumption DEF Domain!Opt
  <2>4. \A x \in DOMAIN f : f[x] # Thrown
    BY <2>2, <2>3
  <2> HIDE DEF f
  <2> QED
    BY <1>3, <1>5, <2>1, <2>4, BuiltWhole
<1> QED
  BY <1>4, <1>5

(* A page is read in full and in order, if all in it is readable.          *)
LEMMA PageDeclared ==
    ASSUME NEW api \in Wire!EventsResponse
    PROVE  IF \E i \in DOMAIN api.events : Unreadable(api.events[i].event)
           THEN ChatEventsSuccessResponse(api) = Thrown
           ELSE /\ ChatEventsSuccessResponse(api) \in Domain!ChatEventsSuccess
                /\ Len(ChatEventsSuccessResponse(api).events) = Len(api.events)
                /\ \A i \in DOMAIN api.events :
                    ChatEventsSuccessResponse(api).events[i].index = api.events[i].index
<1> DEFINE events == api.events
           f == [i \in DOMAIN events |-> EventWrapper(events[i])]
           read == Built(f)
           g == [kind |-> "success", events |-> read, unauthorized |-> api.unauthorized,
                 expiredEventRanges |-> api.expired_event_ranges,
                 expiredMessageRanges |-> api.expired_message_ranges,
                 latestEventIndex |-> api.latest_event_index,
                 chatLastUpdated |-> api.chat_last_updated]
           broken == \E i \in DOMAIN events : Unreadable(events[i].event)
<1>1. /\ events \in Seq(Wire!EventWrapperChatEvent) /\ api.unauthorized \in Seq(Nat)
      /\ api.expired_event_ranges \in Seq(Nat \X Nat)
      /\ api.expired_message_ranges \in Seq(Nat \X Nat)
      /\ api.latest_event_index \in Nat /\ api.chat_last_updated \in Nat
  BY DEF Wire!EventsResponse, Wire!Pair
<1>2. ChatEventsSuccessResponse(api) = Built(g)
  BY DEF ChatEventsSuccessResponse, Mapped
<1>3. \A i \in DOMAIN events :
        IF Unreadable(events[i].event) THEN f[i] = Thrown
        ELSE f[i] \in Domain!ChatEventWrapper /\ f[i].index = events[i].index
  <2> HIDE DEF events
  <2>1. \A i \in DOMAIN events : events[i] \in Wire!EventWrapperChatEvent
    BY <1>1
  <2> QED
    BY <2>1, WrapperDeclared
<1>4. f = [i \in DOMAIN events |-> f[i]] /\ DOMAIN f = DOMAIN events
  OBVIOUS
<1> HIDE DEF events, f
<1>5. CASE broken
  <2>1. read = Thrown
    BY <1>3, <1>4, <1>5, BuiltThrows
  <2> HIDE DEF read
  <2>2. "events" \in DOMAIN g /\ g["events"] = Thrown
    BY <2>1
  <2> HIDE DEF g
  <2>3. ChatEventsSuccessResponse(api) = Thrown
    BY <1>2, <2>2, BuiltThrows
  <2> QED
    BY <1>5, <2>3 DEF events
<1>6. CASE ~broken
  <2>1. \A i \in DOMAIN events : f[i] \in Domain!ChatEventWrapper /\ f[i].index = events[i].index
    BY <1>3, <1>6
  <2>2. Thrown \notin Domain!ChatEventWrapper
    BY ValuesAssumption
  <2>3. read = f /\ read \in Seq(Domain!ChatEventWrapper) /\ Len(read) = Len(events)
    BY <1>1, <1>4, <2>1, <2>2, MappedParts
  <2>4. \A i \in DOMAIN events : read[i].index = events[i].index
    BY <2>1, <2>3
  <2> HIDE DEF read
  <2>5. read # Thrown
    BY <2>3, ValuesAssumption
  <2>6. /\ api.unauthorized # Thrown /\ api.expired_event_ranges # Thrown
        /\ api.expired_message_ranges # Thrown
    BY <1>1, ValuesAssumption
  <2>7. api.latest_event_index # Thrown /\ api.chat_last_updated # Thrown
        /\ "success" # Thrown
    BY <1>1, NoValue
  <2>8. \A x \in DOMAIN g : g[x] # Thrown
    BY <2>5, <2>6, <2>7
  <2>9. g \in Domain!ChatEventsSuccess /\ g.events = read
    BY <1>1, <2>3 DEF Domain!ChatEventsSuccess
  <2> HIDE DEF g
  <2>10. ChatEventsSuccessResponse(api) = g
    BY <1>2, <2>8, BuiltWhole
  <2> QED
    BY <1>6, <2>3, <2>4, <2>9, <2>10 DEF events
<1> QED
  BY <1>5, <1>6

(* The details of a chat are read as declared. *)
LEMMA DetailsDeclared ==
    ASSUME NEW api \in Wire!ChatDetails
    PROVE  ChatDetails(api) \in Domain!ChatDetailsSuccess
<1> DEFINE gate == Optional(api.gate_config, AccessGateConfig)
           call == Optional(api.video_call_in_progress, VideoCall)
           verified == OrElse(api.verified, FALSE)
           frozen == Optional(api.frozen, FrozenGroupInfo)
<1>1. GroupPermissions(api.permissions) \in Domain!GroupPermissions
  BY PermissionsDeclared DEF Wire!ChatDetails
<1>2. gate \in Domain!Opt(Domain!AccessGateConfig)
  BY GateConfigDeclared DEF Wire!ChatDetails, Wire!Opt, Optional, Domain!Opt
<1>3. call \in Domain!Opt(Domain!VideoCall)
  <2>1. ASSUME NEW v \in Wire!VideoCall PROVE VideoCall(v) \in Domain!VideoCall
    BY DEF Wire!VideoCall, VideoCall, Domain!VideoCall, Domain!VideoCallType
  <2> QED
    BY <2>1 DEF Wire!ChatDetails, Wire!Opt, Optional, Domain!Opt
<1>4. frozen \in Domain!Opt(Domain!FrozenGroupInfo)
  <2>1. ASSUME NEW v \in Wire!FrozenGroupInfo
        PROVE  FrozenGroupInfo(v) \in Domain!FrozenGroupInfo
    BY PrincipalDeclared
       DEF Wire!FrozenGroupInfo, FrozenGroupInfo, Domain!FrozenGroupInfo, Wire!Opt, Domain!Opt
  <2> QED
    BY <2>1 DEF Wire!ChatDetails, Wire!Opt, Optional, Domain!Opt
<1>5. verified \in BOOLEAN
  BY DEF Wire!ChatDetails, Wire!Opt, OrElse
<1>6. api.rules \in Domain!VersionedRules
  BY DEF Wire!ChatDetails, Domain!VersionedRules
<1>7. ChatDetails(api) =
        [kind |-> "success", name |-> api.name, description |-> api.description,
         avatarId |-> api.avatar_id, isPublic |-> api.is_public,
         historyVisibleToNewJoiners |-> api.history_visible_to_new_joiners,
         messagesVisibleToNonMembers |-> api.messages_visible_to_non_members,
         permissions |-> GroupPermissions(api.permissions), rules |-> api.rules,
         eventsTtl |-> api.events_ttl, eventsTtlLastUpdated |-> api.events_ttl_last_updated,
         gateConfig |-> gate, videoCallInProgress |-> call, verified |-> verified,
         frozen |-> frozen, dateLastPinned |-> api.date_last_pinned,
         lastUpdated |-> api.last_updated, externalUrl |-> api.external_url,
         latestEventIndex |-> api.latest_event_index,
         latestMessageIndex |-> api.latest_message_index, memberCount |-> api.member_count]
  BY DEF ChatDetails
<1> HIDE DEF gate, call, verified, frozen
<1> QED
  BY <1>1, <1>2, <1>3, <1>4, <1>5, <1>6, <1>7
     DEF Wire!ChatDetails, Domain!ChatDetailsSuccess, Wire!Opt, Domain!Opt

(* What OpenChat replies to a request, and what its callers are answered   *)
Responses(op) ==
    CASE op = "sendMessage" -> Wire!BotSendMessageResponse
      [] op = "createChannel" -> Wire!BotCreateChannelResponse
      [] op = "deleteChannel" -> Wire!BotDeleteChannelResponse
      [] op = "chatDetails" -> Wire!BotChatDetailsResponse
      [] op = "chatEvents" -> Wire!BotChatEventsResponse

Answers(op) ==
    CASE op = "sendMessage" -> Domain!SendMessageResponse
      [] op = "createChannel" -> Domain!CreateChannelResponse
      [] op = "deleteChannel" -> Domain!DeleteChannelResponse
      [] op = "chatDetails" -> Domain!ChatDetailsResponse
      [] op = "chatEvents" -> Domain!ChatEventsResponse

(* The answers to requests, one operation at a time *)
LEMMA SendAnswerDeclared ==
    ASSUME NEW reply \in Wire!BotSendMessageResponse, SendMessageResponse(reply) # Thrown
    PROVE  SendMessageResponse(reply) \in Domain!SendMessageResponse
<1> DEFINE read == SendMessageResponse(reply)
<1>1. CASE reply \in Wire!Tagged("Success", Wire!BotSendMessageSuccessResult)
  <2> DEFINE value == reply.value
  <2>1. reply.tag = "Success" /\ value \in Wire!BotSendMessageSuccessResult
    BY <1>1 DEF Wire!Tagged
  <2>2. read = [kind |-> "success", messageId |-> ToBigInt64(value.message_id),
                eventIndex |-> value.event_index, messageIndex |-> value.message_index,
                timestamp |-> value.timestamp, expiresAt |-> value.expires_at]
    BY <2>1 DEF SendMessageResponse
  <2> HIDE DEF value, read
  <2>3. read \in Domain!SendMessageSuccess
    BY <2>1, <2>2, IdsDeclared
       DEF Wire!BotSendMessageSuccessResult, Domain!SendMessageSuccess, Wire!Opt, Domain!Opt
  <2> QED
    BY <2>3 DEF Domain!SendMessageResponse, read
<1>2. CASE reply \in Wire!Literals({"FailedAuthentication", "InvalidRequest", "NotAuthorized",
                                    "Frozen", "ThreadNotFound", "MessageAlreadyFinalised",
                                    "C2CError", "Error"})
  <2>1. reply.tag # "Success"
    BY <1>2 DEF Wire!Literals
  <2> QED
    BY <1>2, <2>1 DEF Wire!Literals, SendMessageResponse, Kind, Domain!SendMessageResponse,
                      Domain!SendMessageFailure, Domain!Kinds
<1> QED
  BY <1>1, <1>2 DEF Wire!BotSendMessageResponse

LEMMA CreateAnswerDeclared ==
    ASSUME NEW reply \in Wire!BotCreateChannelResponse, CreateChannelResponse(reply) # Thrown
    PROVE  CreateChannelResponse(reply) \in Domain!CreateChannelResponse
<1>1. CASE reply \in Wire!Tagged("Success", [channel_id : Nat])
  <2>1. reply.tag = "Success" /\ ToBigInt32(reply.value.channel_id) \in Nat
    BY <1>1, IdsDeclared DEF Wire!Tagged
  <2>2. CreateChannelResponse(reply)
            = [kind |-> "success", channelId |-> ToBigInt32(reply.value.channel_id)]
    BY <2>1 DEF CreateChannelResponse
  <2> QED
    BY <2>1, <2>2 DEF Domain!CreateChannelResponse, Domain!CreateChannelSuccess
<1>2. CASE reply \in Wire!Literals({"FailedAuthentication", "InvalidRequest", "NotAuthorized",
                                    "Frozen", "C2CError", "Error"})
  BY <1>2 DEF Wire!Literals, CreateChannelResponse, Kind, Domain!CreateChannelResponse,
              Domain!CreateChannelFailure, Domain!Kinds
<1> QED
  BY <1>1, <1>2 DEF Wire!BotCreateChannelResponse

LEMMA DeleteAnswerDeclared ==
    ASSUME NEW reply \in Wire!BotDeleteChannelResponse, DeleteChannelResponse(reply) # Thrown
    PROVE  DeleteChannelResponse(reply) \in Domain!DeleteChannelResponse
BY DEF Wire!BotDeleteChannelResponse, Wire!Literals, DeleteChannelResponse, Kind,
       Domain!DeleteChannelResponse, Domain!DeleteChannelFailure, Domain!Kinds

LEMMA DetailsAnswerDeclared ==
    ASSUME NEW reply \in Wire!BotChatDetailsResponse, ChatDetailsResponse(reply) # Thrown
    PROVE  ChatDetailsResponse(reply) \in Domain!ChatDetailsResponse
<1>1. CASE reply \in Wire!Tagged("Success", Wire!ChatDetails)
  <2>1. reply.tag = "Success" /\ ChatDetails(reply.value) \in Domain!ChatDetailsSuccess
    BY <1>1, DetailsDeclared DEF Wire!Tagged
  <2> QED
    BY <2>1 DEF ChatDetailsResponse, Domain!ChatDetailsResponse
<1>2. CASE reply \in Wire!Literals({"FailedAuthentication", "DirectChatUnsupported",
                                    "NotAuthorized", "NotFound", "InternalError", "Error"})
  BY <1>2 DEF Wire!Literals, ChatDetailsResponse, Kind, Domain!ChatDetailsResponse,
              Domain!ChatDetailsFailure, Domain!Kinds
<1> QED
  BY <1>1, <1>2 DEF Wire!BotChatDetailsResponse

LEMMA EventsAnswerDeclared ==
    ASSUME NEW reply \in Wire!BotChatEventsResponse, ChatEventsResponse(reply) # Thrown
    PROVE  ChatEventsResponse(reply) \in Domain!ChatEventsResponse
<1>1. CASE reply \in Wire!Tagged("Success", Wire!EventsResponse)
  <2>1. reply.tag = "Success" /\ reply.value \in Wire!EventsResponse
    BY <1>1 DEF Wire!Tagged
  <2>2. ChatEventsResponse(reply) = ChatEventsSuccessResponse(reply.value)
    BY <2>1 DEF ChatEventsResponse
  <2>3. ChatEventsSuccessResponse(reply.value) \in Domain!ChatEventsSuccess
    BY <2>1, <2>2, PageDeclared
  <2> QED
    BY <2>2, <2>3 DEF Domain!ChatEventsResponse
<1>2. CASE reply \in Wire!Literals({"FailedAuthentication", "NotAuthorized", "NotFound",
                                    "InternalError", "Error"})
  BY <1>2 DEF Wire!Literals, ChatEventsResponse, Kind, Domain!ChatEventsResponse,
              Domain!ChatEventsFailure, Domain!Kinds
<1> QED
  BY <1>1, <1>2 DEF Wire!BotChatEventsResponse

(* Whatever OpenChat replies that satisfies its schema is answered as      *)
(* declared, unless its mapper throws.                                     *)
LEMMA AnswerDeclared ==
    ASSUME NEW op \in Queries \cup Updates, NEW reply \in Responses(op),
           AnswerOf(op, reply) # Thrown
    PROVE  AnswerOf(op, reply) \in Answers(op)
<1>1. CASE op = "sendMessage"
  BY <1>1, SendAnswerDeclared DEF Responses, Answers, AnswerOf
<1>2. CASE op = "createChannel"
  BY <1>2, CreateAnswerDeclared DEF Responses, Answers, AnswerOf
<1>3. CASE op = "deleteChannel"
  BY <1>3, DeleteAnswerDeclared DEF Responses, Answers, AnswerOf
<1>4. CASE op = "chatDetails"
  BY <1>4, DetailsAnswerDeclared DEF Responses, Answers, AnswerOf
<1>5. CASE op = "chatEvents"
  BY <1>5, EventsAnswerDeclared DEF Responses, Answers, AnswerOf
<1> QED
  BY <1>1, <1>2, <1>3, <1>4, <1>5 DEF Queries, Updates
=============================================================================
