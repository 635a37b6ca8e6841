-------------------------------- MODULE Gateway --------------------------------
(***************************************************************************)
(* The public side: gateway-service's HTTP endpoints and the WebSocket     *)
(* connections of realtime-service, in front of chat-service (module       *)
(* Conversation) and of auth- and admin-service (module Accounts).         *)
(*                                                                         *)
(* chat-service trusts its callers: it knows neither tokens nor sites.     *)
(* Who may do what is decided here, by a chain of separate calls: who is   *)
(* the caller, what is the conversation, is the site active, who is the    *)
(* target; then the operation itself.  Administrators work in between.     *)
(* An endpoint that is refused, or whose upstream fails, ends without an   *)
(* effect; the limiter is the subject of module RateLimiter.               *)
(***************************************************************************)
EXTENDS Accounts, Conversation

CONSTANTS
    ConvSite,   \* the site the conversation belongs to
    AllowedOrigins, \* where the agents' console is served: ALLOWED_ORIGINS
    MaxConns,   \* bound on the open connections
    MaxSessions \* bound on the widget sessions that have not expired

ASSUME GatewayAssumption ==
    /\ Agents = AgentIDs
    /\ {"visitor", "agent"} \subseteq CallerTypes
    /\ ConvSite \in {Staff[a].site : a \in DOMAIN Staff}
    /\ None \notin Domains /\ 0 \notin Agents
    /\ AllowedOrigins \cap Domains = {}
    /\ MaxConns \in Nat /\ MaxSessions \in Nat

VARIABLES
    created,    \* the conversation's row exists
    greq,       \* requests in flight, one chat-service call each at a time
    conns,      \* contexts of the open WebSocket connections
    sessions    \* widget sessions handed out and not yet expired

gatewayVars == <<accountVars, vars, created, greq, conns, sessions>>

-----------------------------------------------------------------------------
(* Requests *)

StaffOps == {"get", "list", "messages", "message", "read", "claim", "transfer", "confirm",
             "reject", "close", "connect"}
VisitorOps == {"get", "messages", "message", "read", "connect"}
SocketOps == {"connect", "send"}

Origins == Domains \cup AllowedOrigins

\* The address of a page as a header gives it: its port may be left out, be the
\* scheme's own, or another one.
URLs == [host : Origins, port : {"none", "default", "other"}]

WidgetSession == [site : SiteIDs, domain : Domains, key : Nat]

NoRequest == [pc |-> "idle"]

\* The caller as the chain of checks has established it; site is the agent's.
Caller == [role : {"agent"}, who : Agents, site : SiteIDs]
            \cup [role : {"visitor"}, who : Tokens, site : {None}]

\* arg: the target of a transfer, the page of a connection, the id read up to.
\* Two history values: late, the credentials were worthless when the request
\* began; frozen, the site has been disabled since before that.
Args == Agents \cup Origins \cup Nat \cup {None}
Request ==
    {NoRequest}
      \cup [pc : {"actor"}, op : StaffOps, token : Token, arg : Args, late : BOOLEAN, frozen : BOOLEAN]
      \cup [pc : {"conversation", "site", "target", "call", "latest", "wait", "answered"},
            op : StaffOps \cup VisitorOps \cup SocketOps, by : Caller, arg : Args, late : BOOLEAN, frozen : BOOLEAN]
      \cup [pc : {"widget", "create"}, session : WidgetSession, late : BOOLEAN, frozen : BOOLEAN]

GatewayTypeOK ==
    /\ AccountsTypeOK
    /\ TypeOK
    /\ created \in BOOLEAN
    /\ greq \in [Requests -> Request]
    /\ conns \subseteq Caller
    /\ sessions \subseteq WidgetSession

\* Every member of staff has logged in; the site may have been disabled.
GatewayInit ==
    /\ \E disabled \in SUBSET {ConvSite} : EveryoneLoggedIn(disabled)
    /\ Init
    /\ created = FALSE
    /\ greq = [g \in Requests |-> NoRequest]
    /\ conns = {}
    /\ sessions = {}

SiteDisabled == sites[ConvSite].status # "active"

Move(g, pc) == greq' = [greq EXCEPT ![g].pc = pc]
End(g) == greq' = [greq EXCEPT ![g] = NoRequest]

\* A request that ends without an effect: a check refuses it, a call fails or
\* its time is up.  A message on its way to chat-service is not called back.
RequestFails(g) ==
    /\ greq[g].pc \notin {"idle", "wait", "answered"}
    /\ End(g)
    /\ UNCHANGED <<accountVars, vars, created, conns, sessions>>

-----------------------------------------------------------------------------
(* Arrival *)

\* Authorization is present, or the access_token of a connection.
StaffRequest(g, op, t, arg) ==
    /\ greq[g] = NoRequest
    /\ greq' = [greq EXCEPT ![g] = [pc |-> "actor", op |-> op, token |-> t, arg |-> arg,
                                    late |-> t \in revoked, frozen |-> SiteDisabled]]
    /\ UNCHANGED <<accountVars, vars, created, conns, sessions>>

VisitorRequest(g, op, v, arg) ==
    /\ greq[g] = NoRequest
    /\ greq' = [greq EXCEPT ![g] = [pc |-> "conversation", op |-> op, arg |-> arg,
                                    by |-> [role |-> "visitor", who |-> v, site |-> None],
                                    late |-> FALSE, frozen |-> SiteDisabled]]
    /\ UNCHANGED <<accountVars, vars, created, conns, sessions>>

\* message.send on an open connection: the caller is who the connection was
\* opened by; neither the session nor the conversation is looked at again.
OnSendMessage(g, ctx) ==
    /\ greq[g] = NoRequest
    /\ greq' = [greq EXCEPT ![g] = [pc |-> "site", op |-> "send", by |-> ctx, arg |-> None,
                                    late |-> FALSE, frozen |-> SiteDisabled]]
    /\ UNCHANGED <<accountVars, vars, created, conns, sessions>>

\* POST /conversations from a page that got its session from ServeWidgetApp;
\* later ones find the conversation and change nothing.
WidgetRequest(g, ws) ==
    /\ greq[g] = NoRequest
    /\ ~created
    /\ greq' = [greq EXCEPT ![g] = [pc |-> "widget", session |-> ws,
                                    late |-> ws.key # sites[ConvSite].key, frozen |-> SiteDisabled]]
    /\ UNCHANGED <<accountVars, vars, created, conns, sessions>>

-----------------------------------------------------------------------------
(* The endpoints of chat-service *)

ConversationFound == created

ChatCreateConversation == created' = TRUE

\* On the wire a missing agent is 0.
ToConversationPB ==
    LET number(a) == IF a = None THEN 0 ELSE a
    IN  [assigned |-> number(conv.assigned), pendingTo |-> number(conv.pendingTo)]

\* The query: one status or "" for all, one owner or any, or nobody's.
MatchesFilter(status, assigned, unassignedOnly) ==
    /\ status \in {"", conv.status}
    /\ assigned \in {None, conv.assigned}
    /\ unassignedOnly => conv.assigned = None

ValidStatus(status) == status \in {"", "open", "closed"}

ChatListConversations(status, assigned, unassignedOnly) ==
    /\ ValidStatus(status)
    /\ MatchesFilter(status, IF assigned = 0 THEN None ELSE assigned, unassignedOnly)

\* The newest messages that are older than beforeID, if that is given.
ListByConversation(limit, beforeID) ==
    LET older == {i \in VisibleIDs : beforeID > 0 => i < beforeID}
    IN  {i \in older : Cardinality({j \in older : j > i}) < limit}

ChatListMessages(limit, beforeID) ==
    LET default == IF limit = 0 THEN 50 ELSE limit
    IN  ListByConversation(IF default > 200 THEN 200 ELSE default, beforeID)

ChatMarkMessagesRead(role, upTo) == upTo # 0 /\ MarkMessagesRead(role, upTo)

ChatClaimConversation(a) == a # 0 /\ ClaimConversation(a)

-----------------------------------------------------------------------------
(* The checks *)

\* realtime-service verifies a token by itself before it asks auth-service.
ParseTokenRealtime(t) == t \in tokens
RealtimeMe(t) == ParseTokenRealtime(t) /\ GrpcMe(t)

\* requireAgentActor, and resolveConnectionContext for a connection.
RequireAgentActor(g) ==
    /\ greq[g].pc = "actor"
    /\ IF greq[g].op = "connect" THEN RealtimeMe(greq[g].token) ELSE GrpcMe(greq[g].token)
    /\ greq[g].token.role = "agent"
    /\ LET actor == Me(greq[g].token)
       IN  greq' = [greq EXCEPT ![g] =
              [pc |-> "conversation", op |-> greq[g].op, arg |-> greq[g].arg,
               by |-> [role |-> "agent", who |-> actor.id, site |-> actor.site],
               late |-> greq[g].late, frozen |-> greq[g].frozen]]
    /\ UNCHANGED <<accountVars, vars, created, conns, sessions>>

\* requireConversationForAgent: nobody's, the caller's, or on its way to the caller.
ForAgent(a) ==
    LET c == ToConversationPB IN c.assigned \in {0, a} \/ c.pendingTo = a

\* Mutant of ReadConversation: the caller's site is not compared.
ReadConversationAnySite(g) ==
    /\ greq[g].pc = "conversation"
    /\ greq[g].op # "connect"
    /\ ConversationFound
    /\ LET by == greq[g].by
           op == greq[g].op
       IN  /\ by.role = "visitor" => by.who = VisitorToken
           /\ by.role = "agent" /\ op \in {"get", "messages", "message", "read"} => ForAgent(by.who)
    /\ Move(g, "site")
    /\ UNCHANGED <<accountVars, vars, created, conns, sessions>>

\* The conversation's row, and what it has to say about the caller; the list
\* of conversations is filtered by site and does not ask whether it is active.
ReadConversation(g) ==
    /\ greq[g].pc = "conversation"
    /\ greq[g].op # "connect"
    /\ ConversationFound
    /\ LET by == greq[g].by
           op == greq[g].op
       IN  /\ by.role = "visitor" => by.who = VisitorToken
           /\ by.role = "agent" => by.site = ConvSite
           /\ by.role = "agent" /\ op \in {"get", "messages", "message", "read"} => ForAgent(by.who)
           /\ by.role = "agent" /\ op = "message" => conv.assigned # None
           /\ by.role = "agent" /\ op = "read" => conv.assigned = by.who
           /\ Move(g, IF op = "list" THEN "call" ELSE "site")
    /\ UNCHANGED <<accountVars, vars, created, conns, sessions>>

\* requireActiveConversationSite.
RequireActiveSite(g) ==
    /\ greq[g].pc = "site"
    /\ greq[g].op \notin SocketOps
    /\ sites[ConvSite].status = "active"
    /\ Move(g, IF greq[g].op = "transfer" THEN "target" ELSE "call")
    /\ UNCHANGED <<accountVars, vars, created, conns, sessions>>

\* Host names, in gateway-service and in realtime-service: the scheme's own port
\* is dropped, and with another one the name is no site's.
NormalizeHostLike(u) == IF u.port = "other" THEN None ELSE u.host
NormalizeConnectionHost(u) == IF u.port = "other" THEN None ELSE u.host

\* realtime-service: allowedSiteDomains of the conversation's site.
SiteDomainsOfConnection == sites[ConvSite].domains
MatchesDomainOfConnection(u) == NormalizeConnectionHost(u) \in SiteDomainsOfConnection

\* ALLOWED_ORIGINS are compared as they are spelled.
IsOriginAllowed(u) == u.port = "none" /\ u.host \in AllowedOrigins

\* The rest of resolveConnectionContext: the conversation's row,
ResolveConnection(g) ==
    /\ greq[g].pc = "conversation"
    /\ greq[g].op = "connect"
    /\ ConversationFound
    /\ greq[g].by.role = "visitor" => greq[g].by.who = VisitorToken
    /\ Move(g, "site")
    /\ UNCHANGED <<accountVars, vars, created, conns, sessions>>

\* The visitor's page is one of the site's, the agent's page the console.
IsOriginAllowedForConnection(u, by) ==
    IF by.role = "visitor" THEN MatchesDomainOfConnection(u) ELSE IsOriginAllowed(u)

\* then its site, which an agent belongs to and a visitor's page comes from.
\* message.send asks only whether the site is active.
ValidateConversationSite(g) ==
    /\ greq[g].pc = "site"
    /\ greq[g].op \in SocketOps
    /\ sites[ConvSite].status = "active"
    /\ \/ greq[g].op = "send" /\ Move(g, "call")
       \/ /\ greq[g].op = "connect"
          /\ greq[g].by.role = "agent" => greq[g].by.site = ConvSite
          /\ \E u \in URLs :
                /\ IsOriginAllowedForConnection(u, greq[g].by)
                /\ greq' = [greq EXCEPT ![g].pc = "call", ![g].arg = u.host]
    /\ UNCHANGED <<accountVars, vars, created, conns, sessions>>

\* The target of a transfer is an active agent of the conversation's site.
RequireTarget(g) ==
    /\ greq[g].pc = "target"
    /\ AgentFound(greq[g].arg)
    /\ agents[greq[g].arg].site = ConvSite
    /\ agents[greq[g].arg].status = "active"
    /\ Move(g, "call")
    /\ UNCHANGED <<accountVars, vars, created, conns, sessions>>

\* gateway-service: the domains a site's widget may be embedded on.
AllowedSiteDomains(s) == sites[s].domains
MatchesAnySiteDomain(s, host) == host \in AllowedSiteDomains(s)

\* Mutant of RequireWidgetSession: the signature is not verified.
RequireSomeSession(g) ==
    /\ greq[g].pc = "widget"
    /\ sites[ConvSite].status = "active"
    /\ greq[g].session.site = ConvSite
    /\ MatchesAnySiteDomain(ConvSite, greq[g].session.domain)
    /\ Move(g, "create")
    /\ UNCHANGED <<accountVars, vars, created, conns, sessions>>

\* createConversation up to the call: the site's row, and the session against
\* its key and its domains.
RequireWidgetSession(g) ==
    /\ greq[g].pc = "widget"
    /\ sites[ConvSite].status = "active"
    /\ greq[g].session.key = sites[ConvSite].key
    /\ greq[g].session.site = ConvSite
    /\ MatchesAnySiteDomain(ConvSite, greq[g].session.domain)
    /\ Move(g, "create")
    /\ UNCHANGED <<accountVars, vars, created, conns, sessions>>

-----------------------------------------------------------------------------
(* The operations *)

\* parent_origin is one of the site's domains, and the page that asks, by its
\* Referer or Origin, is that one.
ValidateWidgetRequestSource(s, parentOrigin, source) ==
    /\ MatchesAnySiteDomain(s, NormalizeHostLike(parentOrigin))
    /\ NormalizeHostLike(source) = NormalizeHostLike(parentOrigin)

\* Signed with the key the site has now.
IssueWidgetSession(s, u) == [site |-> s, domain |-> NormalizeHostLike(u), key |-> sites[s].key]

\* The page of a site embeds the widget.
ServeWidgetApp(s, parentOrigin, source) ==
    /\ ~created
    /\ Cardinality(sessions) < MaxSessions
    /\ SiteFound(s)
    /\ sites[s].status = "active"
    /\ ValidateWidgetRequestSource(s, parentOrigin, source)
    /\ sessions' = sessions \cup {IssueWidgetSession(s, parentOrigin)}
    /\ UNCHANGED <<accountVars, vars, created, greq, conns>>

\* Twelve hours after it was signed.
SessionExpires(ws) ==
    /\ sessions' = sessions \ {ws}
    /\ UNCHANGED <<accountVars, vars, created, greq, conns>>

\* How two of these make one conversation is the subject of ConversationCreate.
PostConversation(g) ==
    /\ greq[g].pc = "create"
    /\ ChatCreateConversation
    /\ End(g)
    /\ UNCHANGED <<accountVars, vars, conns, sessions>>

\* Request g is at the call of op for a caller of that role.
At(g, op, roles) == greq[g].pc = "call" /\ greq[g].op = op /\ greq[g].by.role \in roles

Rest == UNCHANGED <<accountVars, created, conns, sessions>>

\* The caller gets an answer that shows the conversation or its messages.
Answer(g) == Move(g, "answered") /\ Rest /\ UNCHANGED vars
GetConversation(g) == At(g, "get", {"agent", "visitor"}) /\ Answer(g)

\* The first page, or the one before a message; an empty one shows nothing.
ListMessages(g) ==
    /\ At(g, "messages", {"agent", "visitor"})
    /\ \E beforeID \in VisibleIDs \cup {0} : ChatListMessages(0, beforeID) # {}
    /\ Answer(g)

\* Without a filter the conversations of colleagues are left out.
ListConversations(g) ==
    /\ At(g, "list", {"agent"})
    /\ \E status \in {"", "open", "closed"}, assigned \in Agents \cup {0}, unassignedOnly \in BOOLEAN :
          /\ ChatListConversations(status, assigned, unassignedOnly)
          /\ assigned = 0 /\ ~unassignedOnly => ForAgent(greq[g].by.who)
    /\ Answer(g)

\* The answer is on its way, and the request over.
Answered(g) ==
    greq[g].pc = "answered" /\ End(g) /\ UNCHANGED <<accountVars, vars, created, conns, sessions>>

\* The upgrade: from here on the connection gets every event (module Realtime).
ServeWS(g) ==
    /\ At(g, "connect", {"agent", "visitor"})
    /\ Cardinality(conns) < MaxConns
    /\ conns' = conns \cup {greq[g].by}
    /\ End(g)
    /\ UNCHANGED <<accountVars, vars, created, sessions>>

CloseWS(ctx) ==
    /\ conns' = conns \ {ctx}
    /\ UNCHANGED <<accountVars, vars, created, greq, sessions>>

\* sender_id and visitor_token are the caller's, not the body's.
Send(g, k) ==
    /\ \/ CheckMessage(g, greq[g].by.role, greq[g].by.who, k) /\ Move(g, "wait")
       \/ ReuseMessage(g, greq[g].by.role, greq[g].by.who, k) /\ End(g)
    /\ Rest

\* POST messages, and message.send once the site has been validated.
PostMessage(g, k) == At(g, "message", {"agent", "visitor"}) /\ Send(g, k)
SendMessage(g, k) == At(g, "send", {"agent", "visitor"}) /\ Send(g, k)

\* chat-service finishes what it began.
MessageProceeds(g) ==
    /\ greq[g].pc = "wait"
    /\ \/ InsertMessage(g) /\ UNCHANGED greq
       \/ (DuplicateMessage(g) \/ CommitMessage(g) \/ CommitUnacknowledged(g) \/ RollbackMessage(g)) /\ End(g)
    /\ Rest

\* Up to whatever id the client names, or the newest one after a claim.
PostRead(g) ==
    /\ At(g, "read", {"agent", "visitor"})
    /\ \E upTo \in IF greq[g].arg = None THEN ReportableIDs \cup {0} ELSE {greq[g].arg} :
          ChatMarkMessagesRead(greq[g].by.role, upTo)
    /\ End(g)
    /\ Rest

PostClaim(g) ==
    At(g, "claim", {"agent"}) /\ ChatClaimConversation(greq[g].by.who) /\ Rest /\ Move(g, "latest")

\* The gateway lets agents in only, so the role is always agent.
AsAgent(g) == [id |-> greq[g].by.who, role |-> "agent"]

PostTransfer(g) ==
    At(g, "transfer", {"agent"}) /\ TransferConversation(AsAgent(g), greq[g].arg) /\ Rest /\ End(g)
PostConfirm(g) ==
    At(g, "confirm", {"agent"}) /\ ConfirmTransferConversation(AsAgent(g)) /\ Rest /\ Move(g, "latest")
PostReject(g) ==
    At(g, "reject", {"agent"}) /\ RejectTransferConversation(AsAgent(g)) /\ Rest /\ End(g)
PostClose(g) ==
    At(g, "close", {"agent"}) /\ CloseConversation(AsAgent(g)) /\ Rest /\ End(g)

\* tryMarkConversationReadAfterClaim: the newest message, then MarkMessagesRead
\* as the new owner, without the checks of POST read.
TryMarkReadAfterClaim(g) ==
    /\ greq[g].pc = "latest"
    /\ \E i \in ChatListMessages(1, 0) :
          greq' = [greq EXCEPT ![g].pc = "call", ![g].op = "read", ![g].arg = i]
    /\ UNCHANGED <<accountVars, vars, created, conns, sessions>>

-----------------------------------------------------------------------------
(* Administrators *)

\* The site has been active since: a request that waits is no longer frozen.
Thaw ==
    greq' = [g \in Requests |->
                IF greq[g] # NoRequest /\ sites'[ConvSite].status = "active"
                THEN [greq[g] EXCEPT !.frozen = FALSE]
                ELSE greq[g]]

SiteAgents == {a \in DOMAIN Staff : Staff[a].site = ConvSite}

\* The save of an administrator's call.  What happens between its read and its
\* save, or its save and its audit entry, is the subject of module Accounts, and
\* so are the calls that change nothing the checks above read.  Resetting a
\* password ends the agent's sessions as a forced logout does.
AdminSaves(t, action) == CountOp /\ RequireAdminActor(t) /\ Admitted(t, action)

SiteRequest(t) ==
    /\ \/ /\ AdminSaves(t, "site.update")
          /\ \E d \in Domains \ sites[ConvSite].domains :
                /\ DomainsFree(ConvSite, {d})
                /\ sites' = Put(sites, ConvSite, WithDomains(ConvSite, {d}))
          /\ UNCHANGED keys
       \/ /\ AdminSaves(t, "site.update_status")
          /\ \E status \in SiteStatuses \ {sites[ConvSite].status} :
                sites' = Put(sites, ConvSite, WithSiteStatus(ConvSite, status))
          /\ UNCHANGED keys
       \/ /\ AdminSaves(t, "site.rotate_widget_key")
          /\ sites' = Put(sites, ConvSite, WithWidgetKey(ConvSite))
          /\ keys' = NewWidgetKey
    /\ UNCHANGED <<agents, revoked>>

AgentRequest(t, a) ==
    /\ \/ /\ AdminSaves(t, "agent.update_status")
          /\ \E status \in AgentStatuses \ {agents[a].status} :
                /\ agents' = Put(agents, a, WithAgentStatus(a, status))
                /\ revoked' = RevokedBy("agent.update_status", a, agents'[a])
       \/ /\ AdminSaves(t, "agent.force_logout")
          /\ agents' = Put(agents, a, WithSessionsEnded(a))
          /\ revoked' = RevokedBy("agent.force_logout", a, agents'[a])
    /\ UNCHANGED <<sites, keys>>

AdminStep ==
    /\ \E t \in tokens : SiteRequest(t) \/ \E a \in SiteAgents : AgentRequest(t, a)
    /\ Thaw
    /\ UNCHANGED <<superAdmins, aiEnabled, audit, auth, tokens, call, login, done, dirty,
                   vars, created, conns, sessions>>

AutoCloses == AutoCloseConversation /\ UNCHANGED <<accountVars, created, greq, conns, sessions>>

-----------------------------------------------------------------------------

Arrives(g) ==
    \/ \E t \in tokens, op \in StaffOps \ {"transfer"} : StaffRequest(g, op, t, None)
    \/ \E t \in tokens, to \in Agents : StaffRequest(g, "transfer", t, to)
    \/ \E v \in Tokens, op \in VisitorOps : VisitorRequest(g, op, v, None)
    \/ \E ctx \in conns : OnSendMessage(g, ctx)
    \/ \E ws \in sessions : WidgetRequest(g, ws)

Checked(g) ==
    RequireAgentActor(g) \/ ReadConversation(g) \/ RequireActiveSite(g) \/ RequireTarget(g)
        \/ RequireWidgetSession(g) \/ ResolveConnection(g) \/ ValidateConversationSite(g)

Operates(g) ==
    \/ PostConversation(g) \/ GetConversation(g) \/ ListMessages(g)
    \/ ListConversations(g) \/ Answered(g)
    \/ ServeWS(g) \/ PostRead(g) \/ PostClaim(g) \/ PostTransfer(g) \/ PostConfirm(g)
    \/ PostReject(g) \/ PostClose(g) \/ TryMarkReadAfterClaim(g)
    \/ MessageProceeds(g) \/ \E k \in ClientMsgIDs : PostMessage(g, k) \/ SendMessage(g, k)

GatewayNext ==
    \/ \E g \in Requests : Arrives(g) \/ Checked(g) \/ Operates(g) \/ RequestFails(g)
    \/ \E s \in SiteIDs, parentOrigin, source \in URLs : ServeWidgetApp(s, parentOrigin, source)
    \/ \E ws \in sessions : SessionExpires(ws)
    \/ \E ctx \in conns : CloseWS(ctx)
    \/ AdminStep
    \/ AutoCloses

GatewaySpec == GatewayInit /\ [][GatewayNext]_gatewayVars

-----------------------------------------------------------------------------
(* Properties *)

\* The agents and the visitor of the conversation's site keep it to themselves:
\* nobody else owns it, is offered it, has written to it, is shown it, holds a
\* connection to it or gets a request past the checks, although chat-service
\* knows no sites; and a page of another site gets no connection to it.
SiteIsolation ==
    /\ {conv.assigned, conv.pendingTo, conv.pendingFrom, conv.closedBy} \subseteq SiteAgents \cup {None}
    /\ \A i \in DOMAIN messages : messages[i].by \in SiteAgents \cup {VisitorToken, None}
    /\ \A ctx \in conns : ctx.who \in SiteAgents \cup {VisitorToken}
    /\ \A g \in Requests :
          /\ greq[g].pc \in {"call", "latest", "wait", "answered"} => greq[g].by.who \in SiteAgents \cup {VisitorToken}
          /\ greq[g].pc = "call" /\ greq[g].op = "connect" =>
                \A s \in DOMAIN sites \ {ConvSite} : greq[g].arg \notin sites[s].domains

\* Request g takes effect in chat-service, or its caller is shown something.
Acts(g) ==
    /\ greq[g].pc \in {"call", "create"}
    /\ greq'[g] # greq[g]
    /\ \/ <<created, conv, messages, req>>' # <<created, conv, messages, req>>
       \/ greq'[g].pc = "answered"

\* What a request may not do.  One that comes with a session that was ended
\* before, or with a widget session of a key that was replaced before, changes
\* and reads nothing.  And while a site is disabled nothing happens in its
\* conversations and nothing is shown of them: a request that began and acts with
\* the site disabled all the time has no effect, on connections opened earlier
\* too.  Only the list of conversations does not ask for the site.
ActsWithinRights ==
    [][\A g \in Requests : Acts(g) =>
          /\ ~greq[g].late
          /\ greq[g].pc = "create" \/ greq[g].op # "list" => ~greq[g].frozen]_gatewayVars

=============================================================================
