------------------------------- MODULE Accounts -------------------------------
(***************************************************************************)
(* admin-service and auth-service over the tables they share: agents,      *)
(* super_admins, sites with their domains and AI settings, and the audit   *)
(* log; and the tokens auth-service has signed.                            *)
(*                                                                         *)
(* An administrative call reads a whole row, changes it in memory and      *)
(* saves the whole row later, without a lock, so it is a read, a save and  *)
(* an audit entry with other calls in between.  The check of the caller's  *)
(* token happens with the read: nothing ends a super administrator's       *)
(* session in between.  A login reads the account, compares the password   *)
(* and signs a token from what it has read.  One auth-service process.     *)
(***************************************************************************)
EXTENDS Naturals, Sequences, FiniteSets, Functions

CONSTANTS
    AgentIDs,
    Emails,         \* addresses of staff; RootEmail is one of them
    RootEmail,      \* SUPER_ADMIN_EMAIL
    Passwords,
    WeakPasswords,  \* passwords the policy refuses
    SiteIDs,
    Domains,
    AdminCalls,     \* administrative calls in flight
    Logins,         \* logins in flight
    Staff,          \* agents a deployment has at the start: address and site
    MaxOps          \* bound on the administrative calls and logins made

ASSUME AccountsAssumption ==
    /\ RootEmail \in Emails
    /\ DOMAIN Staff \subseteq AgentIDs
    /\ IsFiniteSet(DOMAIN Staff)
    /\ \A a \in DOMAIN Staff : Staff[a].email \in Emails \ {RootEmail} /\ Staff[a].site \in SiteIDs
    /\ \A a, b \in DOMAIN Staff : Staff[a].email = Staff[b].email => a = b
    /\ WeakPasswords \subseteq Passwords
    /\ MaxOps \in Nat

VARIABLES
    agents,     \* the table agents
    superAdmins,\* the table super_admins
    sites,      \* the tables sites and site_domains
    aiEnabled,  \* the table site_ai_configs: the sites whose replies are on
    audit,      \* the table admin_audit_logs, the newest entry first
    auth,       \* the auth-service process: its phase and SUPER_ADMIN_PASSWORD
    tokens,     \* tokens signed and not yet expired
    call,       \* administrative calls
    login,      \* logins
    keys,       \* widget keys drawn so far
    ops,        \* calls and logins so far
    done,       \* history: changes made, and by whom
    revoked,    \* history: tokens that were to be worthless from some save on
    dirty       \* history: rows whose administrative calls overlapped

tables == <<agents, superAdmins, sites, aiEnabled, audit>>
accountVars == <<tables, auth, tokens, call, login, keys, ops, done, revoked, dirty>>

-----------------------------------------------------------------------------
(* Rows, tokens and calls *)

\* normalizeAgentStatus and normalizeSiteStatus accept nothing else.
AgentStatuses == {"active", "inactive"}
SiteStatuses == {"active", "disabled"}

AgentRow ==
    [status : AgentStatuses, email : Emails, site : SiteIDs,
     password : Passwords, version : Nat]

SuperAdminRow == [status : {"active"}, password : Passwords, version : Nat]

\* key numbers the random widget keys in the order they are drawn.
SiteRow == [status : SiteStatuses, key : Nat, domains : SUBSET Domains]

\* A table with rows from R, found by keys from K.
IsTable(table, K, R) == DOMAIN table \subseteq K /\ \A k \in DOMAIN table : table[k] \in R

\* The table with row r under key k.
Put(table, k, r) == [x \in DOMAIN table \cup {k} |-> IF x = k THEN r ELSE table[x]]

\* Claims; password, a history value, is the one the token was obtained with.
Token == [role : {"agent", "admin", "super_admin"}, id : AgentIDs \cup {RootEmail},
          version : Nat, password : Passwords]

Actions == {"site.create", "site.update", "site.update_status", "site.rotate_widget_key",
            "site.update_ai_config", "agent.create", "agent.update_status",
            "agent.reset_password", "agent.force_logout"}

\* What a call changes, and the role of the caller.
Change == [action : Actions, target : AgentIDs \cup SiteIDs, by : {"agent", "admin", "super_admin"}]

NotCalled == [pc |-> "idle"]

\* A text that was not given.
Blank == ""

\* row is what the call has in hand to save.
AdminCall ==
    {NotCalled} \cup [pc : {"save"}, change : Change, row : AgentRow \cup SiteRow]
           \cup [pc : {"audit"}, change : Change]

LoginCall == {NotCalled} \cup [pc : {"sign"}, claims : Token]

AuthProcess ==
    [pc : {"down", "up"}, password : Passwords]
      \cup [pc : {"ensure"}, password : Passwords, row : SuperAdminRow]

AccountsTypeOK ==
    /\ IsTable(agents, AgentIDs, AgentRow)
    /\ IsTable(superAdmins, {RootEmail}, SuperAdminRow)
    /\ IsTable(sites, SiteIDs, SiteRow)
    /\ aiEnabled \subseteq SiteIDs
    /\ audit \in Seq(Change)
    /\ auth \in AuthProcess
    /\ tokens \subseteq Token
    /\ call \in [AdminCalls -> AdminCall]
    /\ login \in [Logins -> LoginCall]
    /\ keys \in Nat
    /\ ops \in 0..MaxOps
    /\ done \subseteq Change
    /\ revoked \subseteq Token
    /\ dirty \subseteq AgentIDs \cup SiteIDs

\* The agents and sites a deployment has at the start, some of the sites
\* disabled, and no call in flight.
Deployed(disabled) ==
    /\ \E p \in Passwords \ WeakPasswords :
          agents = [a \in DOMAIN Staff |->
                       [status |-> "active", email |-> Staff[a].email, site |-> Staff[a].site,
                        password |-> p, version |-> 1]]
    /\ LET S == {Staff[a].site : a \in DOMAIN Staff}
           number == CHOOSE f \in Injection(S, 1..Cardinality(S)) : TRUE
       IN  /\ \E home \in Injection(S, Domains) :
                 sites = [s \in S |-> [status |-> IF s \in disabled THEN "disabled" ELSE "active",
                                     key |-> number[s], domains |-> {home[s]}]]
           /\ keys = Cardinality(S)
    /\ aiEnabled = {}
    /\ audit = << >>
    /\ call = [c \in AdminCalls |-> NotCalled]
    /\ login = [l \in Logins |-> NotCalled]
    /\ ops = 0
    /\ done = {}
    /\ revoked = {}
    /\ dirty = {}

\* Nobody has logged in and auth-service has not been started.
AccountsInit ==
    /\ Deployed({})
    /\ superAdmins = << >>
    /\ auth \in [pc : {"down"}, password : Passwords]
    /\ tokens = {}

\* The super administrator and every agent have logged in.
EveryoneLoggedIn(disabled) ==
    /\ Deployed(disabled)
    /\ auth \in [pc : {"up"}, password : Passwords \ WeakPasswords]
    /\ superAdmins = [e \in {RootEmail} |-> [status |-> "active", password |-> auth.password, version |-> 1]]
    /\ tokens = {[role |-> "super_admin", id |-> RootEmail, version |-> 1, password |-> auth.password]}
                  \cup {[role |-> "agent", id |-> a, version |-> 1, password |-> agents[a].password] :
                           a \in DOMAIN agents}

CountOp == ops < MaxOps /\ ops' = ops + 1

-----------------------------------------------------------------------------
(* Queries *)

\* GetBySiteID and GetByDomain of the sites, GetByID and GetByEmail of the staff.
SiteFound(s) == s \in DOMAIN sites
SitesOfDomain(d) == {s \in DOMAIN sites : d \in sites[s].domains}
AgentFound(a) == a \in DOMAIN agents
AgentsOfEmail(e) == {a \in DOMAIN agents : agents[a].email = e}
SuperAdminFound(e) == e \in DOMAIN superAdmins

\* admin-service has queries of its own on the same tables.
AdminAgentFound(a) == a \in DOMAIN agents
AdminSuperAdminFound(e) == e \in DOMAIN superAdmins
SiteAIConfigEnabled(s) == s \in aiEnabled

\* What is shown of a row: of an agent neither the password nor the version.
ToSitePB(s) == [id |-> s, status |-> sites[s].status, key |-> sites[s].key, domains |-> sites[s].domains]
ToAgentPB(a) == [id |-> a, status |-> agents[a].status, email |-> agents[a].email, site |-> agents[a].site]

\* What services ask about one site or one agent; without a row, nothing.
GetSiteByDomain(d) == {ToSitePB(s) : s \in SitesOfDomain(d)}
GetSiteBySiteID(s) == {ToSitePB(r) : r \in {s} \cap DOMAIN sites}
GetAgentByID(a) == {ToAgentPB(r) : r \in {a} \cap DOMAIN agents}

\* All pages of a list.
ListSites == {ToSitePB(s) : s \in DOMAIN sites}
ListAgents == {ToAgentPB(a) : a \in DOMAIN agents}

\* A site without a row has the replies switched off.
GetSiteAIConfig(s) == [site |-> s, enabled |-> SiteAIConfigEnabled(s)]

-----------------------------------------------------------------------------
(* What is accepted as input *)

ValidatePasswordPolicy(p) == p \notin WeakPasswords

\* auth-service has the same policy for the super administrator.
ValidateSuperAdminPassword(p) == p \notin WeakPasswords

\* At least one domain is left when the duplicates are removed.
ValidSiteDomains(ds) == ds # {}

\* crypto/rand: a key is never drawn twice.
NewWidgetKey == keys + 1

-----------------------------------------------------------------------------
(* Tokens *)

\* A row from before the column has version 0, which counts as 1.
NormalizeTokenVersion(v) == IF v = 0 THEN 1 ELSE v

NextTokenVersion(v) == IF v = 0 THEN 2 ELSE v + 1

\* ParseTokenAny, in auth-service and in admin-service: the signature is good
\* and the token has not expired.
ParseToken(t) == t \in tokens
ParseTokenAdmin(t) == t \in tokens

\* The account a token names is active and has the token's version.
SessionStands(t) ==
    \/ /\ t.role = "super_admin"
       /\ SuperAdminFound(t.id)
       /\ superAdmins[t.id].status = "active"
       /\ NormalizeTokenVersion(superAdmins[t.id].version) = NormalizeTokenVersion(t.version)
    \/ /\ t.role \in {"agent", "admin"}
       /\ AgentFound(t.id)
       /\ agents[t.id].status = "active"
       /\ NormalizeTokenVersion(agents[t.id].version) = NormalizeTokenVersion(t.version)

\* ValidateToken of auth-service.
Accepted(t) == ParseToken(t) /\ SessionStands(t)

\* GetAgentByID of auth-service.
GetSessionAgent(t) == AgentFound(t.id)

\* Who the caller is, over gRPC, over HTTP and through the gateway: after the token the agent's
\* row is read again.
GrpcMe(t) == Accepted(t) /\ (t.role # "super_admin" => GetSessionAgent(t))
HttpMe(t) == Accepted(t) /\ (t.role # "super_admin" => GetSessionAgent(t))
GatewayMe(t) == GrpcMe(t)

\* The answer, for an agent with the site.
Me(t) == [role |-> t.role, id |-> t.id, site |-> agents[t.id].site]

\* Over gRPC and HTTP and through the gateway, blank credentials go no further.
GrpcLogin(email, password) == email # Blank /\ password # Blank
HttpLogin(email, password) == email # Blank /\ password # Blank
GatewayLogin(email, password) == email # Blank /\ password # Blank /\ GrpcLogin(email, password)

\* Login: the super administrator's row is looked up first, then an agent's;
\* status and password are those of the row read.
LoginRead(l, email, password) ==
    /\ auth.pc = "up"
    /\ login[l] = NotCalled
    /\ GrpcLogin(email, password) \/ HttpLogin(email, password) \/ GatewayLogin(email, password)
    /\ CountOp
    /\ \/ /\ SuperAdminFound(email)
          /\ superAdmins[email].status = "active"
          /\ superAdmins[email].password = password
          /\ login' = [login EXCEPT ![l] =
                [pc |-> "sign",
                 claims |-> [role |-> "super_admin", id |-> email, password |-> password,
                             version |-> NormalizeTokenVersion(superAdmins[email].version)]]]
       \/ /\ ~SuperAdminFound(email)
          /\ \E a \in AgentsOfEmail(email) :
                /\ agents[a].status = "active"
                /\ agents[a].password = password
                /\ login' = [login EXCEPT ![l] =
                      [pc |-> "sign",
                       claims |-> [role |-> "agent", id |-> a, password |-> password,
                                   version |-> NormalizeTokenVersion(agents[a].version)]]]
    /\ UNCHANGED <<tables, auth, tokens, call, keys, done, revoked, dirty>>

\* Mutant of IssueToken: the version is read again when the token is signed.
IssueTokenFresh(l) ==
    /\ login[l] # NotCalled
    /\ LET t == login[l].claims
       IN  tokens' = tokens \cup
              {[t EXCEPT !.version = IF t.role = "agent" THEN agents[t.id].version ELSE t.version]}
    /\ login' = [login EXCEPT ![l] = NotCalled]
    /\ UNCHANGED <<tables, auth, call, keys, ops, done, revoked, dirty>>

\* bcrypt has taken its time; the token is signed from the row read before.
IssueToken(l) ==
    /\ login[l] # NotCalled
    /\ tokens' = tokens \cup {login[l].claims}
    /\ login' = [login EXCEPT ![l] = NotCalled]
    /\ UNCHANGED <<tables, auth, call, keys, ops, done, revoked, dirty>>

TokenExpires(t) ==
    /\ tokens' = tokens \ {t}
    /\ UNCHANGED <<tables, auth, call, login, keys, ops, done, revoked, dirty>>

-----------------------------------------------------------------------------
(* Start of auth-service: EnsureSuperAdmin *)

\* The row as the environment wants it; a changed password does not raise the
\* version.  A weak password stops the start, and so does an agent who has the
\* address already.
EnsureRead ==
    /\ auth.pc = "down"
    /\ ValidateSuperAdminPassword(auth.password)
    /\ IF SuperAdminFound(RootEmail)
       THEN LET r == superAdmins[RootEmail]
            IN  auth' = [pc |-> "ensure", password |-> auth.password,
                         row |-> [status |-> "active", password |-> auth.password,
                                  version |-> NormalizeTokenVersion(r.version)]]
       ELSE /\ AgentsOfEmail(RootEmail) = {}
            /\ auth' = [pc |-> "ensure", password |-> auth.password,
                        row |-> [status |-> "active", password |-> auth.password, version |-> 1]]
    /\ UNCHANGED <<tables, tokens, call, login, keys, ops, done, revoked, dirty>>

EnsureSave ==
    /\ auth.pc = "ensure"
    /\ superAdmins' = Put(superAdmins, RootEmail, auth.row)
    /\ auth' = [pc |-> "up", password |-> auth.password]
    /\ UNCHANGED <<agents, sites, aiEnabled, audit, tokens, call, login, keys, ops, done, revoked, dirty>>

\* The process ends, and its logins with it; it may be configured anew.
AuthStops(p) ==
    /\ auth.pc = "up"
    /\ CountOp
    /\ auth' = [pc |-> "down", password |-> p]
    /\ login' = [l \in Logins |-> NotCalled]
    /\ UNCHANGED <<tables, tokens, call, keys, done, revoked, dirty>>

-----------------------------------------------------------------------------
(* Administrative calls: who is admitted *)

\* admin-service repeats auth-service's check on the same rows, once for gRPC
\* and once for HTTP.
ValidateAdminSession(t) == SessionStands(t)
ValidateSessionByRole(t) == SessionStands(t)

\* gRPC: requireAdmin.  HTTP: the RequireAdmin middleware.
RequireAdmin(t) ==
    ParseTokenAdmin(t) /\ t.role \in {"admin", "super_admin"} /\ ValidateAdminSession(t)
RequireAdminHTTP(t) ==
    ParseTokenAdmin(t) /\ t.role \in {"admin", "super_admin"} /\ ValidateSessionByRole(t)

\* The gateway asks auth-service before admin-service checks the token again.
RequireAdminActor(t) == t.role \in {"admin", "super_admin"} /\ GrpcMe(t)

\* Creating and renaming a site is open to administrators, the rest is not.
GrpcSiteEndpoint(t, action) ==
    RequireAdmin(t) /\ (action \in {"site.create", "site.update"} \/ t.role = "super_admin")
GrpcCreateAgent(t) == RequireAdmin(t) /\ t.role = "super_admin"
GrpcAgentEndpoint(t) == RequireAdmin(t) /\ t.role = "super_admin"
HttpSiteEndpoint(t, action) ==
    RequireAdminHTTP(t) /\ (action \in {"site.create", "site.update"} \/ t.role = "super_admin")
HttpCreateAgent(t) == RequireAdminHTTP(t) /\ t.role = "super_admin"
HttpAgentEndpoint(t) == RequireAdminHTTP(t) /\ t.role = "super_admin"

\* What the gateway forwards to the gRPC endpoints: sites, AI settings, agents.
GatewaySites(t, action) ==
    /\ action \in {"site.create", "site.update", "site.update_status", "site.rotate_widget_key"}
    /\ RequireAdminActor(t) /\ GrpcSiteEndpoint(t, action)
GatewayAIConfig(t, action) ==
    /\ action = "site.update_ai_config"
    /\ RequireAdminActor(t) /\ t.role = "super_admin" /\ GrpcSiteEndpoint(t, action)
GatewayCreateAgent(t) == RequireAdminActor(t) /\ GrpcCreateAgent(t)
GatewayAgents(t) == RequireAdminActor(t) /\ GrpcAgentEndpoint(t)

\* The lists are open to administrators too: sites, agents and the log over
\* gRPC and over HTTP; the gateway adds its own check, and has no other for the
\* AI settings and for the start of a reload.
GrpcListSites(t) == RequireAdmin(t)
GrpcListAgents(t) == RequireAdmin(t)
GrpcListAuditLogs(t) == RequireAdmin(t)
HttpListSites(t) == RequireAdminHTTP(t)
HttpListAgents(t) == RequireAdminHTTP(t)
HttpListAuditLogs(t) == RequireAdminHTTP(t)
GatewayListAgents(t) == RequireAdminActor(t) /\ GrpcListAgents(t)
GatewayListAuditLogs(t) == RequireAdminActor(t) /\ GrpcListAuditLogs(t)
GatewayGetAIConfig(t) == RequireAdminActor(t)
GatewayReload(t) == RequireAdminActor(t)

MayList(t) ==
    \/ GrpcListSites(t) \/ GrpcListAgents(t) \/ GrpcListAuditLogs(t)
    \/ HttpListSites(t) \/ HttpListAgents(t) \/ HttpListAuditLogs(t)
    \/ GatewayListAgents(t) \/ GatewayListAuditLogs(t) \/ GatewayGetAIConfig(t) \/ GatewayReload(t)

SiteActions == {"site.create", "site.update", "site.update_status", "site.rotate_widget_key",
                "site.update_ai_config"}

\* Through the gateway, or straight from inside the deployment.
Admitted(t, action) ==
    CASE action \in SiteActions ->
            \/ GatewaySites(t, action) \/ GatewayAIConfig(t, action)
            \/ GrpcSiteEndpoint(t, action) \/ HttpSiteEndpoint(t, action)
      [] action = "agent.create" -> GatewayCreateAgent(t) \/ GrpcCreateAgent(t) \/ HttpCreateAgent(t)
      [] OTHER -> GatewayAgents(t) \/ GrpcAgentEndpoint(t) \/ HttpAgentEndpoint(t)

-----------------------------------------------------------------------------
(* Administrative calls: read, change in memory *)

Pending(c, target) == call[c].pc = "save" /\ call[c].change.target = target

\* Call c, made with token t, goes on with the row to be saved.
Hold(c, t, action, target, row) ==
    /\ call[c] = NotCalled
    /\ CountOp
    /\ Admitted(t, action)
    /\ call' = [call EXCEPT ![c] =
          [pc |-> "save", change |-> [action |-> action, target |-> target, by |-> t.role], row |-> row]]
    /\ dirty' = IF \E d \in AdminCalls : Pending(d, target) THEN dirty \cup {target} ELSE dirty
    /\ UNCHANGED <<tables, auth, tokens, login, done, revoked>>

\* The rows as the calls change them in memory.
WithDomains(s, ds) == [sites[s] EXCEPT !.domains = ds]
WithSiteStatus(s, status) == [sites[s] EXCEPT !.status = status]
WithWidgetKey(s) == [sites[s] EXCEPT !.key = NewWidgetKey]
WithAgentStatus(a, status) ==
    [agents[a] EXCEPT !.status = status, !.version = IF status # "active" THEN NextTokenVersion(@) ELSE @]
WithPassword(a, p) == [agents[a] EXCEPT !.password = p, !.version = NextTokenVersion(@)]
WithSessionsEnded(a) == [agents[a] EXCEPT !.version = NextTokenVersion(@)]

CreateSite(c, t, s, ds) ==
    /\ ValidSiteDomains(ds)
    /\ Hold(c, t, "site.create", s, [status |-> "active", key |-> NewWidgetKey, domains |-> ds])
    /\ keys' = NewWidgetKey

UpdateSite(c, t, s, ds) ==
    /\ SiteFound(s)
    /\ ValidSiteDomains(ds)
    /\ Hold(c, t, "site.update", s, WithDomains(s, ds))
    /\ UNCHANGED keys

UpdateSiteStatus(c, t, s, status) ==
    /\ SiteFound(s)
    /\ Hold(c, t, "site.update_status", s, WithSiteStatus(s, status))
    /\ UNCHANGED keys

RotateSiteWidgetKey(c, t, s) ==
    /\ SiteFound(s)
    /\ Hold(c, t, "site.rotate_widget_key", s, WithWidgetKey(s))
    /\ keys' = NewWidgetKey

CreateAgent(c, t, a, e, s, p) ==
    /\ SiteFound(s)
    /\ ~AdminSuperAdminFound(e)
    /\ ValidatePasswordPolicy(p)
    /\ Hold(c, t, "agent.create", a,
            [status |-> "active", email |-> e, site |-> s, password |-> p, version |-> 1])
    /\ UNCHANGED keys

UpdateAgentStatus(c, t, a, status) ==
    /\ AdminAgentFound(a)
    /\ Hold(c, t, "agent.update_status", a, WithAgentStatus(a, status))
    /\ UNCHANGED keys

ResetAgentPassword(c, t, a, p) ==
    /\ ValidatePasswordPolicy(p)
    /\ AdminAgentFound(a)
    /\ Hold(c, t, "agent.reset_password", a, WithPassword(a, p))
    /\ UNCHANGED keys

ForceAgentLogout(c, t, a) ==
    /\ AdminAgentFound(a)
    /\ Hold(c, t, "agent.force_logout", a, WithSessionsEnded(a))
    /\ UNCHANGED keys

\* Only the columns enabled and reply_mode are written, in a row that may be new.
UpsertSiteAIConfig(s, on) == IF on THEN aiEnabled \cup {s} ELSE aiEnabled \ {s}

UpdateSiteAIConfig(c, t, s, on) ==
    /\ call[c] = NotCalled
    /\ CountOp
    /\ SiteFound(s)
    /\ Admitted(t, "site.update_ai_config")
    /\ aiEnabled' = UpsertSiteAIConfig(s, on)
    /\ LET change == [action |-> "site.update_ai_config", target |-> s, by |-> t.role]
       IN  /\ call' = [call EXCEPT ![c] = [pc |-> "audit", change |-> change]]
           /\ done' = done \cup {change}
    /\ UNCHANGED <<agents, superAdmins, sites, audit, auth, tokens, login, keys, revoked, dirty>>

-----------------------------------------------------------------------------
(* Administrative calls: save, audit *)

\* Operations whose purpose is to end the sessions an agent has.
Revokes(action, row) ==
    \/ action \in {"agent.reset_password", "agent.force_logout"}
    \/ action = "agent.update_status" /\ row.status # "active"

\* The sessions that are to be worthless once a's row has been saved.
RevokedBy(action, a, row) ==
    revoked \cup (IF Revokes(action, row) THEN {t \in tokens : t.role = "agent" /\ t.id = a} ELSE {})

Saved(c) ==
    /\ call' = [call EXCEPT ![c] = [pc |-> "audit", change |-> call[c].change]]
    /\ done' = done \cup {call[c].change}

\* INSERT INTO agents: primary key and unique email.
InsertAgent(c) ==
    /\ call[c].pc = "save" /\ call[c].change.action = "agent.create"
    /\ call[c].change.target \notin DOMAIN agents
    /\ AgentsOfEmail(call[c].row.email) = {}
    /\ agents' = Put(agents, call[c].change.target, call[c].row)
    /\ Saved(c)
    /\ UNCHANGED <<superAdmins, sites, aiEnabled, audit, auth, tokens, login, keys, ops, revoked, dirty>>

\* db.Save: every column of the row, whatever has happened to it since.
SaveAgent(c) ==
    /\ call[c].pc = "save" /\ call[c].change.action \notin SiteActions \cup {"agent.create"}
    /\ LET a == call[c].change.target
       IN  /\ agents' = Put(agents, a, call[c].row)
           /\ revoked' = RevokedBy(call[c].change.action, a, call[c].row)
    /\ Saved(c)
    /\ UNCHANGED <<superAdmins, sites, aiEnabled, audit, auth, tokens, login, keys, ops, dirty>>

\* Mutant of DomainsFree: no unique index.
DomainsAnyway(s, ds) == TRUE

\* The unique index on site_domains.domain.
DomainsFree(s, ds) == \A o \in DOMAIN sites \ {s} : sites[o].domains \cap ds = {}

\* Row and domains in one transaction: insert for a new site, else the whole
\* row is saved and the domains are deleted and inserted again.
SaveSite(c) ==
    /\ call[c].pc = "save" /\ call[c].change.action \in SiteActions
    /\ LET s == call[c].change.target
       IN  /\ call[c].change.action = "site.create" => s \notin DOMAIN sites
           /\ DomainsFree(s, call[c].row.domains)
           /\ sites' = Put(sites, s, call[c].row)
    /\ Saved(c)
    /\ UNCHANGED <<agents, superAdmins, aiEnabled, audit, auth, tokens, login, keys, ops, revoked, dirty>>

\* A duplicate key, a failed statement, the deadline or a crash: nothing is saved.
CallFails(c) ==
    /\ call[c].pc = "save"
    /\ call' = [call EXCEPT ![c] = NotCalled]
    /\ UNCHANGED <<tables, auth, tokens, login, keys, ops, done, revoked, dirty>>

\* Mutant of WriteAuditLog: the entry is written before the change.
WriteAuditLogFirst(c) ==
    /\ call[c].pc \in {"save", "audit"}
    /\ Len(audit) < 2 * MaxOps
    /\ audit' = <<call[c].change>> \o audit
    /\ call' = IF call[c].pc = "audit" THEN [call EXCEPT ![c] = NotCalled] ELSE call
    /\ UNCHANGED <<agents, superAdmins, sites, aiEnabled, auth, tokens, login, keys, ops, done, revoked, dirty>>

WriteAuditLog(c) ==
    /\ call[c].pc = "audit"
    /\ audit' = <<call[c].change>> \o audit
    /\ call' = [call EXCEPT ![c] = NotCalled]
    /\ UNCHANGED <<agents, superAdmins, sites, aiEnabled, auth, tokens, login, keys, ops, done, revoked, dirty>>

\* The error is dropped: the change stands without an entry.
AuditFails(c) ==
    /\ call[c].pc = "audit"
    /\ call' = [call EXCEPT ![c] = NotCalled]
    /\ UNCHANGED <<tables, auth, tokens, login, keys, ops, done, revoked, dirty>>

-----------------------------------------------------------------------------

\* A staff session is opened or ends.
Session ==
    \/ \E l \in Logins : IssueToken(l)
    \/ \E l \in Logins, e \in Emails \cup {Blank}, p \in Passwords \cup {Blank} : LoginRead(l, e, p)
    \/ \E t \in tokens : TokenExpires(t)

AuthStart == EnsureRead \/ EnsureSave \/ \E p \in Passwords : AuthStops(p)

SiteCall(c, t, s) ==
    \/ \E ds \in SUBSET Domains : CreateSite(c, t, s, ds) \/ UpdateSite(c, t, s, ds)
    \/ \E status \in SiteStatuses : UpdateSiteStatus(c, t, s, status)
    \/ RotateSiteWidgetKey(c, t, s)
    \/ \E on \in BOOLEAN : UpdateSiteAIConfig(c, t, s, on)

AgentCall(c, t, a) ==
    \/ \E e \in Emails, s \in SiteIDs, p \in Passwords : CreateAgent(c, t, a, e, s, p)
    \/ \E status \in AgentStatuses : UpdateAgentStatus(c, t, a, status)
    \/ \E p \in Passwords : ResetAgentPassword(c, t, a, p)
    \/ ForceAgentLogout(c, t, a)

Finish(c) ==
    InsertAgent(c) \/ SaveAgent(c) \/ SaveSite(c) \/ CallFails(c) \/ WriteAuditLog(c) \/ AuditFails(c)

AccountsNext ==
    \/ Session
    \/ AuthStart
    \/ \E c \in AdminCalls :
          \/ Finish(c)
          \/ \E t \in tokens : \/ \E s \in SiteIDs : SiteCall(c, t, s)
                               \/ \E a \in AgentIDs : AgentCall(c, t, a)

AccountsSpec == AccountsInit /\ [][AccountsNext]_accountVars

-----------------------------------------------------------------------------
(* Properties *)

\* A session that is accepted is current.  A logout, a password reset or a
\* disabling is final for the sessions that existed when it was saved: no later
\* operation, re-activation included, makes one of them acceptable again, to
\* auth-service or to a list.  And an agent's session was obtained with the
\* password the account has now, also when the login ran while the password was
\* reset.  Calls that overlap on one agent are excepted: the later save writes
\* an old token_version back.
SessionsCurrent ==
    /\ \A t \in revoked : Accepted(t) \/ HttpMe(t) \/ GatewayMe(t) \/ MayList(t) => t.id \in dirty
    /\ \A t \in tokens :
          t.role = "agent" /\ Accepted(t) /\ t.id \notin dirty => t.password = agents[t.id].password

\* The audit log records no change that was not made, whatever fails between the
\* change and its entry; and whichever transport a call took, only super
\* administrators have changed an agent, and only staff with the admin or
\* super_admin role a site.
ChangesAccountable ==
    /\ Range(audit) \subseteq done
    /\ \A ch \in done : ch.by = "super_admin" \/ (ch.by = "admin" /\ ch.action \in {"site.create", "site.update"})

\* The tables agree with each other, after concurrent creations, renamings and
\* stale saves too: a domain leads back to the one site that lists it, an
\* address to the one account that has it, an agent belongs to a site that
\* exists, and no account has a password the policy refuses.
DirectoryConsistent ==
    /\ AccountsTypeOK
    /\ \A site \in ListSites : \A d \in site.domains : GetSiteByDomain(d) = {site}
    /\ \A agent \in ListAgents :
          /\ GetSiteBySiteID(agent.site) # {}
          /\ AgentsOfEmail(agent.email) = {agent.id} /\ ~SuperAdminFound(agent.email)
          /\ GetAgentByID(agent.id) = {agent}
          /\ ValidatePasswordPolicy(agents[agent.id].password)
    /\ \A s \in SiteIDs : GetSiteAIConfig(s).enabled => SiteFound(s)
    /\ \A e \in DOMAIN superAdmins : ValidatePasswordPolicy(superAdmins[e].password)

=============================================================================
