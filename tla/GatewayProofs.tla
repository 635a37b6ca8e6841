---------------------------- MODULE GatewayProofs ----------------------------
(***************************************************************************)
(* The accounts and the checks of the gateway, for any number of agents,   *)
(* sites, calls, logins, requests and connections.                         *)
(*                                                                         *)
(* Accounts.  The invariant says what a call in flight has in hand: a row  *)
(* whose address and site are still those of the table, since they never   *)
(* change, and, unless another call is saving the same agent, a            *)
(* token_version that is the table's or the one after it.  A token never   *)
(* has a version beyond the table's, and one of the same version has the   *)
(* table's password.                                                       *)
(*                                                                         *)
(* Gateway.  The invariant says what the checks a request has passed have  *)
(* established, and that it lasts: an agent's site never changes, a        *)
(* version never comes back, a widget key is never drawn again, and a      *)
(* request that began in a disabled site is past the site's check only if  *)
(* the site has been active since.                                         *)
(***************************************************************************)
EXTENDS Gateway, ConversationProofs, FiniteSetTheorems, FunctionTheorems

-----------------------------------------------------------------------------
(* Accounts: the invariant *)

\* Claims of the logins that have yet to sign.
Claims == {login[l].claims : l \in {k \in Logins : login[k] # NotCalled}}

AgentActions == Actions \ SiteActions

\* Who may make a change, as ChangesAccountable has it.
Entitled(ch) ==
    ch.by = "super_admin" \/ (ch.by = "admin" /\ ch.action \in {"site.create", "site.update"})

\* An agent's row as a table may have it.
SoundAgent(row) ==
    /\ row \in AgentRow
    /\ row.email # RootEmail
    /\ row.site \in DOMAIN sites
    /\ row.password \notin WeakPasswords

\* A call that is about to save has a sound row, for a target that is there
\* unless the call creates it.
SaveTrue(k) ==
    /\ Entitled(k.change)
    /\ k.change.action \in SiteActions =>
          /\ k.change.target \in SiteIDs
          /\ k.row \in SiteRow
          /\ k.change.action # "site.create" => k.change.target \in DOMAIN sites
    /\ k.change.action \in AgentActions =>
          /\ k.change.target \in AgentIDs
          /\ SoundAgent(k.row)
          /\ k.change.action # "agent.create" =>
                k.change.target \in DOMAIN agents /\ k.row.email = agents[k.change.target].email

CallsTrue ==
    \A c \in AdminCalls :
        /\ call[c].pc = "save" => SaveTrue(call[c])
        /\ call[c].pc = "audit" => call[c].change \in done

DirectoryTrue ==
    /\ \A s, o \in DOMAIN sites : s # o => sites[s].domains \cap sites[o].domains = {}
    /\ \A a \in DOMAIN agents : SoundAgent(agents[a])
    /\ \A a, b \in DOMAIN agents : agents[a].email = agents[b].email => a = b
    /\ aiEnabled \subseteq DOMAIN sites
    /\ \A e \in DOMAIN superAdmins : superAdmins[e].password \notin WeakPasswords
    /\ auth.pc = "ensure" => auth.row.password \notin WeakPasswords

\* The version as the comparisons see it.
Version(row) == NormalizeTokenVersion(row.version)

\* A save of row over old: a new version, or the same version and password.
Follows(old, row, revokes) ==
    \/ Version(row) = Version(old) + 1
    \/ Version(row) = Version(old) /\ row.password = old.password /\ ~revokes

\* Two calls that save the same target have made it dirty; alone, a call has
\* a row that follows the table's.
SavesTrue ==
    /\ \A c, d \in AdminCalls : c # d /\ call[c].pc = "save" /\ Pending(d, call[c].change.target) =>
          call[c].change.target \in dirty
    /\ \A c \in AdminCalls :
          /\ call[c].pc = "save"
          /\ call[c].change.action \in AgentActions \ {"agent.create"}
          /\ call[c].change.target \notin dirty
          => Follows(agents[call[c].change.target], call[c].row,
                     Revokes(call[c].change.action, call[c].row))

\* A token or claim of an agent was made from a row the table has had.
TokenTrue(t) ==
    t.role = "agent" =>
        /\ t.id \in DOMAIN agents
        /\ t.id \notin dirty =>
              /\ Version(t) <= Version(agents[t.id])
              /\ Version(t) = Version(agents[t.id]) => t.password = agents[t.id].password

RevokedTrue(t) ==
    /\ t.role = "agent"
    /\ t.id \in DOMAIN agents
    /\ t.id \notin dirty => Version(t) < Version(agents[t.id])

SessionsTrue ==
    /\ \A t \in tokens : TokenTrue(t)
    /\ \A t \in Claims : TokenTrue(t)
    /\ \A t \in revoked : RevokedTrue(t)

ChangesTrue == Range(audit) \subseteq done /\ \A ch \in done : Entitled(ch)

AccountsInv ==
    /\ AccountsTypeOK
    /\ CallsTrue
    /\ DirectoryTrue
    /\ SavesTrue
    /\ SessionsTrue
    /\ ChangesTrue

-----------------------------------------------------------------------------
(* Accounts: operators of the model *)

\* What Put does to a table.
LEMMA PutTable ==
  ASSUME NEW T, NEW k, NEW r
  PROVE  /\ DOMAIN Put(T, k, r) = DOMAIN T \cup {k}
         /\ Put(T, k, r)[k] = r
         /\ \A x \in DOMAIN T : x # k => Put(T, k, r)[x] = T[x]
  BY DEF Put

\* A row of the right kind under a key of the right kind keeps a table one.
LEMMA PutType ==
  ASSUME NEW T, NEW k, NEW r, NEW K, NEW R, IsTable(T, K, R), k \in K, r \in R
  PROVE  IsTable(Put(T, k, r), K, R)
  BY DEF Put, IsTable

\* The versions: normalising changes nothing twice, the next one is one more.
LEMMA Versions ==
  ASSUME NEW v \in Nat
  PROVE  /\ NormalizeTokenVersion(v) \in Nat
         /\ NormalizeTokenVersion(NormalizeTokenVersion(v)) = NormalizeTokenVersion(v)
         /\ NextTokenVersion(v) \in Nat
         /\ NormalizeTokenVersion(NextTokenVersion(v)) = NormalizeTokenVersion(v) + 1
  BY DEF NormalizeTokenVersion, NextTokenVersion

\* What the records of calls and logins hold.
LEMMA CallFields ==
  ASSUME AccountsTypeOK
  PROVE  /\ NotCalled.pc = "idle"
         /\ \A c \in AdminCalls : call[c].pc \in {"save", "audit"} => call[c].change \in Change
         /\ \A c \in AdminCalls : call[c].pc = "save" => call[c].row \in AgentRow \cup SiteRow
         /\ \A l \in Logins : login[l] # NotCalled => login[l].claims \in Token
<1>1. \A c \in AdminCalls : call[c] \in AdminCall
  BY DEF AccountsTypeOK
<1>2. \A l \in Logins : login[l] \in LoginCall
  BY DEF AccountsTypeOK
<1>3. NotCalled.pc = "idle"
  BY DEF NotCalled
<1>4. \A k \in AdminCall : k.pc \in {"save", "audit"} => k.change \in Change
  BY DEF AdminCall, NotCalled
<1>5. \A k \in AdminCall : k.pc = "save" => k.row \in AgentRow \cup SiteRow
  BY DEF AdminCall, NotCalled
<1>6. \A k \in LoginCall : k # NotCalled => k.claims \in Token
  BY DEF LoginCall
<1> QED BY <1>1, <1>2, <1>3, <1>4, <1>5, <1>6

\* Whoever is admitted to a change is entitled to it, and agents are created
\* and changed when there is a super administrator.
LEMMA AdmittedEntitled ==
  ASSUME AccountsTypeOK, NEW t \in tokens, NEW action \in Actions, NEW target, Admitted(t, action)
  PROVE  /\ Entitled([action |-> action, target |-> target, by |-> t.role])
         /\ t.role \in {"agent", "admin", "super_admin"}
         /\ action \in AgentActions => RootEmail \in DOMAIN superAdmins
<1>1. t \in Token
  BY DEF AccountsTypeOK
<1>2. t.role \in {"agent", "admin", "super_admin"}
  BY <1>1 DEF Token
<1>3. CASE action \in SiteActions
  <2>1. GatewaySites(t, action) \/ GatewayAIConfig(t, action) \/ GrpcSiteEndpoint(t, action) \/ HttpSiteEndpoint(t, action)
    BY <1>3 DEF Admitted, SiteActions
  <2>2. t.role \in {"admin", "super_admin"} /\ (action \in {"site.create", "site.update"} \/ t.role = "super_admin")
    BY <2>1 DEF GatewaySites, GatewayAIConfig, GrpcSiteEndpoint, HttpSiteEndpoint, RequireAdmin, RequireAdminHTTP
  <2> QED BY <1>2, <1>3, <2>2 DEF Entitled, AgentActions
<1>4. CASE action \notin SiteActions
  <2>1. t.role = "super_admin" /\ SessionStands(t)
    <3>1. \/ GatewayCreateAgent(t) \/ GrpcCreateAgent(t) \/ HttpCreateAgent(t)
          \/ GatewayAgents(t) \/ GrpcAgentEndpoint(t) \/ HttpAgentEndpoint(t)
      BY <1>4 DEF Admitted
    <3> QED
      BY <3>1 DEF GatewayCreateAgent, GrpcCreateAgent, HttpCreateAgent, GatewayAgents, GrpcAgentEndpoint,
         HttpAgentEndpoint, RequireAdmin, RequireAdminHTTP, ValidateAdminSession, ValidateSessionByRole
  <2>2. t.id \in DOMAIN superAdmins
    BY <2>1 DEF SessionStands, SuperAdminFound
  <2>3. DOMAIN superAdmins \subseteq {RootEmail}
    BY DEF AccountsTypeOK, IsTable
  <2> QED BY <1>2, <2>1, <2>2, <2>3 DEF Entitled
<1> QED BY <1>3, <1>4

-----------------------------------------------------------------------------
(* Accounts: what a step leaves alone *)

\* Sessions stand as before while the table of agents stays.
LEMMA SessionsKept ==
  ASSUME SessionsTrue, agents' = agents, dirty \subseteq dirty', revoked' = revoked,
         tokens' \subseteq tokens \cup Claims,
         \A t \in Claims' : t \in Claims \/ TokenTrue(t)
  PROVE  SessionsTrue'
<1>1. \A t : TokenTrue(t) => TokenTrue(t)'
  BY DEF TokenTrue, Version
<1>2. \A t : RevokedTrue(t) => RevokedTrue(t)'
  BY DEF RevokedTrue, Version
<1> QED BY <1>1, <1>2 DEF SessionsTrue

\* The other calls go on when one has saved, or has ended.
LEMMA CallsKept ==
  ASSUME AccountsTypeOK, CallsTrue, SavesTrue, NEW c \in AdminCalls, NEW k,
         call' = [call EXCEPT ![c] = k], k.pc # "save",
         k.pc = "audit" => k.change \in done',
         done \subseteq done', dirty' = dirty, DOMAIN sites \subseteq DOMAIN sites',
         \A a \in DOMAIN agents :
            /\ a \in DOMAIN agents' /\ agents'[a].email = agents[a].email
            /\ agents'[a] = agents[a] \/ Pending(c, a)
  PROVE  CallsTrue' /\ SavesTrue'
<1>0. call \in [AdminCalls -> AdminCall]
  BY DEF AccountsTypeOK
<1>1. call'[c] = k /\ \A d \in AdminCalls : d # c => call'[d] = call[d]
  BY <1>0
<1>2. \A d \in AdminCalls : call'[d].pc = "save" => d # c /\ call'[d] = call[d]
  BY <1>1
<1>3. ASSUME NEW d \in AdminCalls
      PROVE  /\ call'[d].pc = "save" => SaveTrue(call[d])'
             /\ call'[d].pc = "audit" => call'[d].change \in done'
  <2>1. CASE d = c
    BY <1>1, <2>1
  <2>2. CASE d # c
    <3>1. call'[d] = call[d] /\ (call[d].pc = "audit" => call[d].change \in done)
      BY <1>1, <2>2 DEF CallsTrue
    <3>2. call[d].pc = "save" => SaveTrue(call[d])
      BY DEF CallsTrue
    <3>3. call[d].pc = "save" => SaveTrue(call[d])'
      BY <3>1, <3>2 DEF SaveTrue, SoundAgent
    <3> QED BY <3>1, <3>3
  <2> QED BY <2>1, <2>2
<1>4. CallsTrue'
  BY <1>3 DEF CallsTrue
<1>5. ASSUME NEW d \in AdminCalls, NEW e \in AdminCalls, d # e, call'[d].pc = "save",
             Pending(e, call[d].change.target)'
      PROVE  call'[d].change.target \in dirty'
  <2>1. call'[e].pc = "save" /\ call'[e].change.target = call'[d].change.target
    BY <1>5 DEF Pending
  <2>2. call'[d] = call[d] /\ call'[e] = call[e]
    BY <1>2, <1>5, <2>1
  <2> QED BY <1>5, <2>1, <2>2 DEF SavesTrue, Pending
<1>6. ASSUME NEW d \in AdminCalls, call'[d].pc = "save",
             call'[d].change.action \in AgentActions \ {"agent.create"},
             call'[d].change.target \notin dirty'
      PROVE  Follows(agents[call[d].change.target], call[d].row, Revokes(call[d].change.action, call[d].row))'
  <2>1. call'[d] = call[d] /\ d # c
    BY <1>2, <1>6
  <2>2. Follows(agents[call[d].change.target], call[d].row, Revokes(call[d].change.action, call[d].row))
    BY <1>6, <2>1 DEF SavesTrue
  <2>3. call[d].change.target \in DOMAIN agents /\ ~Pending(c, call[d].change.target)
    BY <1>6, <2>1 DEF SavesTrue, CallsTrue, SaveTrue
  <2>4. agents'[call[d].change.target] = agents[call[d].change.target]
    BY <2>3
  <2> QED BY <2>1, <2>2, <2>4 DEF Follows, Version, Revokes
<1>7. SavesTrue'
  BY <1>5, <1>6 DEF SavesTrue
<1> QED BY <1>4, <1>7

-----------------------------------------------------------------------------
(* Accounts: sessions *)

\* What a session step does not touch.
LEMMA TablesKept ==
  ASSUME AccountsInv, UNCHANGED <<tables, call, done, dirty>>, AccountsTypeOK', SessionsTrue',
         auth'.pc = "ensure" => auth'.row.password \notin WeakPasswords
  PROVE  AccountsInv'
<1>1. /\ agents' = agents /\ superAdmins' = superAdmins /\ sites' = sites
      /\ aiEnabled' = aiEnabled /\ audit' = audit
  BY DEF tables
<1>2. CallsTrue'
  BY <1>1 DEF AccountsInv, CallsTrue, SaveTrue, SoundAgent
<1>3. DirectoryTrue'
  BY <1>1 DEF AccountsInv, DirectoryTrue, SoundAgent
<1>4. SavesTrue'
  BY <1>1 DEF AccountsInv, SavesTrue, Pending, Follows, Version, Revokes
<1>5. ChangesTrue'
  BY <1>1 DEF AccountsInv, ChangesTrue
<1> QED BY <1>2, <1>3, <1>4, <1>5 DEF AccountsInv

\* Counting an operation.
LEMMA CountType ==
  ASSUME AccountsTypeOK, CountOp
  PROVE  ops' \in 0..MaxOps
  BY AccountsAssumption DEF AccountsTypeOK, CountOp

\* A token is signed from the claims of a login.
LEMMA IssueTokenStep ==
  ASSUME AccountsInv, NEW l \in Logins, IssueToken(l)
  PROVE  AccountsInv'
<1>0. AccountsTypeOK /\ login \in [Logins -> LoginCall] /\ NotCalled \in LoginCall
  BY DEF AccountsInv, AccountsTypeOK, LoginCall
<1>1. login[l].claims \in Claims /\ login[l].claims \in Token
  BY <1>0, CallFields DEF IssueToken, Claims
<1>2. UNCHANGED <<tables, call, done, dirty, auth>> /\ revoked' = revoked /\ agents' = agents
  BY DEF IssueToken, tables
<1>3. login' \in [Logins -> LoginCall] /\ tokens' \subseteq Token
  BY <1>0, <1>1 DEF IssueToken, AccountsTypeOK
<1>4. AccountsTypeOK'
  BY <1>0, <1>2, <1>3 DEF IssueToken, AccountsTypeOK, tables
<1>5. \A t \in Claims' : t \in Claims
  BY <1>0 DEF IssueToken, Claims
<1>6. SessionsTrue'
  BY <1>1, <1>2, <1>5, SessionsKept DEF IssueToken, AccountsInv
<1> QED BY <1>2, <1>4, <1>6, TablesKept DEF AccountsInv, DirectoryTrue

\* A token expires.
LEMMA TokenExpiresStep ==
  ASSUME AccountsInv, NEW t \in tokens, TokenExpires(t)
  PROVE  AccountsInv'
<1>1. UNCHANGED <<tables, call, done, dirty, auth, login, keys, ops>> /\ revoked' = revoked /\ agents' = agents
  BY DEF TokenExpires, tables
<1>2. AccountsTypeOK'
  BY <1>1 DEF TokenExpires, AccountsInv, AccountsTypeOK, tables
<1>3. Claims' = Claims
  BY <1>1 DEF Claims
<1>4. SessionsTrue'
  BY <1>1, <1>3, SessionsKept DEF TokenExpires, AccountsInv
<1> QED BY <1>1, <1>2, <1>4, TablesKept DEF AccountsInv, DirectoryTrue

\* A login reads an account: its claims agree with the table.
LEMMA LoginReadStep ==
  ASSUME AccountsInv, NEW l \in Logins, NEW e, NEW p, LoginRead(l, e, p)
  PROVE  AccountsInv'
<1>0. /\ AccountsTypeOK /\ login \in [Logins -> LoginCall]
      /\ IsTable(agents, AgentIDs, AgentRow) /\ IsTable(superAdmins, {RootEmail}, SuperAdminRow)
  BY DEF AccountsInv, AccountsTypeOK
<1>1. /\ UNCHANGED <<tables, call, done, dirty, auth, keys>> /\ revoked' = revoked /\ agents' = agents
      /\ tokens' = tokens /\ ops' \in 0..MaxOps
  BY <1>0, CountType DEF LoginRead, tables
<1>2. PICK t : /\ t \in Token /\ TokenTrue(t)
               /\ login' = [login EXCEPT ![l] = [pc |-> "sign", claims |-> t]]
  <2>1. CASE SuperAdminFound(e) /\ superAdmins[e].password = p
             /\ login' = [login EXCEPT ![l] =
                   [pc |-> "sign",
                    claims |-> [role |-> "super_admin", id |-> e, password |-> p,
                                version |-> NormalizeTokenVersion(superAdmins[e].version)]]]
    <3> DEFINE t == [role |-> "super_admin", id |-> e, password |-> p,
                     version |-> NormalizeTokenVersion(superAdmins[e].version)]
    <3>1. e = RootEmail /\ superAdmins[e] \in SuperAdminRow
      BY <1>0, <2>1 DEF SuperAdminFound, IsTable
    <3>2. superAdmins[e].version \in Nat /\ p \in Passwords
      BY <2>1, <3>1 DEF SuperAdminRow
    <3>3. NormalizeTokenVersion(superAdmins[e].version) \in Nat
      BY <3>2, Versions
    <3>4. t \in Token
      BY <3>1, <3>2, <3>3 DEF Token
    <3>5. TokenTrue(t)
      BY DEF TokenTrue
    <3> QED BY <2>1, <3>4, <3>5
  <2>2. ASSUME NEW a \in AgentsOfEmail(e), agents[a].password = p,
               login' = [login EXCEPT ![l] =
                   [pc |-> "sign",
                    claims |-> [role |-> "agent", id |-> a, password |-> p,
                                version |-> NormalizeTokenVersion(agents[a].version)]]]
        PROVE  \E t : /\ t \in Token /\ TokenTrue(t)
                      /\ login' = [login EXCEPT ![l] = [pc |-> "sign", claims |-> t]]
    <3> DEFINE t == [role |-> "agent", id |-> a, password |-> p,
                     version |-> NormalizeTokenVersion(agents[a].version)]
    <3>1. a \in DOMAIN agents /\ a \in AgentIDs /\ agents[a] \in AgentRow
      BY <1>0 DEF AgentsOfEmail, IsTable
    <3>2. agents[a].version \in Nat /\ p \in Passwords
      BY <2>2, <3>1 DEF AgentRow
    <3>3. /\ NormalizeTokenVersion(agents[a].version) \in Nat
          /\ NormalizeTokenVersion(NormalizeTokenVersion(agents[a].version)) = NormalizeTokenVersion(agents[a].version)
      BY <3>2, Versions
    <3>4. t \in Token
      BY <3>1, <3>2, <3>3 DEF Token
    <3>5. TokenTrue(t)
      BY <2>2, <3>1, <3>3 DEF TokenTrue, Version
    <3> QED BY <2>2, <3>4, <3>5
  <2> QED BY <2>1, <2>2 DEF LoginRead
<1>3. login' \in [Logins -> LoginCall]
  BY <1>0, <1>2 DEF LoginCall
<1>4. AccountsTypeOK'
  BY <1>0, <1>1, <1>3 DEF AccountsTypeOK, tables
<1>5. \A u \in Claims' : u \in Claims \/ TokenTrue(u)
  BY <1>0, <1>2 DEF Claims
<1>6. SessionsTrue'
  BY <1>1, <1>5, SessionsKept DEF AccountsInv
<1> QED BY <1>1, <1>4, <1>6, TablesKept DEF AccountsInv, DirectoryTrue

-----------------------------------------------------------------------------
(* The start of auth-service *)

\* auth-service reads the super administrator's row and decides what to save.
LEMMA EnsureReadStep ==
  ASSUME AccountsInv, EnsureRead
  PROVE  AccountsInv'
<1>0. AccountsTypeOK /\ auth \in AuthProcess /\ IsTable(superAdmins, {RootEmail}, SuperAdminRow)
  BY DEF AccountsInv, AccountsTypeOK
<1>1. /\ UNCHANGED <<tables, call, done, dirty, login, keys, ops>> /\ revoked' = revoked /\ agents' = agents
      /\ tokens' = tokens
  BY DEF EnsureRead, tables
<1>2. PICK v \in Nat : auth' = [pc |-> "ensure", password |-> auth.password,
                               row |-> [status |-> "active", password |-> auth.password, version |-> v]]
  <2>1. CASE SuperAdminFound(RootEmail)
    <3>1. superAdmins[RootEmail].version \in Nat
      BY <1>0, <2>1 DEF SuperAdminFound, IsTable, SuperAdminRow
    <3> QED BY <2>1, <3>1, Versions DEF EnsureRead
  <2>2. CASE ~SuperAdminFound(RootEmail)
    BY <2>2 DEF EnsureRead
  <2> QED BY <2>1, <2>2
<1>3. auth.password \in Passwords /\ auth.password \notin WeakPasswords
  BY <1>0 DEF EnsureRead, AuthProcess, ValidateSuperAdminPassword
<1>4. auth' \in AuthProcess /\ auth'.row.password \notin WeakPasswords
  BY <1>2, <1>3 DEF AuthProcess, SuperAdminRow
<1>5. AccountsTypeOK'
  BY <1>0, <1>1, <1>4 DEF AccountsTypeOK, tables
<1>6. Claims' = Claims
  BY <1>1 DEF Claims
<1>7. SessionsTrue'
  BY <1>1, <1>6, SessionsKept DEF AccountsInv
<1> QED BY <1>1, <1>4, <1>5, <1>7, TablesKept

\* auth-service stops, or is restarted with another password in its environment.
LEMMA AuthStopsStep ==
  ASSUME AccountsInv, NEW p \in Passwords, AuthStops(p)
  PROVE  AccountsInv'
<1>0. AccountsTypeOK
  BY DEF AccountsInv
<1>1. /\ UNCHANGED <<tables, call, done, dirty, keys>> /\ revoked' = revoked /\ agents' = agents
      /\ tokens' = tokens /\ ops' \in 0..MaxOps
  BY <1>0, CountType DEF AuthStops, tables
<1>2. auth' = [pc |-> "down", password |-> p]
  BY DEF AuthStops
<1>3. auth' \in AuthProcess /\ auth'.pc # "ensure"
  BY <1>2 DEF AuthProcess
<1>4. login' \in [Logins -> LoginCall] /\ Claims' = {}
  BY DEF AuthStops, LoginCall, Claims
<1>5. AccountsTypeOK'
  BY <1>0, <1>1, <1>3, <1>4 DEF AccountsTypeOK, tables
<1>6. SessionsTrue'
  BY <1>1, <1>4, SessionsKept DEF AccountsInv
<1> QED BY <1>1, <1>3, <1>5, <1>6, TablesKept

\* auth-service saves the super administrator's row.
LEMMA EnsureSaveStep ==
  ASSUME AccountsInv, EnsureSave
  PROVE  AccountsInv'
<1>0. AccountsTypeOK /\ auth \in AuthProcess /\ IsTable(superAdmins, {RootEmail}, SuperAdminRow)
  BY DEF AccountsInv, AccountsTypeOK
<1>1. /\ UNCHANGED <<agents, sites, aiEnabled, audit, call, done, dirty, login, keys, ops>>
      /\ revoked' = revoked /\ tokens' = tokens
      /\ superAdmins' = Put(superAdmins, RootEmail, auth.row)
      /\ auth' = [pc |-> "up", password |-> auth.password]
      /\ auth.pc = "ensure"
  BY DEF EnsureSave
<1>2. auth.row \in SuperAdminRow /\ auth.password \in Passwords /\ auth.row.password \notin WeakPasswords
  BY <1>0, <1>1 DEF AuthProcess, AccountsInv, DirectoryTrue
<1>3. auth' \in AuthProcess /\ auth'.pc # "ensure"
  BY <1>1, <1>2 DEF AuthProcess
<1>4. IsTable(superAdmins', {RootEmail}, SuperAdminRow)
  BY <1>0, <1>1, <1>2, PutType
<1>5. \A e \in DOMAIN superAdmins' : superAdmins'[e].password \notin WeakPasswords
  <2>1. /\ DOMAIN superAdmins' = DOMAIN superAdmins \cup {RootEmail}
        /\ superAdmins'[RootEmail] = auth.row
        /\ \A e \in DOMAIN superAdmins : e # RootEmail => superAdmins'[e] = superAdmins[e]
    BY <1>1 DEF Put
  <2>2. \A e \in DOMAIN superAdmins : superAdmins[e].password \notin WeakPasswords
    BY DEF AccountsInv, DirectoryTrue
  <2> QED BY <1>2, <2>1, <2>2
<1>6. AccountsTypeOK'
  BY <1>0, <1>1, <1>3, <1>4 DEF AccountsTypeOK
<1>7. CallsTrue'
  BY <1>1 DEF AccountsInv, CallsTrue, SaveTrue, SoundAgent
<1>8. DirectoryTrue'
  BY <1>1, <1>3, <1>5 DEF AccountsInv, DirectoryTrue, SoundAgent
<1>9. SavesTrue'
  BY <1>1 DEF AccountsInv, SavesTrue, Pending, Follows, Version, Revokes
<1>10. Claims' = Claims
  BY <1>1 DEF Claims
<1>11. SessionsTrue'
  BY <1>1, <1>10, SessionsKept DEF AccountsInv
<1>12. ChangesTrue'
  BY <1>1 DEF AccountsInv, ChangesTrue
<1> QED BY <1>6, <1>7, <1>8, <1>9, <1>11, <1>12 DEF AccountsInv

-----------------------------------------------------------------------------
(* Administrative calls: the read *)

\* A call with the right kind of row in hand.
LEMMA HoldStep ==
  ASSUME AccountsInv, NEW c \in AdminCalls, NEW t \in tokens, NEW action \in Actions,
         NEW target \in AgentIDs \cup SiteIDs, NEW row \in AgentRow \cup SiteRow,
         Hold(c, t, action, target, row), keys' \in Nat,
         action \in SiteActions =>
            /\ target \in SiteIDs /\ row \in SiteRow
            /\ action # "site.create" => target \in DOMAIN sites,
         action \in AgentActions =>
            /\ target \in AgentIDs /\ SoundAgent(row)
            /\ action # "agent.create" =>
                  /\ target \in DOMAIN agents /\ row.email = agents[target].email
                  /\ Follows(agents[target], row, Revokes(action, row))
  PROVE  AccountsInv'
<1> DEFINE ch == [action |-> action, target |-> target, by |-> t.role]
<1> DEFINE k == [pc |-> "save", change |-> ch, row |-> row]
<1>0. AccountsTypeOK /\ call \in [AdminCalls -> AdminCall]
  BY DEF AccountsInv, AccountsTypeOK
<1>1. /\ call[c] = NotCalled /\ Admitted(t, action) /\ CountOp
      /\ call' = [call EXCEPT ![c] = k]
      /\ dirty' = IF \E d \in AdminCalls : Pending(d, target) THEN dirty \cup {target} ELSE dirty
      /\ UNCHANGED <<tables, auth, tokens, login, done, revoked>>
  BY DEF Hold
<1>2. /\ agents' = agents /\ superAdmins' = superAdmins /\ sites' = sites
      /\ aiEnabled' = aiEnabled /\ audit' = audit
  BY <1>1 DEF tables
<1>3. Entitled(ch) /\ t.role \in {"agent", "admin", "super_admin"}
  BY <1>0, <1>1, AdmittedEntitled
<1>4. ch \in Change /\ ch.action = action /\ ch.target = target
  BY <1>3 DEF Change
<1>5. k \in AdminCall /\ k.pc = "save" /\ k.change = ch /\ k.row = row
  BY <1>4 DEF AdminCall
<1> HIDE DEF ch, k
<1>6. call' \in [AdminCalls -> AdminCall] /\ call'[c] = k /\ \A d \in AdminCalls : d # c => call'[d] = call[d]
  BY <1>0, <1>1, <1>5
<1>7. dirty \subseteq dirty' /\ dirty' \subseteq AgentIDs \cup SiteIDs
  BY <1>0, <1>1 DEF AccountsTypeOK
<1>8. AccountsTypeOK'
  <2>1. ops' \in 0..MaxOps
    BY <1>0, <1>1, CountType
  <2> QED BY <1>0, <1>1, <1>2, <1>6, <1>7, <2>1 DEF AccountsTypeOK
<1>9. CallsTrue'
  <2>1. SaveTrue(k)
    BY <1>3, <1>4, <1>5 DEF SaveTrue
  <2>2. \A d \in AdminCalls : /\ call[d].pc = "save" => SaveTrue(call[d])
                              /\ call[d].pc = "audit" => call[d].change \in done
    BY DEF AccountsInv, CallsTrue
  <2>3. ASSUME NEW d \in AdminCalls
        PROVE  /\ call'[d].pc = "save" => SaveTrue(call[d])'
               /\ call'[d].pc = "audit" => call'[d].change \in done'
    <3>1. CASE d = c
      BY <1>2, <1>5, <1>6, <2>1, <3>1 DEF SaveTrue, SoundAgent
    <3>2. CASE d # c
      <4>1. call'[d] = call[d] /\ (call[d].pc = "audit" => call[d].change \in done)
        BY <1>6, <2>2, <3>2
      <4>2. ASSUME call[d].pc = "save"
            PROVE  SaveTrue(call[d])'
        <5>0. SaveTrue(call[d])
          BY <2>2, <4>2, Zenon
        <5>1. SaveTrue(call[d]) /\ call'[d] = call[d]
          BY <4>1, <5>0, Zenon
        <5>2. Entitled(call'[d].change)
          BY <5>1 DEF SaveTrue
        <5>3. call[d].change.action \in AgentActions => SoundAgent(call[d].row)'
          BY <1>2, <5>1 DEF SaveTrue, SoundAgent
        <5> QED BY <1>2, <5>1, <5>2, <5>3 DEF SaveTrue
      <4> QED BY <1>1, <4>1, <4>2
    <3> QED BY <3>1, <3>2
  <2> QED BY <2>3 DEF CallsTrue
<1>10. DirectoryTrue'
  BY <1>1, <1>2 DEF AccountsInv, DirectoryTrue, SoundAgent
<1>11. SavesTrue'
  <2>1. ASSUME NEW d \in AdminCalls, NEW e \in AdminCalls, d # e, call'[d].pc = "save",
               call'[e].pc = "save", call'[e].change.target = call'[d].change.target
        PROVE  call'[d].change.target \in dirty'
    <3>1. CASE d # c /\ e # c
      BY <1>6, <1>7, <2>1, <3>1 DEF AccountsInv, SavesTrue, Pending
    <3>2. CASE d = c
      <4>1. e # c /\ call'[d].change.target = target
        BY <1>4, <1>5, <1>6, <2>1, <3>2
      <4>2. Pending(e, target)
        BY <1>6, <2>1, <4>1 DEF Pending
      <4> QED BY <1>1, <4>1, <4>2
    <3>3. CASE e = c
      <4>1. d # c /\ call'[d].change.target = target
        BY <1>4, <1>5, <1>6, <2>1, <3>3
      <4>2. Pending(d, target)
        BY <1>6, <2>1, <4>1 DEF Pending
      <4> QED BY <1>1, <4>1, <4>2
    <3> QED BY <3>1, <3>2, <3>3
  <2>2. ASSUME NEW d \in AdminCalls, call'[d].pc = "save",
               call'[d].change.action \in AgentActions \ {"agent.create"},
               call'[d].change.target \notin dirty'
        PROVE  Follows(agents[call'[d].change.target], call'[d].row,
                       Revokes(call'[d].change.action, call'[d].row))
    <3>1. CASE d = c
      BY <1>4, <1>5, <1>6, <2>2, <3>1
    <3>2. CASE d # c
      BY <1>6, <1>7, <2>2, <3>2 DEF AccountsInv, SavesTrue
    <3> QED BY <3>1, <3>2
  <2>3. ASSUME NEW d \in AdminCalls, call'[d].pc = "save",
               call'[d].change.action \in AgentActions \ {"agent.create"},
               call'[d].change.target \notin dirty'
        PROVE  Follows(agents[call[d].change.target], call[d].row, Revokes(call[d].change.action, call[d].row))'
    BY <1>2, <2>2, <2>3 DEF Follows, Version, Revokes
  <2> QED BY <2>1, <2>3 DEF SavesTrue, Pending
<1>12. Claims' = Claims
  BY <1>1 DEF Claims
<1>13. SessionsTrue'
  BY <1>1, <1>2, <1>7, <1>12, SessionsKept DEF AccountsInv
<1>14. ChangesTrue'
  BY <1>1, <1>2 DEF AccountsInv, ChangesTrue
<1> QED BY <1>8, <1>9, <1>10, <1>11, <1>13, <1>14 DEF AccountsInv

\* The calls for sites that read a row and save it later.
LEMMA SiteReadSteps ==
  ASSUME AccountsInv, NEW c \in AdminCalls, NEW t \in tokens, NEW s \in SiteIDs,
         \/ \E ds \in SUBSET Domains : CreateSite(c, t, s, ds) \/ UpdateSite(c, t, s, ds)
         \/ \E status \in SiteStatuses : UpdateSiteStatus(c, t, s, status)
         \/ RotateSiteWidgetKey(c, t, s)
  PROVE  AccountsInv'
<1>0. keys \in Nat /\ NewWidgetKey \in Nat /\ (s \in DOMAIN sites => sites[s] \in SiteRow)
  BY DEF AccountsInv, AccountsTypeOK, IsTable, NewWidgetKey
<1>1. "site.create" \in SiteActions /\ "site.update" \in SiteActions /\ "site.update_status" \in SiteActions
      /\ "site.rotate_widget_key" \in SiteActions /\ SiteActions \subseteq Actions
      /\ \A a \in SiteActions : a \notin AgentActions
  BY DEF SiteActions, Actions, AgentActions
<1>2. ASSUME NEW ds \in SUBSET Domains, CreateSite(c, t, s, ds) PROVE AccountsInv'
  <2> DEFINE row == [status |-> "active", key |-> NewWidgetKey, domains |-> ds]
  <2>1. row \in SiteRow
    BY <1>0 DEF SiteRow, SiteStatuses
  <2>2. Hold(c, t, "site.create", s, row) /\ keys' \in Nat
    BY <1>0, <1>2 DEF CreateSite
  <2> HIDE DEF row
  <2> QED BY <1>1, <2>1, <2>2, HoldStep
<1>3. ASSUME NEW ds \in SUBSET Domains, UpdateSite(c, t, s, ds) PROVE AccountsInv'
  <2>1. Hold(c, t, "site.update", s, WithDomains(s, ds)) /\ keys' \in Nat /\ s \in DOMAIN sites
    BY <1>0, <1>3 DEF UpdateSite, SiteFound
  <2>2. WithDomains(s, ds) \in SiteRow
    BY <1>0, <2>1 DEF WithDomains, SiteRow
  <2> QED BY <1>1, <2>1, <2>2, HoldStep
<1>4. ASSUME NEW status \in SiteStatuses, UpdateSiteStatus(c, t, s, status) PROVE AccountsInv'
  <2>1. Hold(c, t, "site.update_status", s, WithSiteStatus(s, status)) /\ keys' \in Nat /\ s \in DOMAIN sites
    BY <1>0, <1>4 DEF UpdateSiteStatus, SiteFound
  <2>2. WithSiteStatus(s, status) \in SiteRow
    BY <1>0, <2>1 DEF WithSiteStatus, SiteRow
  <2> QED BY <1>1, <2>1, <2>2, HoldStep
<1>5. CASE RotateSiteWidgetKey(c, t, s)
  <2>1. Hold(c, t, "site.rotate_widget_key", s, WithWidgetKey(s)) /\ keys' \in Nat /\ s \in DOMAIN sites
    BY <1>0, <1>5 DEF RotateSiteWidgetKey, SiteFound
  <2>2. WithWidgetKey(s) \in SiteRow
    BY <1>0, <2>1 DEF WithWidgetKey, SiteRow
  <2> QED BY <1>1, <2>1, <2>2, HoldStep
<1> QED BY <1>2, <1>3, <1>4, <1>5

\* A row as an agent's call changes it in memory.
LEMMA ChangedAgent ==
  ASSUME AccountsInv, NEW a \in DOMAIN agents
  PROVE  /\ \A status \in AgentStatuses :
               /\ SoundAgent(WithAgentStatus(a, status)) /\ WithAgentStatus(a, status).email = agents[a].email
               /\ Follows(agents[a], WithAgentStatus(a, status), status # "active")
               /\ WithAgentStatus(a, status).status = status
         /\ \A p \in Passwords \ WeakPasswords :
               /\ SoundAgent(WithPassword(a, p)) /\ WithPassword(a, p).email = agents[a].email
               /\ Follows(agents[a], WithPassword(a, p), TRUE)
         /\ SoundAgent(WithSessionsEnded(a)) /\ WithSessionsEnded(a).email = agents[a].email
         /\ Follows(agents[a], WithSessionsEnded(a), TRUE)
<1>0. SoundAgent(agents[a]) /\ agents[a] \in AgentRow
  BY DEF AccountsInv, DirectoryTrue, SoundAgent
<1>1. agents[a].version \in Nat
  BY <1>0 DEF AgentRow
<1>2. /\ NextTokenVersion(agents[a].version) \in Nat
      /\ NormalizeTokenVersion(NextTokenVersion(agents[a].version)) = NormalizeTokenVersion(agents[a].version) + 1
  BY <1>1, Versions
<1>3. ASSUME NEW status \in AgentStatuses
      PROVE  /\ SoundAgent(WithAgentStatus(a, status)) /\ WithAgentStatus(a, status).email = agents[a].email
             /\ Follows(agents[a], WithAgentStatus(a, status), status # "active")
             /\ WithAgentStatus(a, status).status = status
  BY <1>0, <1>1, <1>2 DEF WithAgentStatus, SoundAgent, AgentRow, Follows, Version
<1>4. ASSUME NEW p \in Passwords \ WeakPasswords
      PROVE  /\ SoundAgent(WithPassword(a, p)) /\ WithPassword(a, p).email = agents[a].email
             /\ Follows(agents[a], WithPassword(a, p), TRUE)
  BY <1>0, <1>1, <1>2 DEF WithPassword, SoundAgent, AgentRow, Follows, Version
<1>5. /\ SoundAgent(WithSessionsEnded(a)) /\ WithSessionsEnded(a).email = agents[a].email
      /\ Follows(agents[a], WithSessionsEnded(a), TRUE)
  BY <1>0, <1>1, <1>2 DEF WithSessionsEnded, SoundAgent, AgentRow, Follows, Version
<1> QED BY <1>3, <1>4, <1>5

\* The calls for agents.
LEMMA AgentReadSteps ==
  ASSUME AccountsInv, NEW c \in AdminCalls, NEW t \in tokens, NEW a \in AgentIDs, AgentCall(c, t, a)
  PROVE  AccountsInv'
<1>0. keys \in Nat /\ AccountsTypeOK
  BY DEF AccountsInv, AccountsTypeOK
<1>1. /\ {"agent.create", "agent.update_status", "agent.reset_password", "agent.force_logout"} \subseteq AgentActions
      /\ AgentActions \subseteq Actions /\ \A b \in AgentActions : b \notin SiteActions
  BY DEF SiteActions, Actions, AgentActions
<1>2. ASSUME NEW e \in Emails, NEW s \in SiteIDs, NEW p \in Passwords, CreateAgent(c, t, a, e, s, p)
      PROVE  AccountsInv'
  <2> DEFINE row == [status |-> "active", email |-> e, site |-> s, password |-> p, version |-> 1]
  <2>1. Hold(c, t, "agent.create", a, row) /\ keys' \in Nat
    BY <1>0, <1>2 DEF CreateAgent
  <2>2. s \in DOMAIN sites /\ e \notin DOMAIN superAdmins /\ p \notin WeakPasswords
    BY <1>2 DEF CreateAgent, SiteFound, AdminSuperAdminFound, ValidatePasswordPolicy
  <2>3. RootEmail \in DOMAIN superAdmins
    BY <1>0, <1>1, <2>1, AdmittedEntitled DEF Hold
  <2>4. row \in AgentRow /\ SoundAgent(row)
    BY <2>2, <2>3 DEF AgentRow, AgentStatuses, SoundAgent
  <2> HIDE DEF row
  <2> QED BY <1>1, <2>1, <2>4, HoldStep
<1>3. ASSUME NEW status \in AgentStatuses, UpdateAgentStatus(c, t, a, status) PROVE AccountsInv'
  <2> DEFINE row == WithAgentStatus(a, status)
  <2>1. Hold(c, t, "agent.update_status", a, row) /\ keys' \in Nat /\ a \in DOMAIN agents
    BY <1>0, <1>3 DEF UpdateAgentStatus, AdminAgentFound
  <2>2. /\ SoundAgent(row) /\ row.email = agents[a].email /\ row.status = status
        /\ Follows(agents[a], row, status # "active")
    BY <2>1, ChangedAgent
  <2> HIDE DEF row
  <2>3. row \in AgentRow /\ Follows(agents[a], row, Revokes("agent.update_status", row))
    BY <2>2 DEF SoundAgent, Revokes, Follows
  <2> QED BY <1>1, <2>1, <2>2, <2>3, HoldStep
<1>4. ASSUME NEW p \in Passwords, ResetAgentPassword(c, t, a, p) PROVE AccountsInv'
  <2> DEFINE row == WithPassword(a, p)
  <2>1. /\ Hold(c, t, "agent.reset_password", a, row) /\ keys' \in Nat /\ a \in DOMAIN agents
        /\ p \notin WeakPasswords
    BY <1>0, <1>4 DEF ResetAgentPassword, AdminAgentFound, ValidatePasswordPolicy
  <2>2. SoundAgent(row) /\ row.email = agents[a].email /\ Follows(agents[a], row, TRUE)
    BY <2>1, ChangedAgent
  <2> HIDE DEF row
  <2>3. row \in AgentRow /\ Follows(agents[a], row, Revokes("agent.reset_password", row))
    BY <2>2 DEF SoundAgent, Revokes, Follows
  <2> QED BY <1>1, <2>1, <2>2, <2>3, HoldStep
<1>5. CASE ForceAgentLogout(c, t, a)
  <2> DEFINE row == WithSessionsEnded(a)
  <2>1. Hold(c, t, "agent.force_logout", a, row) /\ keys' \in Nat /\ a \in DOMAIN agents
    BY <1>0, <1>5 DEF ForceAgentLogout, AdminAgentFound
  <2>2. SoundAgent(row) /\ row.email = agents[a].email /\ Follows(agents[a], row, TRUE)
    BY <2>1, ChangedAgent
  <2> HIDE DEF row
  <2>3. row \in AgentRow /\ Follows(agents[a], row, Revokes("agent.force_logout", row))
    BY <2>2 DEF SoundAgent, Revokes, Follows
  <2> QED BY <1>1, <2>1, <2>2, <2>3, HoldStep
<1> QED BY <1>2, <1>3, <1>4, <1>5 DEF AgentCall

-----------------------------------------------------------------------------
(* Administrative calls: the save and the entry *)

\* The change is done, and the call goes on to the entry.
LEMMA SavedCall ==
  ASSUME AccountsTypeOK, NEW c \in AdminCalls, call[c].pc = "save", Saved(c)
  PROVE  /\ call' \in [AdminCalls -> AdminCall]
         /\ call' = [call EXCEPT ![c] = [pc |-> "audit", change |-> call[c].change]]
         /\ done' = done \cup {call[c].change} /\ done' \subseteq Change /\ call[c].change \in Change
<1>1. call[c].change \in Change
  BY CallFields
<1>2. [pc |-> "audit", change |-> call[c].change] \in AdminCall
  BY <1>1 DEF AdminCall
<1> QED BY <1>1, <1>2 DEF Saved, AccountsTypeOK

\* Only changes that were entitled become done.
LEMMA ChangesKept ==
  ASSUME AccountsInv, NEW c \in AdminCalls, call[c].pc = "save", audit' = audit,
         done' = done \cup {call[c].change}
  PROVE  ChangesTrue'
<1>1. Entitled(call[c].change)
  BY DEF AccountsInv, CallsTrue, SaveTrue
<1> QED BY <1>1 DEF AccountsInv, ChangesTrue, Entitled

\* A call that gives up, or has its entry written, or lost.
LEMMA CallOver ==
  ASSUME AccountsInv, NEW c \in AdminCalls, call' = [call EXCEPT ![c] = NotCalled],
         UNCHANGED <<agents, superAdmins, sites, aiEnabled, auth, tokens, login, keys, ops, done, revoked, dirty>>,
         audit' \in Seq(Change), Range(audit') \subseteq done
  PROVE  AccountsInv'
<1>0. AccountsTypeOK /\ call \in [AdminCalls -> AdminCall] /\ NotCalled \in AdminCall /\ NotCalled.pc = "idle"
  BY CallFields DEF AccountsInv, AccountsTypeOK, AdminCall
<1>1. AccountsTypeOK'
  BY <1>0 DEF AccountsTypeOK
<1>2. CallsTrue' /\ SavesTrue'
  BY <1>0, CallsKept DEF AccountsInv
<1>3. DirectoryTrue'
  BY DEF AccountsInv, DirectoryTrue, SoundAgent
<1>4. Claims' = Claims
  BY DEF Claims
<1>5. SessionsTrue'
  BY <1>4, SessionsKept DEF AccountsInv
<1>6. ChangesTrue'
  BY DEF AccountsInv, ChangesTrue, Entitled
<1> QED BY <1>1, <1>2, <1>3, <1>5, <1>6 DEF AccountsInv

\* A call that fails, or that has saved and writes its audit line or not.
LEMMA CallOverSteps ==
  ASSUME AccountsInv, NEW c \in AdminCalls, CallFails(c) \/ WriteAuditLog(c) \/ AuditFails(c)
  PROVE  AccountsInv'
<1>0. audit \in Seq(Change) /\ Range(audit) \subseteq done /\ AccountsTypeOK
  BY DEF AccountsInv, AccountsTypeOK, ChangesTrue
<1>1. CASE CallFails(c) \/ AuditFails(c)
  BY <1>0, <1>1, CallOver DEF CallFails, AuditFails, tables
<1>2. CASE WriteAuditLog(c)
  <2>1. call[c].change \in done /\ call[c].change \in Change
    BY <1>0, <1>2, CallFields DEF WriteAuditLog, AccountsInv, CallsTrue
  <2>2. audit' = <<call[c].change>> \o audit
    BY <1>2 DEF WriteAuditLog
  <2>3. <<call[c].change>> \in Seq(Change) /\ audit' \in Seq(Change)
    BY <1>0, <2>1, <2>2
  <2>4. \A i \in DOMAIN audit' : audit'[i] = call[c].change \/ \E j \in DOMAIN audit : audit'[i] = audit[j]
    <3> SUFFICES ASSUME NEW i \in DOMAIN audit', i # 1
                 PROVE  \E j \in DOMAIN audit : audit'[i] = audit[j]
      BY <1>0, <2>1, <2>2
    <3>1. Len(audit') = Len(audit) + 1 /\ Len(audit) \in Nat
      BY <1>0, <2>1, <2>2
    <3>2. i - 1 \in 1..Len(audit) /\ audit'[i] = audit[i - 1]
      BY <1>0, <2>1, <2>2, <3>1
    <3> QED BY <1>0, <3>2
  <2>5. Range(audit') \subseteq done
    BY <1>0, <2>1, <2>4 DEF Range
  <2> QED BY <1>2, <2>3, <2>5, CallOver DEF WriteAuditLog
<1> QED BY <1>1, <1>2

\* The automatic replies of a site are switched on or off.
LEMMA UpdateSiteAIConfigStep ==
  ASSUME AccountsInv, NEW c \in AdminCalls, NEW t \in tokens, NEW s \in SiteIDs, NEW on \in BOOLEAN,
         UpdateSiteAIConfig(c, t, s, on)
  PROVE  AccountsInv'
<1> DEFINE ch == [action |-> "site.update_ai_config", target |-> s, by |-> t.role]
<1> DEFINE k == [pc |-> "audit", change |-> ch]
<1>0. AccountsTypeOK /\ call \in [AdminCalls -> AdminCall] /\ "site.update_ai_config" \in Actions
  BY DEF AccountsInv, AccountsTypeOK, Actions
<1>1. /\ Admitted(t, "site.update_ai_config") /\ s \in DOMAIN sites /\ CountOp
      /\ call' = [call EXCEPT ![c] = k] /\ done' = done \cup {ch}
      /\ aiEnabled' = UpsertSiteAIConfig(s, on)
      /\ UNCHANGED <<agents, superAdmins, sites, audit, auth, tokens, login, keys, revoked, dirty>>
  BY DEF UpdateSiteAIConfig, SiteFound
<1>2. Entitled(ch) /\ t.role \in {"agent", "admin", "super_admin"}
  BY <1>0, <1>1, AdmittedEntitled
<1>3. ch \in Change
  BY <1>0, <1>2 DEF Change
<1>4. k \in AdminCall /\ k.pc = "audit" /\ k.change = ch
  BY <1>3 DEF AdminCall
<1> HIDE DEF ch, k
<1>5. AccountsTypeOK'
  <2>1. ops' \in 0..MaxOps
    BY <1>0, <1>1, CountType
  <2>2. aiEnabled' \subseteq SiteIDs
    BY <1>0, <1>1 DEF UpsertSiteAIConfig, AccountsTypeOK
  <2> QED BY <1>0, <1>1, <1>3, <1>4, <2>1, <2>2 DEF AccountsTypeOK
<1>6. CallsTrue' /\ SavesTrue'
  BY <1>0, <1>1, <1>4, CallsKept DEF AccountsInv
<1>7. DirectoryTrue'
  <2>1. aiEnabled' \subseteq DOMAIN sites
    BY <1>1 DEF UpsertSiteAIConfig, AccountsInv, DirectoryTrue
  <2> QED BY <1>1, <2>1 DEF AccountsInv, DirectoryTrue, SoundAgent
<1>8. Claims' = Claims
  BY <1>1 DEF Claims
<1>9. SessionsTrue'
  BY <1>1, <1>8, SessionsKept DEF AccountsInv
<1>10. ChangesTrue'
  BY <1>1, <1>2 DEF AccountsInv, ChangesTrue, Entitled
<1> QED BY <1>5, <1>6, <1>7, <1>9, <1>10 DEF AccountsInv

\* A site and its domains are saved.
LEMMA SaveSiteStep ==
  ASSUME AccountsInv, NEW c \in AdminCalls, SaveSite(c)
  PROVE  AccountsInv'
<1> DEFINE s == call[c].change.target
<1> DEFINE row == call[c].row
<1>0. AccountsTypeOK /\ call[c].pc = "save" /\ call[c].change.action \in SiteActions
  BY DEF AccountsInv, SaveSite
<1>1. s \in SiteIDs /\ row \in SiteRow
  BY <1>0 DEF AccountsInv, CallsTrue, SaveTrue
<1>2. /\ DomainsFree(s, row.domains) /\ sites' = Put(sites, s, row) /\ Saved(c)
      /\ UNCHANGED <<agents, superAdmins, aiEnabled, audit, auth, tokens, login, keys, ops, revoked, dirty>>
  BY DEF SaveSite
<1> HIDE DEF s, row
<1>3. IsTable(sites', SiteIDs, SiteRow)
  BY <1>0, <1>1, <1>2, PutType DEF AccountsTypeOK
<1>4. /\ DOMAIN sites' = DOMAIN sites \cup {s} /\ sites'[s] = row
      /\ \A o \in DOMAIN sites : o # s => sites'[o] = sites[o]
  BY <1>2 DEF Put
<1>5. AccountsTypeOK'
  BY <1>0, <1>2, <1>3, SavedCall DEF AccountsTypeOK
<1>6. CallsTrue' /\ SavesTrue'
  <2> DEFINE k == [pc |-> "audit", change |-> call[c].change]
  <2>1. k.pc = "audit" /\ k.change \in done' /\ call' = [call EXCEPT ![c] = k] /\ done \subseteq done'
    BY <1>0, <1>2, SavedCall
  <2> HIDE DEF k
  <2> QED BY <1>0, <1>2, <1>4, <2>1, CallsKept DEF AccountsInv
<1>7. DirectoryTrue'
  <2>1. ASSUME NEW o \in DOMAIN sites', NEW q \in DOMAIN sites', o # q
        PROVE  sites'[o].domains \cap sites'[q].domains = {}
    <3>1. CASE o # s /\ q # s
      BY <1>4, <2>1, <3>1 DEF AccountsInv, DirectoryTrue
    <3>2. CASE o = s
      BY <1>2, <1>4, <2>1, <3>2 DEF DomainsFree
    <3>3. CASE q = s
      BY <1>2, <1>4, <2>1, <3>3 DEF DomainsFree
    <3> QED BY <3>1, <3>2, <3>3
  <2> QED BY <1>2, <1>4, <2>1 DEF AccountsInv, DirectoryTrue, SoundAgent
<1>8. Claims' = Claims
  BY <1>2 DEF Claims
<1>9. SessionsTrue'
  BY <1>2, <1>8, SessionsKept DEF AccountsInv
<1>10. ChangesTrue'
  BY <1>0, <1>2, SavedCall, ChangesKept
<1> QED BY <1>5, <1>6, <1>7, <1>9, <1>10 DEF AccountsInv

\* An agent is inserted, under an id and an address nobody has.
LEMMA InsertAgentStep ==
  ASSUME AccountsInv, NEW c \in AdminCalls, InsertAgent(c)
  PROVE  AccountsInv'
<1> DEFINE a == call[c].change.target
<1> DEFINE row == call[c].row
<1>0. AccountsTypeOK /\ call[c].pc = "save" /\ call[c].change.action \in AgentActions
  BY DEF AccountsInv, InsertAgent, AgentActions, Actions, SiteActions
<1>1. a \in AgentIDs /\ SoundAgent(row) /\ row \in AgentRow
  BY <1>0 DEF AccountsInv, CallsTrue, SaveTrue, SoundAgent
<1>2. /\ a \notin DOMAIN agents /\ AgentsOfEmail(row.email) = {}
      /\ agents' = Put(agents, a, row) /\ Saved(c)
      /\ UNCHANGED <<superAdmins, sites, aiEnabled, audit, auth, tokens, login, keys, ops, revoked, dirty>>
  BY DEF InsertAgent
<1> HIDE DEF a, row
<1>3. IsTable(agents', AgentIDs, AgentRow)
  BY <1>0, <1>1, <1>2, PutType DEF AccountsTypeOK
<1>4. /\ DOMAIN agents' = DOMAIN agents \cup {a} /\ agents'[a] = row
      /\ \A b \in DOMAIN agents : agents'[b] = agents[b]
  BY <1>2 DEF Put
<1>5. AccountsTypeOK'
  BY <1>0, <1>2, <1>3, SavedCall DEF AccountsTypeOK
<1>6. CallsTrue' /\ SavesTrue'
  <2> DEFINE k == [pc |-> "audit", change |-> call[c].change]
  <2>1. k.pc = "audit" /\ k.change \in done' /\ call' = [call EXCEPT ![c] = k] /\ done \subseteq done'
    BY <1>0, <1>2, SavedCall
  <2> HIDE DEF k
  <2> QED BY <1>0, <1>2, <1>4, <2>1, CallsKept DEF AccountsInv
<1>7. DirectoryTrue'
  <2>1. \A b \in DOMAIN agents' : SoundAgent(agents[b])'
    BY <1>1, <1>2, <1>4 DEF AccountsInv, DirectoryTrue, SoundAgent
  <2>2. \A b, d \in DOMAIN agents' : agents'[b].email = agents'[d].email => b = d
    BY <1>2, <1>4 DEF AccountsInv, DirectoryTrue, AgentsOfEmail
  <2> QED BY <1>2, <2>1, <2>2 DEF AccountsInv, DirectoryTrue
<1>8. Claims' = Claims
  BY <1>2 DEF Claims
<1>9. SessionsTrue'
  <2>1. \A t : TokenTrue(t) => TokenTrue(t)'
    BY <1>2, <1>4 DEF TokenTrue, Version
  <2>2. \A t : RevokedTrue(t) => RevokedTrue(t)'
    BY <1>2, <1>4 DEF RevokedTrue, Version
  <2> QED BY <1>2, <1>8, <2>1, <2>2 DEF AccountsInv, SessionsTrue
<1>10. ChangesTrue'
  BY <1>0, <1>2, SavedCall, ChangesKept
<1> QED BY <1>5, <1>6, <1>7, <1>9, <1>10 DEF AccountsInv

\* An agent's row is written over the one in the table.
LEMMA SaveAgentStep ==
  ASSUME AccountsInv, NEW c \in AdminCalls, SaveAgent(c)
  PROVE  AccountsInv'
<1> DEFINE a == call[c].change.target
<1> DEFINE row == call[c].row
<1> DEFINE revokes == Revokes(call[c].change.action, call[c].row)
<1>0. AccountsTypeOK /\ call[c].pc = "save" /\ call[c].change.action \in AgentActions \ {"agent.create"}
  <2>1. call[c].change.action \in Actions
    BY CallFields DEF AccountsInv, SaveAgent, Change
  <2> QED BY <2>1 DEF AccountsInv, SaveAgent, AgentActions
<1>1. a \in DOMAIN agents /\ a \in AgentIDs /\ SoundAgent(row) /\ row \in AgentRow /\ row.email = agents[a].email
  BY <1>0 DEF AccountsInv, CallsTrue, SaveTrue, SoundAgent
<1>2. /\ agents' = Put(agents, a, row) /\ Saved(c)
      /\ revoked' = RevokedBy(call[c].change.action, a, row)
      /\ UNCHANGED <<superAdmins, sites, aiEnabled, audit, auth, tokens, login, keys, ops, dirty>>
  BY DEF SaveAgent
<1>3. Pending(c, a)
  BY <1>0 DEF Pending
<1>4. a \notin dirty => Follows(agents[a], row, revokes)
  BY <1>0 DEF AccountsInv, SavesTrue
<1>5. revoked' = revoked \cup (IF revokes THEN {t \in tokens : t.role = "agent" /\ t.id = a} ELSE {})
  BY <1>2 DEF RevokedBy
<1> HIDE DEF a, row, revokes
<1>6. IsTable(agents', AgentIDs, AgentRow)
  BY <1>0, <1>1, <1>2, PutType DEF AccountsTypeOK
<1>7. /\ DOMAIN agents' = DOMAIN agents /\ agents'[a] = row
      /\ \A b \in DOMAIN agents : b # a => agents'[b] = agents[b]
  BY <1>1, <1>2 DEF Put
<1>8. AccountsTypeOK'
  <2>1. revoked' \subseteq Token
    BY <1>0, <1>5 DEF AccountsTypeOK
  <2> QED BY <1>0, <1>2, <1>6, <2>1, SavedCall DEF AccountsTypeOK
<1>9. CallsTrue' /\ SavesTrue'
  <2> DEFINE k == [pc |-> "audit", change |-> call[c].change]
  <2>1. k.pc = "audit" /\ k.change \in done' /\ call' = [call EXCEPT ![c] = k] /\ done \subseteq done'
    BY <1>0, <1>2, SavedCall
  <2>2. \A b \in DOMAIN agents :
           /\ b \in DOMAIN agents' /\ agents'[b].email = agents[b].email
           /\ agents'[b] = agents[b] \/ Pending(c, b)
    BY <1>1, <1>3, <1>7
  <2> HIDE DEF k
  <2> QED BY <1>0, <1>2, <2>1, <2>2, CallsKept DEF AccountsInv
<1>10. DirectoryTrue'
  <2>1. \A b \in DOMAIN agents' : SoundAgent(agents[b])'
    BY <1>1, <1>2, <1>7 DEF AccountsInv, DirectoryTrue, SoundAgent
  <2>2. \A b \in DOMAIN agents : agents'[b].email = agents[b].email
    BY <1>1, <1>7
  <2>3. \A b, d \in DOMAIN agents' : agents'[b].email = agents'[d].email => b = d
    BY <1>7, <2>2 DEF AccountsInv, DirectoryTrue
  <2> QED BY <1>2, <2>1, <2>3 DEF AccountsInv, DirectoryTrue
<1>11. Claims' = Claims
  BY <1>2 DEF Claims
<1>12. SessionsTrue'
  <2>0. Version(agents[a]) \in Nat /\ Version(row) \in Nat
    <3>1. agents[a].version \in Nat /\ row.version \in Nat
      BY <1>0, <1>1 DEF AccountsTypeOK, IsTable, AgentRow
    <3> QED BY <3>1, Versions DEF Version
  <2>1. \A t \in Token : Version(t) \in Nat
    BY Versions DEF Token, Version
  <2>2. ASSUME NEW t \in Token, TokenTrue(t) PROVE TokenTrue(t)'
    <3>1. CASE t.role = "agent" /\ t.id = a /\ a \notin dirty
      <4>1. Version(t) <= Version(agents[a]) /\ (Version(t) = Version(agents[a]) => t.password = agents[a].password)
        BY <2>2, <3>1 DEF TokenTrue
      <4>2. Version(t) <= Version(row) /\ (Version(t) = Version(row) => t.password = row.password)
        BY <1>4, <2>0, <2>1, <3>1, <4>1 DEF Follows
      <4> QED BY <1>1, <1>7, <3>1, <4>2 DEF TokenTrue, Version
    <3>2. CASE ~(t.role = "agent" /\ t.id = a /\ a \notin dirty)
      BY <1>2, <1>7, <2>2, <3>2 DEF TokenTrue, Version
    <3> QED BY <3>1, <3>2
  <2>3. ASSUME NEW t \in Token, RevokedTrue(t) PROVE RevokedTrue(t)'
    <3>1. CASE t.id = a /\ a \notin dirty
      <4>1. Version(t) < Version(row)
        BY <1>4, <2>0, <2>1, <2>3, <3>1 DEF RevokedTrue, Follows
      <4> QED BY <1>1, <1>7, <2>3, <3>1, <4>1 DEF RevokedTrue, Version
    <3>2. CASE ~(t.id = a /\ a \notin dirty)
      BY <1>2, <1>7, <2>3, <3>2 DEF RevokedTrue, Version
    <3> QED BY <3>1, <3>2
  <2>4. ASSUME NEW t \in tokens, revokes, t.role = "agent", t.id = a PROVE RevokedTrue(t)'
    <3>1. t \in Token /\ TokenTrue(t)
      BY <1>0 DEF AccountsTypeOK, AccountsInv, SessionsTrue
    <3>2. a \notin dirty => Version(t) < Version(row)
      BY <1>4, <2>0, <2>1, <2>4, <3>1 DEF TokenTrue, Follows
    <3> QED BY <1>1, <1>2, <1>7, <2>4, <3>2 DEF RevokedTrue, Version
  <2>5. tokens \subseteq Token /\ revoked \subseteq Token /\ Claims \subseteq Token
    BY <1>0, CallFields DEF AccountsTypeOK, Claims
  <2>6. \A t \in tokens' : TokenTrue(t)'
    BY <1>2, <2>2, <2>5 DEF AccountsInv, SessionsTrue
  <2>7. \A t \in Claims' : TokenTrue(t)'
    BY <1>11, <2>2, <2>5 DEF AccountsInv, SessionsTrue
  <2>8. \A t \in revoked' : RevokedTrue(t)'
    BY <1>5, <2>3, <2>4, <2>5 DEF AccountsInv, SessionsTrue
  <2> QED BY <2>6, <2>7, <2>8 DEF SessionsTrue
<1>13. ChangesTrue'
  BY <1>0, <1>2, SavedCall, ChangesKept
<1> QED BY <1>8, <1>9, <1>10, <1>12, <1>13 DEF AccountsInv

-----------------------------------------------------------------------------
(* The theorems about accounts *)

\* The sites at the start are numbered from 1.
LEMMA SitesNumbered ==
  ASSUME NEW S, S = {Staff[a].site : a \in DOMAIN Staff}
  PROVE  /\ Cardinality(S) \in Nat
         /\ (CHOOSE f \in Injection(S, 1..Cardinality(S)) : TRUE) \in [S -> 1..Cardinality(S)]
<1> DEFINE f == [a \in DOMAIN Staff |-> Staff[a].site]
<1>1. f \in Surjection(DOMAIN Staff, S)
  BY DEF Surjection
<1>2. IsFiniteSet(S)
  <2> HIDE DEF f
  <2> QED BY <1>1, AccountsAssumption, FS_Surjection
<1>3. Cardinality(S) \in Nat /\ ExistsBijection(S, 1..Cardinality(S))
  BY <1>2, FS_CardinalityType, Fun_ExistsBijSymmetric
<1>4. Injection(S, 1..Cardinality(S)) # {}
  BY <1>3 DEF ExistsBijection, Bijection
<1> QED BY <1>3, <1>4 DEF Injection

\* The deployment the system starts with.
LEMMA AccountsInitInv == AccountsInit => AccountsInv
<1> SUFFICES ASSUME AccountsInit PROVE AccountsInv
  OBVIOUS
<1> DEFINE S == {Staff[a].site : a \in DOMAIN Staff}
<1> DEFINE number == CHOOSE f \in Injection(S, 1..Cardinality(S)) : TRUE
<1>1. PICK p \in Passwords \ WeakPasswords :
         agents = [a \in DOMAIN Staff |->
                     [status |-> "active", email |-> Staff[a].email, site |-> Staff[a].site,
                      password |-> p, version |-> 1]]
  BY DEF AccountsInit, Deployed
<1>2. PICK home \in Injection(S, Domains) :
         sites = [s \in S |-> [status |-> "active", key |-> number[s], domains |-> {home[s]}]]
  BY DEF AccountsInit, Deployed
<1>3. /\ superAdmins = << >> /\ aiEnabled = {} /\ audit = << >> /\ tokens = {} /\ keys = Cardinality(S)
      /\ call = [c \in AdminCalls |-> NotCalled] /\ login = [l \in Logins |-> NotCalled]
      /\ ops = 0 /\ done = {} /\ revoked = {} /\ dirty = {}
      /\ auth \in [pc : {"down"}, password : Passwords]
  BY DEF AccountsInit, Deployed
<1>4. Cardinality(S) \in Nat /\ number \in [S -> 1..Cardinality(S)]
  BY SitesNumbered
<1> HIDE DEF number
<1>5. home \in [S -> Domains] /\ \A s, o \in S : home[s] = home[o] => s = o
  BY DEF Injection, IsInjective
<1>6. S \subseteq SiteIDs
  BY AccountsAssumption
<1>7. \A a \in DOMAIN Staff : Staff[a].site \in S
  OBVIOUS
<1> HIDE DEF S
<1>8. DOMAIN sites = S /\ \A s \in S : number[s] \in Nat /\ home[s] \in Domains
  BY <1>2, <1>4, <1>5
<1>9. IsTable(sites, SiteIDs, SiteRow)
  BY <1>2, <1>6, <1>8 DEF IsTable, SiteRow, SiteStatuses
<1>10. DOMAIN agents \subseteq AgentIDs /\ \A a \in DOMAIN agents : SoundAgent(agents[a])
  BY <1>1, <1>7, <1>8, AccountsAssumption DEF SoundAgent, AgentRow, AgentStatuses
<1>11. AccountsTypeOK
  <2>1. IsTable(agents, AgentIDs, AgentRow)
    BY <1>10 DEF IsTable, SoundAgent
  <2>2. IsTable(superAdmins, {RootEmail}, SuperAdminRow) /\ audit \in Seq(Change)
    BY <1>3 DEF IsTable
  <2>3. call \in [AdminCalls -> AdminCall] /\ login \in [Logins -> LoginCall]
    BY <1>3 DEF AdminCall, LoginCall
  <2>4. auth \in AuthProcess
    BY <1>3 DEF AuthProcess
  <2>5. ops \in 0..MaxOps
    BY <1>3, AccountsAssumption
  <2> QED BY <1>3, <1>4, <1>9, <2>1, <2>2, <2>3, <2>4, <2>5 DEF AccountsTypeOK
<1>12. NotCalled.pc = "idle"
  BY DEF NotCalled
<1>13. CallsTrue /\ SavesTrue
  BY <1>3, <1>12 DEF CallsTrue, SavesTrue
<1>14. DirectoryTrue
  <2>1. \A s, o \in DOMAIN sites : s # o => sites[s].domains \cap sites[o].domains = {}
    BY <1>2, <1>5, <1>8
  <2>2. \A a, b \in DOMAIN agents : agents[a].email = agents[b].email => a = b
    BY <1>1, AccountsAssumption
  <2>3. \A e \in DOMAIN superAdmins : superAdmins[e].password \notin WeakPasswords
    BY <1>3
  <2>4. auth.pc # "ensure"
    BY <1>3
  <2> QED BY <1>3, <1>10, <2>1, <2>2, <2>3, <2>4 DEF DirectoryTrue
<1>15. SessionsTrue /\ ChangesTrue
  BY <1>3 DEF SessionsTrue, Claims, ChangesTrue, Range
<1> QED BY <1>11, <1>13, <1>14, <1>15 DEF AccountsInv

\* Every step keeps the invariant.
LEMMA AccountsNextInv == AccountsInv /\ [AccountsNext]_accountVars => AccountsInv'
<1> SUFFICES ASSUME AccountsInv, [AccountsNext]_accountVars PROVE AccountsInv'
  OBVIOUS
<1>1. CASE UNCHANGED accountVars
  <2>1. /\ UNCHANGED <<tables, call, done, dirty, auth, login, keys, ops>> /\ revoked' = revoked
        /\ tokens' = tokens /\ agents' = agents
    BY <1>1 DEF accountVars, tables
  <2>2. AccountsTypeOK'
    BY <2>1 DEF AccountsInv, AccountsTypeOK, tables
  <2>3. Claims' = Claims
    BY <2>1 DEF Claims
  <2>4. SessionsTrue'
    BY <2>1, <2>3, SessionsKept DEF AccountsInv
  <2> QED BY <2>1, <2>2, <2>4, TablesKept DEF AccountsInv, DirectoryTrue
<1>2. CASE Session
  BY <1>2, IssueTokenStep, LoginReadStep, TokenExpiresStep DEF Session
<1>3. CASE AuthStart
  BY <1>3, EnsureReadStep, EnsureSaveStep, AuthStopsStep DEF AuthStart
<1>4. ASSUME NEW c \in AdminCalls, Finish(c) PROVE AccountsInv'
  BY <1>4, InsertAgentStep, SaveAgentStep, SaveSiteStep, CallOverSteps DEF Finish
<1>5. ASSUME NEW c \in AdminCalls, NEW t \in tokens, NEW s \in SiteIDs, SiteCall(c, t, s) PROVE AccountsInv'
  BY <1>5, SiteReadSteps, UpdateSiteAIConfigStep DEF SiteCall
<1>6. ASSUME NEW c \in AdminCalls, NEW t \in tokens, NEW a \in AgentIDs, AgentCall(c, t, a) PROVE AccountsInv'
  BY <1>6, AgentReadSteps
<1> QED BY <1>1, <1>2, <1>3, <1>4, <1>5, <1>6 DEF AccountsNext

\* The invariant holds in every state.
LEMMA AccountsInvariant == AccountsSpec => []AccountsInv
  BY AccountsInitInv, AccountsNextInv, PTL DEF AccountsSpec

(* The audit log records no change that was not made, and only those who   *)
(* are entitled to it have made a change, through whichever endpoint.      *)
THEOREM ChangesSafe == AccountsSpec => []ChangesAccountable
<1>1. AccountsInv => ChangesAccountable
  BY DEF AccountsInv, ChangesTrue, ChangesAccountable, Entitled
<1> QED BY <1>1, AccountsInvariant, PTL

(* A logout, a password reset or a disabling is final for the sessions     *)
(* that existed when it was saved, and an agent's session was obtained     *)
(* with the password the account has now, unless calls overlapped on the   *)
(* agent.                                                                  *)
THEOREM SessionsSafe == AccountsSpec => []SessionsCurrent
<1>1. AccountsInv => SessionsCurrent
  <2> SUFFICES ASSUME AccountsInv PROVE SessionsCurrent
    OBVIOUS
  <2>1. \A t : t.role = "agent" /\ Accepted(t) => Version(agents[t.id]) = Version(t)
    BY DEF Accepted, SessionStands, Version
  <2>2. ASSUME NEW t \in revoked, Accepted(t) \/ HttpMe(t) \/ GatewayMe(t) \/ MayList(t)
        PROVE  t.id \in dirty
    <3>1. t \in Token /\ RevokedTrue(t)
      BY DEF AccountsInv, AccountsTypeOK, SessionsTrue
    <3>2. Accepted(t)
      BY <2>2, <3>1 DEF HttpMe, GatewayMe, GrpcMe, RevokedTrue, MayList, GrpcListSites, GrpcListAgents,
         GrpcListAuditLogs, HttpListSites, HttpListAgents, HttpListAuditLogs, GatewayListAgents,
         GatewayListAuditLogs, GatewayGetAIConfig, GatewayReload, RequireAdmin, RequireAdminHTTP, RequireAdminActor
    <3>3. Version(t) \in Nat
      BY <3>1, Versions DEF Token, Version
    <3> QED BY <2>1, <3>1, <3>2, <3>3 DEF RevokedTrue
  <2>3. \A t \in tokens :
           t.role = "agent" /\ Accepted(t) /\ t.id \notin dirty => t.password = agents[t.id].password
    BY <2>1 DEF AccountsInv, SessionsTrue, TokenTrue
  <2> QED BY <2>2, <2>3 DEF SessionsCurrent
<1> QED BY <1>1, AccountsInvariant, PTL

(* The tables agree with each other, after concurrent creations, renamings *)
(* and stale saves too.                                                    *)
THEOREM DirectorySafe == AccountsSpec => []DirectoryConsistent
<1>1. AccountsInv => DirectoryConsistent
  <2> SUFFICES ASSUME AccountsInv PROVE DirectoryConsistent
    OBVIOUS
  <2>1. ASSUME NEW s \in DOMAIN sites, NEW d \in sites[s].domains
        PROVE  GetSiteByDomain(d) = {ToSitePB(s)}
    <3>1. SitesOfDomain(d) = {s}
      BY DEF SitesOfDomain, AccountsInv, DirectoryTrue
    <3> QED BY <3>1 DEF GetSiteByDomain
  <2>2. \A site \in ListSites : \A d \in site.domains : GetSiteByDomain(d) = {site}
    <3> SUFFICES ASSUME NEW s \in DOMAIN sites, NEW d \in ToSitePB(s).domains
                 PROVE  GetSiteByDomain(d) = {ToSitePB(s)}
      BY DEF ListSites
    <3> QED BY <2>1 DEF ToSitePB
  <2>3. ASSUME NEW a \in DOMAIN agents
        PROVE  /\ GetSiteBySiteID(ToAgentPB(a).site) # {}
               /\ AgentsOfEmail(ToAgentPB(a).email) = {ToAgentPB(a).id} /\ ~SuperAdminFound(ToAgentPB(a).email)
               /\ GetAgentByID(ToAgentPB(a).id) = {ToAgentPB(a)}
               /\ ValidatePasswordPolicy(agents[ToAgentPB(a).id].password)
    <3>1. ToAgentPB(a).site = agents[a].site /\ ToAgentPB(a).email = agents[a].email /\ ToAgentPB(a).id = a
      BY DEF ToAgentPB
    <3>2. SoundAgent(agents[a])
      BY DEF AccountsInv, DirectoryTrue
    <3>3. GetSiteBySiteID(agents[a].site) # {}
      BY <3>2 DEF GetSiteBySiteID, SoundAgent
    <3>4. AgentsOfEmail(agents[a].email) = {a}
      BY DEF AgentsOfEmail, AccountsInv, DirectoryTrue
    <3>5. ~SuperAdminFound(agents[a].email)
      BY <3>2 DEF SoundAgent, SuperAdminFound, AccountsInv, AccountsTypeOK, IsTable
    <3>6. GetAgentByID(a) = {ToAgentPB(a)}
      BY DEF GetAgentByID
    <3>7. ValidatePasswordPolicy(agents[a].password)
      BY <3>2 DEF SoundAgent, ValidatePasswordPolicy
    <3> QED BY <3>1, <3>3, <3>4, <3>5, <3>6, <3>7
  <2>4. \A s \in SiteIDs : GetSiteAIConfig(s).enabled => SiteFound(s)
    BY DEF GetSiteAIConfig, SiteAIConfigEnabled, SiteFound, AccountsInv, DirectoryTrue
  <2>5. \A e \in DOMAIN superAdmins : ValidatePasswordPolicy(superAdmins[e].password)
    BY DEF ValidatePasswordPolicy, AccountsInv, DirectoryTrue
  <2> QED BY <2>2, <2>3, <2>4, <2>5 DEF DirectoryConsistent, ListAgents, AccountsInv
<1> QED BY <1>1, AccountsInvariant, PTL

-----------------------------------------------------------------------------
(* Requests at the gateway: the invariant *)

\* The requests of staff before the caller is known, the requests of a known
\* caller, and those that come with a widget session.
KnownPCs == {"conversation", "site", "target", "call", "latest", "wait", "answered"}
KnownOps == StaffOps \cup VisitorOps \cup SocketOps
StaffCall == [pc : {"actor"}, op : StaffOps, token : Token, arg : Args, late : BOOLEAN, frozen : BOOLEAN]
KnownCall == [pc : KnownPCs, op : KnownOps, by : Caller, arg : Args, late : BOOLEAN, frozen : BOOLEAN]
WidgetCall == [pc : {"widget", "create"}, session : WidgetSession, late : BOOLEAN, frozen : BOOLEAN]

\* An agent is a member of staff, at the site the row has had from the start.
CallerTrue(by) ==
    by \in Caller /\ (by.role = "agent" => by.who \in DOMAIN Staff /\ by.site = Staff[by.who].site)

\* The caller may have to do with the conversation.
Party(by) == IF by.role = "agent" THEN by.who \in SiteAgents ELSE by.who = VisitorToken

\* What the checks have established of a known caller's request in phase p.
Ready(q, p) ==
    /\ p \in {"call", "latest", "wait", "answered", "target"} => Party(q.by)
    /\ p = "site" => Party(q.by) \/ (q.op = "connect" /\ q.by.role = "agent")
    /\ p = "call" /\ q.op = "connect" => \A s \in DOMAIN sites \ {ConvSite} : q.arg \notin sites[s].domains
    /\ p = "call" /\ q.op = "transfer" => q.arg \in SiteAgents
    /\ p = "target" => q.op = "transfer"
    /\ q.op = "read" => q.arg \in VisibleIDs \cup {None}
    /\ q.op = "list" => p \in {"conversation", "call", "answered"}
    /\ q.frozen => p \in {"conversation", "site"} \/ q.op = "list"

StaffTrue(q) ==
    /\ q \in StaffCall
    /\ q.token \in tokens
    /\ q.late => q.token \in revoked
    /\ q.op # "transfer" => q.arg = None
    /\ q.frozen => SiteDisabled

KnownTrue(q) ==
    q \in KnownCall /\ q.late = FALSE /\ CallerTrue(q.by) /\ Ready(q, q.pc) /\ (q.frozen => SiteDisabled)

WidgetTrue(q) ==
    /\ q \in WidgetCall
    /\ q.session.key <= keys
    /\ q.late => q.session.key # sites[ConvSite].key
    /\ q.frozen => SiteDisabled
    /\ q.pc = "create" => q.late = FALSE /\ q.frozen = FALSE

RequestTrue(q) == q = NoRequest \/ StaffTrue(q) \/ KnownTrue(q) \/ WidgetTrue(q)

\* The rows the checks read: nobody changes site, a session that was ended has
\* an older version, a widget key is never drawn again, no domain has two sites.
StaffRowsTrue ==
    /\ DOMAIN agents = DOMAIN Staff
    /\ \A a \in DOMAIN Staff : agents[a] \in AgentRow /\ agents[a].site = Staff[a].site
    /\ tokens \subseteq Token
    /\ \A t \in tokens : t.role = "agent" => t.id \in DOMAIN Staff /\ Version(t) <= Version(agents[t.id])
    /\ \A t \in revoked : t \in Token /\ t.role = "agent" /\ t.id \in DOMAIN Staff /\ Version(t) < Version(agents[t.id])

SiteRowsTrue ==
    /\ ConvSite \in DOMAIN sites
    /\ IsTable(sites, SiteIDs, SiteRow)
    /\ keys \in Nat
    /\ \A s \in DOMAIN sites : sites[s].key <= keys
    /\ \A s \in DOMAIN sites \ {ConvSite} : sites[s].domains \cap sites[ConvSite].domains = {}
    /\ sessions \subseteq WidgetSession
    /\ \A ws \in sessions : ws.key <= keys

\* Whoever the conversation names is one of its parties.
ConvTrue ==
    /\ conv.assigned \in SiteAgents \cup {None}
    /\ conv.pendingTo \in SiteAgents \cup {None}
    /\ conv.pendingFrom \in SiteAgents \cup {None}
    /\ conv.closedBy \in SiteAgents \cup {None}

Authors == SiteAgents \cup {VisitorToken, None}

AuthorsTrue ==
    /\ \A i \in DOMAIN messages : messages[i].by \in Authors
    /\ \A g \in Requests : req[g].by \in Authors

ConnsTrue == \A ctx \in conns : CallerTrue(ctx) /\ Party(ctx)

RequestsTrue == greq \in [Requests -> Request] /\ \A g \in Requests : RequestTrue(greq[g])

GatewayInv == StaffRowsTrue /\ SiteRowsTrue /\ ConvTrue /\ AuthorsTrue /\ ConnsTrue /\ RequestsTrue

-----------------------------------------------------------------------------
(* Requests at the gateway: records *)

\* The phase tells what kind of record a request is.
LEMMA PhaseTells ==
  ASSUME NEW q, RequestTrue(q)
  PROVE  /\ NoRequest.pc = "idle"
         /\ q.pc = "actor" => StaffTrue(q)
         /\ q.pc \in KnownPCs => KnownTrue(q)
         /\ q.pc \in {"widget", "create"} => WidgetTrue(q)
         /\ q \in Request
<1>1. NoRequest.pc = "idle"
  BY DEF NoRequest
<1>2. q \in StaffCall => q.pc = "actor"
  BY DEF StaffCall
<1>3. q \in KnownCall => q.pc \in KnownPCs
  BY DEF KnownCall
<1>4. q \in WidgetCall => q.pc \in {"widget", "create"}
  BY DEF WidgetCall
<1>5. "actor" \notin KnownPCs /\ "widget" \notin KnownPCs /\ "create" \notin KnownPCs /\ "idle" \notin KnownPCs
  BY DEF KnownPCs
<1>6. q \in StaffCall \/ q \in KnownCall \/ q \in WidgetCall \/ q = NoRequest => q \in Request
  BY DEF Request, StaffCall, KnownCall, WidgetCall, KnownPCs, KnownOps
<1>7. q = NoRequest \/ (StaffTrue(q) /\ q \in StaffCall) \/ (KnownTrue(q) /\ q \in KnownCall)
        \/ (WidgetTrue(q) /\ q \in WidgetCall)
  BY DEF RequestTrue, StaffTrue, KnownTrue, WidgetTrue
<1> QED BY <1>1, <1>2, <1>3, <1>4, <1>5, <1>6, <1>7

\* The changes made to the record of a known caller.
LEMMA KnownMoves ==
  ASSUME NEW q \in KnownCall
  PROVE  /\ \A p \in KnownPCs :
               /\ [q EXCEPT !.pc = p] \in KnownCall
               /\ [q EXCEPT !.pc = p].pc = p /\ [q EXCEPT !.pc = p].op = q.op
               /\ [q EXCEPT !.pc = p].by = q.by /\ [q EXCEPT !.pc = p].arg = q.arg
               /\ [q EXCEPT !.pc = p].late = q.late /\ [q EXCEPT !.pc = p].frozen = q.frozen
         /\ [q EXCEPT !.frozen = FALSE] \in KnownCall
         /\ [q EXCEPT !.frozen = FALSE].pc = q.pc /\ [q EXCEPT !.frozen = FALSE].op = q.op
         /\ [q EXCEPT !.frozen = FALSE].by = q.by /\ [q EXCEPT !.frozen = FALSE].arg = q.arg
         /\ [q EXCEPT !.frozen = FALSE].late = q.late /\ [q EXCEPT !.frozen = FALSE].frozen = FALSE
  BY DEF KnownCall

\* The changes made to the other two kinds.
LEMMA OtherMoves ==
  /\ \A q \in StaffCall :
        /\ [q EXCEPT !.frozen = FALSE] \in StaffCall
        /\ [q EXCEPT !.frozen = FALSE].frozen = FALSE
        /\ [q EXCEPT !.frozen = FALSE].op = q.op /\ [q EXCEPT !.frozen = FALSE].arg = q.arg
        /\ [q EXCEPT !.frozen = FALSE].token = q.token /\ [q EXCEPT !.frozen = FALSE].late = q.late
  /\ \A q \in WidgetCall :
        /\ [q EXCEPT !.frozen = FALSE] \in WidgetCall
        /\ [q EXCEPT !.frozen = FALSE].frozen = FALSE /\ [q EXCEPT !.frozen = FALSE].pc = q.pc
        /\ [q EXCEPT !.frozen = FALSE].session = q.session /\ [q EXCEPT !.frozen = FALSE].late = q.late
        /\ [q EXCEPT !.pc = "create"] \in WidgetCall
        /\ [q EXCEPT !.pc = "create"].pc = "create" /\ [q EXCEPT !.pc = "create"].session = q.session
        /\ [q EXCEPT !.pc = "create"].late = q.late /\ [q EXCEPT !.pc = "create"].frozen = q.frozen
  BY DEF StaffCall, WidgetCall

\* What is true of a request stays true while the rows it depends on stay.
LEMMA RequestStays ==
  ASSUME sites' = sites, tokens' = tokens, revoked' = revoked, keys' = keys, VisibleIDs \subseteq VisibleIDs',
         NEW x, RequestTrue(x)
  PROVE  RequestTrue(x)'
<1>1. StaffTrue(x) => StaffTrue(x)'
  BY DEF StaffTrue, SiteDisabled
<1>2. \A p : Ready(x, p) => Ready(x, p)'
  BY DEF Ready
<1>3. KnownTrue(x) => KnownTrue(x)'
  BY <1>2 DEF KnownTrue, SiteDisabled
<1>4. WidgetTrue(x) => WidgetTrue(x)'
  BY DEF WidgetTrue, SiteDisabled
<1> QED BY <1>1, <1>3, <1>4 DEF RequestTrue

\* What a step leaves alone, besides the record of one request.
LEMMA RequestsKept ==
  ASSUME RequestsTrue, NEW g \in Requests, NEW q, greq' = [greq EXCEPT ![g] = q], RequestTrue(q)',
         sites' = sites, tokens' = tokens, revoked' = revoked, keys' = keys, VisibleIDs \subseteq VisibleIDs'
  PROVE  RequestsTrue'
<1>1. \A x : RequestTrue(x) => RequestTrue(x)'
  BY RequestStays
<1>2. \A h \in Requests : greq'[h] = IF h = g THEN q ELSE greq[h]
  BY DEF RequestsTrue
<1>3. q \in Request
  BY PhaseTells DEF RequestTrue, StaffTrue, KnownTrue, WidgetTrue, Request, StaffCall, KnownCall, WidgetCall, KnownPCs, KnownOps
<1>4. greq' \in [Requests -> Request]
  BY <1>3 DEF RequestsTrue
<1>5. ASSUME NEW h \in Requests PROVE RequestTrue(greq[h])'
  <2>1. CASE h = g
    BY <1>2, <2>1
  <2>2. CASE h # g
    <3>1. RequestTrue(greq[h])
      BY DEF RequestsTrue
    <3>2. greq'[h] = greq[h]
      BY <1>2, <2>2
    <3>3. PICK x : x = greq[h]
      OBVIOUS
    <3>4. RequestTrue(x)'
      BY <1>1, <3>1, <3>3
    <3> QED BY <3>2, <3>3, <3>4
  <2> QED BY <2>1, <2>2
<1> QED BY <1>4, <1>5 DEF RequestsTrue

\* Ending a request is always possible.
LEMMA EndKeeps ==
  ASSUME RequestsTrue, NEW g \in Requests, End(g),
         sites' = sites, tokens' = tokens, revoked' = revoked, keys' = keys, VisibleIDs \subseteq VisibleIDs'
  PROVE  RequestsTrue'
<1>1. RequestTrue(NoRequest)'
  BY DEF RequestTrue
<1> QED BY <1>1, RequestsKept DEF End

\* A known caller's request goes on to phase p, when what that phase needs holds.
LEMMA MoveKeeps ==
  ASSUME RequestsTrue, NEW g \in Requests, NEW p \in KnownPCs, Move(g, p), KnownTrue(greq[g]),
         Ready(greq[g], p),
         sites' = sites, tokens' = tokens, revoked' = revoked, keys' = keys, VisibleIDs \subseteq VisibleIDs'
  PROVE  RequestsTrue'
<1>0. PICK q, n : q = greq[g] /\ n = [q EXCEPT !.pc = p]
  OBVIOUS
<1>1. greq' = [greq EXCEPT ![g] = n]
  BY <1>0 DEF Move, RequestsTrue
<1>2. q \in KnownCall
  BY <1>0 DEF KnownTrue
<1>3. /\ n \in KnownCall /\ n.pc = p /\ n.op = q.op /\ n.by = q.by /\ n.arg = q.arg
      /\ n.late = q.late /\ n.frozen = q.frozen
  BY <1>0, <1>2, KnownMoves
<1>4. Ready(q, p) /\ KnownTrue(q)
  BY <1>0
<1>5. Ready(n, p)'
  BY <1>3, <1>4 DEF Ready
<1>6. KnownTrue(n)'
  BY <1>3, <1>4, <1>5 DEF KnownTrue, SiteDisabled
<1>7. RequestTrue(n)'
  BY <1>6 DEF RequestTrue
<1> QED BY <1>1, <1>7, RequestsKept

-----------------------------------------------------------------------------
(* Requests at the gateway: arrival and checks *)

\* A step that does not change the accounts.
LEMMA AccountsUntouched ==
  ASSUME UNCHANGED accountVars
  PROVE  agents' = agents /\ sites' = sites /\ tokens' = tokens /\ revoked' = revoked /\ keys' = keys
  BY DEF accountVars, tables

\* Nor the conversation.
LEMMA ChatUntouched ==
  ASSUME UNCHANGED vars
  PROVE  conv' = conv /\ messages' = messages /\ req' = req /\ VisibleIDs' = VisibleIDs
  BY DEF vars, VisibleIDs, Committed

\* The rows the checks read stay what they are.
LEMMA RowsUntouched ==
  ASSUME StaffRowsTrue, SiteRowsTrue, UNCHANGED <<accountVars, sessions>>
  PROVE  StaffRowsTrue' /\ SiteRowsTrue'
<1>1. agents' = agents /\ sites' = sites /\ tokens' = tokens /\ revoked' = revoked /\ keys' = keys /\ sessions' = sessions
  BY AccountsUntouched
<1> QED BY <1>1 DEF StaffRowsTrue, SiteRowsTrue, Version

\* So do the rows of the conversation.
LEMMA ChatSame ==
  ASSUME ConvTrue, AuthorsTrue, UNCHANGED vars
  PROVE  ConvTrue' /\ AuthorsTrue'
<1>1. conv' = conv /\ messages' = messages /\ req' = req
  BY ChatUntouched
<1> QED BY <1>1 DEF ConvTrue, AuthorsTrue

\* A step of the checks changes one request.
LEMMA OnlyRequest ==
  ASSUME GatewayInv, UNCHANGED <<accountVars, vars, conns, sessions>>, RequestsTrue'
  PROVE  GatewayInv'
<1>1. StaffRowsTrue' /\ SiteRowsTrue' /\ ConvTrue' /\ AuthorsTrue'
  BY RowsUntouched, ChatSame DEF GatewayInv
<1>2. ConnsTrue'
  BY DEF GatewayInv, ConnsTrue
<1> QED BY <1>1, <1>2 DEF GatewayInv

\* A step of the checks replaces one request by one that is in order.
LEMMA NewRequest ==
  ASSUME GatewayInv, NEW g \in Requests, NEW q, greq' = [greq EXCEPT ![g] = q], RequestTrue(q),
         UNCHANGED <<accountVars, vars, created, conns, sessions>>
  PROVE  GatewayInv'
<1>1. sites' = sites /\ tokens' = tokens /\ revoked' = revoked /\ keys' = keys /\ VisibleIDs' = VisibleIDs
  BY AccountsUntouched, ChatUntouched
<1>2. RequestTrue(q)'
  BY <1>1 DEF RequestTrue, StaffTrue, KnownTrue, WidgetTrue, Ready, SiteDisabled
<1> QED BY <1>1, <1>2, RequestsKept, OnlyRequest DEF GatewayInv

\* Requests arrive: of staff,
LEMMA StaffRequestStep ==
  ASSUME GatewayInv, NEW g \in Requests, NEW t \in tokens, NEW op \in StaffOps, NEW arg \in Agents \cup {None},
         op # "transfer" => arg = None, StaffRequest(g, op, t, arg)
  PROVE  GatewayInv'
<1>1. PICK q : q = [pc |-> "actor", op |-> op, token |-> t, arg |-> arg,
                    late |-> t \in revoked, frozen |-> SiteDisabled]
  OBVIOUS
<1>2. greq' = [greq EXCEPT ![g] = q] /\ UNCHANGED <<accountVars, vars, created, conns, sessions>>
  BY <1>1 DEF StaffRequest
<1>3. t \in Token /\ arg \in Args
  BY DEF GatewayInv, StaffRowsTrue, Args
<1>4. q \in StaffCall
  BY <1>1, <1>3 DEF StaffCall, SiteDisabled
<1>5. StaffTrue(q)
  BY <1>1, <1>4 DEF StaffTrue
<1> QED BY <1>2, <1>5, NewRequest DEF RequestTrue

\* of a visitor,
LEMMA VisitorRequestStep ==
  ASSUME GatewayInv, NEW g \in Requests, NEW v \in Tokens, NEW op \in VisitorOps, VisitorRequest(g, op, v, None)
  PROVE  GatewayInv'
<1>1. PICK by : by = [role |-> "visitor", who |-> v, site |-> None]
  OBVIOUS
<1>2. PICK q : q = [pc |-> "conversation", op |-> op, arg |-> None, by |-> by, late |-> FALSE, frozen |-> SiteDisabled]
  OBVIOUS
<1>3. greq' = [greq EXCEPT ![g] = q] /\ UNCHANGED <<accountVars, vars, created, conns, sessions>>
  BY <1>1, <1>2 DEF VisitorRequest
<1>4. by \in Caller /\ CallerTrue(by)
  BY <1>1 DEF Caller, CallerTrue
<1>5. q \in KnownCall
  BY <1>2, <1>4 DEF KnownCall, KnownPCs, KnownOps, Args, SiteDisabled
<1>6. Ready(q, q.pc)
  BY <1>2 DEF Ready
<1>7. KnownTrue(q)
  BY <1>2, <1>4, <1>5, <1>6 DEF KnownTrue
<1> QED BY <1>3, <1>7, NewRequest DEF RequestTrue

\* over an open connection,
LEMMA OnSendMessageStep ==
  ASSUME GatewayInv, NEW g \in Requests, NEW ctx \in conns, OnSendMessage(g, ctx)
  PROVE  GatewayInv'
<1>1. PICK q : q = [pc |-> "site", op |-> "send", by |-> ctx, arg |-> None, late |-> FALSE, frozen |-> SiteDisabled]
  OBVIOUS
<1>2. greq' = [greq EXCEPT ![g] = q] /\ UNCHANGED <<accountVars, vars, created, conns, sessions>>
  BY <1>1 DEF OnSendMessage
<1>3. CallerTrue(ctx) /\ Party(ctx) /\ ctx \in Caller
  BY DEF GatewayInv, ConnsTrue, CallerTrue
<1>4. q \in KnownCall
  BY <1>1, <1>3 DEF KnownCall, KnownPCs, KnownOps, SocketOps, Args, SiteDisabled
<1>5. Ready(q, q.pc)
  BY <1>1, <1>3 DEF Ready
<1>6. KnownTrue(q)
  BY <1>1, <1>3, <1>4, <1>5 DEF KnownTrue
<1> QED BY <1>2, <1>6, NewRequest DEF RequestTrue

\* with a widget session.
LEMMA WidgetRequestStep ==
  ASSUME GatewayInv, NEW g \in Requests, NEW ws \in sessions, WidgetRequest(g, ws)
  PROVE  GatewayInv'
<1>1. PICK q : q = [pc |-> "widget", session |-> ws, late |-> ws.key # sites[ConvSite].key, frozen |-> SiteDisabled]
  OBVIOUS
<1>2. greq' = [greq EXCEPT ![g] = q] /\ UNCHANGED <<accountVars, vars, created, conns, sessions>>
  BY <1>1 DEF WidgetRequest
<1>3. ws \in WidgetSession /\ ws.key <= keys
  BY DEF GatewayInv, SiteRowsTrue
<1>4. q \in WidgetCall
  BY <1>1, <1>3 DEF WidgetCall, SiteDisabled
<1>5. WidgetTrue(q)
  BY <1>1, <1>3, <1>4 DEF WidgetTrue
<1> QED BY <1>2, <1>5, NewRequest DEF RequestTrue

\* A session that was ended is not accepted.
LEMMA EndedRefused ==
  ASSUME GatewayInv, NEW t \in revoked
  PROVE  ~Accepted(t)
<1>1. t \in Token /\ t.role = "agent" /\ t.id \in DOMAIN Staff /\ Version(t) < Version(agents[t.id])
  BY DEF GatewayInv, StaffRowsTrue
<1>2. Version(t) \in Nat
  BY <1>1, Versions DEF Token, Version
<1>3. Accepted(t) => Version(t) = Version(agents[t.id])
  BY <1>1 DEF Accepted, SessionStands, Version
<1> QED BY <1>1, <1>2, <1>3

\* requireAgentActor: the caller becomes known.
LEMMA RequireAgentActorStep ==
  ASSUME GatewayInv, NEW g \in Requests, RequireAgentActor(g)
  PROVE  GatewayInv'
<1>1. PICK o : o = greq[g]
  OBVIOUS
<1>2. o.pc = "actor" /\ GrpcMe(o.token) /\ o.token.role = "agent"
  BY <1>1 DEF RequireAgentActor, RealtimeMe
<1>3. StaffTrue(o)
  BY <1>1, <1>2, PhaseTells DEF GatewayInv, RequestsTrue
<1>4. o \in StaffCall /\ o.token \in tokens /\ o.late = FALSE
  <2>1. o \in StaffCall /\ o.token \in tokens /\ (o.late => o.token \in revoked)
    BY <1>3 DEF StaffTrue
  <2>2. o.late \in BOOLEAN
    BY <2>1 DEF StaffCall
  <2> QED BY <1>2, <2>1, <2>2, EndedRefused DEF GrpcMe
<1>5. PICK by : by = [role |-> "agent", who |-> o.token.id, site |-> agents[o.token.id].site]
  OBVIOUS
<1>6. by \in Caller /\ CallerTrue(by)
  <2>1. o.token.id \in DOMAIN Staff
    BY <1>2, <1>4 DEF GatewayInv, StaffRowsTrue
  <2>2. agents[o.token.id].site = Staff[o.token.id].site
    BY <2>1 DEF GatewayInv, StaffRowsTrue
  <2>3. o.token.id \in Agents /\ agents[o.token.id].site \in SiteIDs
    BY <2>1, <2>2, AccountsAssumption, GatewayAssumption
  <2> QED BY <1>5, <2>1, <2>2, <2>3 DEF Caller, CallerTrue
<1>7. PICK q : q = [pc |-> "conversation", op |-> o.op, arg |-> o.arg, by |-> by, late |-> o.late, frozen |-> o.frozen]
  OBVIOUS
<1>8. greq' = [greq EXCEPT ![g] = q] /\ UNCHANGED <<accountVars, vars, created, conns, sessions>>
  BY <1>1, <1>5, <1>7 DEF RequireAgentActor, Me
<1>9. q \in KnownCall
  BY <1>4, <1>6, <1>7 DEF StaffCall, KnownCall, KnownPCs, KnownOps
<1>10. Ready(q, q.pc)
  BY <1>3, <1>7 DEF Ready, StaffTrue
<1>11. KnownTrue(q)
  BY <1>3, <1>4, <1>6, <1>7, <1>9, <1>10 DEF KnownTrue, StaffTrue
<1> QED BY <1>8, <1>11, NewRequest DEF RequestTrue

\* A request of a known caller.
LEMMA KnownRequest ==
  ASSUME GatewayInv, NEW g \in Requests, greq[g].pc \in KnownPCs
  PROVE  /\ KnownTrue(greq[g]) /\ Ready(greq[g], greq[g].pc) /\ CallerTrue(greq[g].by)
         /\ greq[g].by \in Caller /\ greq[g].by.role \in {"agent", "visitor"}
<1>1. KnownTrue(greq[g])
  BY PhaseTells DEF GatewayInv, RequestsTrue
<1>2. greq[g].by \in Caller
  BY <1>1 DEF KnownTrue, CallerTrue
<1> QED BY <1>1, <1>2 DEF KnownTrue, Caller

\* The checks leave what they do not decide.
LEMMA CheckMoves ==
  ASSUME GatewayInv, NEW g \in Requests, NEW p \in KnownPCs, Move(g, p), greq[g].pc \in KnownPCs,
         Ready(greq[g], p),
         UNCHANGED <<accountVars, vars, created, conns, sessions>>
  PROVE  GatewayInv'
<1>1. sites' = sites /\ tokens' = tokens /\ revoked' = revoked /\ keys' = keys /\ VisibleIDs' = VisibleIDs
  BY AccountsUntouched, ChatUntouched
<1>2. KnownTrue(greq[g])
  BY KnownRequest
<1>3. RequestsTrue'
  BY <1>1, <1>2, MoveKeeps DEF GatewayInv
<1> QED BY <1>3, OnlyRequest

\* The conversation's row has to say that the caller is one of its parties.
LEMMA ReadConversationStep ==
  ASSUME GatewayInv, NEW g \in Requests, ReadConversation(g)
  PROVE  GatewayInv'
<1> DEFINE p == IF greq[g].op = "list" THEN "call" ELSE "site"
<1>1. greq[g].pc = "conversation" /\ greq[g].op # "connect" /\ Move(g, p)
      /\ UNCHANGED <<accountVars, vars, created, conns, sessions>>
  BY DEF ReadConversation
<1>2. KnownTrue(greq[g]) /\ CallerTrue(greq[g].by) /\ greq[g].by.role \in {"agent", "visitor"}
  BY <1>1, KnownRequest DEF KnownPCs
<1>3. Party(greq[g].by)
  BY <1>2 DEF ReadConversation, CallerTrue, Party, SiteAgents
<1>4. p \in KnownPCs /\ greq[g].pc \in KnownPCs
  BY <1>1 DEF KnownPCs
<1>5. p \in {"call", "site"} /\ (p = "call" <=> greq[g].op = "list")
  OBVIOUS
<1> HIDE DEF p
<1>6. Ready(greq[g], p)
  BY <1>1, <1>2, <1>3, <1>5 DEF Ready, KnownTrue
<1> QED BY <1>1, <1>4, <1>6, CheckMoves

\* requireActiveConversationSite: a request that is frozen gets no further.
LEMMA RequireActiveSiteStep ==
  ASSUME GatewayInv, NEW g \in Requests, RequireActiveSite(g)
  PROVE  GatewayInv'
<1> DEFINE p == IF greq[g].op = "transfer" THEN "target" ELSE "call"
<1>1. greq[g].pc = "site" /\ greq[g].op \notin SocketOps /\ sites[ConvSite].status = "active" /\ Move(g, p)
      /\ UNCHANGED <<accountVars, vars, created, conns, sessions>>
  BY DEF RequireActiveSite
<1>2. KnownTrue(greq[g]) /\ Ready(greq[g], greq[g].pc)
  BY <1>1, KnownRequest DEF KnownPCs
<1>3. Party(greq[g].by) /\ greq[g].op # "list" /\ greq[g].op # "connect"
  BY <1>1, <1>2 DEF Ready, SocketOps
<1>4. ~greq[g].frozen
  BY <1>1, <1>2 DEF KnownTrue, SiteDisabled
<1>5. p \in KnownPCs /\ greq[g].pc \in KnownPCs
  BY <1>1 DEF KnownPCs
<1>6. p \in {"call", "target"} /\ (p = "target" <=> greq[g].op = "transfer")
  OBVIOUS
<1> HIDE DEF p
<1>7. Ready(greq[g], p)
  BY <1>1, <1>2, <1>3, <1>4, <1>6 DEF Ready
<1> QED BY <1>1, <1>5, <1>7, CheckMoves

\* The target of a transfer is an agent of the site.
LEMMA RequireTargetStep ==
  ASSUME GatewayInv, NEW g \in Requests, RequireTarget(g)
  PROVE  GatewayInv'
<1>1. greq[g].pc = "target" /\ Move(g, "call") /\ greq[g].arg \in DOMAIN agents /\ agents[greq[g].arg].site = ConvSite
      /\ UNCHANGED <<accountVars, vars, created, conns, sessions>>
  BY DEF RequireTarget, AgentFound
<1>2. KnownTrue(greq[g]) /\ Ready(greq[g], greq[g].pc)
  BY <1>1, KnownRequest DEF KnownPCs
<1>3. greq[g].arg \in SiteAgents
  BY <1>1 DEF SiteAgents, GatewayInv, StaffRowsTrue
<1>4. Ready(greq[g], "call")
  BY <1>1, <1>2, <1>3 DEF Ready
<1>5. "call" \in KnownPCs /\ greq[g].pc \in KnownPCs
  BY <1>1 DEF KnownPCs
<1> QED BY <1>1, <1>4, <1>5, CheckMoves

\* A connection: the conversation's row,
LEMMA ResolveConnectionStep ==
  ASSUME GatewayInv, NEW g \in Requests, ResolveConnection(g)
  PROVE  GatewayInv'
<1>1. greq[g].pc = "conversation" /\ greq[g].op = "connect" /\ Move(g, "site")
      /\ UNCHANGED <<accountVars, vars, created, conns, sessions>>
  BY DEF ResolveConnection
<1>2. greq[g].by.role \in {"agent", "visitor"} /\ Ready(greq[g], greq[g].pc)
  BY <1>1, KnownRequest DEF KnownPCs
<1>3. Ready(greq[g], "site")
  BY <1>1, <1>2 DEF ResolveConnection, Ready, Party
<1>4. "site" \in KnownPCs /\ greq[g].pc \in KnownPCs
  BY <1>1 DEF KnownPCs
<1> QED BY <1>1, <1>3, <1>4, CheckMoves

\* then the site, its status and the page: no page is of two sites.
LEMMA ValidateConversationSiteStep ==
  ASSUME GatewayInv, NEW g \in Requests, ValidateConversationSite(g)
  PROVE  GatewayInv'
<1>1. greq[g].pc = "site" /\ sites[ConvSite].status = "active"
      /\ UNCHANGED <<accountVars, vars, created, conns, sessions>>
  BY DEF ValidateConversationSite
<1>2. /\ KnownTrue(greq[g]) /\ Ready(greq[g], greq[g].pc) /\ CallerTrue(greq[g].by)
      /\ greq[g].by.role \in {"agent", "visitor"}
  BY <1>1, KnownRequest DEF KnownPCs
<1>3. ~greq[g].frozen
  BY <1>1, <1>2 DEF KnownTrue, SiteDisabled
<1>4. CASE greq[g].op = "send" /\ Move(g, "call")
  <2>1. Ready(greq[g], "call")
    BY <1>1, <1>2, <1>3, <1>4 DEF Ready
  <2>2. "call" \in KnownPCs /\ greq[g].pc \in KnownPCs
    BY <1>1 DEF KnownPCs
  <2> QED BY <1>1, <1>4, <2>1, <2>2, CheckMoves
<1>5. ASSUME greq[g].op = "connect", greq[g].by.role = "agent" => greq[g].by.site = ConvSite,
             NEW u \in URLs, IsOriginAllowedForConnection(u, greq[g].by),
             greq' = [greq EXCEPT ![g].pc = "call", ![g].arg = u.host]
      PROVE  GatewayInv'
  <2>0. PICK o, q : o = greq[g] /\ q = [o EXCEPT !.pc = "call", !.arg = u.host]
    OBVIOUS
  <2>1. greq' = [greq EXCEPT ![g] = q]
    BY <1>5, <2>0 DEF GatewayInv, RequestsTrue
  <2>2. o \in KnownCall
    BY <1>2, <2>0 DEF KnownTrue
  <2>3. u.host \in Origins /\ u.host \in Args
    BY DEF URLs, Args
  <2>4. /\ q \in KnownCall /\ q.pc = "call" /\ q.op = o.op /\ q.by = o.by /\ q.arg = u.host
        /\ q.late = o.late /\ q.frozen = o.frozen
    BY <2>0, <2>2, <2>3 DEF KnownCall, KnownPCs
  <2>5. Party(o.by)
    BY <1>1, <1>2, <1>5, <2>0 DEF Party, CallerTrue, SiteAgents, Ready
  <2>6. \A s \in DOMAIN sites \ {ConvSite} : u.host \notin sites[s].domains
    <3>0. /\ \A s \in DOMAIN sites : sites[s].domains \subseteq Domains
          /\ ConvSite \in DOMAIN sites
          /\ \A s \in DOMAIN sites \ {ConvSite} : sites[s].domains \cap sites[ConvSite].domains = {}
      BY DEF GatewayInv, SiteRowsTrue, IsTable, SiteRow
    <3>1. u.host \in sites[ConvSite].domains \/ u.host \in AllowedOrigins
      BY <1>5, <3>0, GatewayAssumption
      DEF IsOriginAllowedForConnection, MatchesDomainOfConnection, SiteDomainsOfConnection,
          NormalizeConnectionHost, IsOriginAllowed
    <3> QED BY <3>0, <3>1, GatewayAssumption
  <2>7. Ready(q, q.pc)
    BY <1>3, <1>5, <2>0, <2>4, <2>5, <2>6 DEF Ready
  <2>8. KnownTrue(q)
    BY <1>2, <1>3, <2>0, <2>4, <2>7 DEF KnownTrue
  <2> QED BY <1>1, <2>1, <2>8, NewRequest DEF RequestTrue
<1> QED BY <1>4, <1>5 DEF ValidateConversationSite

\* The widget session is signed with the key the site has.
LEMMA RequireWidgetSessionStep ==
  ASSUME GatewayInv, NEW g \in Requests, RequireWidgetSession(g)
  PROVE  GatewayInv'
<1>0. PICK o, q : o = greq[g] /\ q = [o EXCEPT !.pc = "create"]
  OBVIOUS
<1>1. o.pc = "widget" /\ sites[ConvSite].status = "active" /\ o.session.key = sites[ConvSite].key
      /\ greq' = [greq EXCEPT ![g] = q]
      /\ UNCHANGED <<accountVars, vars, created, conns, sessions>>
  BY <1>0 DEF RequireWidgetSession, Move, GatewayInv, RequestsTrue
<1>2. WidgetTrue(o) /\ o \in WidgetCall
  BY <1>0, <1>1, PhaseTells DEF GatewayInv, RequestsTrue, WidgetTrue
<1>3. /\ q \in WidgetCall /\ q.pc = "create" /\ q.session = o.session
      /\ q.late = o.late /\ q.frozen = o.frozen
  BY <1>0, <1>2, OtherMoves
<1>4. o.late \in BOOLEAN /\ o.frozen \in BOOLEAN
  BY <1>2 DEF WidgetCall
<1>5. o.late = FALSE /\ o.frozen = FALSE
  BY <1>1, <1>2, <1>4 DEF WidgetTrue, SiteDisabled
<1>6. WidgetTrue(q)
  BY <1>2, <1>3, <1>5 DEF WidgetTrue
<1> QED BY <1>1, <1>6, NewRequest DEF RequestTrue

-----------------------------------------------------------------------------
(* Requests at the gateway: operations *)

\* What a call of chat-service does to the rows the gateway depends on.
LEMMA ChatSteps ==
  ASSUME TypeInv, AuthorsTrue, [Next]_vars, \A h \in Requests : req'[h].by \in Authors
  PROVE  AuthorsTrue' /\ VisibleIDs \subseteq VisibleIDs'
<1>1. RowsKept /\ RowsAdded
  BY RowSteps
<1>2. VisibleIDs \subseteq VisibleIDs'
  BY <1>1 DEF RowsKept, VisibleIDs, Committed
<1>3. ASSUME NEW i \in DOMAIN messages' PROVE messages'[i].by \in Authors
  <2>1. CASE i \in DOMAIN messages
    BY <1>1, <2>1 DEF RowsKept, AuthorsTrue
  <2>2. CASE i \notin DOMAIN messages
    <3>1. messages'[i].by = None \/ \E r \in Requests : messages'[i].by = req[r].by
      BY <1>1, <2>2 DEF RowsAdded
    <3> QED BY <3>1 DEF AuthorsTrue, Authors
  <2> QED BY <2>1, <2>2
<1>4. AuthorsTrue'
  BY <1>3 DEF AuthorsTrue, Authors, SiteAgents
<1> QED BY <1>2, <1>4

\* An operation that goes on, ends or stays where it is.
LEMMA OperationKeeps ==
  ASSUME GatewayInv, TypeInv, [Next]_vars, Rest, ConvTrue', \A h \in Requests : req'[h].by \in Authors,
         NEW g \in Requests,
         \/ End(g)
         \/ UNCHANGED greq
         \/ greq[g].pc \in KnownPCs /\ \E p \in KnownPCs : Move(g, p) /\ Ready(greq[g], p)
  PROVE  GatewayInv'
<1>1. /\ agents' = agents /\ sites' = sites /\ tokens' = tokens /\ revoked' = revoked /\ keys' = keys
      /\ conns' = conns
  BY AccountsUntouched DEF Rest
<1>2. AuthorsTrue' /\ VisibleIDs \subseteq VisibleIDs'
  BY ChatSteps DEF GatewayInv
<1>3. StaffRowsTrue' /\ SiteRowsTrue'
  BY RowsUntouched DEF GatewayInv, Rest
<1>4. ConnsTrue'
  BY <1>1 DEF GatewayInv, ConnsTrue
<1>5. RequestsTrue /\ greq \in [Requests -> Request]
  BY DEF GatewayInv, RequestsTrue
<1>6. RequestsTrue'
  <2>1. CASE End(g)
    BY <1>1, <1>2, <1>5, <2>1, EndKeeps
  <2>2. CASE UNCHANGED greq
    <3>1. PICK q : q = greq[g]
      OBVIOUS
    <3>2. greq' = [greq EXCEPT ![g] = q]
      BY <1>5, <2>2, <3>1
    <3>3. RequestTrue(q)
      BY <1>5, <3>1 DEF RequestsTrue
    <3>4. RequestTrue(q)'
      BY <1>1, <1>2, <3>3, RequestStays
    <3> QED BY <1>1, <1>2, <1>5, <3>2, <3>4, RequestsKept
  <2>3. ASSUME greq[g].pc \in KnownPCs, NEW p \in KnownPCs, Move(g, p), Ready(greq[g], p)
        PROVE  RequestsTrue'
    <3>1. KnownTrue(greq[g])
      BY <2>3, KnownRequest
    <3> QED BY <1>1, <1>2, <1>5, <2>3, <3>1, MoveKeeps
  <2> QED BY <2>1, <2>2, <2>3
<1> QED BY <1>2, <1>3, <1>4, <1>6 DEF GatewayInv

\* Who is at the call.
LEMMA AtCall ==
  ASSUME GatewayInv, NEW g \in Requests, NEW op, NEW roles, At(g, op, roles)
  PROVE  /\ greq[g].pc = "call" /\ greq[g].pc \in KnownPCs /\ greq[g].op = op /\ greq[g].by.role \in roles
         /\ Ready(greq[g], "call") /\ CallerTrue(greq[g].by) /\ Party(greq[g].by)
         /\ greq[g].by.who \in Authors
         /\ greq[g].by.role = "agent" => greq[g].by.who \in SiteAgents /\ greq[g].by.who \in Agents
         /\ greq[g].by.role = "visitor" => greq[g].by.who = VisitorToken
         /\ op # "list" => ~greq[g].frozen
<1>1. greq[g].pc = "call" /\ greq[g].pc \in KnownPCs /\ greq[g].op = op /\ greq[g].by.role \in roles
  BY DEF At, KnownPCs
<1>2. /\ Ready(greq[g], "call") /\ CallerTrue(greq[g].by) /\ greq[g].by \in Caller
      /\ greq[g].by.role \in {"agent", "visitor"}
  BY <1>1, KnownRequest
<1>3. Party(greq[g].by) /\ (op # "list" => ~greq[g].frozen)
  BY <1>1, <1>2 DEF Ready
<1>4. greq[g].by.role = "agent" => greq[g].by.who \in SiteAgents /\ greq[g].by.who \in Agents
  BY <1>2, <1>3 DEF Party, Caller
<1> QED BY <1>1, <1>2, <1>3, <1>4 DEF Party, Authors

\* Before and after a call that leaves the row of the conversation alone.
LEMMA ConvSame ==
  ASSUME GatewayInv, conv' = conv
  PROVE  ConvTrue'
  BY DEF GatewayInv, ConvTrue

\* And one that leaves the calls of CreateMessage alone.
LEMMA AuthorsSame ==
  ASSUME GatewayInv, req' = req
  PROVE  \A h \in Requests : req'[h].by \in Authors
  BY DEF GatewayInv, AuthorsTrue

\* Answers show what is there.
LEMMA AnswerSteps ==
  ASSUME GatewayInv, NEW g \in Requests, GetConversation(g) \/ ListMessages(g) \/ ListConversations(g)
  PROVE  GatewayInv' /\ UNCHANGED vars
<1>1. /\ greq[g].pc = "call" /\ Move(g, "answered") /\ UNCHANGED vars
      /\ UNCHANGED <<accountVars, vars, created, conns, sessions>>
      /\ At(g, "get", {"agent", "visitor"}) \/ At(g, "messages", {"agent", "visitor"}) \/ At(g, "list", {"agent"})
  BY DEF GetConversation, ListMessages, ListConversations, Answer, Rest, At
<1>2. Ready(greq[g], "call") /\ greq[g].pc \in KnownPCs /\ greq[g].op \in {"get", "messages", "list"}
  BY <1>1, AtCall
<1>3. Ready(greq[g], "answered") /\ "answered" \in KnownPCs
  BY <1>2 DEF Ready, KnownPCs
<1> QED BY <1>1, <1>2, <1>3, CheckMoves

\* Requests that are over, the first message of a visitor, connections.
LEMMA EndSteps ==
  ASSUME GatewayInv, NEW g \in Requests, Answered(g) \/ RequestFails(g) \/ PostConversation(g)
  PROVE  GatewayInv' /\ UNCHANGED vars
<1>1. End(g) /\ UNCHANGED <<accountVars, vars, conns, sessions>>
  BY DEF Answered, RequestFails, PostConversation
<1>2. sites' = sites /\ tokens' = tokens /\ revoked' = revoked /\ keys' = keys /\ VisibleIDs' = VisibleIDs
  BY <1>1, AccountsUntouched, ChatUntouched
<1>3. RequestsTrue'
  BY <1>1, <1>2, EndKeeps DEF GatewayInv
<1> QED BY <1>1, <1>3, OnlyRequest

\* A connection is opened by one of the parties.
LEMMA ServeWSStep ==
  ASSUME GatewayInv, NEW g \in Requests, ServeWS(g)
  PROVE  GatewayInv' /\ UNCHANGED vars
<1>1. End(g) /\ UNCHANGED <<accountVars, vars, sessions>> /\ conns' = conns \cup {greq[g].by}
  BY DEF ServeWS
<1>2. sites' = sites /\ tokens' = tokens /\ revoked' = revoked /\ keys' = keys /\ VisibleIDs' = VisibleIDs
  BY <1>1, AccountsUntouched, ChatUntouched
<1>3. RequestsTrue'
  BY <1>1, <1>2, EndKeeps DEF GatewayInv
<1>4. CallerTrue(greq[g].by) /\ Party(greq[g].by)
  BY AtCall DEF ServeWS
<1>5. ConnsTrue'
  <2>1. \A c : CallerTrue(c) /\ Party(c) => (CallerTrue(c) /\ Party(c))'
    BY DEF CallerTrue, Party, SiteAgents
  <2>2. \A c \in conns' : CallerTrue(c) /\ Party(c)
    BY <1>1, <1>4 DEF GatewayInv, ConnsTrue
  <2> QED BY <2>2 DEF ConnsTrue
<1>6. StaffRowsTrue' /\ SiteRowsTrue' /\ ConvTrue' /\ AuthorsTrue'
  BY <1>1, RowsUntouched, ChatSame DEF GatewayInv
<1> QED BY <1>1, <1>3, <1>5, <1>6 DEF GatewayInv

\* A connection is closed.
LEMMA CloseWSStep ==
  ASSUME GatewayInv, NEW ctx \in conns, CloseWS(ctx)
  PROVE  GatewayInv' /\ UNCHANGED vars
<1>1. UNCHANGED <<accountVars, vars, greq, sessions>> /\ conns' \subseteq conns
  BY DEF CloseWS
<1>2. sites' = sites /\ tokens' = tokens /\ revoked' = revoked /\ keys' = keys /\ VisibleIDs' = VisibleIDs /\ greq' = greq
  BY <1>1, AccountsUntouched, ChatUntouched
<1>3. RequestsTrue'
  BY <1>2 DEF GatewayInv, RequestsTrue, RequestTrue, StaffTrue, KnownTrue, WidgetTrue, Ready, SiteDisabled
<1>4. StaffRowsTrue' /\ SiteRowsTrue' /\ ConvTrue' /\ AuthorsTrue'
  BY <1>1, RowsUntouched, ChatSame DEF GatewayInv
<1>5. ConnsTrue'
  BY <1>1 DEF GatewayInv, ConnsTrue
<1> QED BY <1>1, <1>3, <1>4, <1>5 DEF GatewayInv

\* sender_type and sender are the caller's.
LEMMA SendStep ==
  ASSUME GatewayInv, TypeInv, NEW g \in Requests, NEW k \in ClientMsgIDs, PostMessage(g, k) \/ SendMessage(g, k)
  PROVE  GatewayInv' /\ Next
<1> DEFINE by == greq[g].by
<1>1. PICK op \in {"message", "send"} : At(g, op, {"agent", "visitor"}) /\ Send(g, k) /\ Rest
  BY DEF PostMessage, SendMessage, Send
<1>2. /\ Ready(greq[g], "call") /\ by.who \in Authors /\ greq[g].pc \in KnownPCs /\ greq[g].op = op
      /\ by.role \in {"agent", "visitor"} /\ CallerTrue(by) /\ ~greq[g].frozen
  BY <1>1, AtCall
<1>3. by.role \in CallerTypes /\ by.who \in SendersOf(by.role)
  <2>1. by.role = "visitor" => by.who \in Tokens
    BY <1>2 DEF CallerTrue, Caller
  <2>2. by.role = "agent" => by.who \in Agents
    BY <1>2 DEF CallerTrue, Caller
  <2> QED BY <1>2, <2>1, <2>2, GatewayAssumption DEF SendersOf
<1>4. CASE CheckMessage(g, by.role, by.who, k) /\ Move(g, "wait")
  <2>1. Next
    BY <1>3, <1>4 DEF Next, CreateMessage
  <2>2. conv' = conv /\ \A h \in Requests : req'[h].by \in Authors
    BY <1>2, <1>4 DEF CheckMessage, TypeInv, TypeOK, GatewayInv, AuthorsTrue
  <2>3. Ready(greq[g], "wait") /\ "wait" \in KnownPCs
    BY <1>2 DEF Ready, KnownPCs
  <2> QED BY <1>1, <1>2, <1>4, <2>1, <2>2, <2>3, ConvSame, OperationKeeps
<1>5. CASE ReuseMessage(g, by.role, by.who, k) /\ End(g)
  <2>1. Next
    BY <1>3, <1>5 DEF Next, CreateMessage
  <2>2. conv' = conv /\ req' = req
    BY <1>5 DEF ReuseMessage
  <2> QED BY <1>1, <1>5, <2>1, <2>2, ConvSame, AuthorsSame, OperationKeeps
<1> QED BY <1>1, <1>4, <1>5 DEF Send

\* The rest of a call of CreateMessage keeps its author or has none.
LEMMA MessageProceedsStep ==
  ASSUME GatewayInv, TypeInv, NEW g \in Requests, MessageProceeds(g)
  PROVE  GatewayInv' /\ Next
<1>0. req \in [Requests -> Call] /\ \A h \in Requests : req[h].by \in Authors
  BY DEF TypeInv, TypeOK, GatewayInv, AuthorsTrue
<1>1. Rest /\ (UNCHANGED greq \/ End(g))
  BY DEF MessageProceeds
<1>2. InsertMessage(g) \/ DuplicateMessage(g) \/ CommitMessage(g) \/ CommitUnacknowledged(g) \/ RollbackMessage(g)
  BY DEF MessageProceeds
<1>3. Next
  BY <1>2 DEF Next, CreateMessage
<1>4. conv' = conv
  BY <1>2 DEF InsertMessage, DuplicateMessage, CommitMessage, CommitUnacknowledged, CommitRow, RollbackMessage
<1>5. req' = [req EXCEPT ![g].phase = "inserted", ![g].msg = Len(messages) + 1] \/ req' = [req EXCEPT ![g] = Idle]
  BY <1>2 DEF InsertMessage, DuplicateMessage, CommitMessage, CommitUnacknowledged, CommitRow, RollbackMessage
<1>6. \A h \in Requests : req'[h].by \in Authors
  <2>1. CASE req' = [req EXCEPT ![g] = Idle]
    BY <1>0, <2>1 DEF Idle, Authors
  <2>2. CASE req' = [req EXCEPT ![g].phase = "inserted", ![g].msg = Len(messages) + 1]
    BY <1>0, <2>2 DEF Call
  <2> QED BY <1>5, <2>1, <2>2
<1> QED BY <1>1, <1>3, <1>4, <1>6, ConvSame, OperationKeeps

\* POST read up to any id, and the read after a claim up to a message that is there.
LEMMA PostReadStep ==
  ASSUME GatewayInv, TypeInv, NEW g \in Requests, PostRead(g)
  PROVE  GatewayInv' /\ Next
<1>1. At(g, "read", {"agent", "visitor"}) /\ End(g) /\ Rest
  BY DEF PostRead
<1>2. /\ greq[g].by.role \in {"agent", "visitor"} /\ greq[g].arg \in VisibleIDs \cup {None}
  BY <1>1, AtCall DEF Ready
<1>3. PICK upTo \in ReportableIDs : MarkMessagesRead(greq[g].by.role, upTo)
  <2>1. VisibleIDs \subseteq ReportableIDs
    BY ConstantsAssumption DEF VisibleIDs, ReportableIDs, TypeInv, TypeOK
  <2> QED BY <1>2, <2>1 DEF PostRead, ChatMarkMessagesRead
<1>4. Next
  BY <1>2, <1>3 DEF Next
<1>5. conv' = conv /\ req' = req
  BY <1>3 DEF MarkMessagesRead
<1> QED BY <1>1, <1>4, <1>5, ConvSame, AuthorsSame, OperationKeeps

\* The gateway's agents are agents to chat-service.
LEMMA AgentCalls ==
  ASSUME GatewayInv, NEW g \in Requests, NEW op, At(g, op, {"agent"})
  PROVE  /\ AsAgent(g) \in Actor /\ AsAgent(g).id \in SiteAgents /\ AsAgent(g).id = greq[g].by.who
         /\ ~IsAdmin(AsAgent(g))
<1>1. greq[g].by.who \in SiteAgents /\ greq[g].by.who \in Agents
  BY AtCall
<1> QED BY <1>1 DEF AsAgent, Actor, IsAdmin

\* The new owner is the caller, an agent of the site.
LEMMA PostClaimStep ==
  ASSUME GatewayInv, TypeInv, NEW g \in Requests, PostClaim(g)
  PROVE  GatewayInv' /\ Next
<1>1. At(g, "claim", {"agent"}) /\ ClaimConversation(greq[g].by.who) /\ Rest /\ Move(g, "latest")
  BY DEF PostClaim, ChatClaimConversation
<1>2. /\ greq[g].by.who \in SiteAgents /\ greq[g].by.who \in Agents /\ Ready(greq[g], "call")
      /\ greq[g].pc \in KnownPCs /\ greq[g].op = "claim"
  BY <1>1, AtCall
<1>3. Next
  BY <1>1, <1>2 DEF Next
<1>4. req' = req
  BY <1>1 DEF ClaimConversation
<1>5. ConvTrue'
  BY <1>1, <1>2 DEF ClaimConversation, GatewayInv, ConvTrue, TypeInv, TypeOK, ConversationRow
<1>6. Ready(greq[g], "latest") /\ "latest" \in KnownPCs
  BY <1>2 DEF Ready, KnownPCs
<1> QED BY <1>1, <1>2, <1>3, <1>4, <1>5, <1>6, AuthorsSame, OperationKeeps

\* The target of a transfer is one.
LEMMA PostTransferStep ==
  ASSUME GatewayInv, TypeInv, NEW g \in Requests, PostTransfer(g)
  PROVE  GatewayInv' /\ Next
<1>1. At(g, "transfer", {"agent"}) /\ TransferConversation(AsAgent(g), greq[g].arg) /\ Rest /\ End(g)
  BY DEF PostTransfer
<1>2. AsAgent(g) \in Actor /\ greq[g].arg \in SiteAgents
  BY <1>1, AtCall, AgentCalls DEF Ready
<1>3. greq[g].arg \in Agents
  BY <1>2, AccountsAssumption, GatewayAssumption DEF SiteAgents
<1>4. Next
  BY <1>1, <1>2, <1>3 DEF Next
<1>5. req' = req
  BY <1>1 DEF TransferConversation
<1>6. ConvTrue'
  BY <1>1, <1>2 DEF TransferConversation, GatewayInv, ConvTrue, TypeInv, TypeOK, ConversationRow
<1> QED BY <1>1, <1>4, <1>5, <1>6, AuthorsSame, OperationKeeps

\* The new owner is the target of the transfer.
LEMMA PostConfirmStep ==
  ASSUME GatewayInv, TypeInv, NEW g \in Requests, PostConfirm(g)
  PROVE  GatewayInv' /\ Next
<1>1. At(g, "confirm", {"agent"}) /\ ConfirmTransferConversation(AsAgent(g)) /\ Rest /\ Move(g, "latest")
  BY DEF PostConfirm
<1>2. AsAgent(g) \in Actor /\ Ready(greq[g], "call") /\ greq[g].pc \in KnownPCs /\ greq[g].op = "confirm"
  BY <1>1, AtCall, AgentCalls
<1>3. Next
  BY <1>1, <1>2 DEF Next
<1>4. req' = req
  BY <1>1 DEF ConfirmTransferConversation
<1>5. ConvTrue'
  BY <1>1 DEF ConfirmTransferConversation, GatewayInv, ConvTrue, TypeInv, TypeOK, ConversationRow
<1>6. Ready(greq[g], "latest") /\ "latest" \in KnownPCs
  BY <1>2 DEF Ready, KnownPCs
<1> QED BY <1>1, <1>2, <1>3, <1>4, <1>5, <1>6, AuthorsSame, OperationKeeps

\* The pending fields are cleared.
LEMMA PostRejectStep ==
  ASSUME GatewayInv, TypeInv, NEW g \in Requests, PostReject(g)
  PROVE  GatewayInv' /\ Next
<1>1. At(g, "reject", {"agent"}) /\ RejectTransferConversation(AsAgent(g)) /\ Rest /\ End(g)
  BY DEF PostReject
<1>2. AsAgent(g) \in Actor
  BY <1>1, AgentCalls
<1>3. Next
  BY <1>1, <1>2 DEF Next
<1>4. req' = req
  BY <1>1 DEF RejectTransferConversation
<1>5. ConvTrue'
  BY <1>1 DEF RejectTransferConversation, GatewayInv, ConvTrue, TypeInv, TypeOK, ConversationRow
<1> QED BY <1>1, <1>3, <1>4, <1>5, AuthorsSame, OperationKeeps

\* The conversation is closed by the caller.
LEMMA PostCloseStep ==
  ASSUME GatewayInv, TypeInv, NEW g \in Requests, PostClose(g)
  PROVE  GatewayInv' /\ Next
<1>1. At(g, "close", {"agent"}) /\ CloseConversation(AsAgent(g)) /\ Rest /\ End(g)
  BY DEF PostClose
<1>2. AsAgent(g) \in Actor /\ AsAgent(g).id \in SiteAgents
  BY <1>1, AgentCalls
<1>3. Next
  BY <1>1, <1>2 DEF Next
<1>4. req' = req
  BY <1>1 DEF CloseConversation
<1>5. ConvTrue'
  BY <1>1, <1>2 DEF CloseConversation, GatewayInv, ConvTrue, TypeInv, TypeOK, ConversationRow
<1> QED BY <1>1, <1>3, <1>4, <1>5, AuthorsSame, OperationKeeps

\* After a claim: the newest message is one of those that are there.
LEMMA TryMarkReadAfterClaimStep ==
  ASSUME GatewayInv, TypeInv, NEW g \in Requests, TryMarkReadAfterClaim(g)
  PROVE  GatewayInv' /\ UNCHANGED vars
<1>1. /\ greq[g].pc = "latest" /\ greq[g].pc \in KnownPCs
      /\ UNCHANGED <<accountVars, vars, created, conns, sessions>>
  BY DEF TryMarkReadAfterClaim, KnownPCs
<1>2. PICK i \in ChatListMessages(1, 0) : greq' = [greq EXCEPT ![g].pc = "call", ![g].op = "read", ![g].arg = i]
  BY DEF TryMarkReadAfterClaim
<1>3. i \in VisibleIDs
  BY <1>2 DEF ChatListMessages, ListByConversation
<1>4. PICK o, q : o = greq[g] /\ q = [o EXCEPT !.pc = "call", !.op = "read", !.arg = i]
  OBVIOUS
<1>5. greq' = [greq EXCEPT ![g] = q]
  BY <1>2, <1>4 DEF GatewayInv, RequestsTrue
<1>6. KnownTrue(o) /\ o \in KnownCall /\ Ready(o, "latest")
  BY <1>1, <1>4, KnownRequest DEF KnownTrue
<1>7. i \in Args
  BY <1>3 DEF VisibleIDs, TypeInv, TypeOK, Args
<1>8. /\ q \in KnownCall /\ q.pc = "call" /\ q.op = "read" /\ q.by = o.by /\ q.arg = i
      /\ q.late = o.late /\ q.frozen = o.frozen
  BY <1>4, <1>6, <1>7 DEF KnownCall, KnownPCs, KnownOps, StaffOps
<1>9. Ready(q, q.pc)
  BY <1>3, <1>6, <1>8 DEF Ready
<1>10. KnownTrue(q)
  BY <1>6, <1>8, <1>9 DEF KnownTrue
<1> QED BY <1>1, <1>5, <1>10, NewRequest DEF RequestTrue

\* Automatic closing: closed by whoever has the conversation.
LEMMA AutoClosesStep ==
  ASSUME GatewayInv, TypeInv, AutoCloses
  PROVE  GatewayInv' /\ Next
<1>1. AutoCloseConversation /\ Rest /\ UNCHANGED greq
  BY DEF AutoCloses, Rest
<1>2. Next
  BY <1>1 DEF Next
<1>3. req' = req /\ conv' = [conv EXCEPT !.status = "closed", !.closedBy = conv.assigned]
  BY <1>1 DEF AutoCloseConversation
<1>4. ConvTrue'
  BY <1>3 DEF GatewayInv, ConvTrue, TypeInv, TypeOK, ConversationRow
<1>5. VisibleIDs \subseteq VisibleIDs' /\ AuthorsTrue'
  BY <1>2, <1>3, AuthorsSame, ChatSteps DEF GatewayInv
<1>6. /\ sites' = sites /\ tokens' = tokens /\ revoked' = revoked /\ keys' = keys /\ conns' = conns
  BY <1>1, AccountsUntouched DEF Rest
<1>7. RequestsTrue'
  <2>1. ASSUME NEW h \in Requests PROVE RequestTrue(greq[h])'
    <3>1. PICK x : x = greq[h] /\ RequestTrue(x)
      BY DEF GatewayInv, RequestsTrue
    <3>2. RequestTrue(x)'
      BY <1>5, <1>6, <3>1, RequestStays
    <3> QED BY <1>1, <3>1, <3>2
  <2> QED BY <1>1, <2>1 DEF GatewayInv, RequestsTrue
<1>8. StaffRowsTrue' /\ SiteRowsTrue' /\ ConnsTrue'
  BY <1>1, <1>6, RowsUntouched DEF GatewayInv, Rest, ConnsTrue
<1> QED BY <1>2, <1>4, <1>5, <1>7, <1>8 DEF GatewayInv

-----------------------------------------------------------------------------
(* Widget sessions and administrators *)

\* Steps that leave the rows of the checks and the requests alone.
LEMMA RequestsSame ==
  ASSUME RequestsTrue, greq' = greq, UNCHANGED <<accountVars, vars>>
  PROVE  RequestsTrue'
<1>1. sites' = sites /\ tokens' = tokens /\ revoked' = revoked /\ keys' = keys /\ VisibleIDs' = VisibleIDs
  BY AccountsUntouched, ChatUntouched
<1>2. ASSUME NEW h \in Requests PROVE RequestTrue(greq[h])'
  <2>1. PICK x : x = greq[h] /\ RequestTrue(x)
    BY DEF RequestsTrue
  <2>2. RequestTrue(x)'
    BY <1>1, <2>1, RequestStays
  <2> QED BY <2>1, <2>2
<1> QED BY <1>2 DEF RequestsTrue

\* A session is signed with a key that has been drawn.
LEMMA SessionSteps ==
  ASSUME GatewayInv, UNCHANGED <<accountVars, vars, created, greq, conns>>,
         \/ \E s \in SiteIDs, parentOrigin, source \in URLs : ServeWidgetApp(s, parentOrigin, source)
         \/ \E ws \in sessions : SessionExpires(ws)
  PROVE  GatewayInv'
<1>1. ASSUME NEW s \in SiteIDs, NEW parentOrigin \in URLs, NEW source \in URLs,
             ServeWidgetApp(s, parentOrigin, source)
      PROVE  SiteRowsTrue'
  <2>1. /\ s \in DOMAIN sites /\ sites[s].key <= keys /\ sites[s].key \in Nat /\ sites[s].domains \subseteq Domains
    BY <1>1 DEF ServeWidgetApp, SiteFound, GatewayInv, SiteRowsTrue, IsTable, SiteRow
  <2>2. PICK ws : ws = IssueWidgetSession(s, parentOrigin) /\ sessions' = sessions \cup {ws}
    BY <1>1 DEF ServeWidgetApp
  <2>3. NormalizeHostLike(parentOrigin) \in Domains
    BY <1>1, <2>1 DEF ServeWidgetApp, ValidateWidgetRequestSource, MatchesAnySiteDomain, AllowedSiteDomains
  <2>4. ws \in WidgetSession /\ ws.key <= keys
    BY <2>1, <2>2, <2>3 DEF IssueWidgetSession, WidgetSession
  <2>5. sites' = sites /\ keys' = keys
    BY AccountsUntouched
  <2> QED BY <2>2, <2>4, <2>5 DEF GatewayInv, SiteRowsTrue
<1>2. ASSUME NEW ws \in sessions, SessionExpires(ws) PROVE SiteRowsTrue'
  <2>1. sites' = sites /\ keys' = keys /\ sessions' \subseteq sessions
    BY <1>2, AccountsUntouched DEF SessionExpires
  <2> QED BY <2>1 DEF GatewayInv, SiteRowsTrue
<1>3. SiteRowsTrue'
  BY <1>1, <1>2
<1>4. StaffRowsTrue' /\ ConvTrue' /\ AuthorsTrue'
  <2>1. agents' = agents /\ tokens' = tokens /\ revoked' = revoked
    BY AccountsUntouched
  <2> QED BY <2>1, ChatSame DEF GatewayInv, StaffRowsTrue, Version
<1>5. ConnsTrue' /\ RequestsTrue'
  BY RequestsSame DEF GatewayInv, ConnsTrue
<1> QED BY <1>3, <1>4, <1>5 DEF GatewayInv

\* A save of a site's row: only the conversation's own, with its key or a new one.
LEMMA SiteRequestRows ==
  ASSUME GatewayInv, NEW t \in tokens, SiteRequest(t), sessions' = sessions, tokens' = tokens
  PROVE  /\ SiteRowsTrue' /\ StaffRowsTrue' /\ revoked' = revoked
         /\ DOMAIN sites' = DOMAIN sites /\ keys <= keys'
         /\ \A s \in DOMAIN sites \ {ConvSite} : sites'[s] = sites[s]
         /\ sites'[ConvSite].key = sites[ConvSite].key \/ sites'[ConvSite].key > keys
<1>1. /\ ConvSite \in DOMAIN sites /\ sites[ConvSite] \in SiteRow /\ keys \in Nat
      /\ DOMAIN sites \subseteq SiteIDs /\ ConvSite \in SiteIDs
      /\ \A s \in DOMAIN sites : sites[s] \in SiteRow /\ sites[s].key <= keys /\ sites[s].key \in Nat
  BY DEF GatewayInv, SiteRowsTrue, IsTable, SiteRow
<1>2. agents' = agents /\ revoked' = revoked
  BY DEF SiteRequest
<1>3. PICK r \in SiteRow :
         /\ sites' = Put(sites, ConvSite, r)
         /\ keys' \in Nat /\ keys <= keys' /\ r.key <= keys'
         /\ r.key = sites[ConvSite].key \/ r.key > keys
         /\ \A s \in DOMAIN sites \ {ConvSite} : sites[s].domains \cap r.domains = {}
  <2>0. \A s \in DOMAIN sites \ {ConvSite} : sites[s].domains \cap sites[ConvSite].domains = {}
    BY DEF GatewayInv, SiteRowsTrue
  <2>1. CASE /\ \E d \in Domains \ sites[ConvSite].domains :
                   /\ DomainsFree(ConvSite, {d})
                   /\ sites' = Put(sites, ConvSite, WithDomains(ConvSite, {d}))
             /\ UNCHANGED keys
    <3>1. PICK d \in Domains : DomainsFree(ConvSite, {d}) /\ sites' = Put(sites, ConvSite, WithDomains(ConvSite, {d}))
      BY <2>1
    <3>2. PICK r : r = WithDomains(ConvSite, {d})
      OBVIOUS
    <3>3. r \in SiteRow /\ r.key = sites[ConvSite].key /\ r.domains = {d}
      BY <1>1, <3>2 DEF WithDomains, SiteRow
    <3>4. \A s \in DOMAIN sites \ {ConvSite} : sites[s].domains \cap r.domains = {}
      BY <3>1, <3>3 DEF DomainsFree
    <3>5. sites' = Put(sites, ConvSite, r) /\ keys' = keys
      BY <2>1, <3>1, <3>2
    <3> QED BY <1>1, <3>3, <3>4, <3>5
  <2>2. CASE /\ \E status \in SiteStatuses \ {sites[ConvSite].status} :
                   sites' = Put(sites, ConvSite, WithSiteStatus(ConvSite, status))
             /\ UNCHANGED keys
    <3>1. PICK status \in SiteStatuses : sites' = Put(sites, ConvSite, WithSiteStatus(ConvSite, status))
      BY <2>2
    <3>2. PICK r : r = WithSiteStatus(ConvSite, status)
      OBVIOUS
    <3>3. r \in SiteRow /\ r.key = sites[ConvSite].key /\ r.domains = sites[ConvSite].domains
      BY <1>1, <3>2 DEF WithSiteStatus, SiteRow
    <3> QED BY <1>1, <2>0, <2>2, <3>1, <3>2, <3>3
  <2>3. CASE sites' = Put(sites, ConvSite, WithWidgetKey(ConvSite)) /\ keys' = NewWidgetKey
    <3>2. PICK r : r = WithWidgetKey(ConvSite)
      OBVIOUS
    <3>3. r \in SiteRow /\ r.key = keys + 1 /\ r.domains = sites[ConvSite].domains
      BY <1>1, <3>2 DEF WithWidgetKey, SiteRow, NewWidgetKey
    <3> QED BY <1>1, <2>0, <2>3, <3>2, <3>3 DEF NewWidgetKey
  <2> QED BY <2>1, <2>2, <2>3 DEF SiteRequest
<1>4. /\ DOMAIN sites' = DOMAIN sites /\ sites'[ConvSite] = r
      /\ \A s \in DOMAIN sites \ {ConvSite} : sites'[s] = sites[s]
  BY <1>1, <1>3 DEF Put
<1>5. IsTable(sites', SiteIDs, SiteRow)
  BY <1>1, <1>4 DEF IsTable
<1>6. \A s \in DOMAIN sites' : sites'[s].key <= keys'
  <2>1. ASSUME NEW s \in DOMAIN sites PROVE sites'[s].key <= keys'
    <3>1. CASE s = ConvSite
      BY <1>3, <1>4, <3>1
    <3>2. CASE s # ConvSite
      BY <1>1, <1>3, <1>4, <3>2
    <3> QED BY <3>1, <3>2
  <2> QED BY <1>4, <2>1
<1>7. \A ws \in sessions' : ws.key <= keys'
  <2>1. \A ws \in sessions : ws \in WidgetSession /\ ws.key <= keys
    BY DEF GatewayInv, SiteRowsTrue
  <2>2. \A ws \in WidgetSession : ws.key \in Nat
    BY DEF WidgetSession
  <2> QED BY <1>1, <1>3, <2>1, <2>2
<1>8. SiteRowsTrue'
  BY <1>1, <1>3, <1>4, <1>5, <1>6, <1>7 DEF GatewayInv, SiteRowsTrue, IsTable
<1>9. StaffRowsTrue'
  BY <1>2 DEF GatewayInv, StaffRowsTrue, Version
<1> QED BY <1>2, <1>3, <1>4, <1>8, <1>9

\* A save of an agent's row: the site stays, the version does not go down, and
\* goes up when the sessions are to end.
LEMMA AgentRequestRows ==
  ASSUME GatewayInv, NEW t \in tokens, NEW a \in SiteAgents, AgentRequest(t, a), sessions' = sessions, tokens' = tokens
  PROVE  StaffRowsTrue' /\ SiteRowsTrue' /\ sites' = sites /\ keys' = keys /\ revoked \subseteq revoked'
<1>0. sites' = sites /\ keys' = keys
  BY DEF AgentRequest
<1>1. /\ a \in DOMAIN agents /\ a \in DOMAIN Staff /\ DOMAIN agents = DOMAIN Staff
      /\ agents[a] \in AgentRow /\ agents[a].site = Staff[a].site
  BY DEF GatewayInv, StaffRowsTrue, SiteAgents
<1>2. agents[a].version \in Nat
  BY <1>1 DEF AgentRow
<1>3. PICK r \in AgentRow, ends \in BOOLEAN :
         /\ agents' = Put(agents, a, r) /\ r.site = agents[a].site
         /\ Version(r) = Version(agents[a]) \/ Version(r) = Version(agents[a]) + 1
         /\ ends => Version(r) = Version(agents[a]) + 1
         /\ revoked' = revoked \cup (IF ends THEN {x \in tokens : x.role = "agent" /\ x.id = a} ELSE {})
  <2>1. CASE \E status \in AgentStatuses \ {agents[a].status} :
                /\ agents' = Put(agents, a, WithAgentStatus(a, status))
                /\ revoked' = RevokedBy("agent.update_status", a, agents'[a])
    <3>1. PICK status \in AgentStatuses :
             /\ agents' = Put(agents, a, WithAgentStatus(a, status))
             /\ revoked' = RevokedBy("agent.update_status", a, agents'[a])
      BY <2>1
    <3>2. PICK r : r = WithAgentStatus(a, status)
      OBVIOUS
    <3>3. /\ r \in AgentRow /\ r.site = agents[a].site /\ r.status = status
          /\ r.version = IF status # "active" THEN NextTokenVersion(agents[a].version) ELSE agents[a].version
      BY <1>1, <1>2, <3>2, Versions DEF WithAgentStatus, AgentRow
    <3>4. Version(r) = IF status # "active" THEN Version(agents[a]) + 1 ELSE Version(agents[a])
      BY <1>2, <3>3, Versions DEF Version
    <3>5. agents'[a] = r
      BY <3>1, <3>2 DEF Put
    <3>6. revoked' = revoked \cup (IF status # "active" THEN {x \in tokens : x.role = "agent" /\ x.id = a} ELSE {})
      BY <3>1, <3>3, <3>5 DEF RevokedBy, Revokes
    <3>7. CASE status # "active"
      BY <3>1, <3>2, <3>3, <3>4, <3>6, <3>7
    <3>8. CASE status = "active"
      BY <3>1, <3>2, <3>3, <3>4, <3>6, <3>8
    <3> QED BY <3>7, <3>8
  <2>2. CASE /\ agents' = Put(agents, a, WithSessionsEnded(a))
             /\ revoked' = RevokedBy("agent.force_logout", a, agents'[a])
    <3>2. PICK r : r = WithSessionsEnded(a)
      OBVIOUS
    <3>3. r \in AgentRow /\ r.site = agents[a].site /\ r.version = NextTokenVersion(agents[a].version)
      BY <1>1, <1>2, <3>2, Versions DEF WithSessionsEnded, AgentRow
    <3>4. Version(r) = Version(agents[a]) + 1
      BY <1>2, <3>3, Versions DEF Version
    <3>6. revoked' = revoked \cup {x \in tokens : x.role = "agent" /\ x.id = a}
      BY <2>2 DEF RevokedBy, Revokes
    <3> QED BY <2>2, <3>2, <3>3, <3>4, <3>6
  <2> QED BY <2>1, <2>2 DEF AgentRequest
<1>4. DOMAIN agents' = DOMAIN Staff /\ agents'[a] = r /\ \A b \in DOMAIN Staff : b # a => agents'[b] = agents[b]
  BY <1>1, <1>3 DEF Put
<1>5. \A x \in Token : Version(x) \in Nat
  BY Versions DEF Token, Version
<1>6. Version(agents[a]) \in Nat /\ Version(r) \in Nat
  BY <1>2, <1>3, Versions DEF Version, AgentRow
<1>7. \A b \in DOMAIN Staff : Version(agents[b]) \in Nat /\ Version(agents[b]) <= Version(agents'[b])
  <2>1. ASSUME NEW b \in DOMAIN Staff PROVE Version(agents[b]) \in Nat /\ Version(agents[b]) <= Version(agents'[b])
    <3>1. Version(agents[b]) \in Nat
      BY Versions DEF GatewayInv, StaffRowsTrue, AgentRow, Version
    <3>2. CASE b = a
      BY <1>3, <1>4, <1>6, <3>2
    <3>3. CASE b # a
      BY <1>4, <3>1, <3>3
    <3> QED BY <3>1, <3>2, <3>3
  <2> QED BY <2>1
<1>8. \A b \in DOMAIN Staff : agents'[b] \in AgentRow /\ agents'[b].site = Staff[b].site
  BY <1>1, <1>3, <1>4 DEF GatewayInv, StaffRowsTrue
<1>9. \A x \in tokens : x \in Token /\ (x.role = "agent" => x.id \in DOMAIN Staff /\ Version(x) <= Version(agents[x.id]))
  BY DEF GatewayInv, StaffRowsTrue
<1>10. \A b \in DOMAIN Staff : Version(agents'[b]) \in Nat
  BY <1>8, Versions DEF AgentRow, Version
<1>11. \A x \in tokens : x.role = "agent" => x.id \in DOMAIN Staff /\ Version(x) <= Version(agents'[x.id])
  BY <1>5, <1>7, <1>9, <1>10
<1>12. \A x \in revoked : x \in Token /\ x.role = "agent" /\ x.id \in DOMAIN Staff /\ Version(x) < Version(agents'[x.id])
  <2>1. \A x \in revoked : x \in Token /\ x.role = "agent" /\ x.id \in DOMAIN Staff /\ Version(x) < Version(agents[x.id])
    BY DEF GatewayInv, StaffRowsTrue
  <2> QED BY <1>5, <1>7, <1>10, <2>1
<1>13. ends => \A x \in tokens : x.role = "agent" /\ x.id = a => Version(x) < Version(agents'[x.id])
  BY <1>3, <1>4, <1>5, <1>6, <1>9
<1>14. \A x \in revoked' : x \in Token /\ x.role = "agent" /\ x.id \in DOMAIN Staff /\ Version(x) < Version(agents'[x.id])
  BY <1>3, <1>9, <1>12, <1>13
<1>15. StaffRowsTrue'
  <2>1. \A x : Version(x)' = Version(x')
    BY DEF Version
  <2> QED BY <1>4, <1>8, <1>9, <1>11, <1>14 DEF StaffRowsTrue, Version
<1>16. SiteRowsTrue'
  BY <1>0 DEF GatewayInv, SiteRowsTrue
<1> QED BY <1>0, <1>3, <1>15, <1>16

\* An administrator's save, and the requests that wait meanwhile.
LEMMA AdminStepInv ==
  ASSUME GatewayInv, AdminStep
  PROVE  GatewayInv' /\ UNCHANGED vars
<1>1. tokens' = tokens /\ sessions' = sessions /\ conns' = conns /\ UNCHANGED vars /\ Thaw
  BY DEF AdminStep
<1>2. /\ StaffRowsTrue' /\ SiteRowsTrue' /\ revoked \subseteq revoked'
      /\ DOMAIN sites' = DOMAIN sites /\ keys <= keys'
      /\ \A s \in DOMAIN sites \ {ConvSite} : sites'[s] = sites[s]
      /\ sites'[ConvSite].key = sites[ConvSite].key \/ sites'[ConvSite].key > keys
  <2>1. keys \in Nat
    BY DEF GatewayInv, SiteRowsTrue
  <2>2. ASSUME NEW t \in tokens, SiteRequest(t)
        PROVE  /\ StaffRowsTrue' /\ SiteRowsTrue' /\ revoked \subseteq revoked'
               /\ DOMAIN sites' = DOMAIN sites /\ keys <= keys'
               /\ \A s \in DOMAIN sites \ {ConvSite} : sites'[s] = sites[s]
               /\ sites'[ConvSite].key = sites[ConvSite].key \/ sites'[ConvSite].key > keys
    BY <1>1, <2>2, SiteRequestRows
  <2>3. ASSUME NEW t \in tokens, NEW a \in SiteAgents, AgentRequest(t, a)
        PROVE  /\ StaffRowsTrue' /\ SiteRowsTrue' /\ revoked \subseteq revoked'
               /\ DOMAIN sites' = DOMAIN sites /\ keys <= keys'
               /\ \A s \in DOMAIN sites \ {ConvSite} : sites'[s] = sites[s]
               /\ sites'[ConvSite].key = sites[ConvSite].key \/ sites'[ConvSite].key > keys
    BY <1>1, <2>1, <2>3, AgentRequestRows
  <2> QED BY <2>2, <2>3 DEF AdminStep
<1>3. VisibleIDs' = VisibleIDs /\ ConvTrue' /\ AuthorsTrue' /\ ConnsTrue'
  BY <1>1, ChatUntouched, ChatSame DEF GatewayInv, ConnsTrue
<1>4. keys \in Nat /\ keys' \in Nat /\ sites[ConvSite].key \in Nat /\ sites'[ConvSite].key \in Nat
  BY <1>2 DEF GatewayInv, SiteRowsTrue, IsTable, SiteRow
<1>5. ASSUME NEW q, NEW n, RequestTrue(q),
             n = IF q # NoRequest /\ sites'[ConvSite].status = "active" THEN [q EXCEPT !.frozen = FALSE] ELSE q
      PROVE  RequestTrue(n)'
  <2>1. CASE q = NoRequest
    BY <1>5, <2>1 DEF RequestTrue
  <2>2. CASE q # NoRequest /\ StaffTrue(q)
    <3>1. /\ q \in StaffCall /\ n \in StaffCall
          /\ n.op = q.op /\ n.arg = q.arg /\ n.token = q.token /\ n.late = q.late
          /\ n.frozen => sites'[ConvSite].status # "active"
      BY <1>5, <2>2, OtherMoves DEF StaffTrue
    <3>2. StaffTrue(n)'
      BY <1>1, <1>2, <2>2, <3>1 DEF StaffTrue, SiteDisabled
    <3> QED BY <3>2 DEF RequestTrue
  <2>3. CASE q # NoRequest /\ KnownTrue(q)
    <3>1. q \in KnownCall /\ Ready(q, q.pc) /\ q.late = FALSE /\ CallerTrue(q.by)
      BY <2>3 DEF KnownTrue
    <3>2. /\ n \in KnownCall /\ n.pc = q.pc
          /\ n.op = q.op /\ n.arg = q.arg /\ n.by = q.by /\ n.late = q.late
          /\ n.frozen => sites'[ConvSite].status # "active"
          /\ n.frozen => q.frozen
      BY <1>5, <2>3, <3>1, KnownMoves
    <3>3. Ready(n, n.pc)'
      BY <1>2, <1>3, <3>1, <3>2 DEF Ready
    <3>4. KnownTrue(n)'
      BY <3>1, <3>2, <3>3 DEF KnownTrue, SiteDisabled
    <3> QED BY <3>4 DEF RequestTrue
  <2>4. CASE q # NoRequest /\ WidgetTrue(q)
    <3>1. /\ q \in WidgetCall /\ q.session.key <= keys /\ (q.late => q.session.key # sites[ConvSite].key)
          /\ q.pc = "create" => q.late = FALSE /\ q.frozen = FALSE
      BY <2>4 DEF WidgetTrue
    <3>2. /\ n \in WidgetCall /\ n.pc = q.pc /\ n.session = q.session /\ n.late = q.late
          /\ n.frozen => sites'[ConvSite].status # "active"
          /\ n.frozen = FALSE \/ n.frozen = q.frozen
      BY <1>5, <2>4, <3>1, OtherMoves
    <3>3. q.session.key \in Nat
      BY <3>1 DEF WidgetCall, WidgetSession
    <3>4. n.session.key <= keys' /\ (n.late => n.session.key # sites'[ConvSite].key)
      BY <1>2, <1>4, <3>1, <3>2, <3>3
    <3>5. n.pc = "create" => n.late = FALSE /\ n.frozen = FALSE
      BY <3>1, <3>2
    <3>6. WidgetTrue(n)'
      BY <3>2, <3>4, <3>5 DEF WidgetTrue, SiteDisabled
    <3> QED BY <3>6 DEF RequestTrue
  <2> QED BY <1>5, <2>1, <2>2, <2>3, <2>4 DEF RequestTrue
<1>6. ASSUME NEW g \in Requests PROVE RequestTrue(greq[g])' /\ greq'[g] \in Request
  <2>1. PICK q : q = greq[g] /\ RequestTrue(q)
    BY DEF GatewayInv, RequestsTrue
  <2>2. PICK n : n = greq'[g]
    OBVIOUS
  <2>3. n = IF q # NoRequest /\ sites'[ConvSite].status = "active" THEN [q EXCEPT !.frozen = FALSE] ELSE q
    BY <1>1, <2>1, <2>2 DEF Thaw
  <2>4. RequestTrue(n)'
    BY <1>5, <2>1, <2>3
  <2>5. n \in Request
    BY <2>4 DEF RequestTrue, StaffTrue, KnownTrue, WidgetTrue, Request, StaffCall, KnownCall, WidgetCall, KnownPCs, KnownOps
  <2> QED BY <2>2, <2>4, <2>5
<1>7. RequestsTrue'
  BY <1>1, <1>6 DEF Thaw, RequestsTrue
<1> QED BY <1>1, <1>2, <1>3, <1>7 DEF GatewayInv

-----------------------------------------------------------------------------
(* The theorems about the gateway *)

\* Everyone has logged in, the site may have been disabled, no request is there.
LEMMA GatewayInitInv == GatewayInit => GatewayInv /\ TypeInv
<1> SUFFICES ASSUME GatewayInit PROVE GatewayInv /\ TypeInv
  OBVIOUS
<1> DEFINE S == {Staff[a].site : a \in DOMAIN Staff}
<1> DEFINE number == CHOOSE f \in Injection(S, 1..Cardinality(S)) : TRUE
<1>0. PICK disabled \in SUBSET {ConvSite} : EveryoneLoggedIn(disabled)
  BY DEF GatewayInit
<1>1. PICK p \in Passwords \ WeakPasswords :
         agents = [a \in DOMAIN Staff |->
                     [status |-> "active", email |-> Staff[a].email, site |-> Staff[a].site,
                      password |-> p, version |-> 1]]
  BY <1>0 DEF EveryoneLoggedIn, Deployed
<1>2. PICK home \in Injection(S, Domains) :
         sites = [s \in S |-> [status |-> IF s \in disabled THEN "disabled" ELSE "active",
                               key |-> number[s], domains |-> {home[s]}]]
  BY <1>0 DEF EveryoneLoggedIn, Deployed
<1>3. /\ keys = Cardinality(S) /\ revoked = {} /\ auth \in [pc : {"up"}, password : Passwords \ WeakPasswords]
      /\ tokens = {[role |-> "super_admin", id |-> RootEmail, version |-> 1, password |-> auth.password]}
                    \cup {[role |-> "agent", id |-> a, version |-> 1, password |-> agents[a].password] :
                             a \in DOMAIN agents}
  BY <1>0 DEF EveryoneLoggedIn, Deployed
<1>4. Cardinality(S) \in Nat /\ number \in [S -> 1..Cardinality(S)]
  BY SitesNumbered
<1> HIDE DEF number
<1>5. home \in [S -> Domains] /\ \A s, o \in S : home[s] = home[o] => s = o
  BY DEF Injection, IsInjective
<1>6. S \subseteq SiteIDs /\ ConvSite \in S
  BY AccountsAssumption, GatewayAssumption
<1> HIDE DEF S
<1>7. /\ DOMAIN sites = S /\ \A s \in S : number[s] \in Nat /\ number[s] <= keys /\ home[s] \in Domains
      /\ \A s \in S : sites[s].key = number[s] /\ sites[s].domains = {home[s]} /\ sites[s].status \in SiteStatuses
  BY <1>2, <1>3, <1>4, <1>5 DEF SiteStatuses
<1>8. \A s \in S : sites[s] \in SiteRow
  BY <1>2, <1>7 DEF SiteRow, SiteStatuses
<1>9. sessions = {} /\ conns = {} /\ greq = [g \in Requests |-> NoRequest] /\ Init
  BY DEF GatewayInit
<1>10. SiteRowsTrue
  BY <1>3, <1>4, <1>5, <1>6, <1>7, <1>8, <1>9 DEF SiteRowsTrue, IsTable
<1>11. \A a \in DOMAIN Staff : agents[a] \in AgentRow /\ agents[a].site = Staff[a].site /\ agents[a].version = 1
  BY <1>1, AccountsAssumption DEF AgentRow, AgentStatuses
<1>12. StaffRowsTrue
  <2>1. DOMAIN agents = DOMAIN Staff /\ \A a \in DOMAIN agents : agents[a].password \in Passwords /\ a \in AgentIDs
    BY <1>1, AccountsAssumption
  <2>2. auth.password \in Passwords
    BY <1>3
  <2>3. tokens \subseteq Token
    BY <1>3, <2>1, <2>2 DEF Token
  <2>4. \A t \in tokens : t.role = "agent" => t.id \in DOMAIN Staff /\ t.version = 1
    BY <1>3, <2>1
  <2>5. \A t \in tokens : t.role = "agent" => t.id \in DOMAIN Staff /\ Version(t) <= Version(agents[t.id])
    BY <1>11, <2>4 DEF Version, NormalizeTokenVersion
  <2> QED BY <1>3, <1>11, <2>1, <2>3, <2>5 DEF StaffRowsTrue
<1>13. ConvTrue /\ AuthorsTrue /\ ConnsTrue
  BY <1>9 DEF Init, ConvTrue, AuthorsTrue, ConnsTrue, Authors, Idle
<1>14. RequestsTrue
  BY <1>9 DEF RequestsTrue, RequestTrue, Request
<1> QED BY <1>9, <1>10, <1>12, <1>13, <1>14, InitTypeInv DEF GatewayInv

\* Every step keeps the invariant, and is a step of the conversation or leaves
\* it alone.
LEMMA GatewayNextInv ==
  ASSUME GatewayInv, TypeInv, [GatewayNext]_gatewayVars
  PROVE  GatewayInv' /\ [Next]_vars
<1>1. CASE UNCHANGED gatewayVars
  <2>1. UNCHANGED <<accountVars, vars, conns, sessions>> /\ greq' = greq
    BY <1>1 DEF gatewayVars
  <2> QED BY <2>1, RequestsSame, OnlyRequest DEF GatewayInv
<1>2. ASSUME NEW g \in Requests, Arrives(g) PROVE GatewayInv' /\ [Next]_vars
  <2>1. UNCHANGED vars
    BY <1>2 DEF Arrives, StaffRequest, VisitorRequest, OnSendMessage, WidgetRequest
  <2>2. ASSUME NEW t \in tokens, NEW op \in StaffOps \ {"transfer"}, StaffRequest(g, op, t, None) PROVE GatewayInv'
    BY <2>2, StaffRequestStep
  <2>3. ASSUME NEW t \in tokens, NEW to \in Agents, StaffRequest(g, "transfer", t, to) PROVE GatewayInv'
    <3>1. "transfer" \in StaffOps
      BY DEF StaffOps
    <3> QED BY <2>3, <3>1, StaffRequestStep
  <2> QED BY <1>2, <2>1, <2>2, <2>3, VisitorRequestStep, OnSendMessageStep, WidgetRequestStep DEF Arrives
<1>3. ASSUME NEW g \in Requests, Checked(g) PROVE GatewayInv' /\ [Next]_vars
  <2>1. UNCHANGED vars
    BY <1>3 DEF Checked, RequireAgentActor, ReadConversation, RequireActiveSite, RequireTarget,
       RequireWidgetSession, ResolveConnection, ValidateConversationSite
  <2> QED BY <1>3, <2>1, RequireAgentActorStep, ReadConversationStep, RequireActiveSiteStep, RequireTargetStep,
          RequireWidgetSessionStep, ResolveConnectionStep, ValidateConversationSiteStep DEF Checked
<1>4. ASSUME NEW g \in Requests, Operates(g) \/ RequestFails(g) PROVE GatewayInv' /\ [Next]_vars
  BY <1>4, AnswerSteps, EndSteps, ServeWSStep, PostReadStep, PostClaimStep, PostTransferStep, PostConfirmStep,
     PostRejectStep, PostCloseStep, TryMarkReadAfterClaimStep, MessageProceedsStep, SendStep DEF Operates
<1>5. CASE \/ \E s \in SiteIDs, parentOrigin, source \in URLs : ServeWidgetApp(s, parentOrigin, source)
           \/ \E ws \in sessions : SessionExpires(ws)
  <2>1. UNCHANGED <<accountVars, vars, created, greq, conns>>
    BY <1>5 DEF ServeWidgetApp, SessionExpires
  <2> QED BY <1>5, <2>1, SessionSteps
<1>6. CASE (\E ctx \in conns : CloseWS(ctx)) \/ AdminStep \/ AutoCloses
  BY <1>6, CloseWSStep, AdminStepInv, AutoClosesStep
<1> QED BY <1>1, <1>2, <1>3, <1>4, <1>5, <1>6 DEF GatewayNext

(* The gateway lets nothing happen to the conversation that chat-service    *)
(* does not let any caller do: requests, administrators and connections     *)
(* together implement module Conversation, and what is proved of that       *)
(* module holds behind the gateway too.                                     *)
THEOREM GatewayImplementsConversation == GatewaySpec => Spec
<1>1. GatewayInit => Init
  BY DEF GatewayInit
<1>2. GatewayInv /\ TypeInv /\ [GatewayNext]_gatewayVars => (GatewayInv /\ TypeInv)' /\ [Next]_vars
  BY GatewayNextInv, NextTypeInv
<1> QED BY <1>1, <1>2, GatewayInitInv, PTL DEF GatewaySpec, Spec

\* The invariant holds in every state.
LEMMA GatewayInvariant == GatewaySpec => []GatewayInv
<1>1. GatewayInv /\ TypeInv /\ [GatewayNext]_gatewayVars => (GatewayInv /\ TypeInv)'
  BY GatewayNextInv, NextTypeInv
<1> QED BY <1>1, GatewayInitInv, PTL DEF GatewaySpec

(* The agents and the visitor of the conversation's site keep it to         *)
(* themselves, although chat-service knows no sites; and a page of another  *)
(* site gets no connection to it.                                           *)
THEOREM SiteIsolated == GatewaySpec => []SiteIsolation
<1>1. GatewayInv => SiteIsolation
  <2> SUFFICES ASSUME GatewayInv PROVE SiteIsolation
    OBVIOUS
  <2>1. {conv.assigned, conv.pendingTo, conv.pendingFrom, conv.closedBy} \subseteq SiteAgents \cup {None}
    BY DEF GatewayInv, ConvTrue
  <2>2. \A i \in DOMAIN messages : messages[i].by \in SiteAgents \cup {VisitorToken, None}
    BY DEF GatewayInv, AuthorsTrue, Authors
  <2>3. \A ctx \in conns : ctx.who \in SiteAgents \cup {VisitorToken}
    BY DEF GatewayInv, ConnsTrue, Party
  <2>4. ASSUME NEW g \in Requests
        PROVE  /\ greq[g].pc \in {"call", "latest", "wait", "answered"} => greq[g].by.who \in SiteAgents \cup {VisitorToken}
               /\ greq[g].pc = "call" /\ greq[g].op = "connect" =>
                     \A s \in DOMAIN sites \ {ConvSite} : greq[g].arg \notin sites[s].domains
    <3>1. greq[g].pc \in KnownPCs => Ready(greq[g], greq[g].pc)
      BY KnownRequest
    <3> QED BY <3>1 DEF Ready, Party, KnownPCs
  <2> QED BY <2>1, <2>2, <2>3, <2>4 DEF SiteIsolation
<1> QED BY <1>1, GatewayInvariant, PTL

(* No request acts with a session or a widget key that was worthless when   *)
(* it began, or in a site that has been disabled since before that.         *)
THEOREM RightsRespected == GatewaySpec => ActsWithinRights
<1>1. ASSUME GatewayInv, NEW g \in Requests, Acts(g)
      PROVE  ~greq[g].late /\ (greq[g].pc = "create" \/ greq[g].op # "list" => ~greq[g].frozen)
  <2>1. CASE greq[g].pc = "call"
    <3>1. KnownTrue(greq[g]) /\ Ready(greq[g], greq[g].pc)
      BY <1>1, <2>1, KnownRequest DEF KnownPCs
    <3> QED BY <2>1, <3>1 DEF KnownTrue, Ready
  <2>2. CASE greq[g].pc = "create"
    <3>1. WidgetTrue(greq[g])
      BY <1>1, <2>2, PhaseTells DEF GatewayInv, RequestsTrue
    <3> QED BY <2>2, <3>1 DEF WidgetTrue
  <2> QED BY <1>1, <2>1, <2>2 DEF Acts
<1>2. GatewayInv /\ [GatewayNext]_gatewayVars =>
        [\A g \in Requests : Acts(g) =>
            /\ ~greq[g].late
            /\ greq[g].pc = "create" \/ greq[g].op # "list" => ~greq[g].frozen]_gatewayVars
  BY <1>1
<1> QED BY <1>2, GatewayInvariant, PTL DEF GatewaySpec, ActsWithinRights

================================================================================
