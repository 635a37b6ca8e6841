# InlineChat: a TLA+ verification project

InlineChat is an online customer-service system: a chat widget for visitors, a
console for agents and administrators, and six Go services behind a gateway.
This directory models the services, model-checks them with TLC and proves
theorems about the core with TLAPS. Source paths below are relative to `src/`.

## 1. Inventory

| component | state | operations | hard behaviour |
|---|---|---|---|
| chat-service, conversations and messages (`services/chat-service/internal/service/chat_service.go`, `repository/`) | MySQL tables `conversations`, `messages`, `event_outboxes` | CreateMessage, MarkMessagesRead, Claim, Transfer, Confirm, Reject, Close | CreateMessage reads without a lock and commits later; clients retry with one `client_msg_id`; business rows and outbox rows must commit together; lost commit answers |
| chat-service, creation lock (`locker/redis_conversation_locker.go`) | one Redis key per (site, visitor) | CreateConversation | the key expires while its holder still works |
| chat-service, automatic closing (`auto_close_scheduler.go`) | timers in memory, clock | Schedule, Cancel, fire, start-up scan | hooks after the commit, in no order; callbacks already fired; crashes lose timers |
| chat-service, event outbox (`outbox_dispatcher.go`, `repository.go`) | rows of `event_outboxes`, the dispatcher's batch, the wake-up channel | enqueue, requeue stale, claim, publish, mark, replay dead | several instances, crash between publish and mark, slow dispatchers overwriting each other, lost wake-ups |
| ai-service, automatic replies (`auto_reply_service.go`, `chatclient/`) | a Redis key per answered message | HandleEvent | every instance gets every event, events come twice, calls are retried after a deadline, agents claim meanwhile |
| ai-service, knowledge base (`knowledgebase/`, `openai/`, `reranker/`) | files, status files, active jobs, Qdrant points | TriggerReindex, Search, the making of an answer | jobs lost in a crash, partial replacement of the index, late writes, one service after the other failing during a search |
| realtime-service (`internal/ws/`) | connections, send queues | connect with replay, broadcast, send, close | replay against live events, full queues, messages that commit out of id order, connections that outlive their session |
| gateway-service (`internal/handler/`) | widget sessions (signed, not stored) | HTTP API | checks in separate calls before the operation, administrators in between; chat-service itself knows no sites |
| gateway-service, rate limiter (`ratelimit/`) | Redis counters, token buckets, circuit breaker | Allow | full table, clean-up, breaker told by late calls |
| admin-service, auth-service | agents, super administrators, sites and domains, AI settings, audit log | manage sites and agents, login, token check, start of auth-service | whole rows read, changed and saved without a lock; login across a reset; audit line after the change |
| discovery (`packages/discovery/`) and dynamic clients | etcd leases and keys, resolver cache, one shared connection per service | register, keep alive, close, resolve, refresh, call with retry | re-registration against Close; negative cache; a connection closed under a running call |
| cloudflared watchdog (`infra/cloudflared-watchdog/main.go`) | failures in a row, time of the last restart | probe, restart through Docker | restarts that fail, time out or fall in the cooldown |
| middleware, front ends, generated code | - | - | not modelled, see section 8 |

How they interact: the gateway, realtime-service and ai-service call
chat-service over gRPC, through connections found in etcd. chat-service writes
events into the outbox in the business transaction; the dispatcher publishes
them on Redis channels, to which realtime-service (for browsers) and ai-service
(for automatic answers) subscribe. ai-service answers with CreateMessage, so its
answers go the same way. admin-service and auth-service share the agents' rows;
the gateway and realtime-service ask auth-service about tokens and admin-service
about sites before they call chat-service.

What makes each component correct:

* conversations: the transfer columns agree with the owner; ownership moves only
  by a claim or along a pending transfer; a closed row is frozen and announced
  once; a message is announced once exactly when it is committed; an
  idempotency key names one message; an acknowledged message is durable; what is
  marked read is what was announced as read;
* creation: a second open conversation only through a call that outlives its lock; a lock is released
  by its holder;
* automatic closing: never too early, and in the end unless a late hook or a failure drops the timer;
* outbox: nothing lost, nothing given up early, everything settled;
* automatic replies: one answer per message, from the site's own
  knowledge, on the topic the visitor named, and from the live files when
  everything else fails;
* knowledge base: an index that is called ready is whole, a reload ends;
* realtime: no message falls between replay and live events, `replay.end` is never
  early, no connection stays behind;
* accounts: an ended session stays ended, a session belongs to the current
  password, changes are made by those who may, the log tells the truth, the
  tables agree with each other;
* gateway: a site's conversations are its own; ended credentials and disabled
  sites do nothing;
* limiter: windows and buckets keep their rates, the breaker opens for a reason;
* discovery: etcd converges to the instances that serve, and calls recover;
* watchdog: restarts are justified and spaced, and a lost tunnel comes back.

## 2. Modules

| module | models | variables |
|---|---|---|
| `Conversation` | one conversation in MySQL and every ChatService operation on it | `conv`, `messages`, `outbox`, `req` (running CreateMessage calls), `reply` (their answers) |
| `AutoClose` | `Conversation` composed with the process that holds its timer | + `now`, `created`, `up`, `timer`, `hook`, `closing`, `cb`, counters of faults, `overtaken` (history) |
| `AutoReply` | `Conversation` composed with the consumers of ai-service | + `ai` (the consumers), `lock` (reply locks), counter of faults |
| `ConversationCreate` | CreateConversation of one visitor under the Redis lock | `convs`, `lock`, `call`, `late`, `overruns` (history) |
| `EventDelivery` | what the outbox promises: at-least-once delivery | `phase`, `alone`, `delivered` |
| `Outbox` | the dispatchers | `row`, `delivered`, `disp`, `faults` |
| `OutboxDelivery` | `Outbox` shown to implement `EventDelivery` | + `started` (history) |
| `Realtime` | the WebSocket connections of a conversation: hub, send queues, replay, both goroutines | `committed`, `consumed`, `bcast`, `conn`, a counter of repeated events |
| `Accounts` | auth-service and admin-service on their tables, with the gateway's administrative endpoints | `agents`, `superAdmins`, `sites`, `aiEnabled`, `audit`, `auth`, `tokens`, `call`, `login`, counters and history |
| `Gateway` | `Accounts` and `Conversation` composed behind the gateway and the WebSocket handshake | + `created`, `greq` (requests), `conns`, `sessions` (widget) |
| `RateLimiter` | the limiters of several gateways on one Redis | `entries`, `lastCleanup`, `circuit`, `counters`, `requests`, clock, history |
| `Texts` | what is read out of messages, and the search query made of them | operators |
| `Documents` | how a document is cut into chunks | operators |
| `Knowledge` | files, status file, reload jobs and Qdrant | `files`, `status`, `index`, `jobs`, `activeJobs`, `late`, `mixed`, counters |
| `ReplyContent` | `Knowledge` composed with the search and the making of an answer | + `search`, `reply` |
| `Registry` | instances that register in etcd | `main`, `loop`, `lease`, `pending`, `alive`, `key`, `late`, `faults` |
| `DynamicClient` | `Registry` composed with a process that calls the service | + `kind`, `cache`, `rrState`, `client`, `fresh`, `calls` |
| `Watchdog` | the watchdog, the tunnel and Docker | `config`, `tunnel`, `metrics`, `origin`, `running`, `watch`, `tick`, `faults`, history |
| `ConversationProofs`, and on top of it `CompositionProofs` | theorems about `Conversation`, and about `AutoClose` and `AutoReply` | - |
| `GatewayProofs` | theorems about `Accounts` and `Gateway`, on top of `ConversationProofs` | - |
| `KnowledgeProofs` | theorems about `Knowledge` and `ReplyContent` | - |
| `EdgeProofs` | theorems about `RateLimiter` and `Watchdog`, which share nothing | - |
| `OutboxProofs`, `ConversationCreateProofs`, `RealtimeProofs` | theorems about the modules they are named for; `OutboxProofs` also about `OutboxDelivery` | - |
| `MC*` | symmetry sets and constants for TLC; `MCRedis` and `MCBackground` put two independent modules into one run | which of the two runs |

`PROJECT.json` maps every definition to the lines it models.

**Conversation.** An operation that goes through `ConversationRepository.Mutate`
takes the row lock (`SELECT ... FOR UPDATE`) before it looks, and commits the
row, its system message and its events together: one action, guarded by
`RowLockFree`. CreateMessage is three steps, `CheckMessage` (read without a
lock; the snapshot of the transaction begins here), `InsertMessage`
(auto-increment id, unique index, shared lock on the conversation row through
the foreign key) and `CommitMessage`. Each transaction may roll back after
either step, and a commit may succeed although its answer is lost
(`CommitUnacknowledged`). An uncommitted row is in `messages` with
`tx = "open"`: it blocks the same key and the row lock but no reader sees it, and
a rolled-back id is a gap. Keys of system messages are nanosecond stamps in the code and row
numbers in the model, both unique. The isolation level is MySQL's default,
REPEATABLE READ: the second SELECT after a duplicate-key error sees the old
snapshot (`DuplicateMessage`). A read report carries any number above 0 (`ReportableIDs`), also an id that
is not issued yet: neither the gateway nor chat-service looks further.

**AutoClose.** `BeforeCommit`, `CommitThenHook`, `OnMessageCreated` split a call
at the commit, because the hook that sets or cancels the timer runs after it.
`FireTimer` removes the entry and starts a callback (`cb`), whose transaction is
`CloseIfDue`, `LookAgainLater`, `LeaveAlone` or `AutoCloseFails`. `Crash` empties
memory, `ServerRollsBack` lets MySQL undo what the dead process left open, and
`Restart` is the start-up scan. The orderly `Stop` also empties memory and is
covered by `Crash`. One process serves the conversation. The hooks of two calls run in any order;
`overtaken` notes that a visitor's hook ran after a newer message of an agent was committed.

**AutoReply.** A worker is one ai-service instance handling one event. Its
CreateMessage call is the `Conversation` call of the same name. Receive (SETNX),
the reads of the conversation, the configuration and the newest message, and
the write are separate steps; a failure releases the lock, a crash keeps it
until it expires. DynamicClient's second attempt is covered by `ReplyFails`
followed by another reply under the same key.

**ConversationCreate.** The clock is the age of the lock and of each call. A call
may fail, give up at its deadline, lose Redis's answer, or die without releasing its lock; an
insert the server was given before that may take effect later (`LateInsert`). `overruns` counts
locks that expired between their holder's query and insert, and late inserts.

**Outbox.** One SQL statement or one Redis call is one action. Time is
abstracted to two Booleans of a row: its retry time has come (`due`), its claim
is older than the processing timeout (`stale`). The `Mark*` statements select by
id alone, as in the code, so a dispatcher may overwrite a row that another has
taken over. `EventDelivery` says that an event waits, is delivered at least once
before it is settled, and is settled for good while only one dispatcher has ever
run; with several a slow one may reopen what another has settled.

**Realtime.** `Serve` registers the client before it replays; `ListMissed` reads
one page of `ListMessages`, `ReplayMessage` and `ReplayEnd` send, `ReplayFails`
is every error of the replay. `Broadcast` takes the snapshot of the hub,
`BroadcastTo` is one TrySend of its loop, which closes a full client. `WriteFrame`,
`WriteFails`, `PingFails` and `WriteLoopEnds` are the branches of WriteLoop. The
handshake's checks decide whether `Serve` happens; they are in `Gateway`. A broken
subscription shows as events that are never handled. `base` and
`received` record history for the properties.

**Accounts.** The tables, the tokens in circulation and the calls in progress. A
change by an administrator is a read of the row (`UpdateAgentStatus`,
`ResetAgentPassword`, ...), a save of the whole row (`SaveAgent`, `SaveSite`,
`InsertAgent`), and the audit line, which may fail; two calls may overlap. A login
reads the row and signs the token in a later step. `Admitted` has the checks of all
transports. `EnsureRead` and `EnsureSave` are the start of auth-service. A token's
`password` and the variables `done`, `revoked`, `dirty` are history. The lists are
operators on the tables. JSON and protobuf
conversions are operators that keep or drop columns (`ToSitePB`, `ToAgentPB`).

**Gateway.** A request is a token, a visitor's token or a widget session and runs
through the chain of calls of its endpoint: actor, conversation, site, target, and then
the action of `Conversation`; administrators change rows in between. A connection
keeps the caller of its handshake, and `message.send` starts at the site check.
Host names are normalised by what the code does to ports; a URL is a host and a port that is
missing, the scheme's own, or another. One conversation, its site and another site.
Unlike `Accounts` an administrator's change is one step here (`AdminCalls` is empty).

**RateLimiter.** Two gateways share Redis. A request is checked under several keys one
after the other; for each the breaker is read (`IsCircuitOpen`), Redis is called
(`IncrWithTTL`) and the answer, failure or timeout is reported in a later step
(`AllowDistributed`), so reports come out of order; `AllowLocal` is the token bucket
with its clean-up. Tokens are whole and one tick refills one. `granted`, `local` and `failing` are history:
what Redis let through in each minute, how many requests each bucket had let through by each tick, and
the failures since the last success.

**Texts, Documents, Knowledge, ReplyContent.** A text is the set of its words, where
one word stands for a list of keywords in the code; a document is a sequence of typed lines.
`ExtractConversationTopic` keeps the order of the code: prefixes, then suffixes, then punctuation, so that a
field word before a question mark stays. `Documents` drops blank lines as `normalizeSourceText` does, folds what is
left into chunks the way `extractParagraphs` and `chunkDocument` do, and drops the table cells that
`buildMarkdownTableParagraph` drops. `Knowledge`
runs reload jobs step by step with the writes to Qdrant, any of which may fail, or time out and land later
(`LateWrite`), with edits of the files and crashes in between. In `ReplyContent` a question becomes a query,
keyword candidates, a look at the status, a vector search, merge and reranking, and an answer. A score is positive or
not; where the code ranks by it, or compares it with a threshold, every outcome is possible.

**Registry, DynamicClient.** `Registry` has the main function of each instance, its
keep-alive goroutine and etcd; a Put may be applied after its caller gave up (`LatePut`).
`DynamicClient` has the resolver's cache and turn, the one shared connection, and the
calls of several goroutines as refresh, dial, take, invoke, with one retry. The ten copies of
the client in the services differ in two respects only, and the run chooses one of them (`kind`).

**Watchdog.** A check is its two probes, the decision, the lookup of the container and the
restart, each a step; the tunnel, its metrics and its origin fail and recover in between.
Time is counted in ticks of the check interval.

## 3. Runs

| run | shows |
|---|---|
| `messages` | two racing CreateMessage calls, lost answers, rollbacks, read reports, claims, transfers, closes: `MessageAnnouncedOnce`, `ReadIffAnnounced`, `UniqueClientMsgID`, `AckedMessageDurable`, `TransferConsistent`, `ClosedAnnouncedOnce`, `ClosedFrozen`, `OwnerHandedOver` |
| `outbox` | two dispatchers, batches, faults, take-over, dead-letter replay: `PublishedWasDelivered`, `DeadOnlyExhausted`, every event is in the end published or dead for good (`EventuallySettled`), and the whole implements `EventDelivery` (`ImplementsDelivery`) |
| `autoclose` | two callers, a failed call and a crash: no close before its time (`NoEarlyAutoClose`); while nothing fails and no late hook drops it, a waiting conversation has a timer whenever the process is at rest (`TimerCoversWaiting`) and is closed in the end (`EventuallyAutoClosed`) |
| `redis` | two gateways and requests in flight, Redis failing at any call: `RatesBounded`, `CircuitJustified`. A creation lock shorter than the call, as shipped: only calls that outlive their lock and late inserts make a second open conversation, one each (`DoubledByOverrun`); a release, which may come at any time, never frees another's lock (`LockReleasedByHolder`) |
| `create_shipped` | expected violation of `AtMostOneOpen`: two open conversations |
| `realtime` | a connection with or without a cursor, two messages that commit late and in any order, a repeated event, its own frames, a full queue, a dying socket: `NoWindowLost`, `ReplayComplete`, `EventuallyReleased` |
| `accounts` | two administrators, a login and restarts of auth-service: `SessionsCurrent`, `ChangesAccountable`, `DirectoryConsistent` |
| `gateway` | staff of two sites, the visitor, a stranger, old widget sessions and connections, and an administrator's change at any point of a request: `SiteIsolation`, `ActsWithinRights` |
| `knowledge` | two sites in one collection, reloads that fail, crash and land late, searches in between: `ReadyIndexWhole`, `AnswersFromFiles`, `ReplyGrounded`, `FollowUpKeepsTopic`, `ReloadEnds` |
| `discovery` | two instances that start, stop, die and lose leases, and a caller with one or two goroutines: `RegistryConverges`, `CallsRecover` |
| `background` | two ai-service instances, redelivery, retries, crashes, expired locks: `OneReplyPerMessage`. A tunnel, its metrics and its origin that fail, and a Docker that refuses or is slow: `RestartJustified`, `TunnelRecovers` |
| `watchdog_readme` | expected violation of `RestartAsDocumented`: a tunnel that serves is restarted because its metrics cannot be read |

All pass but the two that state what the repository's documents and comments say and the code breaks
(section 7: 4 and 16). `redis` and `background` each check two modules that share nothing (`MCRedis`,
`MCBackground`): a behaviour runs one of them and leaves the other at its initial state, since interleaving
independent parts adds no behaviour to either. Every module states the type of its state; `messages` checks that of `Conversation`,
`accounts` and `redis` theirs as parts of `DirectoryConsistent` and `RatesBounded`. The types of the
modules of section 5 are parts of its inductive invariants and proved with them; those of the other
modules document the state only. Deadlock is not a question of these runs: the models have bounded tables,
clocks, operations or faults and stop when they are used up, and a chat that nobody writes to may simply rest.
What must not stop is what the liveness properties are about.

### Bounds

* `MaxMessages` bounds the rows of `messages`. Three let two calls race for one
  key and a third row follow. `Requests` is two because every race in
  CreateMessage is between the check or insert of one call and the commit of another.
* `Agents`: two (owner and target; who is neither is the other of the two while
  nobody owns the conversation). Roles are `agent` and `admin`; `super_admin`
  passes the same tests as `admin`.
* `Tokens` has a wrong token beside the right one, so the refusal is exercised.
* `MaxAttempts = 2` separates first, retried and last attempts; attempts are
  counted up to it, since the code asks only whether it is reached. Two events and
  batches of two let a crash fall in the middle of a batch.
* Clocks: `AutoCloseAfter = 2` distinguishes before, at and after the deadline;
  `MaxTime` leaves room for a second message and its own deadline.
  `redis` and `create_shipped` use a TTL of 2 and a deadline of 3, in the order of the shipped 5 s and 8 s. Three callers
  let a third call meet a holder and one that outlived its lock.
* Realtime: `PageSize = 1`, `MaxReplay = 2`, `QueueCap = 2` with four ids stand for the
  shipped 100, 500 and 64 and reach the same cases: several pages, a replay cut off with
  messages left, a queue that fills up in the middle of it. One connection suffices: connections
  share only the hub, and each `BroadcastTo` touches one of them. `History` messages are old
  at the start; `MaxAgain` bounds repeated events.
* `autoclose` has two callers, so that hooks race, and two messages: the least that shows
  a hook that runs late.
* Accounts: `MaxOps = 4` calls, logins and restarts, of which two calls and a login run at
  once: enough for a login, a revocation during it, a second one that undoes it, and
  another look. The agents' addresses and a third one that is the super administrator's let every
  collision happen; one password is refused by the policy.
* Gateway: one request at a time, one administrative change, one connection, one widget
  session; what a second request could do to the first is the subject of `messages`, and what
  two administrators do to each other that of `accounts`. TLC's `VIEW` leaves out what no step or property of
  the module reads.
* RateLimiter: one request a minute and a burst of one over three ticks with three requests reach the limit, the
  refill, the clean-up and both edges of a minute; a table of one bucket is full
  at once.
* Knowledge: two reloads and one edit or crash; documents with every kind of line, blank ones too;
  questions that are a subject, a follow-up in three spellings, or one of the two that leave their particle or
  question mark behind; `CandidateK = 2` and `TopK = 2` leave chunks out.
* Discovery: faults and goroutines share a bound: two faults with one goroutine, or
  one fault with two.
* Watchdog: `FailThreshold = 2`, `Cooldown = 2`, four faults.
* `MaxFaults`, `MaxCrashes` bound faults; one or two suffice since every fault
  leads back to a state that is reached without it, or is what the property is about.
* Symmetry is used in safety runs only, on values whose identities are never compared except
  for equality. A `VIEW` leaves out what no step or property reads: in `autoclose` the answers and the outbox, in `redis` and
  `background` the part that does not run.

### Fairness

* Outbox: weak fairness of a dispatcher's own loop, its poll ticker and its
  restart, and of the passing of time. The wake-up (`Wakeup`) has none: Redis
  pub/sub may drop it. Publishing may fail for ever; then the event dies.
* AutoClose: weak fairness of the clock, the restart, the commit and hook of a
  running call and of a due timer. `RunCallback` has strong fairness: its
  transaction waits for the row lock, InnoDB grants locks in queue order, and
  message inserts that hold it are finite.
* Realtime: weak fairness of a connection's request and of its WriteLoop: upstream calls
  and writes have deadlines, reads have the pong deadline, and a ping goes out every
  25 s. Nothing is assumed of the consumer or the browser.
* Knowledge: weak fairness of each job's own steps; its calls have timeouts.
* Discovery: weak fairness of the processes' own steps without faults, of the clocks (cache, refresh
  interval, leases) and of the callers; none of the start of an instance. Strong fairness of an answer:
  a round trip is far shorter than the refresh interval, so that not every connection is
  replaced under its calls.
* Watchdog: weak fairness of time, of the check and of a restarted container's start.
* Nothing is assumed of visitors, agents or administrators.

## 4. What the properties say

Each property has a comment above it and, in `PROJECT.json`, a mutated form of
the code that breaks it: for example `InsertAndAnnounce` writes the event outside
the transaction, `ClaimFromAnyone` drops the claim's owner check,
`UnlockUnchecked` deletes the key without comparing the token, `DueWhenFired`
trusts the timer and not the database, `IssueTokenFresh` reads the token version again when it
signs, `ReadConversationAnySite` forgets the site of an agent, `QdrantSearchAll` the filter on the site,
`OnDistributedSuccessForgets` leaves the failures of the breaker standing.

`ReadIffAnnounced` compares the status column with the events in the order of the outbox, whatever ids are
reported: a range counts for the messages announced before it. A report of an id that is not issued yet
covers messages stored as sent later; a client that applied ranges to messages it learns of
afterwards would show them as read (section 7, 1).
`TimerCoversWaiting` and `EventuallyAutoClosed` except failed calls (`faults`) and late hooks (`overtaken`);
`DoubledByOverrun` counts the second conversations instead of excluding them.
`FollowUpKeepsTopic` is promised for follow-ups of leaning words and fields that end in nothing, or in a particle with its question mark
(`OnlyLeans`). `RestartJustified` says that the watchdog saw something bad in every check, not that
the tunnel had failed. `AnswersFromFiles` is conditional on chunks that fit into a prompt, which prose often does not
(section 7, 9). `RatesBounded` bounds the windows and the buckets in the table; keys that find it full are
not counted (section 7, 14). `CallsRecover` rests on the fairness of an answer (section 3): endless closing of
connections under their calls is assumed away.
`SessionsCurrent` excepts agents on whom two administrators' calls
overlapped (`dirty`): the lost update itself is a known gap and no property states its absence.
`ReadyIndexWhole` excepts sites into which a late write landed (`mixed`), and compares the count the status
file carries; section 7 says why.

## 5. Proofs

TLAPS proves the following for every value of the constants, from the named assumptions of the
modules alone (`ConstantsAssumption`, `OutboxAssumption`, `CreateAssumption`, `RealtimeAssumption`,
`AccountsAssumption`, `GatewayAssumption`, `WatchdogAssumption`, `AutoCloseAssumption`, `AutoReplyAssumption`,
`LimiterAssumption`, `TtlRefills`, `TextsAssumption`, `DocumentsAssumption`, `KnowledgeAssumption`,
`ChunksFinite`, `ReplyContentAssumption`). Nearly all say that bounds and sizes are numbers, that absent values differ from
present ones, and that what the program stores is finite; `TtlRefills` and the disjointness of
`ALLOWED_ORIGINS` and the sites' domains in `GatewayAssumption` are about the configuration. TLC
evaluates the assumptions in every run.

Each proof goes action by action. Lemmas of two kinds carry most of it: what the operators return, and
what a kind of step (one call ends, one record changes, rows are only added) does to each part of the
invariant, so that most actions are one citation.

**Conversation** (`ConversationProofs`).

* `TypeCorrect`: `Spec => []TypeOK`. The inductive invariant is
  `TypeInv == TypeOK /\ CallsConsistent`: a call that has inserted points at a row
  of its own with `tx = "open"`, which is what makes `CommitMessage` and
  `RollbackMessage` well typed.
* `TransferSafe`, and from it `OwnershipSafe` (the owner changes only by a claim of
  an unowned conversation or along the owner's own transfer: needs
  `TransferConsistent` to know that `pendingFrom` is the owner at the time of the confirm).
* `ClosedRowFrozen`: no action changes a closed row.
* `KeysSafe`: `UniqueClientMsgID` is not inductive, since two open rows could share
  a key; the strengthening `KeysUnique` covers rows that are open as well as committed.
* `AcknowledgedSafe`, `MessagesAnnounced`, `ClosingAnnounced`: rest on lemmas that say
  how each action changes the tables (`RowsKept`: rows keep their sender and key and
  move only from open to committed or rolled back; `RowsAdded`: new rows at the
  end; `GrowsWithout`: the outbox grows by events of other types).
* `ReadsSafe` (`ReadIffAnnounced`), for every id that may be reported. The run's invariant speaks of committed
  rows. A row that is open while others are marked read commits later, so the strengthening
  `ReadsAnnounced` covers it too: nothing has been announced of it, so no range counts for it.

**Compositions with Conversation** (`CompositionProofs`). `AutoCloseImplements` and `AutoReplyImplements` show that the
process with its timers and crashes, and the consumers of ai-service, only take steps of
`Conversation`. All theorems above therefore hold of them as well.

* `NoConversationClosedEarly` (`NoEarlyAutoClose`). The timers play no part: whatever fires,
  `CloseIfDue` looks at the newest committed message under the row lock. The property also speaks of rows still
  in their transaction; `OpenRowsHeld` says that each has a call that holds the lock, and `RowsTimed` that
  the newest row is the youngest.
* `WaitingIsTimed` (`TimerCoversWaiting`), for any number of callers, callbacks, crashes and restarts, and hooks in
  any order. `TimerInv` says that a hook is pending only between calls and for a committed message
  (`HooksAfterCalls`), that a later look is planned no later than the deadline (`LooksTimely`), that a close
  cancels the timer of a closed conversation only (`CancelsAfterClose`), that a dead process remembers nothing
  (`DeadForgets`), and that, unless it was overtaken or a call failed, a waiting conversation has a timer, a callback
  that looks at it, or the hook of its newest message still to run (`WaitingCovered`).
* `RepliesSafe` (`OneReplyPerMessage`). `AutoReplyInv` says that a row written as `ai` has the key made of an
  earlier message of the visitor, and that the running calls of the consumers carry such keys; different messages
  have different keys, and `KeysUnique` does the rest. The Redis lock does not occur in the argument: it saves
  work, and correctness rests on the unique index. It needs that no other caller writes as `ai`, which the
  gateway sees to (`http_chat.go:261`).

**Outbox** (`OutboxProofs`), for any number of dispatchers, batch size, attempts and faults.

* `DeliverySafe` and `DeadLettersExhausted` (`PublishedWasDelivered`, `DeadOnlyExhausted`). A dispatcher
  marks a row from memory, perhaps after another one has taken the row over, so the inductive
  `OutboxInv` says what the memory still means: the attempts it remembers are at most
  the row's (`BatchBehindRow`), and what it is about to mark is justified (`MarkJustified`:
  delivered if published, last attempt if dead).
* `OutboxImplements`: `DeliverySpec => Delivery!SafetySpec`, the safety half of `ImplementsDelivery`.
  `DeliveryInv` adds that a dispatcher that is down remembers nothing, that a batch
  names no row twice, and that while only one dispatcher has ever been started the rows of its batch are
  unsettled: this is why nobody reopens what is settled. The fairness half stays with TLC.

**ConversationCreate** (`ConversationCreateProofs`).

* `OpenConversationsBounded` (`DoubledByOverrun`), for any lifetime of the lock and any deadline. `CreateInv` counts what may
  become an open conversation: those that are open, the calls between query and insert that have outlived their lock (`Outlived`), and
  the lock's holder once its query found none (`HolderInserts`). The sum never exceeds one more than the overruns
  (`OverrunsCover`): a step that adds to one part takes from another, or is an overrun.
* `LockHeldSafely` (`LockReleasedByHolder`).

**Realtime** (`RealtimeProofs`), for any number of connections and messages and any page, replay and queue
sizes: `RealtimeTypes`, `ReplayWhole` (`ReplayComplete`), `NoWindow` (`NoWindowLost`). `RealtimeInv` follows a
connection through its request. While it lists, everything wanted at or above the bound of the next page has
been found (`Listed`); while it sends, everything wanted is still to be sent, queued or received
(`OnItsWay`); in the queue it is ahead of `replay.end` (`EndLast`); and an event handled after the registration
is queued, received, or still to come from the running broadcast (`LiveInv`). The parts are tied to the
WriteLoop and not to the socket, since the loop drops a frame only when it ends.

**Accounts** (`GatewayProofs`): `ChangesSafe` (`ChangesAccountable`), `SessionsSafe` (`SessionsCurrent`),
`DirectorySafe` (`DirectoryConsistent`), for any number of concurrent calls, logins, agents and sites. A call saves a row it
read earlier. `SavesTrue` says what that row still means: if no other call has the same target, it follows the
table's row, with a higher version, or with the same version and password; if another has, the target is
`dirty`. `SessionsTrue` says that a token, or a claim that is yet to be signed, is not newer than the row and has
its password if it has its version, and that a revoked one is older. `CallsTrue` and `DirectoryTrue` say that the rows
in hand are as sound as those in the tables, whose unique keys reject the rest.

**Gateway** (`GatewayProofs`), for any number of staff, sites, requests and connections.

* `GatewayImplementsConversation`: requests, administrators and connections together only take steps of
  `Conversation`, whose theorems therefore hold behind the gateway.
* `SiteIsolated` (`SiteIsolation`). chat-service takes the word of its callers, so everything rests on what the
  gateway has checked, and on it still being true when the call is made. `GatewayInv` has one clause per phase
  of a request (`Ready`): past the check of the conversation the caller is the visitor or an agent of its site
  (`Party`), past the check of a target so is the target. This lasts because an agent never changes site (`StaffRowsTrue`) and a site
  keeps its domains to itself (`SiteRowsTrue`). `ConvTrue`, `AuthorsTrue` and `ConnsTrue` say the same of the owner,
  the rows and the connections.
* `RightsRespected` (`ActsWithinRights`). The same invariant, with the marks a request carries from its beginning: a
  session ended before it began fails the token check, since versions never come back; a request that
  began in a disabled site is past the site check only if the site has been active since.

**Knowledge and ReplyContent** (`KnowledgeProofs`), for any sites, documents, questions, batch sizes and numbers of
reloads and faults.

* `IndexWhole` (`ReadyIndexWhole`). `KnowledgeInv`: a site has one job, and its status says `indexing` from before the
  first write on (`JobsExclusive`); what is left to upload is part of what was loaded
  (`JobsLoaded`); while a job uploads, Qdrant holds exactly what it has uploaded (`JobsUploaded`). The step from the upload of all
  batches to `ready` is then a count of finite sets.
* `RepliesGrounded`, `FilesSuffice` (`ReplyGrounded`, `AnswersFromFiles`). `AnswerInv` says that the candidates of a search
  are chunks of the asked site (`SearchTrue`), whatever the index does between the steps; the lemmas about
  merging, reranking and cutting to the length of a prompt say that something is left of a non-empty set.
* `TopicsKept` (`FollowUpKeepsTopic`), with lemmas about the least and the greatest position in a history.
  `LeaningNamesNothing` says which follow-ups the code recognises: those of `OnlyLeans` have no topic of their own. When the only earlier
  message of the visitor that names a subject is small talk, `buildConversationState` skips it, and the follow-up is searched
  without a subject.

**RateLimiter** (`EdgeProofs`), for any gateways, requests, callers, rates and windows.

* `LimiterSafe` (`RatesBounded`). Redis: a request that is going to be let through has been counted already, so
  `SharedTrue` bounds those let through and those about to be (`Winning`) by the counter and by the limit. Local buckets:
  the property quantifies over all stretches of time, and `BucketFair` is its inductive form: what a bucket let through since any
  earlier tick, and the tokens it has now, are at most the burst and the refill since. Spending a token
  moves one from the right to the left, a tick adds at most one, and a bucket the clean-up forgets was full
  (`CleanupForgetsFull`, from `TtlRefills`).
* `CircuitSafe` (`CircuitJustified`). `CircuitTrue`: the breaker never counts more failures than there were since the last
  success, and a report carries a time that is not in the future.

**Watchdog** (`EdgeProofs`): `RestartsJustified` (`RestartJustified`), for any threshold, cooldown, set of containers
and number of faults. The probes see the tunnel at different times, so `WatchdogInv` ties each result to
what was bad at some time during the check (`ProbesTrue`), and the counters of the code to the histories
they stand for (`CountersTrue`).

Only model-checked:

* all liveness (`EventuallySettled`, `EventuallyAutoClosed`, `EventuallyReleased`, `ReloadEnds`, `RegistryConverges`,
  `CallsRecover`, `TunnelRecovers`) and the fairness part of `ImplementsDelivery`: out of the prover's reach;
* `RegistryConverges` and `CallsRecover` are liveness, so `Registry` and `DynamicClient` have no theorems.

## 6. Assumptions about the environment

* MySQL: REPEATABLE READ, row locks and unique indexes as InnoDB documents them.
* Redis: one server; SETNX and the release script are atomic; keys expire on time.
* The outbox is enabled (the default). Without it events are published
  directly and none of the announcement properties is meant to hold.
* Message ids are issued in insertion order and commit in any order.
* ai-service's lock lives 10 minutes, longer than its processing timeout, but
  the model lets it expire at any time.
* Qdrant applies a write whole or not at all, perhaps after its caller gave up; etcd
  the same. A lease ends only when nobody keeps it, or by a fault.
* The limiter's buckets live at least as long as they need to refill (`TtlRefills`);
  the services start in an order without circles (`StartupAcyclic`).

## 7. Known gaps in the code

What the models show the code to allow, and the properties therefore leave open.

Conversations and closing:

1. A message checked before a close is committed, and announced, after it
   (`chat_service.go:318`); `docs/backend/grpc-contract.md:53` promises
   `FailedPrecondition` for a closed conversation. MarkMessagesRead takes any
   `last_read_message_id` above 0 (`http_chat.go:405`, `chat_service.go:415`) and publishes it as the end of the
   range, so messages stored as sent later lie in a range that was announced as read.
2. Of two concurrent sends with one `client_msg_id` the slower gets a
   duplicate-key error and not the message: the second look runs in the old snapshot
   (`chat_service.go:378`).
3. Hooks in the other order than their messages leave a waiting conversation
   without a timer until the next message or restart (`auto_close_scheduler.go:174`);
   `docs/backend/conversation-state-machine.md:36` states the close without exception. `TimerCoversWaiting` and `EventuallyAutoClosed` leave it out
   (`overtaken`).
4. A 5 s lock (`chat_service.go:34`) under an 8 s deadline allows two open conversations, although
   `docs/backend/conversation-state-machine.md:56` says that the lock prevents it. Run `create_shipped`.
5. A failed automatic close is logged and its timer is gone
   (`auto_close_scheduler.go:271`), so `TimerCoversWaiting` and
   `EventuallyAutoClosed` end at the first failure.

Replies and realtime:

6. Two ai-service instances may answer two messages in the wrong order, and an answer
   may be committed after an agent has claimed, since `createReply` reads and writes in two calls.
7. A message that commits late, with an id below a client's `last_message_id`, while
   the client is away is never replayed (`handler.go:385`); exactly 500 missed messages are
   reported as truncated although nothing is left (`handler.go:390`); an ack that finds the queue
   full is dropped and the connection stays open, where `docs/backend/ws-protocol.md:153` says
   that a full queue closes it.
8. After a crash the status of a site stays `indexing` until the next reload; a write that
   timed out may land in the next job's index; a search that saw `ready` may read a half-replaced
   index.
9. An FAQ among the results is quoted even if its question does not match; for a follow-up the oldest
   topic of the visitor wins. `extractConversationTopic` trims suffixes before punctuation
   (`auto_reply_service.go:1324`), so 这款多少钱？ has the topic 多少钱 and is searched without the earlier one. Blank lines are
   dropped before a document is cut (`document_loader.go:373`), so a fact or prose after an FAQ goes into its
   answer, and the prose of a section is one paragraph of any length; when the first result is longer than a prompt, the
   reply is that nothing is known, without the model. Table cells beyond the headers, under an empty header, or
   beyond the first two of a key/value table are lost (`document_loader.go:487`).

Accounts and gateway:

10. Two calls that overlap on one row: the later save puts an older `token_version`,
    status, password or key back (`admin_service.go:553`), and ended sessions may live again.
11. A new SUPER_ADMIN_PASSWORD does not raise the token version: old sessions stand.
12. A disabled agent's conversations stay theirs until they are closed; an open WebSocket
    connection outlives its session (only the site is asked at each message).
13. The list of conversations does not ask whether the site is active, and with
    `assigned_agent_id` shows an agent the conversations of colleagues; administrators who are not
    super administrators may start a reload and read AI settings through the gateway; gRPC reads between
    the services are not authenticated.

Infrastructure:

14. A full table of buckets lets unknown keys through uncounted; a request refused under a
    later key has already used the earlier ones.
15. An endpoint is registered before it listens and listed while it drains; a fatal exit skips
    Close; a call on a connection that another goroutine's refresh closed ends with Canceled
    and is not retried; a retry after DeadlineExceeded may execute twice.
16. Docker is given ten seconds to stop the tunnel and the watchdog's client ten to wait, so a restart that
    happened may count as failed and is repeated without a cooldown. `README.md:200` says that a restart needs a
    failed public probe and too few connections; the code counts unreachable metrics as too few, and without
    a public URL, the default, asks for nothing else: a tunnel that serves is restarted (run `watchdog_readme`). A tunnel with
    healthy metrics that the public cannot reach is never restarted.

## 8. Not modelled

* HTTP middleware, metrics, logging, configuration, the HTTP endpoints of chat-service, which
  nothing calls, and the test client `ws-push-check`: no state that a property depends on.
* Scores, thresholds and the wording of prompts and answers; the history text in a prompt. Front ends:
  their retries and ids appear as inputs of the models.
* JWT secret rotation, a change of SUPER_ADMIN_EMAIL, the rule that localhost matches any port,
  sites without domains, ALLOWED_ORIGINS set to everything.
* Two ai-service processes reloading one site; two incarnations of an instance with one id;
  `DynamicClient.Close`.
* The pages of the audit log, an operator of one `OFFSET` query.
* A domain that leaves one site and is taken by another between the origin check of a WebSocket handshake and its upgrade:
  `Gateway` changes the domains of one site only.
* Generated code and build files.

## 9. Plan

Done: the modules of section 2, with the proofs of section 5. Every safety property a passing run checks is
proved, for every value of the constants. What is left is outside the provers' reach (liveness, induction over data), or needs
the code to change first (section 7).
