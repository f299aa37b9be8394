# Verification of hermes-linux-stack

TLA+ specifications of the parts of hermes-linux-stack whose correctness depends
on the order of events: who may run what, after whose approval, how often; which
model answers a request, within which limits; and what remains true when messages
are lost, threads die, requests overlap or processes restart. Each module is
translated from the source it names in its header; `PROJECT.json` maps every
definition to its lines.

## 1. The system

| Component | Source | State it keeps | Operations | Talks to |
| --- | --- | --- | --- | --- |
| Execution broker (`docker`, `ssh`, `sandbox` mode) | `execution-broker/src/broker/server.py`, `store.py` | SQLite table `capabilities`; semaphore `_slots` | `/prepare`, `/execute`, `/cancel`, `/approval-grant`, restart | approver (HTTP, both ways), Docker engine or ssh |
| Approver | `approver.py`, `server.py` | SQLite table `approval_requests`; polling offset | `/request`, the polling thread: button presses, retries | Telegram, brokers |
| Execution admin | `admin.py` | three policy files and two secrets, shared by bind mounts | `PUT features`, `users`, `bot-token`, `POST rotate-control-secret` | every reader of the files |
| Validation and sealing | `schema.py`, `approval.py`, `ssh.py` | none; reads SSH profiles | validate, digest, seal a profile | |
| Back ends | `sandbox.py`, `engine.py`, `ssh.py` | containers, password files | run in a container, run over ssh | Docker engine, ssh |
| Execution and package plugins | `plugins/stack-execution-policy`, `plugins/stack-package-policy` | prepared operations of the Hermes process | prepare, execute or install, approval hooks | brokers, pip, npm |
| Smart Router: dispatch | `smart-router/.../main.py`, `proxy.py`, `routing.py`, `features.py` | none of its own | classify, choose a tier, forward, retry, fall back | providers, the stores below |
| Smart Router: sticky sessions | `database.py` | per session: tier, counter, expiry (SQLite or Redis) | resolve, reset | Redis |
| Smart Router: provider health | `provider_health.py` | per model: failures, circuit state | available, record, fallback | control database |
| Smart Router: limits and budgets | `shared_state.py`, `control_plane.py`, `budget.py`, `costs.py` | counters by minute and day, cost of the month | admit, limit the output | Redis, control database |
| API translation | `responses.py`, `anthropic.py`, `proxy.py` | per stream | translate requests, answers, event streams | dispatch |
| Orchestrator | `orchestrator_v60.py` | runs and steps in the control database; a lock per run | plan, create, advance, approve, reject, delete | agents, reviewer |
| Graph engine | `graph_v59.py`, `control_plane.py` | graphs of routers, agents, workflows, ingestions | normalise, validate, plan, store | |
| Control plane | `control_plane.py`, `control_db.py` | users, keys, prompts, agents, teams, workflows, settings | CRUD, hooks of every request | all of the above |
| Access control | `security_v51.py`, `acl_v52.py`, `oidc_v52.py`, `policy_v51.py` | deny list, groups, rules, policies | sign in and out, decide | control database |
| Knowledge | `knowledge_v51.py`, `vector_rag_v56.py` | chunks and vectors | ingest, index, delete, search | embedding model |
| Offline evaluation | `smart-router/.../eval`, `training` | files | benchmark, train, calibrate | |
| Lifecycle scripts | `install.sh`, `manage.sh`, `scripts/stack-ops.sh` | `.env`, policy files, volumes | install, configure, back up, upgrade, roll back | Docker Compose |
| n8n / Open WebUI bootstrap | `scripts/*.mjs`, `scripts/*.py` | remote databases | idempotent set-up and verification | n8n, Open WebUI |

**The execution parts.** The plugin asks a broker to *prepare* an operation; the
broker validates and seals it, inserts a capability row and posts the operation to
the approver, which stores a request and sends a Telegram message with two buttons.
The approver's only polling thread receives the press, records the decision, signs
it and posts it to the broker, which approves or cancels its row. Meanwhile
`/execute` polls the row for up to 300 seconds, claims it with one
`UPDATE ... RETURNING` and runs the operation, in a container or over ssh. Brokers
and approver reread three files, which the admin service rewrites, on every call.

**The router.** A request is classified into a tier; its session may raise the
tier; routing policies, the key's quotas and tiers, the month's budget, the
pipelines drawn in the studio and the circuit breaker then settle the model. The
upstream is asked, retried, and replaced by a pipeline's fallbacks; the outcome is
recorded for the circuit breaker and the budget. Clients of the Messages and of the
Responses API are served by translating their history and the upstream's stream.
Several replicas may share Redis and the control database.

What is hard about it:

* **Concurrency.** Every HTTP request of a broker, the approver and the admin
  service is a thread. The broker's row, the approver's row and the policy files
  are three copies of one decision, changed by different processes. The router's
  handlers interleave at every `await`: a PUT loads its row and then waits for its
  body. Its replicas overwrite each other's rows.
* **Failure.** Each call has a timeout shorter than what it may wait for (20 s
  against 35 s in `/prepare`), any answer may be lost after its effect, every
  process may be restarted at any point, streams break off anywhere, and any call
  to the Docker engine may fail before or after its effect.
* **Ordering.** A press may precede the approver's own knowledge that its message
  was shown, a cancellation may race an approval and a poll, a policy change may
  fall between two reads, a lock may expire under its holder.
* **Time.** Rows, sessions, tokens and locks expire; waiting calls hold permits;
  quotas turn over with the minute and the day.

What makes each component correct:

* broker: an operation runs at most once, only after its user's approval, as he
  was shown it, and never after its preparation failed; permits are conserved;
* approver: a decision never changes, and is sent until the broker knows it;
* admin: what was issued before a completed mutation is not honoured after it;
* back ends: no container is left behind, a result is true of the command, a login
  is made with one version of a profile;
* plugins: one approval, one start, in the session that was asked;
* orchestrator: no step that needs a decision runs without it, steps run in order
  and at most `max_attempts` times, a finished run stays finished, a run settles;
* dispatch: the first model asked can do what the request needs, limits of output
  and money hold, every request is answered, a failing model is taken out of service;
* sessions and quotas: no lost update while a lock holds, no demotion without its
  turns, nothing admitted beyond the quota;
* translation: events are well formed and numbered, a truncated answer does not look
  complete, a streamed answer equals the buffered one, a history stays acceptable;
* control plane: what is stored refers to what exists; overlapping requests do not
  undo one another; what is signed out, denied or purged stays so; what an operator
  set survives a restart; chunks, vectors and documents agree.

## 2. Modules

| Module | Models | Builds on |
| --- | --- | --- |
| `CapabilityStore` | `store.py`: the `capabilities` table, one action operator per SQL statement | |
| `TelegramApprover` | `approver.py`: the `approval_requests` table, the polling thread's state | `CapabilityStore` |
| `ExecutionAdmin` | `admin.py`: policy files and the steps of a mutation | |
| `ExecutionApproval` | `server.py`: the protocol of client, broker, approver, administrator and clock | the three above |
| `OneTimeGrant` | the abstract promise: a grant is issued, decided, approved, claimed, run once, or void | |
| `ExecutionPolicy` | the policy generation as a revocation mechanism, with overlapping requests, failing writes and a dying admin service | `ExecutionAdmin` |
| `PluginGate` | the two approval plugins of Hermes: hooks, tools, sessions, restarts | |
| `SandboxRun` | `sandbox.py` and `server.py`: one container, call by call, with the engine's failures | |
| `SshLogin` | `ssh.py`: a profile sealed, loaded again and used while the operator changes it | |
| `Orchestrator` | `orchestrator_v60.py`: one run, its steps, its lock, the requests about it, restarts | |
| `TierRouting` | `features.py`, `routing.py`, `budget.py`: the decision, the capability gates, the output budget | |
| `StickyRules` | `database.py`: what one turn does to a session's tier | `TierRouting` |
| `StickySession` | `database.py`: the two stores of a session, the Redis lock that expires | `StickyRules` |
| `ProviderHealth` | `provider_health.py`: the circuit breaker on a row that replicas overwrite | |
| `RouterPipeline` | `control_plane.py`, `graph_v59.py`: pipelines and graphs applied to a request | `TierRouting`, `ProviderHealth` |
| `RequestPath` | `main.py`, `control_plane.py`: a chat request from arrival to the record of its outcome | `RouterPipeline`, `StickyRules` |
| `RateLimit` | `shared_state.py`, `control_plane.py`: the quotas of one key in Redis and in the database | |
| `ChatStream` | `proxy.py`: the lines of a streamed completion, and their collapse into a buffered one | |
| `MessagesStream`, `ResponsesStream` | `anthropic.py`, `responses.py`: the stream translators, as functions on lines | `ChatStream` |
| `TranslatedStream` | `_wrap_stream` of both: chunks, cut lines, broken streams, and a client that reads the events | `ChatStream`, instances of both |
| `ChatRequest` | `anthropic.py`, `responses.py`: a history on its way to a chat request | |
| `StudioGraph` | `graph_v59.py`, `control_plane.py`: what is drawn, normalised, planned and stored | |
| `AgentRegistry` | `control_plane.py`: agents, teams and their resources under overlapping requests | |
| `PromptVersions` | `control_plane.py`: versions of a prompt and their activation | |
| `SignIn` | `security_v51.py`, `oidc_v52.py`: users, tokens, the deny list, external identities | |
| `AccessRules` | `acl_v52.py`: groups, rules, decisions | |
| `KnowledgeIndex` | `knowledge_v51.py`, `vector_rag_v56.py`: documents, chunks, vectors | |
| `RuntimeSettings` | `control_plane.py`: settings in the memory of replicas and in rows | |
| `MCExecutionApproval`, `MCOrchestrator`, `MCRequest`, `MCRouter`, `MCTranslation`, `MCOperations` | instances for TLC | |
| `ExecutionApprovalProofs`, `ExecutionHostProofs`, `OrchestratorProofs`, `RouterProofs`, `TranslationProofs`, `ControlPlaneProofs`, `StudioProofs` | the theorems of section 6 | the modules they are about |
| `FoldTheorems` | recursion over numbers and finite sets: the lemmas about sums, walks and lists of section 6 | |

`MCRouter`, `MCTranslation` and `MCOperations` put parts together that have no
variable in common. A behaviour takes the steps of one part, chosen at the start
(`shown`), and the others stay in their first state: the states explored are the sum
of the parts' and not their product, and nothing is lost, since no part reads
another's state.

### State and code: the execution protocol

* `caps[n]` is the row of nonce `n`. A row's feature, digest, user and session
  are one value, its `bound`: the code only ever compares all of them with what a
  caller gives. `NoRow` is a row that was never inserted or was purged.
* `request[n]` is the approver's row, `prompt[n]` whether Telegram shows its
  message, `poller` the thread of `run`: idle, waiting for the broker's answer,
  holding an answer, or dead.
* `prepare[n]`, `submission[n]` are the `/prepare` and `/request` threads about
  `n`; `posts` and `accepting` the decision posts on the network and those whose
  first checks passed; `calls[t]` the `/execute` call that thread `t` serves;
  `slots` the semaphore.
* `features`, `users`, `generation` are the files as their readers parse them;
  `mutation[a]` is how far admin thread `a` has come.
* `now` is `time.time()`, shared by broker and approver, which run on one host.
* `claims`, `runs`, and in `ExecutionPolicy` `superseded`, `overlap` and `exposed`, are
  history variables and no guard reads them; `faults` and `mutations` only count
  towards bounds.

A mutation is several steps because the code makes that many visible: open with
`O_TRUNC`, write, read the generation, open the generation file with `O_TRUNC`,
write it. A truncated file is parsed as no features, no users or generation 0.

`HandlePress` and `RetryDecision` end with the post on its way: the thread does
nothing else until its answer. `_execute` reads the features and, one statement
later, the generation: `ExecuteBegins` reads both. `_accept` reads the generation
twice: `CheckDecision` is the first read, `ApplyDecision` the second together with
the statement on the table. (The two can be one step: were the generation to
change between them, the row that matched the value read would be found, or not
found, exactly as if the read had taken place later, or the row had changed
earlier.) A nonce is drawn for one call and never again, so what that call asks
for is the constant `Asked`.

### State and code: the broker's hosts and the plugins

`SandboxRun` follows `run_sandbox` and `_run_container` statement by statement:
`step` is the next call to the engine, and each call succeeds, is refused without
effect, or breaks after its effect. `SshLogin` reads a profile file by file, in the
order of `load_profile`; a file's content is the number of the version it was
written for, and the operator's commands of `manage.sh` (external) replace, restore
and remove the directory in between. `PluginGate` has one operation table for both
plugins; a hook or a tool call is one step, because Hermes runs the hooks of a
process one after another (external; the plugins take no lock and rely on it).

### State and code: the orchestrator

`run` and `steps` are the rows of the control database (a run that is not there is
"absent"), `request[c]` what the HTTP handler that serves `c` is doing, and `line`
the `asyncio.Lock` of the run: its holder first, then those that wait for it, in the
order in which asyncio hands it on. A handler runs uninterrupted from one await to
the next, and the awaits are that lock, the agent and the reviewer; so an action is
the code between two awaits. A request that finds the lock free is not suspended by
`acquire`: it is "entering", and nothing else happens before its next await.
`delete_run` awaits nothing and takes no lock. `Restart` may fall between two awaits
or between the two commits of one stretch of code. Runs share nothing, so one is
modelled; the planner's answer is the constants `Last`, `MaxAttempts`, `Flagged`,
`Dangerous` and `RiskOf`.

### State and code: the router

A request is abstracted to the facts `analyze_request` finds in it (`facts`: tokens,
tools, images, structure, cues) and to what it asks for (an alias or a model, a
session, a key, limits). In `RequestPath`, `req[r]` is the local state of its
handler: `Arrive` is everything up to the session, `sticky` the store's answer,
`finalize` the hooks of the control plane, `sending` one attempt, `save` the second
half of the record of its outcome. A step is one turn of the event loop; since
replicas share the database, the record of an outcome is two steps, the read of the
model's row and the write of the columns that changed. `moved` notes that a pipeline
chose the model, and no guard reads it. `down` are models whose provider does not answer any
more, which is where the upstream stops being arbitrary.

In `StickySession` the SQLite store does a turn in one step (one transaction under a
lock of the process); the Redis store reads and writes in two, holding a lock with an
expiry which `reset` does not take. In `RateLimit` a call takes its minute first and
its store decides later; a silent Redis may have run the script or not.

In `ChatStream` a line of the stream carries one delta, and pieces are numbers so
that their order can be told. The translators are functions from a translator and a
list of lines to a translator with the events of these lines, as in the code, where
`feed` is called per chunk. `Client` reads the events as the protocols' documents
demand and records the first violation. `ChatRequest` keeps one conversation as the
histories of both protocols, `acts` (an item each) and `turns` (the acts of one side in a
row are the blocks of one message), and translates each as the code does: item by item, and
turn by turn, block by block.

### State and code: the control plane

A table is a function from row numbers to rows; SQLite gives the number after the
largest one present, so a deleted last number is used again, and this is modelled
where rows are referred to by number (`AgentRegistry`, `KnowledgeIndex`,
`PromptVersions`). A PUT is two steps: the row is loaded before the body is awaited,
and the session writes the columns that differ from what was loaded. In `SignIn` a
token is its payload. In `KnowledgeIndex` the chunks of a document are one commit and
the vectors one each. In `RuntimeSettings` every setting of a PUT is a transaction,
between which a replica may die or another may start. `StudioGraph` draws a graph
edge by edge from a palette with wrong ports and cycles in it; saving normalises,
validates, plans and stores it in one step.
The recursive `visit` of `_has_cycle` is a table by depth (`HasCycle`), the loops of
`router_graph_plan` are folds, over the stages and over the edges of each.

## 3. Runs

| Run | Instance | Result |
| --- | --- | --- |
| `faults` | one operation and a second binding to confuse it with, two execute threads, two permits, three faults of any kind but a cut reply, TTL 2, clock to 3; `DeliverySpec` | the protocol's safety properties, the refinement, a recorded decision lands |
| `policy` | one operation, one admin thread, two mutations (any target, any payload), one fault, cut replies included | approvals match prompts, the refinement with grants void under a new generation, the inductive invariant of section 6 |
| `contention` | two operations, two threads, one permit, rows purged as soon as they expire; `CallSpec` | a permit always comes back |
| `orchestrator` | three steps of which one is flagged, one matches a pattern and one uses a high-risk tool; all three approval modes; two requests at once, any number one after the other; any number of restarts; `FairSpec` | every safety property, a running run settles |
| `router` | requests: five kinds, two at a time, two models, three tiers, two policies, two pipelines, a key and a monthly limit, a circuit that opens at the first failure, sessions and months that end; sessions: two calls, promotions and demotions, both stores, a lock that expires before its holder ends; quotas: two callers, both stores, three minutes over two days | limits, capabilities, sessions, quotas |
| `router_breaker` | two kinds of request, two at a time, a session, two pipelines, a monthly limit, a circuit that opens at the second failure, a provider that fails for good | answers, the circuit breaker |
| `translation` | answers of at most four lines in chunks of at most two, two calls by index, cut anywhere, ended, broken; histories of at most six acts with three calls | events, truncation, buffered answers, histories |
| `operations` | eleven parts, see below | the parts' invariants |
| `orchestrator_late_decision` | as `orchestrator` | **violated**: section 5, 1 |
| `router_masked` | one pipeline with a retry and a fallback | **violated**: section 5, 2 |
| `translation_cut` | as `translation` | **violated**: section 5, 3 |
| `operations_disable` | as `operations` | **violated**: section 5, 4 |

The properties. An invariant whose name ends in `Inv` is a conjunction of named
parts, which the modules state one by one; the module's type invariant is one of them
(`TypeOK` is one of `IInv`).

*The execution protocol.*
* `RunsAtMostOnce`, `RunsAsApproved`, `FailedPrepareIsDead`, `GrantMatchesPrompt`:
  what runs, runs once, as approved and as it was shown, and not after a failed
  preparation.
* `GrantedMeansApplied`, `DecisionIsFinal`, `EveryDecisionLands`: the two tables
  agree, the approver does not give up too early, and does not give up.
* `PermitsAccounted`, `APermitComesBack`: permits are neither lost nor invented,
  and a broker whose permits are all taken by waiting calls recovers.
* `ImplementsOneTimeGrant`: the protocol refines `OneTimeGrant` under the mapping
  of section 6. `faults` checks it with every fault and no mutation, `policy` with
  mutations, after which a restart voids grants whose decisions are under way.
* `PolicyInv`: whatever requests of the admin service overlap, fail or are killed, a
  superseded capability is honoured at most while the generation file is truncated.
  It excepts the capabilities that are `exposed`: issued before two bumps overlapped or
  while they did, or before one was given up after it had emptied the file (section 5,
  `RotationInvalidates`).

*The broker's hosts and the plugins.*
* `SandboxInv`: no container stays that could have been removed, and "executed" or
  "timed out" is true of the command (`NothingLeftBehind`, `AnsweredAsItWent`).
* `SshInv`: a login is made with the sealed version of a profile and with one
  version, however its files are exchanged between two reads (`LoginIsOfOneProfile`);
  a password file lives as long as its ssh (`PasswordsAreNotLeft`).
* `GateInv`: one prompt, one start, after "once", in the session that prepared
  (`StartedOnceAsAnswered`, `RunsWhereItWasPrepared`).

*The orchestrator.*
* `NothingRunsUnapproved`, `StepsInOrder`, `CompletesWhatIsLeft`: a step starts only
  after its decision and after every earlier step, and a run completes with
  everything done. The last two except a step that a dead process left "running".
* `RunInv`: who works holds the lock and the run says so (`WorkIsOnRecord`), attempts
  are bounded over all requests and restarts (`AttemptsBounded`), a pause waits on one
  step (`PausedOnOneStep`). `TheEndIsFinal`: an ended run stays as it ended.
* `RunSettles`: while the process lives, a run leaves "running".

*The router.*
* `FirstAttemptCapable`: whatever the session, a policy, the key or an open circuit
  makes of the tier, the first model that is asked has the tools, the images and the
  context that the request needs. It excepts what comes after the gates: a profile the
  client names (`X-Router-Profile`) and a model that a pipeline chooses (section 5,
  `HardGatesWin`).
* `RequestInv`: the output asked for is within the tier's, the client's and the
  policies' limits (`OutputWithinLimits`); the month is overspent by at most what the
  requests under way cost together (`OvershootBounded`).
* `EveryRequestAnswered`: retries and fallbacks, which share one counter, end.
* `UnmaskedFailureOpens`: a model whose provider is gone and that is asked again and
  again is taken out of service again and again, although replicas overwrite each
  other's counts, unless fallbacks answer in its place.
* `StickyInv`: nobody writes a session's row under a call whose lock still holds
  (`ReadIsCurrent`); no turn gets less than it asked, nor a demotion before its turns
  are counted (`NeverBelowProposal`), nor a session past its age (`NoSessionTooOld`).
  `PromotionSticks`: a session's tier goes down only by a counted demotion, an expiry
  or a write after a lock had expired.
* `RateInv`: what is admitted keeps the quotas, once per store that may grant them
  (`WithinQuota`); a store's counters agree with each other and cover what was
  admitted (`CountersAgree`).

*Translation.*
* `StreamInv`: blocks are opened, written and closed once and in this order, numbers
  have no gaps, the whole matches its parts, nothing follows the end (`WellFormed`). It
  excepts the end of a stream whose last chunk made events, which are sent twice then
  (`fresh`; section 5, `NumberedByPlace`).
* `TruncationIsTold`: a client is told "complete" of a stream that came to its end and of
  no other, and "failed" of one that broke off; this holds without exception.
  `SameAsBuffered`: text, calls and finish are those of the buffered answer, if no
  line was cut and nothing was sent twice. `HistoryTranslated`: a history with calls in
  parallel becomes messages
  that a chat upstream accepts, with every text once and in its place.

*The control plane.*
* `GraphInv`: stored edges join ports that exist and fit (`GraphTypeOK`); the
  depth-first search finds a cycle exactly when there is one, checked against
  reachability (`CyclesAreFound`); a stored pipeline's order puts every stage after all
  that lead to it (`PipelineRuns`); an agent's generated graph stands and gives back
  its resources (`DefaultGraphStands`, `ResourcesFeedTheAgent`).
* `RegistryHolds`: links lead to skills that exist, a PUT keeps the columns it does not
  name. `OneActiveVersion`: at most one version of a prompt is active, numbers are
  unique. `SignInInv`: signed out stays out; an external identity has its own user.
  `RulesHold`: a standing denial binds; a purged group's name is free. `KnowledgeInv`:
  a source is one whole document; a chunk that was indexed is never scored by another's
  vector (of the others, section 5, `IndexingIsAdditive`).
  `SettingsAreRecorded`: what takes effect survives a restart.

### Bounds, and why they are enough

*The protocol.* `MaxNow`, `MaxFaults` and `MaxMutations` bound the clock, failures and
mutations. `Prepare` is enabled only while the clock has room for the row to expire, so
every row of an instance can live, expire and (with `PurgeAfter = 0`) be purged by a
later insertion. Two faults suffice for the longest hazards the code has: a lost
answer followed by a restart, or two lost answers of one decision. Operations do not
interact except through permits and purging, so one nonce is enough for the protocol
and two for contention. Two bindings are needed for a call that names the wrong one.
Two threads are what a race for a row takes. `TTL` is at least 1 tick, the row's life;
a wait of `/execute` may last 300 s and a row lives 300 s from before the call began,
so the deadline of `consume` never comes before the expiry of the row and is not
modelled separately.

*The orchestrator* has no bound but its constants. Two requests are what a race needs,
one that works and one in line. With three steps, one can be done while another waits
and a third is ahead; the middle one has two attempts.

*The router.* Requests meet only in the session, the month's sum and the health rows,
in pairs; two at a time race for each, and each handler may serve any number one after
the other. A threshold of two failures is the least at which a count can be lost, and
`router_breaker` has it; `router`, where only an open circuit matters, has one. The
five kinds of request are a short chat in a session under a key, an image with tools
and a client's limit, a long prompt on the fast alias, tools under the profile of the
fast tier, and a model asked by name; the prompt's size is chosen so that it fits the fast
model only without its margin. Requests, calls and callers are interchangeable in `router`
(`Interchangeable`): no definition names one of them, and the run checks no liveness.
Sessions: the lock's time is one tick and a call may take two, so a lock expires under
its holder; two demotion turns make a counter that can be lost. Quotas: a day of two
minutes, and three minutes, so both turn over while a call is between its clock and its
decision.

*Translation.* Four lines are a text, two pieces of one call with another between them,
and an end; a call's first delta may bring its id and no piece; the translators treat later
lines as they treat these. Six acts are a
question, two calls in parallel, thought between them and both results.

*Operations.* Two of everything that can be confused (users, replicas, agents, editors,
administrators, sessions of Hermes, subjects that ask for one name), one of what only has to exist.
Three versions of an SSH profile are the sealed one, one that replaces it and one that
replaces this or restores it. Three chunks let a document of two follow one of one and
the numbers be used again. The clock of sign-in goes past the life of a token. `MaxSteps`
bounds the registry to seven requests: two creations, a load, a deletion, a creation
under the number that is free again, and the rest of the first request, with one to
spare. The six drawings (two of a router, two of an agent, an ingestion, a workflow)
have palettes with parallel edges, joins, cycles, wrong ports and resources drawn twice.

Deadlock checking is off where a bound, a deleted run or an ended stream leaves nothing
to do.

## 4. Fairness

* `CallFairness` (for `APermitComesBack`): the clock advances, a thread in
  `consume` polls again (it sleeps at most 0.25 s), and an operation ends (every
  engine call and every ssh or sandbox run has a timeout). Nothing is assumed of
  the user, the approver or the network.
* `DeliveryFairness` (for `EveryDecisionLands`): the polling thread acts on the
  answers it has; the broker serves posts that reached it; and for each nonce
  `RetryDecision` is *strongly* fair, since `run` goes through
  `unresolved_decisions` after every `getUpdates`: a decision that is again and
  again due is again and again sent, although other decisions or presses keep the
  thread busy in between. The clock is not assumed to advance, so expiry is no
  excuse for a decision that never lands.
* `WorkFairness` (for `RunSettles`): each request goes on when it can. The agent's
  and the reviewer's calls end, since the router's HTTP calls have timeouts and both
  functions turn an exception into an answer; `asyncio.Lock` wakes the next in line.
  No client is assumed to ask anything.
* `ServedFairly` and `WF(Cool)` (for the router's liveness): the event loop serves every
  handler that has something to do (each upstream call has a timeout), and time goes on,
  so that a cooldown ends. `ServedFairly` is weak fairness of a request's steps, written
  out because a request that is not idle always has one. No request is assumed to come.

## 5. Where the code and its documentation disagree

Each of the first four is a counterexample of a run.

1. **A decision that comes too early** (`orchestrator_late_decision`). An approve
   request names the run but no step, and is answered only when the run pauses
   again or ends. A second one, sent while the approved step is at work (a client's
   retry, another operator), waits for the lock and then approves the next sensitive
   step, which nobody has seen. `docs/ORCHESTRATION.md:21`, of the pause: "Stops the
   run before a sensitive step until an operator approves or rejects".
2. **A masked failure** (`router_masked`). `_dispatch` (`main.py:548`) reports only the
   last response, for the model of the route (`control_plane.py:304`). Where a
   pipeline's fallback answers, a model that is down is recorded as healthy, and is
   asked first for ever. `docs/SMART-ROUTER-USER-GUIDE.md:566`: after the threshold "the
   model opens" for its cooldown.
3. **A line cut in two** (`translation_cut`). `feed` (`anthropic.py:507`,
   `responses.py:711`) keeps no remainder of a chunk, so a line that arrives in two
   chunks is lost, and the answer ends as complete. The guide, lines 346-348:
   "streaming deltas, and usage are translated in both directions".
4. **A disabling that is not reversible** (`operations_disable`). The PUT of the panel's
   disable button is laid over a copy of the agent's row, which has no skills
   (`control_plane.py:1073`), and replaces the agent's links by that copy's: none
   (line 1084). The guide, line 692: "disable is reversible".

Six more are stated in the modules as properties that do not hold. No run checks them: each
can be put in place of the properties of the configuration named here, and TLC then finds its
counterexample within seconds.

* `HardGatesWin` (`RequestPath`, `MCRouter.cfg`). A profile named in `X-Router-Profile`, which
  operators may always send and everybody where tier overrides are allowed
  (`control_plane.py:1908`), and a `route` stage of a pipeline (lines 395-400) choose the
  model after the capability gates: a request with tools goes to a model without. The guide,
  line 93: "Hard gates always win". `FirstAttemptCapable` excepts exactly these two.
* `NumberedByPlace` (`TranslatedStream`, `MCTranslation.cfg`). `finish` and `fail` add to the
  events that the last `feed` left, and `_wrap_stream` sends the whole list
  (`responses.py:786-793`, `anthropic.py:566-573`): unless the last chunk made no event, its
  text and calls come twice, with their old numbers. `test_responses.py:341` asserts of a
  stream that each event has the number of its place; its upstreams end with a chunk that
  makes no event. `StreamInv` and `SameAsBuffered` except such an end.
* `RotationInvalidates` (`ExecutionPolicy`, `MCOperations.cfg`). `_bump_generation`
  (`admin.py:117`) is an unlocked read-modify-write of a file that is emptied first. Two
  requests that overlap write one number, or an older one, and so does the request after one
  that died with the file empty: what was issued under that number is honoured again. The
  guide, lines 1625-1626: "Rotation invalidates pending capabilities from older policy
  generations". `PolicyInv` excepts the capabilities exposed to this.
* `IndexingIsAdditive` (`KnowledgeIndex`, `MCOperations.cfg`). A chunk whose indexing failed
  or never happened is scored by any vector row with its number (`vector_rag_v56.py:188`),
  such as that of a deleted chunk whose number SQLite gave out again. `knowledge_v51.py:167`,
  where the failure is passed over: "Vector indexing is additive; lexical retrieval remains
  available". `KnowledgeInv` is about the chunks that were indexed.
* `DisablingIsImmediate` (`ExecutionApproval`, `MCExecutionApproval_policy.cfg`). `_execute`
  reads features and generation once (`server.py:153`, `156`) and polls with them: what was
  approved before its feature was disabled, and is polled after, runs. The guide, line 1620:
  "Disabling is immediate for running brokers".
* `CompletedMeansDone` (`Orchestrator`, `MCOrchestrator.cfg`). A step that was at work when
  the router died stays "running", and `advance` goes past it (`orchestrator_v60.py:625`).
  `docs/ORCHESTRATION.md:72`: "every step finished". `CompletesWhatIsLeft` excepts that step.

Others were met while modelling. The models take the code's branch, and the properties
except the case.

* A reply cut inside its body raises `IncompleteRead`, which neither `_api`
  (`approver.py:163`) nor `run` (`approver.py:244`) catches: the polling thread ends, and
  no decision is sent again. `faults` checks `EveryDecisionLands` without cut replies.
* In observe mode a policy that forces a tier replaces the observe model
  (`control_plane.py:232`), against the guide, lines 206-207.
* Retries and fallbacks are not gated by capabilities again: `FirstAttemptCapable` is
  about the first attempt.
* Two overlapping activations of a prompt may leave none active.
* An API key works after its user was disabled (`security_v51.py:149`); a session does not.
* The Docker action leaves a container it has created when the start fails
  (`server.py:206`); `NothingLeftBehind` is about the sandbox and runs with `auto_remove`.
* ssh reads `known_hosts` and an identity file again from their paths (`ssh.py:255`):
  `SshInv` is about profiles with a password.
* A broker that answers "busy" costs the plugin its approved operation
  (`stack-execution-policy/__init__.py:181`): it was consumed before the answer.
* A replica that neither changed a setting nor started since runs with its old value.

## 6. What is proved

TLAPS checks the theorems below for every number of nonces, bindings, threads, faults and
ticks, every plan and number of requests, every number of operations, calls, sessions,
profile versions, replicas, agents, users, tokens, callers, models, stages, groups, chunks,
every drawing of the studios, and every answer of a provider, whatever its lines and wherever
it is cut.
They rest on the assumptions that the modules name: `TTL` and `RequestTTL` are positive,
`MAX_CONCURRENT` is positive, there are finitely many threads, requests and models, every
nonce has one operation, one feature and one user, a plan has at least one step, each with
one to three attempts (`_bounded_attempts`), bounds and quotas are naturals, a configuration
is one that `config.py` accepts (`TierConfigAssumption`, `TierOrderAssumption`) with stages
and policies as `_sanitize_pipeline_stage` and `policy_v51.py` leave them
(`PipelineAssumption`, `RequestAssumption`), a drawing is a list of stages in one of the
four studios, where the resources of an agent leave room for its graph (`DraftsAssumption`:
the studio draws at most 220 stages, a graph may have 500 edges), and a value that stands for "nothing" (`NoRow`,
`Absent`, `NoProfile`, `NoUser`, `NoModel`) is not one of the things it stands for the lack
of. TLC evaluates each of them in its runs.

One theorem has a hypothesis of its own, because the property fails without it:
`RequestsWithinLimits` assumes `OutputsRise`, that a higher tier's `max_output_tokens` is
not smaller than a lower one's. `_validate_tier_order` (`config.py:186`) demands this of
tools, images and context but not of the output; where it fails, a policy that forces a
higher tier sends it the output budget proposed for the lower one.

| Theorem | Module | Says |
| --- | --- | --- |
| `TypeCorrect`, `PermitsCorrect` | `ExecutionApprovalProofs` | `[]TypeOK`, `[]PermitsAccounted` |
| `Invariance` | `ExecutionApprovalProofs` | `[]IInv` |
| `AtMostOnce`, `AsApproved`, `ApprovalMatchesPrompt`, `RetriedUntilApplied`, `FailureIsFinal` | `ExecutionApprovalProofs` | the safety invariants of the runs |
| `DecisionsAreFinal` | `ExecutionApprovalProofs` | the action property `DecisionIsFinal` |
| `Refinement` | `ExecutionApprovalProofs` | `Spec => ImplementsOneTimeGrant` |
| `NothingRunsUnapproved` | `ExecutionApprovalProofs` | `[]Grant!RunsOnlyApproved`: what `OneTimeGrant` promises, of the protocol |
| `SupersededNotHonoured` | `ExecutionApprovalProofs` | `[]PolicyInv`, for any number of administrators |
| `OneStartPerApproval` | `ExecutionHostProofs` | `[]GateInv` |
| `ContainersAndResults` | `ExecutionHostProofs` | `[]SandboxInv` |
| `LoginsAndPasswords` | `ExecutionHostProofs` | `[]SshInv` |
| `RunCorrect`, `Gated`, `Complete` | `OrchestratorProofs` | `[]RunInv`, `[]NothingRunsUnapproved`, `[]CompletesWhatIsLeft` |
| `Final`, `InTurn` | `OrchestratorProofs` | the action properties `TheEndIsFinal`, `StepsInOrder` |
| `QuotasHold` | `RouterProofs` | `[]RateInv` |
| `SessionsHold`, `PromotionsStick` | `RouterProofs` | `[]StickyInv`, the action property `PromotionSticks` |
| `RequestsWithinLimits` | `RouterProofs` | `[]RequestInv`, under `OutputsRise` |
| `StreamHolds`, `TruncationTold` | `TranslationProofs` | `[]StreamInv`, `[]TruncationIsTold` |
| `BufferedTheSame` | `TranslationProofs` | `[]SameAsBuffered` |
| `HistoryHolds` | `TranslationProofs` | `[]HistoryTranslated` |
| `SettingsSurvive` | `ControlPlaneProofs` | `[]SettingsAreRecorded` |
| `RegistryConsistent` | `ControlPlaneProofs` | the action property `RegistryHolds` |
| `SignInCorrect` | `ControlPlaneProofs` | `[]SignInInv` |
| `OneVersionActive` | `ControlPlaneProofs` | `[]OneActiveVersion` |
| `RulesKeepTheirWord` | `ControlPlaneProofs` | the action property `RulesHold` |
| `KnowledgeConsistent` | `ControlPlaneProofs` | `[]KnowledgeInv` |
| `GraphsStand` | `StudioProofs` | `[]GraphInv` |

The argument.

*Types of the protocol.* `TypeOK` is not inductive: `slots` stays in
`0..MAX_CONCURRENT` only because no call releases a permit it does not hold
(`PermitsAccounted`), and a thread's nonce is a nonce only while the call is known
(`CallsKnown`). The three are proved together (`TypeInvariant`).

*Rows and requests evolve.* Two lemmas classify every step by what it can do to
one row (issue, approve, spend, claim, purge; `RowsEvolve`) and to one request
(create, deliver, discard while pending, decide, grant; `RequestsEvolve`). A row
that is spent stays spent or disappears, a decision never changes, and a row is
inserted once. All later proofs use these and not the actions.

*The protocol's invariant.* `IInv` adds what relates the tables to the messages between
them. `SubmittedOnce`: there is no request before the submission was received.
`PostsOnRecord`: a post under way carries the decision, binding and generation on
record. From these, `GrantMatchesPrompt`: an approved row was approved by a post,
which was on record. `ClaimsSpent` and `OneClaimant`: a row is claimed once, its
claim has one owner until it runs, so `RunsAtMostOnce`. `AnswersTrue`: what the
polling thread takes for an answer is true of the broker's table, so a decision
is marked granted only when applied (`GrantedApplied`).

*The refinement.* `grant[n]` is read off the broker's table (`unissued`,
`pending`, `approved`, `void`) and the history of claims (`claimed`), `verdict[n]`
off the approver's table. A step of the protocol is a step of `OneTimeGrant` on
one nonce, or voids several grants (a tick that lets rows expire, a purge, a
restart under a new generation), or stutters.

*The orchestrator.* `IInv` of `OrchestratorProofs` says who may be at work: every
request that is not over stands in line once (`LineOK`), so the holder is alone at
work (`WorkIsOnRecord`), and never while a step waits (`WorkOrWait`); without the
last, a step that failed for good could end a run with a step still waiting, and
`TheEndIsFinal` would fail at the next decision. `AttemptsBounded` is not inductive:
a step that is pending or waits has an attempt left (`RowOK`). The order of steps
needs a second invariant, `Ordered`: the steps taken form a prefix (`InOrder`),
nothing after the step at work was taken (`RestIsAhead`), and a step that says
"running" has its agent at work or was left by a process that died
(`RunningExplained`).

*The plugins.* The hook before a call takes an operation out of the state in which it
can be asked for, so an operation has one call at most in its life (`CallOK`, `Alone`);
prompts and starts are counted by that call.

*Containers.* The invariant says where the container may be at each statement
(`ContainerFollows`), that a removal was tried before the end (`RemovalTried`) and what a
result stands for (`ResultTrue`). Failures are only ever added (`FailuresStay`).

*Logins.* An account and a password may be read from two versions, so what excludes a
login with a mixture is the comparison with the seal: the mixture would have to be read
twice. A directory holds one version of account and password (`OneVersion`), and a
version in no directory never returns (`DeadStays`, numbers of versions grow). A mixture
(m, s) was therefore read from a directory that was replaced in between, and at any later
time m or s is gone for good, or s lies in the profile and m in the backup
(`ReadOnce`, `ReadOnceStays`). To read it again, m would have to come back into the profile
while s is still there to come after it: when the backup is restored, s has gone
(`ReadAgain`).

*The control plane.* `SettingsAreRecorded` is inductive with its types: memory and row are
written in one turn. `SkillLinksResolve` is inductive with the types of what requests have
loaded, and an UPDATE writes the columns that differ from what was loaded, among which a
column that the body does not name cannot be (`UnnamedKept`). For sign-in, a signed-out
token is listed or past its time (`Barred`), which the clock keeps; rows fill an interval
(`RowsFilled`), so the next row is free and a new identity gets it. That at most one version
of a prompt is active is proved without counting (`ActiveAlone`); it is inductive although a
PUT acts on what it loaded long ago, since every activation retires all other rows. A rule
set needs its types only. For the knowledge base, the invariant adds that chunks which wait
for their vector exist and that rows and numbers belong together (`KnowledgeIInv`): a chunk's
number may be given again, and then whatever is left of the old vector is overwritten when the
new chunk is indexed. Of a chunk that is not, the theorem says nothing: it may be scored by
the old vector (section 5, `IndexingIsAdditive`).

*The policy generation.* The invariant speaks of the capabilities that are not exposed and of
the times without an overlap. As long as one request at a time is between its read and its
write, a capability carries at most the file's number, and a smaller one once it was
superseded; while the file is empty, the number about to be written takes the file's place
(`BumpOK`, `GenerationsRise`). Two requests that overlap, and one that leaves the file empty,
break this; whatever was issued until then is exposed at that step, and what is issued
during an overlap at once, so that the invariant starts anew with what is issued after it.

*Quotas.* A store counts at most its quota and one that is not in use counts nothing
(`Bounded`), a request waits only for a store in use (`AsksInUse`), and what is admitted was
counted by one of them (`AdmittedCounted`). The quota of a day is about sums: the counter of a
day is the sum over its minutes (`Sums`), and the sum of what was admitted is below the sum of
the counters (`TotalBounded`).

*Sessions.* `ReadIsCurrent` needs to know who may write. A call that has read and whose time
is not over owns the lock (`ReaderOwnsLock`), and the lock is given only when it is free or
its time is over; so while a call is in time nobody writes but `reset` and the expiry, which
the property excepts. The tier of a session then goes down only at the write of a call that
read the present row and counted its last turn, or of one whose lock had expired.

*Requests.* `RequestIInv` adds to `RequestInv` what a request carries from step to step
(`Carries`): until the control plane's last word, a proposed budget within the limits of its
present tier and of the client, which the session may change only together with the tier; under way,
retries and fallbacks as the pipelines leave them. The limits then pass through
`Enforced` and the caps of policies, where a policy may raise the tier (`PlansAre`). What
pipelines leave is proved along their stages (`PipedIs`). For the money, `spent` plus the
greatest cost times the number of requests under way never grows beyond the limit plus the
greatest cost times all requests: a request that passes the budget check adds one to the
number while `spent` is below the limit, and an answer adds its cost while it takes one away.

*The translations.* What a client has read is a fold over the events it was sent (`Seen`), and a
translator keeps notes of what it has sent: which blocks are open and the next free number, for
the Responses API also every piece written. The heart of the proof is that notes and client agree
(`MTold`, `RItems`). They agree after a line if they agreed before it, whatever the client had
read until then (`MGood`, `RGood` speak of a client that starts from anywhere). So they agree
after a chunk, although a translator forgets the events of the chunks before it, and at the end
the notes name exactly the blocks that must be closed and, for the Responses API, the items that
the last event repeats. The invariant keeps two views of each client, of the whole stream
and of the last chunk's events, since the end adds its events to those of the last chunk
(`finish`, `fail`): what is sent twice there is the exception `fresh` of `StreamInv` and
`SameAsBuffered`. `TruncationIsTold` needs no exception, since the last event decides what
a client is told.
For `BufferedTheSame` the invariant also relates each client to the answer that
`collapse_chat_stream` makes of the lines so far, as long as no line was cut (`Answering`): one
block has its text, and there is one block for each of its calls, in the order of the calls
(`MSays`; for the Responses API the translator's notes are compared instead, `RSays`). A line
extends the answer (`Extended`, `Merged`) exactly as it extends what the client has. The end
closes blocks and changes no word of them (`Keeps`, `RKeeps`), and the ids of the Responses API
are those of its closing events, so a late id is in time there.

*Histories.* Both translations are folds, over items and over turns and their blocks. `Good`
says of a list of messages which calls nothing has answered yet, and that only results follow a
message that asks; an act adds a message (`GoodSpeaks`, `GoodAnswers`) or lets the last one
grow (`GoodGrows`). Items join calls in a row exactly while the last message is the one that
asked (`ItemsGood`). A turn becomes messages only when it is over, so the invariant speaks of
what the last one would become if it were (`TurnGood`): the texts of a user's turn come after
its results, since nobody writes while a call is open.

*The graphs.* `GraphInv` is about three algorithms on any list of edges. The search for cycles:
a visit that finds nothing leaves only finished stages behind, from which no edge leads to an
unfinished one, except to those of the path it was called on (`Went`), which is never deeper
than there are stages (`MayVisit`); so a search that ends without a find has finished every stage
and none leads back to itself, and a find is an edge to a stage of the path (`VisitsRight`,
`CycleFound`). The order of a pipeline: the stages taken and the stages ready form one list without
repetition, in which every stage stands after the one at the other end of each edge into it,
and a stage lacks as many of its edges as have not been taken (`Lined`); the list is full when as
many stages were taken as there are (`OrderStands`, `FullList`). What a stage leads to: as
many rounds as there are stages reach the least set that no edge leaves (`ReachedIs`), because a
round that adds nothing ends it. For agents, the types of the ports decide by which port an
edge enters (`InletIs`), so the check for an edge from each resource says what feeds the agent
(`AgentIsFed`); and the list made of its resources has distinct ids, one edge for each, and no
stage that leads back (`DefaultNodesAre`, `DefaultEdgesAre`, `DefaultAcyclic`). What is stored is
the definition of the drawing as it once was (`GraphIInv`).

*The grant.* `NothingRunsUnapproved` takes the steps of the refinement: `GrantInv` is kept by
every step of `OneTimeGrant` (`GrantStays`), and each step of the protocol is one or a stutter.

*Recursion.* The library's theorems of induction take an operator and cannot be used here. What
is needed of them is proved in `FoldTheorems` from the well-foundedness of `<` and from the
finiteness of sets: a function that is defined from its value on a smaller set exists (`Recursion`)
and has its equation, with which sums over finite sets (`TotalIncrement`, `TotalBounded`), walks
along a pipeline and folds over lists (`FoldConcat`, `FoldAppend`) are handled as ordinary
functions: a fold applies a table of its operator, and has as many values between as the list
has elements (`FoldThrough`).

Only model-checked:

* the liveness properties (`EveryDecisionLands`, `APermitComesBack`, `RunSettles`,
  `EveryRequestAnswered`, `UnmaskedFailureOpens`), which need fairness and so `ENABLED`;
* `FirstAttemptCapable`, which depends on the configuration as well: policies only raise
  the tier and capabilities rise with it (`config.py` demands it), but the models of the
  profiles the router detects by itself (`vision`, `coding`) are whatever is configured.

## 7. What is not modelled

In the modelled components:

* The contents of an operation, its digest, and signatures: a post cannot be
  forged, an operation's digest stands for it. A decision that cannot be signed
  ends like a post that is lost.
* Audit tables that nothing reads back, the answers' wording, `/health` and
  `/discover`, which change nothing; authentication of callers.
* The truncation of the two secrets, during which brokers and approver refuse all
  requests, and the bytes of two writes that overlay one another in the features or users
  file: the result is any subset of both texts.
* A press by another user, which `_handle_callback` refuses without a change, and two
  copies of one post under way at once: the second finds the row no longer pending.
* The bytes of two overlapping writes of the generation file: each write replaces the
  whole content.
* In `ExecutionApproval`, the plugin's own bookkeeping: `/execute` and `/cancel` are
  called with any capability whose preparation was answered, any number of times.
* Of the orchestrator: the planner's and reviewer's texts, `build_plan` and its
  fallback, `list_runs` and `snapshot`; a second router process, which the documentation
  rules out; a database that refuses a commit.
* Of the router: how facts are found in a text, the learned classifier's weights (it may
  answer any tier), prices, latency averages, sampling parameters, headers.
* Of the control plane: names, labels, layout, listings, exports, the HTML panels, the
  playground and the benchmarks, the vault's encryption, the OIDC exchange before its
  callback ends, the scoring of search results; `replace_source=False` of
  `add_document` and `delete_source`, which nothing uses; the pgvector column, which is the
  chunk's own vector or empty, since PostgreSQL gives no number out twice.

Whole components:

* Offline evaluation and training: batch numerical code without concurrency.
* Host lifecycle scripts and the n8n and Open WebUI bootstrap: shell and scripts over
  Docker Compose and the APIs of other products; of `manage.sh` only what it does to SSH
  profiles is modelled, as the surroundings of `SshLogin`.
* Deployment files: configuration without behaviour.

## 8. Plan

1. *(done)* The execution protocol with its abstract specification and proofs; the policy
   generation; the broker's hosts; the plugins.
2. *(done)* The orchestrator, with proofs.
3. *(done)* The router: routing, sessions, health, quotas, pipelines, dispatch.
4. *(done)* Translation; the control plane's tables, graphs, settings and sign-in.
5. *(done)* Theorems about quotas, sessions, requests, the policy generation, prompts, rules,
   the knowledge base, the graphs of the studios, the translated streams and histories.
6. Abstract specifications of a run's life for `Orchestrator` and of a session for the two
   stores of `StickySession`.
7. The OIDC exchange, the vault and the guardrails; backup, upgrade and roll-back of
   `stack-ops.sh`.
