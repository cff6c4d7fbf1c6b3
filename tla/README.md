# Memeloop GEO: a verification project

TLA+ models of the parts of Memeloop GEO that act on the outside world (browsers
of platform accounts, posts, conversations with providers, tools of agents) and of
the queues that make them act, checked with TLC and proved about with TLAPS. Paths are relative
to the repository; in the inventory `persistence/accounts/x.rs` is short for
`crates/persistence/src/accounts/x.rs`. `PROJECT.json` names, for every
definition that models code, the lines it stands for.

Contents: [1 the system](#1-the-system), [2 the components](#2-inventory),
[3 the modules](#3-the-modules), [4 the runs](#4-the-runs),
[5 the proofs](#5-the-proofs), [6 where code and comment disagree](#6-a-disagreement),
[7 what is left out](#7-what-is-not-modelled), [8 the plan](#8-plan),
[9 running it](#9-running-it).

## 1 The system

Memeloop GEO produces content, publishes it through platform accounts, and
measures how AI and search providers answer about it. Its parts:

| part | what it is |
|---|---|
| `crates/domain` | pure state machines of the business objects, and in-memory repositories for tests |
| `crates/persistence` | the PostgreSQL repositories: one transaction per operation, row locks, unique indexes, version comparison |
| `crates/api` | HTTP handlers and the orchestration that joins transactions, browser requests and background dispatchers |
| `crates/app` | the process: start-up and the dispatch loops, which run every few seconds |
| `packages/browser-runner` | a Node process with one Chromium context per session: logins, measurements, publications, withdrawals |
| `packages/agent-runtime`, `crates/worker` | the agent loop in a V8 isolate, its tools answered by the API |
| `crates/provider`, `services/document-parser`, `apps/web` | HTTP clients, document conversion, user interface |

The database is the only shared memory. An API task (a request handler or a
pass of a dispatcher) is a sequence of transactions and calls to the runner,
and can end between any two of them: the client disconnects, a timeout fires, or
the process dies. Nothing is locked between two transactions; what protects a
sequence is a row that says who owns what. The runner is another process
with memory of its own, which is lost when it restarts. A request to it, its
answer, and the callbacks it sends can be delayed or lost. What the runner
does on a platform cannot be undone and often cannot be observed. Most of the
difficult code exists to keep three promises under these conditions: an account
is never used by two browsers, nothing is published twice, and nothing is said
to have happened, or not to have happened, unless that is known.

## 2 Inventory

For every component: its state, its operations, with whom it interacts, what is
hard, and what makes it correct. The first seven are modelled, all but the lookup
with the omissions that section 7 lists.

**Browser ownership** (`persistence/accounts/{browser_operations,account_networks,channel_jobs}.rs`,
`domain/accounts/browser_operations.rs`, `api/accounts/browser_operation*.rs`,
`api/accounts/channels.rs`, `browser-runner/src/runner.mjs`).
*State*: rows of `browser_operations`; one gate per account
(`channel_account_preflight_reservations`: reservation, bound operation,
expiry); one network head per account, with an active and a pending binding; in
the runner a generation, the sessions and the fenced ids. *Operations*: reserve,
begin, claim and mark the start, identify and commit a login, reconnect it to
another account, release as unstarted, ask for the close, confirm the disposal,
change a network, reconcile. *Interacts* with every component that opens a
browser: logins, publication, measurement, lookup, conversation cleanup.
*Hard*: delayed starts, lost receipts, expiry during use, runner restarts,
network changes under a live browser, deadlocks between two accounts.
*Correct when* an account has one browser at most, an account is let go only
after its browser can no longer exist, gates and rows agree, the route of a live
browser does not change, and everything is let go eventually.

**Operator login queue** (`domain/accounts/operator_login_queue.rs`,
`persistence/accounts/operator_login_queue.rs`, `api/accounts/operator_login_queue.rs`).
*State*: a queue of imported accounts with a status, a current item, the operation
an item is linked to and its error; a version; the queue's browser operations.
*Operations*: create, drive, pause, resume, retry, skip, complete. *Interacts*
with browser ownership (claim, start, verify, close, dispose) and with the pool
login endpoints, which work on the same operations. *Hard*: two commands at once
on snapshots that grow old while a browser is disposed; the late error of a start
that is no longer current; a new session of the creator taking over.
*Correct when* no browser is forgotten by the queue, accounts are logged in in
order, success means verified and disposed, and a decision or an error hits the
attempt it was meant for.

**Publication send** (`persistence/accounts/channel_jobs.rs`,
`persistence/publishing/publication_send_authorization.rs`,
`domain/publishing/*`, `api/publishing/{channel_jobs,publication_send_callback,publication_withdrawal}.rs`,
`api/accounts/browser_bridge.rs`, `runner.mjs` and the adapters).
*State*: frozen targets, one attempt per target with outcome and proof, intents
and commands, send authorizations, withdrawals. *Operations*: reserve, open, claim,
recheck, dispatch, authorize, finish; claim, finish, resolve and expire a
withdrawal. *Interacts* with browser ownership (the gate, the close), with content
requests (command outbox), lookup (unknown attempts), projects and media (revocation).
*Hard*: a crash between claim and outcome, a timeout while the adapter submits,
a permission racing the outcome, a withdrawal racing a publication.
*Correct when* a target is posted at most once and by the attempt that owns it,
no verdict contradicts the platform, and a withdrawal deletes the post its own
publication created and no other.

**Publication lookup** (`persistence/publishing/publication_lookup.rs`,
`api/publishing/publication_lookup.rs`, `app/publication_lookup_dispatch.rs`).
*State*: read-only jobs for attempts that ended unknown or never ended, the
execution lease of each, appended observations. *Operations*: scan, enqueue, enrich
once, claim, finish, reschedule. *Interacts* with publication send, which may end
after its lookup was queued, and with the report that shows an address.
*Hard*: an expired lease reporting late, an answer that arrives after the job was
queued or while it runs. *Correct when* an observation comes from the current
lease, is recorded once, never rewrites what the send said, and what was shown
stays shown.

**Content distribution** (`persistence/publishing/{content_distribution_request,distribution}.rs`,
`api/publishing/distribution.rs`, `app/content_request_dispatch.rs`).
*State*: cells of a plan, requests for single articles, the ledger of intents, the
outbox of commands, targets. *Operations*: accept, materialize, defer, scan; resume
a plan, bind a cell; dispatch. *Interacts* with projects, accounts and sources
(what may be published) and with publication send (who executes a target).
*Hard*: two ways to one publication, accounts listed before they are used, a
failure recorded after somebody else's success, a page of commands that succeeds or
fails as a whole. *Correct when* every publication has one intent and
one target, everybody who is linked to it agrees about it, and nothing accepted
is forgotten.

**Agent runs and the tool ledger** (`persistence/agent/mod.rs`,
`api/agent/run_executor.rs`, `worker/host.rs`, `app/agent_dispatch.rs`).
*State*: turns and runs of a conversation, the ledger of tool calls; in memory
the executions and the tasks that make their calls. *Operations*: accept, claim,
verify, run, call (intent, attempt, outcome), finish, cancel, reconcile at start-up.
*Interacts* with every capability an agent may call. *Hard*: many dispatchers of
one run, cancellation on another replica, calls that outlive their script, a death
between an effect and its record. *Correct when* a conversation has one run at a time
and a run one execution, a call that happened is on record, none happens twice,
and verdicts stand.

**Provider conversations** (`persistence/measurement/{conversation_cleanup,completion_recovery,completion_recovery_jobs}.rs`,
`api/accounts/{provider_conversation_cleanup,provider_cleanup_callback}.rs`,
`api/measurement/observation_completion_recovery.rs`, the runner's cleanup).
*State*: a queue of deletions and one of recoveries, each with leases; retained
inventories of messages; the account's reservation. *Operations*: enqueue, claim,
recheck, open, ask, authorize, delete or look, finish. *Interacts* with browser
ownership, measurements (same account) and captures. *Hard*: a deletion whose answer
is lost may still happen; the runner goes on when its caller is gone; an answer may
still be being recovered. *Correct when* nothing is deleted that is not retained,
no deletion is repeated blindly, and none is called done that was not ours.

**Connector capabilities**: what evidence raises or withdraws the capability of
a channel to publish; a check that publication makes twice.

**Observation capture, analysis and extraction**; **content production** (items,
step leases, revisions, media); **projects and cycles**; **knowledge** (imports, parse jobs);
**search measurements and weekly reports**; **partner synchronization**: leased jobs
with a few states each; the rest of their code validates, parses or computes.

**Idempotency records, sessions, proxies**: single-transaction records.
**Worker host, providers, web application, document parser, deployment**: no
durable state of their own.

The hazards of this code, each at its line and with the properties that watch
it, are listed in `PROJECT.json`.

## 3 The modules

| module | models | lines |
|---|---|---|
| `AccountExclusion` | abstract: an account has one holder, who lets go after its browser ended; a fine and a coarse version | 85 |
| `BrowserOwnership` | the ledger, gates, network heads, API tasks, wire and runner that implement it | 560 |
| `OperatorLoginQueue` | the login queue, its commands and the part of the ledger it reads | 450 |
| `OneShotPublication` | abstract: claimed once, done once, judged once and truthfully | 66 |
| `PublicationSend` | runs, attempts, permissions, withdrawals, runner and platform that implement it | 580 |
| `FencedWork` | abstract: a job is settled once, by the claimant that still holds it | 70 |
| `PublicationLookup` | lookup jobs, leases, dispatcher and executions that implement it | 348 |
| `IntentLedger` | abstract: a seeker creates or joins a publication it agrees with, for good, and the publication takes each step once | 90 |
| `PublicationOutbox` | requests, cells, intents and the outbox that implement it | 427 |
| `AgentRuns` | turns, runs, executions, their calls and the ledger of these | 393 |
| `ProviderConversations` | two queues, their executions, the permission, the runner and the provider | 507 |
| `MC…` | symmetry sets and constant functions for TLC | |
| `…Proofs` | the theorems about each of the seven | |
| `ContractProofs` | what follows from the four abstract specifications alone | |

The modules meet where the code does, and there they keep the same contract. The
account's reservation that `PublicationSend`, `ProviderConversations` and the login
queue use is the gate of `BrowserOwnership`: all four implement `AccountExclusion`.
Posts, deletions of posts and calls of tools are all effects that a ledger lets
happen once: `PublicationSend` implements `OneShotPublication` twice, for its
attempts and for its withdrawals, and `AgentRuns` for its calls.
`PublicationOutbox`, which implements `IntentLedger`, ends with the claim of a
target's only attempt, with which `PublicationSend` begins; `PublicationLookup`
begins with the outcome in which `PublicationSend` ends. The modules are not composed
into one state space: no run of the product would end. What each may assume
of another is the contract, of which `ContractProofs` shows what it is good for.

In every module a database transaction is one action: PostgreSQL row locks and
conditional updates make it one. What an API task remembers between two
transactions is a variable. Names that end in `Faulty` are deviations of the
code (a lost guard, a missing reset); no specification uses them, and each must
violate the property it is kept for. Deadlines are abstracted to the fact that they
have passed, so any deadline may pass at any point; what happens when one passes
exactly between two others is therefore included.

### BrowserOwnership

State and code:

| variables | code |
|---|---|
| `state`, `input`, `verified`, `unstarted` | `browser_operations`: the state, the columns that never change, the account a login turned out to be, released without a start |
| `reservation`, `bound`, `lapsed` | `channel_account_preflight_reservations` |
| `active`, `pending`, `bindingCount` | `account_network_heads`, rows of `account_network_bindings` |
| `generation`, `session`, `fenced`, `alive` | the runner: its identity, `sessions`, `disposedIds`, existing browsers |
| `starter`, `identified`, `holding` | API tasks between two steps |
| `startReqs`, `disposeReqs`, `receipts`, `starts` | requests and receipts on the wire, starts sent |

`Begin`, `Reserve`, `ReleasePreflight`, `SaveLogin`, `SaveReconnect`,
`ReleaseUnstarted`, `RequestClose`, `ConfirmDisposed` and `SetBinding` are
transactions of the ledger; each includes what the transaction does last, such
as promoting a pending network (`PromotePending`) when a gate is released.
`ClaimStart` and `MarkStart` are the two routes to one start: the direct one
and the one of the queue. `SendStart` and `SendDispose` put a request on the
wire, where it stays until `RunnerStart`, `RunnerFence` or `DropDispose`; so
a start may arrive after the disposal of its session, which is what the fence
is for. `RunnerRestart` gives a new generation without sessions or fences, and lets
any of the browsers survive the old one: nothing proves that they ended with it.
`StarterGone` and `Lapse` are a crash and a passed deadline.

Abstractions: `expires_at` of an operation and of its gate are one fact;
`next_check_at`, which only delays the reconciler, is left to fairness; the
runner's refusal `session_busy` is `DropDispose`, a request that had no effect;
the bridge's own disposal after a failed start is part of `RunnerCloses`.

### OperatorLoginQueue

`queue` is the persisted record; `phase`, `item`, `owner`, `verified` are what
the queue reads of its browser operations. A task's `pc` follows `command` and
`drive_queue` in `crates/api/src/accounts/operator_login_queue.rs`: reconcile a
finished browser, apply the command, then drive: claim the next item, start it,
launch it, or pause on an error. The version comparison is `fresh`: a task is
fresh while its snapshot is the stored queue, any commit makes every other task
stale, and a stale write fails with a conflict. `Leave` is a response, a conflict
or a crash, possible in every place. `CompletedElsewhere` and `DisposedElsewhere`
are the pool-login endpoints and the reconciler, which act on the same operations.
A check that may refuse (the import mapping, a disabled account) is `Fail`.

### PublicationSend

`attempt`, `outcome`, `proof`, `intent`, `command` are the ledger; `holder`, `bound`,
`lapsed` the account's gate; `ticket`, `late`, `revoked`, `active` the
permission of a rich publication, its deadline, its media and its project;
`cleanup`, `cleaner` the withdrawals. A run (`pc`, `kind`, `target`, `result`) is
one execution by an API task; `session`, `exec`, `reply`, `asked` are its side in
the runner and `posts`, `deletes` what really happened on the platform, which no
part of the program can read. The path of a run is

    Plan, Reserve, Open, Claim or ClaimWithdrawal, Dispatch, (Accept or Refuse,
    Ask, Authorize or Deny, Upload, Act, Answer in the runner), Receive or TimeOut,
    CloseBrowser, Finish or FinishWithdrawal

with `GiveUp`, `Abandon` and `FailBeforeSending` for the refusals of preflight and
recheck, and `Crash` anywhere. The runner goes on after the API gave up waiting.
`Reconcile` and `Lapse` are the reconciler and the gate's expiry; `Resolve` and
`Expire` end withdrawals without an answer; `Revoke`, `Deadline` and
`PauseOrResume` are what may change under a permission. What the gate and the
browser promise here (a gate bound to a browser is not taken over, a session
ends with its disposal) is what BrowserOwnership shows.

External, in the map: what an adapter does on a platform (`Submits`). It is assumed to report
`unsupported` or `login_required` only when it did not act, and a proof only of
what it saw; every other ending is `unknown`. The runner would report an explicit
denial of the permission as `unsupported` (`runner.mjs:1212-1218`), but the API never
sends one: it grants, or refuses with an HTTP error, which the runner takes for
unknown (`Deny`).

### PublicationLookup

`outcome`, `original`, `ripe` are what a lookup reads of the ledger of attempts;
`job`, `due`, `lease`, `lapsed` are the row of `publication_lookup_jobs`; `recorded`
its observations. The dispatcher is a loop (`phase`) over a page it has scanned:
`Tick` and `Enqueue`, then `ScanDue` and `Claim`, any of which may be passed over.
An execution keeps the job as it was at its claim (`snapshot`), `Finds` or
`FindsNothing`, and `Report`s if its lease is `Fenced`. `SendEnds` is the late
outcome. `due` says only whether the next time of a job has come: every job has
one, from its insertion and then from each report
(`api/publishing/publication_lookup.rs:339-366`), so the enrichment's own
(`COALESCE(next_due_at, now)`) is never used. `Projected` is the rule by which the API shows an address. The browser a
lookup opens, under the account's gate, is left out: it changes nothing a lookup
says.

### PublicationOutbox

A publication is a content and an account, the key of
`distribution_publication_intents`. `status` and `bound` are the cells, `request` and
`deferral` the requests, `origin`, `verification`, `command`, `targets` the ledger.
`Accept`, `Scan`, `Materialize`, `MaterializeFails` and `RecordDeferral` are the
life of a request; a call between them dies with `Forget`. A resumed plan lists
accounts (`Resume`) and cells (`List`), checks a source (`Check`), and then in one
transaction binds or defers (`Bind`, `Defer`), three reads after each of which the
world may change (`Environment`). `Dispatch` takes any page of waiting commands,
all or none; `Claim` and `Deliver` stand for the run that executes the target.
Manifests, their freezing and `link_intent`, which no handler calls, are left out.

### AgentRuns

`run`, `turn`, `ledger` are the tables; `sent` counts the calls of a capability
that really happened, which no program can read. An executor is a slot for an
execution of a claimed run in one process (`Home`). `LoseClaim` is a claim whose
commit took effect but was answered with an error; its run is running and has no
execution. `BeginRun`, `VerifyRun`,
`RaiseFlag`, `EndTurn`, `FinishRun` follow `run_executor.rs`; the calls, in tasks of
their own that outlive the script, follow `host.rs`: `Invoke`, `BeginToolCall`,
`AttemptToolCall`, `CallCapability`, `AnswerCall`, `FinishToolCall`. At every place
a flag, a deadline or a failed write may end them (`AbandonCall`, `ExpireCall`,
`LoseOutcome`, `LoseVerdict`). `Crash`, `StartProcess`, `ReconcileRun` and `Ready`
are the process; `Single` is the deployment that may fail what it finds running.
A slot is used again only when the calls of its last run are over, so slots
only bound how many executions there are at a time.

### ProviderConversations

`row`, `lease`, `boundary` are `provider_conversation_cleanup`, `job` and `reading`
the recovery queue; `inventory` is the one value that stands for the digest of the
messages retained of a conversation: the capture's own, that of the last recovery, or none.
`holder` and `browser` are the account's reservation and the runner's sessions, `pc`
an execution of either queue, whose conclusion (`result`) is gone when it has been
reported. Its path is

    Claim…, Reserve, (Recheck), OpenBrowser, AskRunner or ReadHistory,
    TakeAnswer or SaveEvidence, Finish…

with `Decline`, `GiveUp` and `StopWaiting` for what goes wrong before, in and after the
browser, and `Crash` anywhere. `rpc` is what the runner does for a cleanup,
whether anybody still waits or not: `AcceptCall`, `GrantDeletion` (the callback
`authorize_delete`, checked once more), `SendDeletion`, `AnswerDeletion`, or
`AnswerLook`. `present` and `late` are the provider: a deletion that was sent
may be carried out at any later time, or never. `asked` and `doubt` are history:
what was asked to be deleted, and not looked after since.

Abstractions: a digest is a value that is equal or not; when a retry falls due is
left open; captures by others may come at any time; a request for a
deletion ends before its lease does, because its timeout is computed from the lease
(`Lapse`). The outcome `archived`, which no adapter reports, is left out.

## 4 The runs

Distinct states and times are of two workers on a small machine.

| run | instance | states | question |
|---|---|---|---|
| `ownership_restart` | 1 account, 2 operations, 1 preflight, pool login and execution, 1 restart, 1 network change | 641,229 | do exclusion, disposal, gates and bindings hold across crashes, delays and a restart, and is AccountExclusion implemented |
| `ownership_reconnect` | 2 accounts, 2 operations, 1 preflight, customer logins, 2 routes, 1 network change | 1,004,352 | does a login that moves to another account keep the route |
| `ownership_liveness` | 1 account, 2 executions, 1 restart, fair | 9,510 | does every operation settle |
| `login_queue` | 2 items, 2 operations, 2 tasks, 2 sessions | 2,734,796 | order, proof of success, decisions and late errors under two concurrent commands and a handover |
| `publication_send` | a plain target, a rich one and one to be withdrawn, 2 runs, crashes | 476,632 | is OneShotPublication implemented by posts and by withdrawals, and AccountExclusion by runs; exact withdrawals, nothing sent after a revocation |
| `publication_liveness` | one target to be withdrawn, 2 runs, crashes, 1 restart, fair | 38,988 | a claim is answered, a withdrawal settles |
| `publication_unknown` | one target, 2 runs, no crashes | violated in 9 steps | section 6 |
| `lookup` | 1 attempt, 2 executions, 2 addresses, 1 restart, fair | 41,978 | is FencedWork implemented, does what the send said late arrive and stay, does what was shown stay shown, do leases turn over |
| `outbox` | 1 cell, 1 request to be withdrawn, 2 accounts, 2 plans | 1,332,704 | is IntentLedger implemented; no poisoned command, true status |
| `outbox_liveness` | 1 cell, 1 request for the same publication, 1 account, 1 plan, fair | 7,808 | are requests linked, do commands go out |
| `agent_runs` | 2 messages, 2 executions of 1 call, 1 process, 1 death, fair | 628,570 | one run, one execution, verdicts final, is OneShotPublication implemented by calls, every run ends |
| `conversations` | 1 conversation, 2 cleanups, 1 recovery | 1,764,784 | is AccountExclusion implemented; no unearned deletion, no blind repetition, no false settlement |

Safety properties: `OneBrowserPerAccount`, `DisposedMeansGone`,
`GatesMatchOperations`, `NoStrandedBinding`, `StartDispatchedAtMostOnce`,
`RouteIsPinned` (ownership); `NoBrowserLeftBehind`, `SuccessIsProven`,
`ItemsInOrder`, `FailureAwaitsDecision`, and the action properties
`DecisionsHitTheirAttempt` and `FailuresHitTheirItem` (queue); `CleanupIsExact` and
the action property `RevokedStaysUnsent` (publication); the action properties
`EnrichmentIsKept` and `ProjectionIsStable` (lookup); `NoPoisonedCommand` and
`StatusIsTrue` (outbox); `OneRunAtATime`, `OneExecution` and the action property
`VerdictsStand` (agent runs); `DeletionIsEarned`, `SettledMeansDeleted` and the
action property `NoBlindRepeat` (conversations). Each is stated in words above its
definition.

Refinements, with the mapping given by an `INSTANCE … WITH`:
`ImplementsAccountExclusion` (ownership), `UsesTheAccountExclusively` (publication and
conversations), `ImplementsOneShotPublication` and `WithdrawalsAreOneShot`
(publication), `CallsAreOneShot` (agent runs), `LookupsAreFenced` (lookup),
`ImplementsIntentLedger` (outbox). `PostedAtMostOnce`, `OneSendAtATime`,
`CallsAreOnRecord`, `WithdrawalIsAgreed` and `LinkedDoesNotWait` say in terms of the
modules what these refinements are about; they are theorems and part of no run.
That the login queue implements `AccountExclusion` is a theorem too and part of no
run, which its mapping would make a quarter longer. The type invariant of each
module is a theorem (section 5) and part of no run.

**Why the bounds are enough.** The conflicts are between two: two operations of
one account, an operation and a preflight, two tasks on one queue, two runs on
one account, two lookups of one attempt, two plans with one cell, two messages
of one conversation, two cleanups of one conversation and a recovery that changes
what the first of them knew. A second account matters only where something is
moved or chosen: for reconnects, where the gate of one operation spans two, and
for plans, which may have chosen differently. One restart is enough to have
operations of a dead generation next to live ones, or a lookup whose lease nobody
serves. One network change leaves a binding pending, and a head compared in an
earlier read then differs. Two operations for two items of a queue allow either
a retry or a following item, the two successors a late effect could hit. One call of
an agent has all of a call's phases, and a second would only have them again under
a number of its own. One request and one cell meet at a publication in both
orders and, with different wishes, test `Agree` of the intent ledger; in
`outbox_liveness` they wish the same, so that the request can be linked. The
theorems of section 5 hold for all values, so the bounds matter in the end only
to what is model-checked.

`MaxGeneration`, `MaxBindings`, `MaxRestarts`, `MaxCalls` and `MaxCrashes` are the
only bounds on counters, and are guards of `RunnerRestart`, `SetBinding`, `Restart`,
`Invoke` and `Crash`. `CHECK_DEADLOCK FALSE` is given where an instance may come to
its end: the ownership runs, when all operation ids have been used; `agent_runs`,
when all messages are answered; `conversations`, when all leases are.

**Fairness.** Safety assumes none.

* `ownership_liveness`: weak fairness of the reconciler's steps on expired and
  closing operations (`crates/api/src/accounts/browser_operation_reconcile.rs:18-74`,
  run every 30 seconds) and of the passing of time; strong fairness of a disposal
  request arriving, of its answer and of the receipt's use, since the
  reconciler repeats them for ever and the network does not lose all of them.
  Nothing is assumed of the owner, of a delayed start, or of a restart.
  Operations whose generation is gone are excepted: the code refuses to
  guess about a lost runner, leaves them to an operator, and so does the property.
* `publication_liveness`: weak fairness of a run's own steps until it crashes
  (every request has a timeout; an execution 130 s,
  `crates/api/src/accounts/browser_bridge.rs:22`) and of `Expire`, which a
  dispatcher tries every five seconds. Nothing is assumed of the runner, the
  platform or the callbacks.

* `lookup`: weak fairness of the dispatcher's loop (every 30 seconds,
  `crates/app/src/publication_lookup_dispatch.rs:11-24`) and of the passing of time;
  strong fairness of enqueuing and of claiming what is scanned again and again,
  since the database does not refuse it for ever. Nothing is assumed of an
  execution: it may hang, and then its lease ends. An attempt in the instance has as
  many leases as there are executions, which `LeasesTurnOver` excepts.
* `outbox_liveness`: weak fairness of the scanner, of recording deferrals, of the
  deadlines they set, and of the dispatcher taking the page of all waiting commands;
  strong fairness of materializing a request that stays permitted. Nothing is
  assumed of the submitter, who may die, or of plans.
* `agent_runs`: weak fairness of the claim (the scanner comes every five seconds,
  `crates/app/src/agent_dispatch.rs:10-25`), of verification, script, verdict and
  calls (each has a deadline) and of the start of a process that died, with its
  reconciliation. A verdict that cannot be written, and a claim that was committed
  but answered with an error (`run_executor.rs:140-144`), are only logged, so
  `EveryRunEnds` excepts these runs (`lost`), which stay running until they are
  cancelled or the process starts again.

The login queue has no liveness property: it moves only when the client sends a
command. The conversations have none either: with a provider that answers nothing
but unknown, looks are repeated for ever.

## 5 The proofs

All theorems hold for every value of the constants that meets the named
assumptions: `None` is no id, ids of different things are different, kinds are
among the three kinds, bounds are naturals, `N` is a positive number, rich and
withdrawn targets are generated and disjoint, constant functions have the type they
are declared with, and a single-process deployment has one process. No other
assumption is made; sets may be infinite, symmetry is not used.

**`BrowserOwnershipProofs`.** `TypeCorrect`, `GatesAlwaysMatch`,
`BrowsersExcludeEachOther`, `DisposalIsProven`, `StartsAreUnique`,
`BindingsAreApplied`, `RoutesArePinned` and `Refinement`. None of the
invariants is inductive alone: that two browsers do not share an account
follows from gates only if a browser belongs to a live row, and that in turn only
if a disposed row cannot be started again. The inductive invariant `Ownership`
is therefore a conjunction: `Typed`; `UntouchedBeforeStart` (nothing is on the
wire for an operation nobody marked as started); `SessionsMatchBrowsers` (the
runner's sessions are the browsers of its generation); `ReceiptsAreFinal` (a
receipt in flight, or recorded, means that the browser is gone and its id fenced
or its generation over); `OneStartToken` (the one right to start is with a task
or used); and `GatesMatchOperations`. `Routing` adds, for `RouteIsPinned`, that
a binding's id determines it (`IdsTellBindings`) and that the destination's
binding a reconnecting task remembers has the route of its login
(`ComparedRoutesAgree`). The refinement follows: every step either
changes nothing visible or acquires, opens, closes or releases.

**`OperatorLoginQueueProofs`.** `QueueTypeCorrect`, `BrowsersAreNotLeftBehind`,
`SuccessIsAlwaysProven`, `OrderIsKept`, `FailuresAwaitDecisions`,
`DecisionsAreExact`, `FailuresAreExact` and `QueueImplementsExclusion`, from
`TurnsAlways`, the invariance of `Turns`: `QueueOK(queue)` (types, and that links, proofs of success, order and
failed logins are as the properties say), `LedgerOK` (types of the ledger) and
`TasksKnow` (what a task may rely on in each place of its program: its operation
was begun and, if its version is still current, what it is about to decide or
to report an error on is still current).
The last is the argument of the code: what a stale task knows is worthless, and
it does not matter, because its write fails.
`QueueImplementsExclusion` shows that items and their operations keep the promise of
the account gate: an item gets an operation that was never used, and loses it,
by success, retry or skip, only when the operation is over.

**`PublicationSendProofs`.** `SendTypeCorrect`, `NothingIsPostedTwice`,
`SendsExcludeEachOther`, `CleanupsAreExact`, `RevokedIsNotSent`,
`SendImplementsOneShot`, `SendWithdrawsOnce` and `SendUsesTheAccountExclusively`, from `SendsAlways`, the invariance of `Sends`:
`TypeOK`, `Gates` (a run with a session holds the gate, bound), `Owners` (an
attempt and a withdrawal belong to the run that claimed them, and only their
owner executes), `Effects` (a post or deletion comes from the owner's
execution), `Permits` (only an authorized ticket lets a rich execution send),
`Words` (any word other than unknown is true, and said of an execution that
ended), `Records` (an outcome other than unknown agrees with the platform and
with an execution that is over), `Cleanups` (a withdrawal that may run has a
post). `SendImplementsOneShot` is what the one-shot ledger promises: a verdict of
published or not published is final and true, for any number of targets, runs,
crashes and restarts. `SendWithdrawsOnce` is the same of withdrawals and the deletion
of posts. `SendUsesTheAccountExclusively` needs one part of `Sends` more,
`Reserved`: who has reserved the account is past planning to, so that a run that let
go is never again at a place from which it could reserve.

**`PublicationLookupProofs`.** `TypeCorrect`, `EnrichmentKept`, `ProjectionStable`
and `Refinement`, from the invariant `Kept`: a lease names an unfinished
execution of its own attempt (`LeaseOK`), what a job knows is nothing or all that
its send said (`JobOK`), and what an execution took along is nothing or what the job
has now (`SnapshotOK`). The last is why a discovery made without a candidate
is not withdrawn when the candidate arrives, and a candidate once read back
never changes.

**`PublicationOutboxProofs`.** `TypeCorrect`, `WithdrawalAgreed`, `NoneIsPoisoned`,
`StatusTrue`, `LinkedIsNotDeferred` and `OutboxImplementsLedger`, from the invariant `Consistent`: an intent
exists if and only if its command does, and its origin points back to it for ever
(`LedgerOK`); what a cell or a request is linked to exists and agrees with it
(`CellsOK`, `RequestsOK`). Only a delivered command has a verified post, so that no
claim takes a verification back. `OutboxImplementsLedger` maps cells and requests to
seekers, and the command of an intent together with the claim of its target to the
stage of a publication; `TargetsOK` (what became a target was intended) is what it
needs beyond `Consistent`. `LinkingIsCreatingOrJoining` is the heart of it: a request
materialized and a cell bound do the same to the ledger.

**`AgentRunsProofs`.** `Invariance`, `TypeCorrect`, `ConversationsAreSerial`,
`RunsAreExecutedOnce`, `LedgerIsTrue`, `EndsAreFinal` and `CallsAreMadeOnce`, from `Kept`: a run has
one owner, the execution that claimed it or whose calls go on (`OwnerOK`), turn and
run say the same (`StoreOK`), and the owner's task for a call agrees with its entry in
the ledger (`TaskOK`). Calls that outlive their script need the first: the number of
a call means the same call only as long as nobody else executes the run.
`CallsAreMadeOnce` says with `OneShotPublication` what the ledger is for, and
`LedgerIsTrue` the same in its own terms.

**`ProviderConversationsProofs`.** `Invariance`, `TypeCorrect`, `DeletionsAreEarned`,
`SettlementsAreTrue`, `DeletionsAreNotRepeated` and
`ConversationsUseTheAccountExclusively`, from `Kept`: who leases a row is
about it (`LeaseOK`); a browser belongs to whoever has the account (`AccountOK`);
what was granted stays true while the runner works on it, and whoever gets the lease
meanwhile only looks, and cannot yet (`GrantOK`); where the next lease may delete,
nothing is in doubt (`DoubtOK`); what counts as a deletion was one (`OutcomeOK`).
`GrantOK` is the heart of it: the lease may be lost between grant and request, but
not the account, and everybody else needs the account first.
`ConversationsUseTheAccountExclusively` adds `HolderBegun`: an execution that has the
account came past its reservation, and cannot come back to it (`BegunStays`).

**`ContractProofs`.** Four modules implement `AccountExclusion`. The ledger and the
queue see the end of a browser and the release of its account as two steps, as the
code does them; the modules that only use an account see one
(`CloseAndRelease`), or several executions end that have nothing to release
(`Retire`). `BrowsersHaveTheirAccount` proves of both kinds what everybody
relies on: who has a browser has an account, who let go has neither and never
comes back. One inductive step suffices for both, since the second contract
allows every step of the first. `OneShotsAreTrueAndFinal` (posts, deletions and calls happen by their one
attempt; verdicts are true and final), `LinksAreSoundAndFinal` (who is linked agrees
with the creator, waits for nothing and stays linked) and `DisplacedAreFencedOff` (a
displaced claimant never comes back nor records anything) do the same for the
other three. They assume only that `None` is nobody, so they hold of every module that
implements the contract, with a refinement theorem as the bridge.

Only model-checked: the liveness properties `EveryOperationSettles`,
`ClaimsAreAnswered`, `CleanupSettles`, `EnrichmentArrives`, `LeasesTurnOver`,
`AcceptedIsLinked`, `CommandsGoOut` and `EveryRunEnds` (liveness under fairness is
out of this prover's reach), and the disagreement of section 6.

## 6 A disagreement

`crates/api/src/publishing/channel_jobs.rs:2150` says of the reservation of an
account: "A matching explicit unknown may still be running remotely; retain its
reservation until the bounded deadline." The code retains the reservation row
at that place, but the close of the browser that follows the answer deletes it
with the disposal (`crates/persistence/src/accounts/browser_operations.rs:394`), so
the account is free before the deadline. `publication_unknown` shows it in nine
steps without a crash: an execution answers unknown, the browser is closed, and
the reservation is gone while the outcome is unknown. The close follows the end
of the browser, so `OneSendAtATime` is not touched: what the comment guards
against cannot come from this browser any more.

Not a disagreement, but worth knowing: when a run dies between its claim and its
outcome, the attempt keeps no outcome, and the unique index
`migrations/0011_channel_jobs.sql:56` refuses every later claim of the account.
No code ends such an attempt. `ClaimsAreAnswered` therefore excepts the attempts
of crashed runs.

The comment on `begin_run` (`crates/persistence/src/agent/mod.rs:829-832`) says that
one order of locks keeps its callers from deadlocking. `cancel_turn` locks the run
first and reaches the conversation only by the foreign key of the event it inserts
(line 750). Row locks are below the level of these models, in which a
transaction that the database aborts is one that was not done, and the listed
hazard has no property.

A deletion of a conversation of which it was never recorded that the request had
been sent is not settled by a later look that finds nothing: absence proves a
deletion only for a cleanup that knows of an attempt that got so far. Such a row
stays unknown, and its looks are repeated. That is on the safe side of
`SettledMeansDeleted`, and why no liveness is stated there.

## 7 What is not modelled

Of the modelled components: historical network pins, legacy login references, the
gate extension of `claim_reserved`, authorization of a caller's scope, row-lock
deadlocks (inside a transaction, below the level of an action); in the queue the
attempt counter, the login reference rows, desktop grants, several queues of one
creator, replay of a creation; in publication the content of the preflight
checks (any of them may refuse), measurement targets, renewal of session
credentials, fixtures, encrypted bindings, other users of the gate, and accounts
other than the one modelled; the claim without a reservation is used by tests only.
In the lookup the comparison of texts, and its gate and browser, which are those of
`BrowserOwnership`; in the outbox the freezing of manifests; in agent runs messages, checkpoints,
the event log, its stream to the browser, the capabilities themselves, and a second
writer of the ledger that only tests call (`append_tool_call`); in
conversations the paging of inventories and their digests, backoff, the outcome
`archived` and a restart of the runner.

Of the system, in two groups. *Connector capabilities, observation capture and
extraction, content production, projects and cycles, knowledge imports, search
measurements, reports, partner synchronization, idempotency records, sessions,
proxies*: leased jobs and single-transaction records of a few states
each, among a large amount of code that validates, parses, renders or
computes and whose errors are those of a single call. They appear in the models as
inputs: a capability is a check that may refuse, a project is active or not, a
measurement holds the account, a capture appears. *The web application, the
document parser, provider clients, the rest of the worker host, deployment and
scripts*: no durable state of their own.

The share of the code the models stand for is therefore small, a few lines in a
hundred: what is modelled is where steps of several actors meet.

## 8 Plan

Done: `BrowserOwnership`, `OperatorLoginQueue`, `PublicationSend`,
`PublicationLookup`, `PublicationOutbox`, `AgentRuns`, `ProviderConversations`, with
their runs and proofs, and the abstract specifications `AccountExclusion`,
`OneShotPublication`, `FencedWork`, `IntentLedger`, with what follows from them.

Next, in this order:

1. Step leases of content items: another implementation of `FencedWork`, with
   recovery of abandoned steps.
2. Projects and cycles: start and successor of a cycle, on which
   `PublicationOutbox` and `PublicationSend` depend as `active`.
3. Captures by callback ticket while a measurement runs, which
   `ProviderConversations` sees as `inventory`.
4. A restart of the runner in `ProviderConversations`, as in `BrowserOwnership`.
5. Parse jobs, the cursor of partner synchronization, search tasks: leases again.

## 9 Running it

    tlc -workers 2 -config OwnershipRestart.cfg MCBrowserOwnership.tla
    tlc -workers 2 -config LoginQueue.cfg MCOperatorLoginQueue.tla
    tlc -workers 2 -config PublicationSend.cfg MCPublicationSend.tla
    tlc -workers 2 -config Lookup.cfg MCPublicationLookup.tla
    tlc -workers 2 -config Outbox.cfg MCPublicationOutbox.tla
    tlc -workers 2 -config AgentRuns.cfg MCAgentRuns.tla
    tlc -workers 2 -config Conversations.cfg MCProviderConversations.tla
    tlapm BrowserOwnershipProofs.tla

and likewise for the other configurations and proof modules. Each run ends within
about three minutes on two workers, each proof module within a minute or two.
